------------------------------- MODULE Anytime -------------------------------
(***************************************************************************)
(* What every anytime solver of the service promises its caller, whatever  *)
(* it does inside: it keeps the best layout it has been offered, answers   *)
(* with it, and reports a timeout or a constraint error only if it was     *)
(* offered none.  Qualities are positive numbers, larger is better; 0      *)
(* stands for "no layout".                                                 *)
(***************************************************************************)
EXTENDS Naturals

CONSTANT Qualities   \* a set of positive numbers

VARIABLES best, answer

vars == <<best, answer>>

NoAnswer == [kind |-> "none", quality |-> 0]
Ok(q) == [kind |-> "ok", quality |-> q]
Error(kind) == [kind |-> kind, quality |-> 0]

Init == best = 0 /\ answer = NoAnswer

\* A better layout turns up.
Improve ==
    /\ answer = NoAnswer
    /\ best' \in Qualities
    /\ best' > best
    /\ UNCHANGED answer

\* The last layout offered is at the same time the one answered with.
ImproveAndSucceed ==
    /\ answer = NoAnswer
    /\ best' \in Qualities
    /\ best' > best
    /\ answer' = Ok(best')

Succeed ==
    /\ answer = NoAnswer
    /\ best # 0
    /\ answer' = Ok(best)
    /\ UNCHANGED best

\* Nothing was found: the request cannot be satisfied (in the time allowed).
GiveUp ==
    /\ answer = NoAnswer
    /\ best = 0
    /\ answer' \in {Error("timeout"), Error("constraint")}
    /\ UNCHANGED best

\* The solver itself broke; this may cost a layout that was already found.
Break ==
    /\ answer = NoAnswer
    /\ answer' = Error("internal")
    /\ UNCHANGED best

Next == Improve \/ ImproveAndSucceed \/ Succeed \/ GiveUp \/ Break

Spec == Init /\ [][Next]_vars
=============================================================================
