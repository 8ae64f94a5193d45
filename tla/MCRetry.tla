-------------------------------- MODULE MCRetry --------------------------------
(***************************************************************************)
(* An instance of Retry for TLC: responses of every failure mode, on both  *)
(* sides of each threshold, complete or not, from a peeling or not.        *)
(***************************************************************************)
EXTENDS Retry, Functions

\* Utilisations of the sheets of a layout.  The same parts make <<89, 94>> and
\* <<84, 99>>, and <<91, 98>> and <<90, 99>>.
Layouts ==
    {<<>>, <<95>>, <<89, 94>>, <<84, 99>>, <<91, 98>>, <<90, 99>>, <<92, 95>>, <<45, 45>>, <<90>>,
     <<87, 97, 98, 99>>, <<88, 97, 97, 99>>, <<90, 91, 91, 92, 93>>}

LowOf(u) == IF u = <<>> THEN 0 ELSE Min({u[k] : k \in DOMAIN u})
HighOf(u) == IF u = <<>> THEN 0 ELSE Max({u[k] : k \in DOMAIN u})
TotalOf(u) == FoldFunction(LAMBDA x, y : x + y, 0, u)

Answers ==
    {[sheets |-> Len(u), low |-> LowOf(u), high |-> HighOf(u), total |-> TotalOf(u),
      unplaced |-> unplaced, applied |-> applied] :
        u \in Layouts, unplaced \in BOOLEAN, applied \in BOOLEAN}

\* A response without sheets is never a peeling, and leaves every item.
SomeResponses == {r \in Answers : r.sheets = 0 => r.unplaced /\ ~r.applied}
=============================================================================
