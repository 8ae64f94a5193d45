------------------------------ MODULE Admission ------------------------------
(***************************************************************************)
(* Admission control of POST /v1/optimize, /beam and /alns: the function   *)
(* optimize_common of src/src/main.rs, the semaphore build_app creates and *)
(* the blocking jobs the optimizer runs behind an admitted request.        *)
(*                                                                         *)
(* A handler is an async task.  It can be suspended, and therefore be      *)
(* dropped by the server when its client goes away, at three places: while *)
(* it waits in the queue of the semaphore ("queued"), between the moment a *)
(* permit is assigned to it and the moment it is polled again ("granted")  *)
(* and while it awaits a blocking job ("awaiting").  A blocking job is a   *)
(* thread of its own: dropping or timing out its JoinHandle does not stop  *)
(* it.  Such a job is counted in orphans.                                  *)
(***************************************************************************)
EXTENDS Integers, Sequences, FiniteSets, SequencesExt

CONSTANTS
    Slots,          \* client connections; each sends one request at a time
    MaxConcurrent,  \* AppConfig::max_concurrent_optimize
    JobKinds,       \* kinds of blocking jobs a handler may launch
    MaxJobs,        \* bound: blocking jobs one request launches
    MaxOrphans      \* bound: abandoned jobs of one connection alive at a time

ASSUME AdmissionAssumption ==
    /\ IsFiniteSet(Slots)
    /\ MaxConcurrent \in Nat
    /\ JobKinds \subseteq {"slice", "post"}
    /\ MaxJobs \in Nat
    /\ MaxOrphans \in Nat

VARIABLES
    queueing,   \* optimize_queue_wait_ms # 0; never changes
    permits,    \* permits the semaphore has left
    waiters,    \* the semaphore's FIFO queue
    phase,      \* where each handler is
    job,        \* the blocking job each handler awaits
    launched,   \* blocking jobs the current request has launched
    orphans,    \* jobs still running that no handler awaits
    response    \* what the current request was answered

vars == <<queueing, permits, waiters, phase, job, launched, orphans, response>>
jobVars == <<job, launched, orphans>>

Phases == {"idle", "queued", "granted", "working", "awaiting", "answered", "dropped"}
HoldingPhases == {"granted", "working", "awaiting"}
Responses == {"none", "invalid", "overloaded", "served"}
JobStates == {"none", "slice", "post"}

\* Semaphore::new(config.max_concurrent_optimize.max(1))
Limit == IF MaxConcurrent > 1 THEN MaxConcurrent ELSE 1

Holders == {r \in Slots : phase[r] \in HoldingPhases}
Awaiting == {r \in Slots : phase[r] = "awaiting"}

-----------------------------------------------------------------------------
(* Mutated forms of the definitions below: what a bug in them would be.    *)

AdmitMutant(r) ==           \* a permit is taken without being counted
    /\ phase[r] = "idle"
    /\ permits > 0
    /\ phase' = [phase EXCEPT ![r] = "working"]
    /\ UNCHANGED <<queueing, permits, waiters, response, jobVars>>

EnqueueMutant(r) ==         \* waits although a permit is free
    /\ queueing
    /\ phase[r] = "idle"
    /\ phase' = [phase EXCEPT ![r] = "queued"]
    /\ waiters' = Append(waiters, r)
    /\ UNCHANGED <<queueing, permits, response, jobVars>>

RejectBusyMutant(r) ==      \* answers 429 although a permit is free
    /\ ~queueing
    /\ phase[r] = "idle"
    /\ phase' = [phase EXCEPT ![r] = "answered"]
    /\ response' = [response EXCEPT ![r] = "overloaded"]
    /\ UNCHANGED <<queueing, permits, waiters, jobVars>>

ReleaseLost(r, next) ==     \* a released permit is not handed to a waiter
    /\ permits' = permits + 1
    /\ phase' = [phase EXCEPT ![r] = next]
    /\ UNCHANGED waiters

ReleaseLast(r, next) ==     \* the youngest waiter is served first
    IF waiters = <<>>
    THEN /\ permits' = permits + 1
         /\ phase' = [phase EXCEPT ![r] = next]
         /\ UNCHANGED waiters
    ELSE /\ phase' = [phase EXCEPT ![r] = next, ![Last(waiters)] = "granted"]
         /\ waiters' = Front(waiters)
         /\ UNCHANGED permits

-----------------------------------------------------------------------------
Init ==
    /\ queueing \in BOOLEAN
    /\ permits = Limit
    /\ waiters = <<>>
    /\ phase = [r \in Slots |-> "idle"]
    /\ job = [r \in Slots |-> "none"]
    /\ launched = [r \in Slots |-> 0]
    /\ orphans = [r \in Slots |-> 0]
    /\ response = [r \in Slots |-> "none"]

\* Dropping an OwnedSemaphorePermit: the semaphore assigns it to the oldest
\* waiter, or puts it back.  The handler of r goes on to phase `next`.
Release(r, next) ==
    IF waiters = <<>>
    THEN /\ permits' = permits + 1
         /\ phase' = [phase EXCEPT ![r] = next]
         /\ UNCHANGED waiters
    ELSE /\ phase' = [phase EXCEPT ![r] = next, ![Head(waiters)] = "granted"]
         /\ waiters' = Tail(waiters)
         /\ UNCHANGED permits

\* The body is not a valid request: json_rejection, or validate_request fails.
RejectInvalid(r) ==
    /\ phase[r] = "idle"
    /\ phase' = [phase EXCEPT ![r] = "answered"]
    /\ response' = [response EXCEPT ![r] = "invalid"]
    /\ UNCHANGED <<queueing, permits, waiters, jobVars>>

\* try_acquire_owned, or the first poll of acquire_owned, finds a free permit.
Admit(r) ==
    /\ phase[r] = "idle"
    /\ permits > 0
    /\ permits' = permits - 1
    /\ phase' = [phase EXCEPT ![r] = "working"]
    /\ UNCHANGED <<queueing, waiters, response, jobVars>>

\* queue_wait_ms == 0 and try_acquire_owned fails: 429 at once.
RejectBusy(r) ==
    /\ ~queueing
    /\ phase[r] = "idle"
    /\ permits = 0
    /\ phase' = [phase EXCEPT ![r] = "answered"]
    /\ response' = [response EXCEPT ![r] = "overloaded"]
    /\ UNCHANGED <<queueing, permits, waiters, jobVars>>

\* acquire_owned is pending: the handler joins the queue under a timeout.
Enqueue(r) ==
    /\ queueing
    /\ phase[r] = "idle"
    /\ permits = 0
    /\ phase' = [phase EXCEPT ![r] = "queued"]
    /\ waiters' = Append(waiters, r)
    /\ UNCHANGED <<queueing, permits, response, jobVars>>

\* The task of r is polled after the semaphore has assigned it a permit.
\* timeout() polls acquire_owned before its timer, so a permit that was
\* assigned in time is taken even if the timer has fired as well.
WakeUp(r) ==
    /\ phase[r] = "granted"
    /\ phase' = [phase EXCEPT ![r] = "working"]
    /\ UNCHANGED <<queueing, permits, waiters, response, jobVars>>

\* The waiter of r is unlinked from the queue of the semaphore.
LeaveQueue(r) ==
    /\ phase[r] = "queued"
    /\ \E i \in 1..Len(waiters) :
        /\ waiters[i] = r
        /\ waiters' = RemoveAt(waiters, i)
    /\ UNCHANGED <<queueing, permits, jobVars>>

\* The queue wait is exhausted and no permit was assigned: 429.
QueueTimeout(r) ==
    /\ LeaveQueue(r)
    /\ phase' = [phase EXCEPT ![r] = "answered"]
    /\ response' = [response EXCEPT ![r] = "overloaded"]

\* The optimizer launches a blocking job and awaits it: a GA slice under a
\* timeout, or the heuristic's post-process without one.
StartJob(r) ==
    /\ phase[r] = "working"
    /\ launched[r] < MaxJobs
    /\ orphans[r] < MaxOrphans
    /\ \E k \in JobKinds : job' = [job EXCEPT ![r] = k]
    /\ phase' = [phase EXCEPT ![r] = "awaiting"]
    /\ launched' = [launched EXCEPT ![r] = @ + 1]
    /\ UNCHANGED <<queueing, permits, waiters, orphans, response>>

\* The job ends and the handler resumes.
JobReturns(r) ==
    /\ phase[r] = "awaiting"
    /\ phase' = [phase EXCEPT ![r] = "working"]
    /\ job' = [job EXCEPT ![r] = "none"]
    /\ UNCHANGED <<queueing, permits, waiters, launched, orphans, response>>

\* The timeout of a GA slice fires.  handle.abort() cannot stop a blocking
\* job that has started: it runs on while the handler resumes.
SliceTimeout(r) ==
    /\ phase[r] = "awaiting"
    /\ job[r] = "slice"
    /\ phase' = [phase EXCEPT ![r] = "working"]
    /\ job' = [job EXCEPT ![r] = "none"]
    /\ orphans' = [orphans EXCEPT ![r] = @ + 1]
    /\ UNCHANGED <<queueing, permits, waiters, launched, response>>

\* The optimizer returns; Ok and Err are both turned into a response and the
\* permit is dropped with the handler's frame.
Serve(r) ==
    /\ phase[r] = "working"
    /\ Release(r, "answered")
    /\ response' = [response EXCEPT ![r] = "served"]
    /\ UNCHANGED <<queueing, jobVars>>

\* The client goes away while its handler is suspended: the server drops the
\* handler, and with it the place in the queue or the permit it owns.  A job
\* the handler awaited runs on.
DisconnectQueued(r) ==
    /\ LeaveQueue(r)
    /\ phase' = [phase EXCEPT ![r] = "dropped"]
    /\ UNCHANGED response

DisconnectGranted(r) ==
    /\ phase[r] = "granted"
    /\ Release(r, "dropped")
    /\ UNCHANGED <<queueing, response, jobVars>>

DisconnectAwaiting(r) ==
    /\ phase[r] = "awaiting"
    /\ Release(r, "dropped")
    /\ job' = [job EXCEPT ![r] = "none"]
    /\ orphans' = [orphans EXCEPT ![r] = @ + 1]
    /\ UNCHANGED <<queueing, launched, response>>

\* An abandoned job finishes; nobody reads its result.
OrphanEnds(r) ==
    /\ orphans[r] > 0
    /\ orphans' = [orphans EXCEPT ![r] = @ - 1]
    /\ UNCHANGED <<queueing, permits, waiters, phase, job, launched, response>>

\* The client sends its next request (over a new connection after a drop).
NextRequest(r) ==
    /\ phase[r] \in {"answered", "dropped"}
    /\ phase' = [phase EXCEPT ![r] = "idle"]
    /\ response' = [response EXCEPT ![r] = "none"]
    /\ launched' = [launched EXCEPT ![r] = 0]
    /\ UNCHANGED <<queueing, permits, waiters, job, orphans>>

Next ==
    \E r \in Slots :
        \/ RejectInvalid(r)
        \/ Admit(r)
        \/ RejectBusy(r)
        \/ Enqueue(r)
        \/ WakeUp(r)
        \/ QueueTimeout(r)
        \/ StartJob(r)
        \/ JobReturns(r)
        \/ SliceTimeout(r)
        \/ Serve(r)
        \/ DisconnectQueued(r)
        \/ DisconnectGranted(r)
        \/ DisconnectAwaiting(r)
        \/ OrphanEnds(r)
        \/ NextRequest(r)

Spec == Init /\ [][Next]_vars

\* The runtime polls every woken task, a working handler reaches its next
\* await or its end, and a blocking job ends (its work is bounded by epochs and
\* deadlines).  Nothing is assumed of clients, and not even that the timer of
\* the queue fires.
Fairness ==
    \A r \in Slots :
        /\ WF_vars(WakeUp(r))
        /\ WF_vars(StartJob(r) \/ Serve(r))
        /\ WF_vars(JobReturns(r) \/ SliceTimeout(r))

FairSpec == Spec /\ Fairness

-----------------------------------------------------------------------------
TypeOK ==
    /\ queueing \in BOOLEAN
    /\ permits \in 0..Limit
    /\ waiters \in Seq(Slots)
    /\ phase \in [Slots -> Phases]
    /\ job \in [Slots -> JobStates]
    /\ launched \in [Slots -> 0..MaxJobs]
    /\ orphans \in [Slots -> 0..MaxOrphans]
    /\ response \in [Slots -> Responses]

\* Every permit is in the semaphore or owned by exactly one live handler,
\* whatever ends a handler: an answer, a queue timeout, a disconnect.
PermitsConserved == permits + Cardinality(Holders) = Limit

\* The queue holds exactly the handlers that wait in it, each once.
QueueMatchesPhase ==
    /\ \A i \in 1..Len(waiters) : phase[waiters[i]] = "queued"
    /\ \A i, j \in 1..Len(waiters) : waiters[i] = waiters[j] => i = j
    /\ \A r \in Slots : phase[r] = "queued" => \E i \in 1..Len(waiters) : waiters[i] = r

\* No request waits in the queue while a permit is free.
NoIdlePermit == waiters # <<>> => permits = 0

\* At most Limit handlers await a blocking job at the same time: what the
\* semaphore does guarantee about the load of admitted requests.
AwaitedJobsBounded == Cardinality(Awaiting) <= Limit

\* A request is answered 429 only at a moment when all permits are owned by
\* other handlers (API_SPEC.md: "while all slots were busy").
OverloadedOnlyWhenBusy ==
    [][\A r \in Slots :
        response[r] = "none" /\ response'[r] = "overloaded"
            => Cardinality(Holders \ {r}) = Limit]_vars

\* No request is admitted past one that keeps waiting, unless it was already
\* ahead of it in the queue.
Ahead(s, r) ==
    \E i, j \in 1..Len(waiters) : i < j /\ waiters[i] = s /\ waiters[j] = r

FirstComeFirstServed ==
    [][\A r, s \in Slots :
        /\ phase[r] = "queued" /\ phase'[r] = "queued"
        /\ phase[s] \in {"idle", "queued"} /\ phase'[s] \in HoldingPhases
        => Ahead(s, r)]_vars

\* Every request that entered the queue or was admitted is answered, unless
\* its client goes away: permits held by others never leak.
EveryRequestAnswered ==
    \A r \in Slots :
        phase[r] \in HoldingPhases \cup {"queued"} ~> phase[r] \in {"answered", "dropped"}

\* What the comment at optimizer.rs:3264-3266 concludes from the permit: the
\* jobs on the blocking pool stay bounded by MAX_CONCURRENT_OPTIMIZE.
RunningJobs ==
    Cardinality(Awaiting) + MapThenSumSet(LAMBDA r : orphans[r], Slots)

DeepJobsBoundedByPermits == RunningJobs <= Limit
=============================================================================
