------------------------------ MODULE TaskService ------------------------------
(***************************************************************************)
(* What a user of util::thread_pool_executor relies on, without threads,   *)
(* locks or a queue: a task handed over with add() is carried out at most  *)
(* once, and its future is settled exactly once - "ready" after the task   *)
(* ran, "broken" when the executor was closed and destroyed before it did. *)
(* ThreadPool implements this specification; GenerateDiagrams is written   *)
(* against it.                                                             *)
(***************************************************************************)
CONSTANT Task           \* the callables handed to add(), one value per call

VARIABLES fate,         \* fate[t]: how far task t and its future got
          open          \* FALSE from the moment stop() is called

svcVars == <<fate, open>>

Fates == {"new", "queued", "running", "ready", "broken"}

SvcTypeOK == fate \in [Task -> Fates] /\ open \in BOOLEAN

SvcInit == fate = [t \in Task |-> "new"] /\ open = TRUE

Move(t, from, to) == fate[t] = from /\ fate' = [fate EXCEPT ![t] = to]

Accept(t) == Move(t, "new", "queued") /\ UNCHANGED open
Start(t)  == Move(t, "queued", "running") /\ UNCHANGED open
Finish(t) == Move(t, "running", "ready") /\ UNCHANGED open

Close == open /\ open' = FALSE /\ UNCHANGED fate

\* Closed for good: nothing is running, and what never started is given up.
Abandon ==
    /\ ~open
    /\ \A t \in Task : fate[t] # "running"
    /\ fate' = [t \in Task |-> IF fate[t] = "queued" THEN "broken" ELSE fate[t]]
    /\ UNCHANGED open

SvcNext == \/ \E t \in Task : Accept(t) \/ Start(t) \/ Finish(t)
           \/ Close
           \/ Abandon

SvcSpec == SvcInit /\ [][SvcNext]_svcVars
================================================================================
