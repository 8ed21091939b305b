----------------------------- MODULE JobService -----------------------------
(***************************************************************************)
(* What the worker package promises the middlewares that call              *)
(* Dispatcher.Add: an accepted job is started at most once, on one of a    *)
(* fixed number of slots, one job per slot, in no particular order.        *)
(***************************************************************************)
CONSTANTS
  Jobs,    \* the jobs the middlewares may add
  Slots,   \* how many jobs may run at once: one per worker
  NoJob    \* what a free slot holds, none of Jobs

VARIABLES
  status,  \* status[j]: how far job j has come
  slot     \* slot[s]: the job running in slot s, or NoJob

vars == <<status, slot>>

Init ==
  /\ status = [j \in Jobs |-> "new"]
  /\ slot = [s \in Slots |-> NoJob]

Accept(j) ==
  /\ status[j] = "new"
  /\ status' = [status EXCEPT ![j] = "accepted"]
  /\ UNCHANGED slot

Start(j, s) ==
  /\ status[j] = "accepted"
  /\ slot[s] = NoJob
  /\ status' = [status EXCEPT ![j] = "running"]
  /\ slot' = [slot EXCEPT ![s] = j]

Finish(j, s) ==
  /\ status[j] = "running"
  /\ slot[s] = j
  /\ status' = [status EXCEPT ![j] = "done"]
  /\ slot' = [slot EXCEPT ![s] = NoJob]

Next ==
  \E j \in Jobs :
    \/ Accept(j)
    \/ \E s \in Slots : Start(j, s) \/ Finish(j, s)

Spec == Init /\ [][Next]_vars
=============================================================================
