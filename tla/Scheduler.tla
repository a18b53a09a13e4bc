----------------------------- MODULE Scheduler -----------------------------
(***************************************************************************)
(* What a cooperative, single-processor executor promises its tasks,       *)
(* with no queue, no waker cache and no interrupt flag.                    *)
(*                                                                         *)
(* A task that is notified (spawned or woken) is `ready' until it is       *)
(* polled; the processor goes to sleep only when nothing is ready; one     *)
(* task runs at a time; an identifier is given to one task only, so a      *)
(* task that finished is never polled again.  Polling a task that was not  *)
(* notified is allowed: a waker may fire more often than necessary.        *)
(***************************************************************************)

CONSTANTS Ids,     \* the task identifiers
          NoTask   \* running = NoTask when no task is being polled

VARIABLES issued,  \* identifiers given to a task so far
          live,    \* tasks that have not finished
          ready,   \* live tasks notified since their last poll began
          running, \* the task being polled
          asleep   \* the processor is halted

svars == <<issued, live, ready, running, asleep>>

Init ==
  /\ issued = {} /\ live = {} /\ ready = {}
  /\ running = NoTask
  /\ asleep = FALSE

Spawn(t) ==
  /\ running = NoTask /\ ~asleep
  /\ t \notin issued
  /\ issued' = issued \cup {t}
  /\ live' = live \cup {t}
  /\ ready' \in {ready, ready \cup {t}}
  /\ UNCHANGED <<running, asleep>>

Wake(t) ==
  /\ t \in issued
  /\ ready' = ready \cup ({t} \cap live)
  /\ asleep' = FALSE
  /\ UNCHANGED <<issued, live, running>>

Poll(t) ==
  /\ running = NoTask /\ ~asleep
  /\ t \in live
  /\ running' = t
  /\ ready' = ready \ {t}
  /\ UNCHANGED <<issued, live, asleep>>

Pending ==
  /\ running # NoTask
  /\ running' = NoTask
  /\ UNCHANGED <<issued, live, ready, asleep>>

Finish ==
  /\ running # NoTask
  /\ running' = NoTask
  /\ live' = live \ {running}
  /\ ready' = ready \ {running}
  /\ UNCHANGED <<issued, asleep>>

Sleep ==
  /\ running = NoTask
  /\ ready = {}
  /\ asleep' = TRUE
  /\ UNCHANGED <<issued, live, ready, running>>

Rouse ==
  /\ asleep
  /\ asleep' = FALSE
  /\ UNCHANGED <<issued, live, ready, running>>

Next ==
  \/ \E t \in Ids : Spawn(t) \/ Wake(t) \/ Poll(t)
  \/ Pending \/ Finish \/ Sleep \/ Rouse

Spec == Init /\ [][Next]_svars
=============================================================================
