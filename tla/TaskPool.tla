------------------------------ MODULE TaskPool ------------------------------
(***************************************************************************)
(* What the worker's thread pool promises its callers, whatever queue is   *)
(* between them: a task that was handed over may be run, and only such a   *)
(* task is ever run.  Running a task a second time is not excluded (the    *)
(* promise is "at least once"); forgetting that it was handed over is.     *)
(***************************************************************************)
CONSTANT Tasks

VARIABLES accepted,   \* tasks handed to the pool
          done        \* tasks some thread has started

Init == accepted = {} /\ done = {}

Accept(t) ==
  /\ t \notin accepted
  /\ accepted' = accepted \cup {t}
  /\ UNCHANGED done

Run(t) ==
  /\ t \in accepted
  /\ done' = done \cup {t}
  /\ UNCHANGED accepted

Next == \E t \in Tasks : Accept(t) \/ Run(t)

vars == <<accepted, done>>

Spec == Init /\ [][Next]_vars
=============================================================================
