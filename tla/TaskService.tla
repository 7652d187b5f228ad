----------------------------- MODULE TaskService -----------------------------
(***************************************************************************)
(* What the thread pool promises its caller, with the queue, the condition *)
(* variable and the threads hidden: a task that is accepted is run once,   *)
(* unless the service is closed first; a task is refused without a trace;  *)
(* nothing starts after the service was closed, what is running then is    *)
(* finished, and what was still waiting is discarded when the service      *)
(* ends.  ThreadPool implements this module (util/thread_pool.h, 7-33).    *)
(***************************************************************************)
EXTENDS Naturals

CONSTANTS Tasks      (* the tasks callers may submit                       *)

VARIABLES state,     (* state[t]: how far task t has come                  *)
          phase      (* "open", "closing" or "over"                        *)

svars == <<state, phase>>

Stages == {"new", "accepted", "running", "done", "refused", "discarded"}

SInit == /\ state = [t \in Tasks |-> "new"]
         /\ phase = "open"

(* task t goes from stage a to stage b *)
Move(t, a, b) == /\ state[t] = a
                 /\ state' = [state EXCEPT ![t] = b]
                 /\ UNCHANGED phase

Accept(t) == phase = "open" /\ Move(t, "new", "accepted")
Refuse(t) == phase # "over" /\ Move(t, "new", "refused")
Start(t)  == phase = "open" /\ Move(t, "accepted", "running")
Complete(t) == phase # "over" /\ Move(t, "running", "done")

Close == phase = "open" /\ phase' = "closing" /\ UNCHANGED state

End == /\ phase = "closing"
       /\ \A t \in Tasks : state[t] # "running"
       /\ phase' = "over"
       /\ state' = [t \in Tasks |->
                      IF state[t] = "accepted" THEN "discarded" ELSE state[t]]

SNext == \/ \E t \in Tasks : Accept(t) \/ Refuse(t) \/ Start(t) \/ Complete(t)
         \/ Close
         \/ End

SSafety == SInit /\ [][SNext]_svars

(* An accepted task is started unless the service closes, a started one is  *)
(* finished, and closing ends.                                              *)
SSpec == /\ SSafety
         /\ \A t \in Tasks : WF_svars(Start(t)) /\ WF_svars(Complete(t))
         /\ WF_svars(End)
=============================================================================
