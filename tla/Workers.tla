-------------------------------- MODULE Workers --------------------------------
(***************************************************************************)
(* The threads of the dashboard: gunicorn runs one worker process with     *)
(* several threads, so the steps of requests interleave and a crash ends   *)
(* all of them at once.  pc says where a thread is in its request.         *)
(***************************************************************************)
CONSTANTS
  Requests,   \* the threads
  None

ASSUME WorkersAssumption == None \notin Requests

VARIABLES
  pc,         \* what each thread does next
  overlapped  \* history: a request began while another was under way

workerVars == <<pc, overlapped>>

WorkersInit ==
  /\ pc = [r \in Requests |-> "idle"]
  /\ overlapped = FALSE

(* A request comes in.                                                     *)
Enter(r, there) ==
  /\ pc[r] = "idle"
  /\ pc' = [pc EXCEPT ![r] = there]
  /\ overlapped' = (overlapped \/ \E q \in Requests \ {r} : pc[q] # "idle")

Goto(r, here, there) ==
  /\ pc[r] = here
  /\ pc' = [pc EXCEPT ![r] = there]
  /\ UNCHANGED overlapped

(* The request is answered.                                                *)
Leave(r, here) == Goto(r, here, "idle")

AllStop ==
  /\ pc' = [r \in Requests |-> "idle"]
  /\ UNCHANGED overlapped
=============================================================================
