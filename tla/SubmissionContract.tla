-------------------------- MODULE SubmissionContract --------------------------
(***************************************************************************)
(* What the submission queue of misy-core promises a lossless subscriber,  *)
(* told only through the events it publishes.  Submission ids are handed   *)
(* out in acceptance order, so "FIFO" is the order of the naturals.        *)
(*                                                                         *)
(*   - SubmissionAccepted is published in id order and never after         *)
(*     shutdown has been requested;                                        *)
(*   - a submission starts, or ends without starting because it was        *)
(*     cancelled, only when every earlier one has ended;                   *)
(*   - it ends at most once;                                               *)
(*   - nothing about any submission follows the Shutdown event.            *)
(***************************************************************************)
EXTENDS Naturals

CONSTANT MaxSubmissions   \* how many submissions a behaviour may accept

Ids == 1..MaxSubmissions

Terminal == {"completed", "cancelled", "failed"}

VARIABLES
  stage,  \* the last event published for each submission
  open,   \* shutdown has not been requested
  over    \* the Shutdown event has been published

cvars == <<stage, open, over>>

CInit == /\ stage = [i \in Ids |-> "none"]
         /\ open = TRUE
         /\ over = FALSE

EarlierEnded(i) == \A j \in Ids : j < i => stage[j] \in Terminal

\* SubmissionAccepted.
Accept(i) == /\ open /\ ~over
             /\ stage[i] = "none"
             /\ \A j \in Ids : j < i => stage[j] # "none"
             /\ stage' = [stage EXCEPT ![i] = "accepted"]
             /\ UNCHANGED <<open, over>>

\* SubmissionStarted.
Start(i) == /\ ~over
            /\ stage[i] = "accepted"
            /\ EarlierEnded(i)
            /\ stage' = [stage EXCEPT ![i] = "started"]
            /\ UNCHANGED <<open, over>>

\* Completed, Failed or Cancelled.
End(i, outcome) == /\ ~over
                   /\ \/ stage[i] = "started"
                      \/ stage[i] = "accepted" /\ outcome = "cancelled"
                   /\ EarlierEnded(i)
                   /\ stage' = [stage EXCEPT ![i] = outcome]
                   /\ UNCHANGED <<open, over>>

\* A shutdown request closes admission.
Close == open' = FALSE /\ UNCHANGED <<stage, over>>

\* Shutdown.
Finish == /\ ~open
          /\ over' = TRUE
          /\ UNCHANGED <<stage, open>>

CNext == \/ \E i \in Ids : Accept(i) \/ Start(i)
         \/ \E i \in Ids, outcome \in Terminal : End(i, outcome)
         \/ Close
         \/ Finish

CSpec == CInit /\ [][CNext]_cvars
===============================================================================
