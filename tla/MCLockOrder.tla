------------------------------ MODULE MCLockOrder ------------------------------
(* The lock orders the operations of StateLocks follow, for TLC to compare *)
(* with every script: the hypothesis of LockOrderPreventsDeadlock.  The    *)
(* locks run does not evaluate them, so that it can lose the order and see *)
(* the deadlock.                                                           *)
LOCAL INSTANCE Naturals
LOCAL INSTANCE Sequences

Locks == INSTANCE StateLocks
           WITH Threads <- {}, Operations <- {}, calling <- <<>>, at <- <<>>, held <- <<>>

RankIn(order) ==
  [mutex \in Locks!Mutexes |-> CHOOSE i \in 1..Len(order) : order[i] = mutex]

Profile == <<"submission_worker", "selected_model", "session", "selected_thinking",
             "submission_queue", "credential_states", "todos", "questions", "agents",
             "active", "subscribers", "compaction", "instructions", "main_instructions",
             "history", "active_history", "model_cache">>

Switch == <<"submission_worker", "selected_model", "selected_thinking",
            "submission_queue", "credential_states", "history", "todos", "questions",
            "agents", "active_history", "session", "instructions", "main_instructions",
            "active", "subscribers", "compaction", "model_cache">>

Everywhere == {"submit", "finish_submission", "snapshot", "begin_run"}

\* No one order serves both: persist_model_change takes session before
\* selected_thinking, snapshot selected_thinking before submission_queue, and
\* new_session submission_queue before session.
ASSUME OrderOfProfileChanges ==
  \A operation \in Everywhere \cup {"select_profile"} :
    Locks!FollowsOrder(operation, RankIn(Profile))

ASSUME OrderOfSessionSwitches ==
  \A operation \in Everywhere \cup {"new_session"} :
    Locks!FollowsOrder(operation, RankIn(Switch))
================================================================================
