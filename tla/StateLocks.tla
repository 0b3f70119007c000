------------------------------- MODULE StateLocks -------------------------------
(***************************************************************************)
(* The mutexes of CoreState and the order in which operations nest them.   *)
(*                                                                         *)
(* An operation is the list of the lock acquisitions and releases its code *)
(* makes, in order; the data it reads and writes is left out.  A temporary *)
(* guard that is dropped before the next acquisition is a Peek.  A guard   *)
(* that Rust keeps alive while a further lock is taken (a binding in       *)
(* scope, or a temporary of the enclosing statement) is a Hold.            *)
(*                                                                         *)
(* Only operations that hold one mutex while they take another are here,   *)
(* with the single locks they take on the way: an operation that never     *)
(* holds two can delay others but never closes a cycle.                    *)
(***************************************************************************)
EXTENDS Naturals, Sequences, FiniteSets

CONSTANTS
  Threads,     \* threads calling into the core, the worker task included
  Operations   \* the operations they may call, a subset of AllOperations

Mutexes == {"submission_worker", "submission_queue", "active", "subscribers",
            "selected_model", "selected_thinking", "compaction", "credential_states",
            "todos", "questions", "agents", "instructions", "main_instructions",
            "history", "active_history", "session", "model_cache"}

--------------------------------------------------------------------------------
(* Scripts                                                                 *)

Hold(mutex) == <<[takes |-> {mutex}, drops |-> {}]>>
Drop(mutexes) == <<[takes |-> {}, drops |-> mutexes]>>
Peek(mutex) == Hold(mutex) \o Drop({mutex})

\* submit from the worker slot to the spawned task.
SubmitTurn ==
  Hold("submission_worker") \o Hold("submission_queue") \o Peek("active")
    \o Peek("subscribers") \o Drop({"submission_queue"}) \o Drop({"submission_worker"})

\* finish_submission, then the terminal event.
FinishSubmission ==
  Hold("submission_queue") \o Peek("active") \o Drop({"submission_queue"})
    \o Peek("subscribers")

\* snapshot: four guards live until the projection is built.
Snapshot ==
  Hold("selected_model") \o Peek("compaction") \o Hold("selected_thinking")
    \o Hold("submission_queue") \o Hold("credential_states") \o Peek("todos")
    \o Peek("questions") \o Peek("agents")
    \o Drop({"selected_model", "selected_thinking", "submission_queue",
             "credential_states"})

\* The guard of the queue that lock_idle_session_queue returns.
IdleQueue == Peek("agents") \o Hold("submission_queue")

\* Everything a session switch replaces, locked together.
Conversation ==
  Hold("history") \o Hold("todos") \o Hold("active_history") \o Hold("session")
    \o Hold("instructions")

NewSession ==
  IdleQueue \o Peek("instructions") \o Conversation
    \o Drop({"submission_queue", "history", "todos", "active_history", "session",
             "instructions"})

\* The queue and active_history stay locked while the saved profile is restored.
ResumeSession ==
  IdleQueue \o Peek("instructions") \o Peek("session") \o Conversation
    \o Drop({"todos", "instructions", "session", "history"})
    \o Peek("model_cache") \o Peek("selected_model") \o Peek("selected_thinking")
    \o Peek("subscribers") \o Drop({"active_history", "submission_queue"})

\* Mutant: the pair written under one guard, in the other order.
SelectProfileNested ==
  Hold("selected_thinking") \o Peek("selected_model") \o Drop({"selected_thinking"})
    \o Hold("session") \o Peek("selected_thinking") \o Drop({"session"})
    \o Peek("subscribers")
\* persist_selected_profile: session.append_model reads selected_thinking.
SelectProfile ==
  Peek("selected_model") \o Peek("selected_thinking")
    \o Hold("session") \o Peek("selected_thinking") \o Drop({"session"})
    \o Peek("subscribers")

\* The prologue of run_submission.  The request estimate locks the instruction
\* session in the statement that locks the runtime, and the arguments of
\* AgentTurnState::main keep selected_thinking while instructions is locked.
BeginRun ==
  Peek("subscribers") \o Peek("model_cache") \o Peek("active_history")
    \o Hold("instructions") \o Peek("main_instructions") \o Drop({"instructions"})
    \o Peek("instructions") \o Peek("instructions")
    \o Hold("selected_thinking") \o Peek("instructions") \o Drop({"selected_thinking"})
    \o Peek("main_instructions")
    \o Peek("history") \o Peek("active_history") \o Peek("selected_model")
    \o Peek("session")

\* context_report: the instruction session stays locked to the end.
ContextReport ==
  Peek("selected_model") \o Peek("model_cache") \o Peek("active_history")
    \o Peek("instructions") \o Hold("main_instructions") \o Peek("instructions")
    \o Drop({"main_instructions"})

Script == [submit |-> SubmitTurn, finish_submission |-> FinishSubmission,
           snapshot |-> Snapshot, new_session |-> NewSession,
           resume_session |-> ResumeSession, select_profile |-> SelectProfile,
           begin_run |-> BeginRun, context_report |-> ContextReport]

AllOperations == DOMAIN Script

ASSUME OperationsAssumption == Operations \subseteq AllOperations

--------------------------------------------------------------------------------
VARIABLES
  calling,  \* the operation each thread is in, or "nothing"
  at,       \* how many steps of its script it has made
  held      \* the mutexes it holds

lockVars == <<calling, at, held>>

LocksInit ==
  /\ calling = [t \in Threads |-> "nothing"]
  /\ at = [t \in Threads |-> 0]
  /\ held = [t \in Threads |-> {}]

Call(t) == /\ calling[t] = "nothing"
           /\ \E operation \in Operations :
                calling' = [calling EXCEPT ![t] = operation]
           /\ UNCHANGED <<at, held>>

Finished(t) == at[t] = Len(Script[calling[t]])

\* What the thread does next in its script.
NextStep(t) == Script[calling[t]][at[t] + 1]

\* A std::sync::Mutex is not reentrant: its own holder waits for it too.
FreeFor(mutexes) == \A t \in Threads : held[t] \cap mutexes = {}

Step(t) == /\ calling[t] # "nothing"
           /\ ~Finished(t)
           /\ FreeFor(NextStep(t).takes)
           /\ held' = [held EXCEPT ![t] = (@ \cup NextStep(t).takes) \ NextStep(t).drops]
           /\ at' = [at EXCEPT ![t] = @ + 1]
           /\ UNCHANGED calling

Return(t) == /\ calling[t] # "nothing"
             /\ Finished(t)
             /\ calling' = [calling EXCEPT ![t] = "nothing"]
             /\ at' = [at EXCEPT ![t] = 0]
             /\ UNCHANGED held

LocksNext == \E t \in Threads : Call(t) \/ Step(t) \/ Return(t)

LocksSpec == LocksInit /\ [][LocksNext]_lockVars

\* A thread that is not blocked keeps running; a mutex somebody keeps
\* releasing is eventually granted.
FairLocksSpec == LocksSpec /\ \A t \in Threads : SF_lockVars(Step(t)) /\ WF_lockVars(Return(t))

--------------------------------------------------------------------------------
(* Properties                                                              *)

\* A thread is in an operation only with a script position, and an idle thread
\* has left no guard behind.
LocksTypeOK ==
  /\ calling \in [Threads -> Operations \cup {"nothing"}]
  /\ held \in [Threads -> SUBSET Mutexes]
  /\ \A t \in Threads :
       IF calling[t] = "nothing" THEN at[t] = 0 /\ held[t] = {}
                                 ELSE at[t] \in 0..Len(Script[calling[t]])

\* What a thread is about to take.
Wanted(t) == IF calling[t] = "nothing" \/ Finished(t) THEN {} ELSE NextStep(t).takes

\* Everyone waiting on everyone: no group of threads each wants a mutex that a
\* member of the group holds.
NoDeadlock ==
  /\ LocksTypeOK
  /\ ~\E group \in SUBSET Threads :
       /\ group # {}
       /\ \A t \in group : \E holder \in group : Wanted(t) \cap held[holder] # {}

(***************************************************************************)
(* The invariant behind NoDeadlock.  A script alone says what its thread   *)
(* holds at each position, so an order of the mutexes can be checked       *)
(* script by script, without the interleavings of the threads.             *)
(***************************************************************************)
\* Taken within the first steps of the operation and not dropped since.
HeldAt(operation, steps) ==
  {mutex \in Mutexes : \E j \in 1..steps :
     /\ mutex \in Script[operation][j].takes
     /\ \A i \in j..steps : mutex \notin Script[operation][i].drops}

LockSteps == Seq([takes : SUBSET Mutexes, drops : SUBSET Mutexes])

\* The operation takes mutexes in ascending rank and returns without a guard.
FollowsOrder(operation, rank) ==
  /\ Script[operation] \in LockSteps
  /\ \A steps \in 0..(Len(Script[operation]) - 1) :
       \A mutex \in HeldAt(operation, steps),
          wanted \in Script[operation][steps + 1].takes : rank[mutex] < rank[wanted]
  /\ HeldAt(operation, Len(Script[operation])) = {}

GuardsInv ==
  /\ LocksTypeOK
  /\ at \in [Threads -> Nat]
  /\ \A t \in Threads : calling[t] # "nothing" => held[t] = HeldAt(calling[t], at[t])

\* Every call of snapshot returns (core/snapshot.rs:51).
SnapshotReturns ==
  \A t \in Threads : calling[t] = "snapshot" ~> calling[t] = "nothing"
================================================================================
