----------------------------- MODULE Conversation -----------------------------
(***************************************************************************)
(* The root conversation: the canonical transcript, the active history the *)
(* provider is shown, the todo list, the session file they are kept in,    *)
(* and the compactions that shorten the active history.                    *)
(*                                                                         *)
(* Threads: the submission worker (core/agent.rs, core/turn/loop.rs) and   *)
(* clients, each of which runs one operation of MisyCore at a time.  Every *)
(* history has a mutex of its own, so a step is one critical section and a *)
(* push of one entry takes three of them.                                  *)
(*                                                                         *)
(* Whether a compaction is due, what a model turn answers and whether a    *)
(* summary is small enough are free choices; models, thinking levels,      *)
(* images, tool calls other than the todo tool, and child agents are left  *)
(* out.  Which submissions are queued is a number: SubmissionQueue has the *)
(* queue itself.                                                           *)
(***************************************************************************)
EXTENDS SessionFile

CONSTANTS
  Worker,          \* the one task that runs submissions
  Clients,         \* threads that call operations of MisyCore
  Operations,      \* the operations they call besides submit
  Faults,          \* what storage and the process may do: "error", "crash", "torn"
  MaxTurns,        \* MAX_MODEL_TURNS
  MaxSubmissions,  \* bound: submissions accepted in one behaviour
  MaxMessages,     \* bound: entries pushed in one behaviour
  MaxCalls,        \* bound: operations besides submit that clients call
  MaxFaults        \* bound: failed writes and crashes

ASSUME ConversationAssumption ==
  /\ Worker \notin Clients
  /\ Operations \subseteq {"new_session", "resume_session", "compact", "downshift", "cancel"}
  /\ Faults \subseteq {"error", "crash", "torn"}
  /\ {MaxTurns, MaxSubmissions, MaxMessages, MaxCalls, MaxFaults} \subseteq Nat

Threads == {Worker} \cup Clients
NoSession == 0
TodoLists == 1..2

VARIABLES
  history,       \* the canonical transcript
  active,        \* active_history: what the provider is shown
  todos,
  files,         \* the session files of the working directory, oldest first
  current,       \* the attached file, or NoSession
  poisoned,      \* a write failed: nothing more is written until a switch
  slot,          \* CoreState.compaction: the thread that compacts
  pending,       \* queued submissions
  pc,
  run,           \* the worker's locals
  snapshot,      \* a compaction's clone of the active history
  plan,          \* the checkpoint line it is about to append
  loaded,        \* the file a resume_session has read
  conversation,  \* history: how many switches there have been
  accidents,     \* history: which of Accidents have happened so far
  submitted, pushed, calls, faults  \* history: what the bounds count

sessionVars == <<files, current, poisoned>>
compactVars == <<slot, snapshot, plan>>
boundVars   == <<submitted, pushed, calls, faults>>
vars == <<history, active, todos, sessionVars, pending, pc, run, compactVars, loaded,
          conversation, boundVars, accidents>>

NoEntry == [role |-> "none", says |-> <<>>]
Resting == [entry |-> NoEntry, final |-> FALSE, halted |-> FALSE, ephemeral |-> 0, turns |-> 0,
            retried |-> FALSE, cancelled |-> FALSE, conversation |-> 0]
NoPlan == CheckpointLine(NoEntry, 0)

Init ==
  /\ history = <<>> /\ active = <<>> /\ todos = 0
  /\ files = <<>> /\ current = NoSession /\ poisoned = FALSE
  /\ slot = {} /\ pending = 0
  /\ pc = [t \in Threads |-> "idle"]
  /\ run = Resting
  /\ snapshot = [t \in Threads |-> <<>>]
  /\ plan = [t \in Threads |-> NoPlan]
  /\ loaded = [c \in Clients |-> NoSession]
  /\ conversation = 0 /\ accidents = {}
  /\ submitted = 0 /\ pushed = 0 /\ calls = 0 /\ faults = 0

Goto(t, next) == pc' = [pc EXCEPT ![t] = next]

(***************************************************************************)
(* What the properties below except, noted when it happens: a record that  *)
(* is torn by a failed write or a crash; a session that is switched while  *)
(* a submission, cancelled or not, still runs; a client's compaction with  *)
(* anything else at work beside it.                                        *)
(***************************************************************************)
Accidents == {"torn", "mixed", "overlap"}
Compacting == {"clone", "start", "summary", "checkpoint", "install"}
Torn == \E s \in DOMAIN files : files[s].unended
Mixed == conversation' # conversation /\ pc[Worker] # "idle"
Beside == \E c \in Clients, t \in Threads : t # c /\ pc[c] \in Compacting /\ pc[t] # "idle"
Overlap == Beside' \/ (conversation' # conversation /\ \E c \in Clients : pc[c] \in Compacting)
Met == {a \in Accidents : CASE a = "torn" -> Torn' [] a = "mixed" -> Mixed [] a = "overlap" -> Overlap}
Watched == accidents' = accidents \cup Met

(***************************************************************************)
(* The session file.                                                       *)
(***************************************************************************)
MayFail(kind) == kind \in Faults /\ faults < MaxFaults

\* append: a poisoned session swallows the line, the first line makes the file,
\* an error poisons the session and is reported (~ok).
Written(line, ok) ==
  \/ poisoned /\ ok /\ UNCHANGED <<sessionVars, faults>>
  \/ /\ ~poisoned /\ ok
     /\ IF current = NoSession
          THEN files' = Append(files, AppendLine(NewFile, line)) /\ current' = Len(files')
          ELSE files' = [files EXCEPT ![current] = AppendLine(@, line)] /\ UNCHANGED current
     /\ UNCHANGED <<poisoned, faults>>
  \/ /\ ~poisoned /\ ~ok /\ MayFail("error")
     /\ poisoned' = TRUE /\ faults' = faults + 1
     /\ IF "torn" \in Faults /\ current # NoSession
          THEN \E file \in TornAppend(files[current], line) : files' = [files EXCEPT ![current] = file]
          ELSE UNCHANGED files
     /\ UNCHANGED current

\* persist_history, persist_todos: an error becomes an event and is dropped.
Persisted(line) == \E ok \in BOOLEAN : Written(line, ok)

(***************************************************************************)
(* compaction.rs: one compaction, by the worker or by a client.            *)
(***************************************************************************)
IsUser(entry) == entry.role = "user"

\* preserved_tail_start: the length of the prefix before the last two user
\* entries, 0 where there are fewer.  A summary is a user entry.  Mutant: one
\* user entry is enough.
TailAtLastUser(entries) ==
  LET users == {i \in DOMAIN entries : IsUser(entries[i])}
  IN  IF users = {} THEN 0 ELSE (CHOOSE i \in users : \A j \in users : j <= i) - 1
TailStart(entries) ==
  LET users == {i \in DOMAIN entries : IsUser(entries[i])}
      older == users \ {i \in users : \A j \in users : j <= i}
  IN  IF older = {} THEN 0 ELSE (CHOOSE i \in older : \A j \in older : j <= i) - 1

Summary(entries) == [role |-> "user", says |-> Said(entries)]

\* canonical_first_kept: as many entries from the end as the active history keeps.
\* Mutant: the index into the active history is taken for one into the transcript.
ActiveFirstKept(canonical, entries, kept) == kept
FirstKept(canonical, entries, kept) ==
  IF Len(entries) - kept > Len(canonical) THEN 0 ELSE Len(canonical) - (Len(entries) - kept)

\* Where a thread goes on after its compaction. The worker compacts before it
\* pushes the submission, where having nothing to compact is no error, and once
\* after an overflow, where it is.
AfterCompaction(t, result) ==
  IF t # Worker THEN "idle"
  ELSE IF run.retried THEN (IF result = "done" THEN "turn" ELSE "finish")
  ELSE IF result = "failed" THEN "finish" ELSE "history"

\* compact_history clones the active history and looks for a prefix.
CompactClone(t) ==
  /\ pc[t] = "clone"
  /\ IF TailStart(active) = 0
       THEN Goto(t, AfterCompaction(t, "nothing")) /\ UNCHANGED snapshot
       ELSE Goto(t, "start") /\ snapshot' = [snapshot EXCEPT ![t] = active]
  /\ UNCHANGED <<history, active, todos, sessionVars, pending, run, slot, plan, loaded,
                 conversation, boundVars>>
  /\ Watched

\* start_compaction: one at a time.
CompactStart(t) ==
  /\ pc[t] = "start"
  /\ IF slot = {}
       THEN slot' = {t} /\ Goto(t, "summary") /\ UNCHANGED snapshot
       ELSE /\ Goto(t, AfterCompaction(t, "failed"))
            /\ snapshot' = [snapshot EXCEPT ![t] = <<>>]
            /\ UNCHANGED slot
  /\ UNCHANGED <<history, active, todos, sessionVars, pending, run, plan, loaded,
                 conversation, boundVars>>
  /\ Watched

\* finish_compaction after a failure.
CompactFails(t) ==
  /\ slot' = {} /\ Goto(t, AfterCompaction(t, "failed"))
  /\ snapshot' = [snapshot EXCEPT ![t] = <<>>]
  /\ plan' = [plan EXCEPT ![t] = NoPlan]

\* generate_summary returns, or fails; then the transcript is measured.
CompactPlan(t) ==
  /\ pc[t] = "summary"
  /\ \/ CompactFails(t)
     \/ /\ Goto(t, "checkpoint")
        /\ LET kept == TailStart(snapshot[t])
           IN  plan' = [plan EXCEPT ![t] =
                 CheckpointLine(Summary(SubSeq(snapshot[t], 1, kept)),
                                FirstKept(history, snapshot[t], kept))]
        /\ UNCHANGED <<slot, snapshot>>
  /\ UNCHANGED <<history, active, todos, sessionVars, pending, run, loaded, conversation,
                 boundVars>>
  /\ Watched

\* append_compaction: without its checkpoint the compaction is given up.
CompactPersist(t) ==
  /\ pc[t] = "checkpoint"
  /\ \/ Written(plan[t], TRUE) /\ Goto(t, "install") /\ UNCHANGED compactVars
     \/ Written(plan[t], FALSE) /\ CompactFails(t)
  /\ UNCHANGED <<history, active, todos, pending, run, loaded, conversation, submitted, pushed, calls>>
  /\ Watched

\* The active history becomes the summary and the tail of the clone.
CompactInstall(t) ==
  /\ pc[t] = "install"
  /\ active' = <<plan[t].summary>>
                \o SubSeq(snapshot[t], TailStart(snapshot[t]) + 1, Len(snapshot[t]))
  /\ slot' = {} /\ Goto(t, AfterCompaction(t, "done"))
  /\ snapshot' = [snapshot EXCEPT ![t] = <<>>]
  /\ plan' = [plan EXCEPT ![t] = NoPlan]
  /\ UNCHANGED <<history, todos, sessionVars, pending, run, loaded, conversation, boundVars>>
  /\ Watched

Compact(t) == CompactClone(t) \/ CompactStart(t) \/ CompactPlan(t) \/ CompactPersist(t)
              \/ CompactInstall(t)

(***************************************************************************)
(* The worker.                                                             *)
(***************************************************************************)
\* A resume holds the queue's mutex while it reads the file.
QueueFree == \A c \in Clients : pc[c] # "resume"

WorkerPop ==
  /\ pc[Worker] = "idle" /\ pending > 0 /\ QueueFree /\ pushed < MaxMessages
  /\ pending' = pending - 1 /\ pushed' = pushed + 1
  /\ run' = [Resting EXCEPT !.entry = Entry("user", pushed + 1), !.turns = MaxTurns,
                            !.conversation = conversation]
  /\ Goto(Worker, "begin")
  /\ UNCHANGED <<history, active, todos, sessionVars, compactVars, loaded, conversation,
                 submitted, calls, faults>>
  /\ Watched

\* run_submission: a cancelled one is not begun, the others are auto-compacted when due.
RunBegin ==
  /\ pc[Worker] = "begin"
  /\ \/ run.cancelled /\ Goto(Worker, "finish")
     \/ ~run.cancelled /\ \E next \in {"clone", "history"} : Goto(Worker, next)
  /\ UNCHANGED <<history, active, todos, sessionVars, pending, run, compactVars, loaded,
                 conversation, boundVars>>
  /\ Watched

\* Where the worker goes on after it has pushed run.entry.
AfterPush ==
  CASE run.entry.role = "user" -> "turn"
    [] run.entry.role = "assistant" -> IF run.final THEN "finish" ELSE "tools"
    [] run.entry.role = "tool" -> "turn"

\* push_main_history writes the transcript first, push_history the active history.
PushHistory ==
  /\ pc[Worker] = "history"
  /\ history' = Append(history, run.entry)
  /\ Goto(Worker, IF IsUser(run.entry) THEN "active" ELSE "persist")
  /\ UNCHANGED <<active, todos, sessionVars, pending, run, compactVars, loaded, conversation,
                 boundVars>>
  /\ Watched

\* The entries of a halted tool batch are ephemeral: only the active history has them.
PushActive ==
  /\ pc[Worker] = "active"
  /\ active' = Append(active, run.entry)
  /\ Goto(Worker, IF IsUser(run.entry) THEN "persist"
                  ELSE IF run.halted THEN AfterPush ELSE "history")
  /\ run' = [run EXCEPT !.ephemeral = IF run.halted /\ run.entry.role = "tool" THEN 2 ELSE @]
  /\ UNCHANGED <<history, todos, sessionVars, pending, compactVars, loaded, conversation,
                 boundVars>>
  /\ Watched

PushPersist ==
  /\ pc[Worker] = "persist"
  /\ Persisted(EntryLine(run.entry))
  /\ Goto(Worker, AfterPush)
  /\ UNCHANGED <<history, active, todos, pending, run, compactVars, loaded, conversation,
                 submitted, pushed, calls>>
  /\ Watched

\* remove_ephemeral_history: truncate the active history by their number.
WithoutEphemeral(entries) ==
  SubSeq(entries, 1, IF run.ephemeral > Len(entries) THEN 0 ELSE Len(entries) - run.ephemeral)

\* A context overflow is answered by one compaction and one more set of turns.
MayRetry == ~run.retried
Retrying == [run EXCEPT !.retried = TRUE, !.turns = MaxTurns, !.ephemeral = 0]

\* One model turn of run_turns_with_limit: it fails or is cancelled, overflows the
\* context, answers, or calls tools in a batch that is dispatched or halted.
ModelTurn ==
  /\ pc[Worker] = "turn"
  /\ active' = WithoutEphemeral(active)
  /\ \/ /\ Goto(Worker, "finish")
        /\ run' = [run EXCEPT !.ephemeral = 0]
        /\ UNCHANGED pushed
     \/ /\ run.turns > 0 /\ ~run.cancelled /\ MayRetry
        /\ Goto(Worker, "clone")
        /\ run' = Retrying
        /\ UNCHANGED pushed
     \/ /\ run.turns > 0 /\ ~run.cancelled
        /\ pushed' = pushed + 1
        /\ \E final, halted \in BOOLEAN :
             /\ ~(final /\ halted)
             /\ IF final THEN pushed < MaxMessages ELSE pushed + 1 < MaxMessages
             /\ run' = [run EXCEPT !.entry = Entry("assistant", pushed'), !.turns = @ - 1,
                                   !.final = final, !.halted = halted, !.ephemeral = 0]
        /\ Goto(Worker, "active")
  /\ UNCHANGED <<history, todos, sessionVars, pending, compactVars, loaded, conversation,
                 submitted, calls, faults>>
  /\ Watched

\* dispatch_tools: nothing in a halted batch; else the todo tool may set a list.
DispatchTools ==
  /\ pc[Worker] = "tools"
  /\ \/ Goto(Worker, "results") /\ UNCHANGED todos
     \/ /\ ~run.halted /\ ~run.cancelled
        /\ \E list \in TodoLists : todos' = list
        /\ Goto(Worker, "todos")
  /\ UNCHANGED <<history, active, sessionVars, pending, run, compactVars, loaded, conversation,
                 boundVars>>
  /\ Watched

\* persist_todos.
PersistTodos ==
  /\ pc[Worker] = "todos"
  /\ Persisted(TodosLine(todos))
  /\ Goto(Worker, "results")
  /\ UNCHANGED <<history, active, todos, pending, run, compactVars, loaded, conversation,
                 submitted, pushed, calls>>
  /\ Watched

\* The results of the batch become the next entry.
ToolResults ==
  /\ pc[Worker] = "results"
  /\ pushed' = pushed + 1
  /\ run' = [run EXCEPT !.entry = Entry("tool", pushed')]
  /\ Goto(Worker, "active")
  /\ UNCHANGED <<history, active, todos, sessionVars, pending, compactVars, loaded,
                 conversation, submitted, calls, faults>>
  /\ Watched

\* finish_submission and the terminal event.
RunFinish ==
  /\ pc[Worker] = "finish" /\ QueueFree
  /\ run' = Resting
  /\ Goto(Worker, "idle")
  /\ UNCHANGED <<history, active, todos, sessionVars, pending, compactVars, loaded,
                 conversation, boundVars>>
  /\ Watched

Run == RunBegin \/ PushHistory \/ PushActive \/ PushPersist \/ ModelTurn \/ DispatchTools
       \/ PersistTodos \/ ToolResults \/ RunFinish

(***************************************************************************)
(* The clients.                                                            *)
(***************************************************************************)
Offered(c, operation) == pc[c] = "idle" /\ operation \in Operations

\* SubmissionQueue::snapshot shows neither current nor pending: a current one
\* that is cancelled is hidden although it still runs.
Quiescent == QueueFree /\ pending = 0 /\ (pc[Worker] = "idle" \/ run.cancelled)

Submit(c) ==
  /\ pc[c] = "idle" /\ QueueFree /\ submitted < MaxSubmissions
  /\ pending' = pending + 1 /\ submitted' = submitted + 1
  /\ UNCHANGED <<history, active, todos, sessionVars, pc, run, compactVars, loaded,
                 conversation, pushed, calls, faults>>
  /\ Watched

\* cancel_current_submission returns at once: the submission still runs.
CancelCurrent(c) ==
  /\ Offered(c, "cancel") /\ pc[Worker] # "idle" /\ ~run.cancelled
  /\ calls < MaxCalls /\ calls' = calls + 1
  /\ run' = [run EXCEPT !.cancelled = TRUE]
  /\ UNCHANGED <<history, active, todos, sessionVars, pending, pc, compactVars, loaded,
                 conversation, submitted, pushed, faults>>
  /\ Watched

\* detach: the next line makes a new file.  Mutant: the file stays attached.
StillAttached == current
Detached == NoSession

\* new_session clears everything under all the mutexes at once.
NewSession(c) ==
  /\ Offered(c, "new_session") /\ Quiescent /\ calls < MaxCalls
  /\ history' = <<>> /\ active' = <<>> /\ todos' = 0
  /\ current' = Detached /\ poisoned' = FALSE
  /\ conversation' = conversation + 1 /\ calls' = calls + 1
  /\ UNCHANGED <<files, pending, pc, run, compactVars, loaded, submitted, pushed, faults>>
  /\ Watched

\* resume_session reads the file, keeping the queue's mutex, and then attaches it.
ResumeLoad(c) ==
  /\ Offered(c, "resume_session") /\ Quiescent /\ calls < MaxCalls
  /\ \E s \in DOMAIN files : loaded' = [loaded EXCEPT ![c] = s]
  /\ calls' = calls + 1
  /\ Goto(c, "resume")
  /\ UNCHANGED <<history, active, todos, sessionVars, pending, run, compactVars, conversation,
                 submitted, pushed, faults>>
  /\ Watched

ResumeAttach(c) ==
  /\ pc[c] = "resume"
  /\ LET file == files[loaded[c]]
     IN  history' = LoadedHistory(file) /\ active' = LoadedActive(file) /\ todos' = LoadedTodos(file)
  /\ current' = loaded[c] /\ poisoned' = FALSE
  /\ loaded' = [loaded EXCEPT ![c] = NoSession]
  /\ conversation' = conversation + 1
  /\ Goto(c, "idle")
  /\ UNCHANGED <<files, pending, run, compactVars, boundVars>>
  /\ Watched

\* MisyCore::compact looks at the queue and lets it go; a selection of a smaller
\* model (compact_before_downshift) does not look.
StartManual(c) ==
  /\ \/ Offered(c, "compact") /\ Quiescent
     \/ Offered(c, "downshift")
  /\ calls < MaxCalls /\ calls' = calls + 1
  /\ Goto(c, "clone")
  /\ UNCHANGED <<history, active, todos, sessionVars, pending, run, compactVars, loaded,
                 conversation, submitted, pushed, faults>>
  /\ Watched

ClientStep(c) == Submit(c) \/ CancelCurrent(c) \/ NewSession(c) \/ ResumeLoad(c) \/ StartManual(c)

(***************************************************************************)
(* The process ends, between two steps or within a write, and starts again *)
(* with the session files and nothing else.                                *)
(***************************************************************************)
LineWritten(t) ==
  CASE pc[t] = "persist" -> EntryLine(run.entry)
    [] pc[t] = "todos" -> TodosLine(todos)
    [] pc[t] = "checkpoint" -> plan[t]

Restart ==
  /\ MayFail("crash") /\ faults' = faults + 1
  /\ \/ UNCHANGED files
     \/ /\ "torn" \in Faults /\ current # NoSession /\ ~poisoned
        /\ \E t \in Threads :
             /\ pc[t] \in {"persist", "todos", "checkpoint"}
             /\ \E file \in TornAppend(files[current], LineWritten(t)) :
                  files' = [files EXCEPT ![current] = file]
  /\ history' = <<>> /\ active' = <<>> /\ todos' = 0
  /\ current' = NoSession /\ poisoned' = FALSE
  /\ pending' = 0 /\ slot' = {} /\ run' = Resting
  /\ pc' = [t \in Threads |-> "idle"]
  /\ snapshot' = [t \in Threads |-> <<>>] /\ plan' = [t \in Threads |-> NoPlan]
  /\ loaded' = [c \in Clients |-> NoSession]
  /\ UNCHANGED <<conversation, submitted, pushed, calls>>
  /\ Watched

Next ==
  \/ WorkerPop \/ Run
  \/ \E t \in Threads : Compact(t)
  \/ \E c \in Clients : ClientStep(c) \/ ResumeAttach(c)
  \/ Restart

Spec == Init /\ [][Next]_vars

(***************************************************************************)
(* Properties.                                                             *)
(***************************************************************************)
\* An entry that is in the transcript and on its way to the file.
OnItsWay == \/ pc[Worker] = "persist"
            \/ pc[Worker] = "active" /\ IsUser(run.entry)

\* The entries at the end of the active history that belong to a halted batch.
EphemeralNow ==
  IF run.halted /\ pc[Worker] \in {"tools", "results"} THEN 1
  ELSE IF run.halted /\ pc[Worker] = "active" /\ run.entry.role = "tool" THEN 1
  ELSE run.ephemeral

\* The active history without them.
Lasting == SubSeq(active, 1, Len(active) - EphemeralNow)

\* The transcript and the active history are not within one push.
Settled == pc[Worker] \notin {"history", "active", "persist"} \/ run.halted

Positions == {"idle", "begin", "clone", "start", "summary", "checkpoint", "install", "history",
              "active", "persist", "turn", "tools", "todos", "results", "finish", "resume"}

\* The variables keep their types: turns and ephemeral entries within their limits, a
\* compaction slot that names the thread that compacts, and, as long as no record has been
\* torn, an attached file that exists and a todo list.
TypeOK ==
  /\ pc \in [Threads -> Positions]
  /\ run.turns \in 0..MaxTurns /\ run.ephemeral \in {0, 2}
  /\ slot = {t \in Threads : pc[t] \in {"summary", "checkpoint", "install"}}
  /\ pending \in 0..MaxSubmissions /\ accidents \subseteq Accidents
  /\ "torn" \notin accidents =>
       /\ current \in 0..Len(files) /\ poisoned \in BOOLEAN /\ todos \in {0} \cup TodoLists
       /\ loaded \in [Clients -> 0..Len(files)]

\* As long as no record has been torn and no session switched under a run: loading the
\* attached file gives the transcript and the todo list in memory, save for what is being
\* written this moment; after a failed write it gives a prefix (persist_history,
\* persist_todos, attach and detach of session.rs).
FileMatchesHistory ==
  LET saved == IF current = NoSession THEN <<>> ELSE LoadedHistory(files[current])
      list  == IF current = NoSession THEN 0 ELSE LoadedTodos(files[current])
  IN  accidents \cap {"torn", "mixed"} = {} =>
        IF poisoned THEN IsPrefix(saved, history)
        ELSE /\ saved = IF OnItsWay THEN Front(history) ELSE history
             /\ pc[Worker] # "todos" => list = todos

\* As long as, besides, no client's compaction has run beside anything else: loading the
\* attached file also gives the active history in memory, whatever compactions made it:
\* the checkpoint's index into the transcript means the tail that was kept
\* (generate_and_persist_compaction, projected_history of session.rs).
ActiveIsReplayed ==
  (accidents = {} /\ current # NoSession /\ ~poisoned /\ Settled /\ \A t \in Threads : pc[t] # "install")
    => LoadedActive(files[current]) = Lasting

EverythingIsSaid == Settled => Said(Lasting) = Said(history)

\* The entries that at most one user entry follows: the last two turns.
Recent(entries) ==
  {i \in DOMAIN entries : ~\E j, k \in DOMAIN entries : i < j /\ j < k /\ IsUser(entries[j]) /\ IsUser(entries[k])}
RecentTurnsKept ==
  Settled => \A i \in Recent(history) : IsUser(history[i]) => \E j \in DOMAIN active : active[j] = history[i]

\* As long as none of Accidents has happened: the active history stands for every message
\* of the transcript, each once and in order: no compaction and no removal of ephemeral
\* entries loses or repeats one (compact_history, remove_ephemeral_history).  The last two
\* user messages are in it as they were said, and not in a summary (preserved_tail_start).
\* What is pushed while a compaction that runs beside a submission waits for its summary
\* is forgotten (generate_and_persist_compaction writes back the tail of its clone).
NothingForgotten == TypeOK /\ (accidents = {} => EverythingIsSaid /\ RecentTurnsKept)

\* "Session switching is rejected while active or queued work exists"
\* (docs/architecture.md:79): a submission writes to the conversation it was taken up in.
SubmissionStaysInConversation ==
  pc[Worker] \in {"history", "active", "persist", "tools", "todos", "results"}
    => run.conversation = conversation

(***************************************************************************)
(* The inductive invariant.                                                *)
(***************************************************************************)
Entries == [role : {"user", "assistant", "tool"}, says : Seq(Nat)]
Runs == [entry : Entries \cup {NoEntry}, final : BOOLEAN, halted : BOOLEAN, ephemeral : {0, 2}, turns : 0..MaxTurns,
         retried : BOOLEAN, cancelled : BOOLEAN, conversation : Nat]
Lines == [kind : {"entry"}, entry : Entries] \cup [kind : {"todos"}, todos : {0} \cup TodoLists]
         \cup [kind : {"checkpoint"}, summary : Entries, first_kept : Nat]
Files == [lines : Seq(Lines), unended : {FALSE}]

\* Where the threads are: one of them compacts at most.
PlaceInv ==
  /\ pc \in [Threads -> Positions]
  /\ pc[Worker] # "resume"
  /\ \A c \in Clients : pc[c] \in Compacting \cup {"idle", "resume"}
  /\ slot = {t \in Threads : pc[t] \in {"summary", "checkpoint", "install"}}
  /\ \A t, u \in slot : t = u

\* What the worker is about to push: a submission until its first turn, and
\* nothing that goes to the transcript out of a halted batch.
RunInv ==
  /\ run \in Runs /\ pushed \in Nat /\ conversation \in Nat
  /\ submitted \in 0..MaxSubmissions /\ pending \in 0..submitted
  /\ IF pc[Worker] = "idle" THEN run = Resting ELSE run.entry \in Entries
  /\ pc[Worker] = "begin" => ~run.retried
  /\ pc[Worker] \in {"begin"} \cup Compacting /\ ~run.retried => IsUser(run.entry)
  /\ IsUser(run.entry) => ~run.halted
  /\ run.halted => ~run.final /\ pc[Worker] \notin {"history", "persist", "todos"}
  /\ run.ephemeral = 2 => pc[Worker] = "turn" /\ run.halted

\* What is stored keeps its type.
StoreType ==
  /\ history \in Seq(Entries) /\ active \in Seq(Entries) /\ todos \in {0} \cup TodoLists
  /\ files \in Seq(Files) /\ current \in 0..Len(files) /\ poisoned \in BOOLEAN
  /\ snapshot \in [Threads -> Seq(Entries)] /\ plan \in [Threads -> Lines \cup {NoPlan}]
  /\ loaded \in [Clients -> 0..Len(files)]
  /\ \A c \in Clients : pc[c] = "resume" => loaded[c] # NoSession
  /\ \A t \in Threads : pc[t] \in {"checkpoint", "install"} => plan[t] \in Lines /\ plan[t].kind = "checkpoint"

\* The file and the transcript without the entry that is being pushed.
Saved == IF current = NoSession THEN NewFile ELSE files[current]
BaseHistory == IF OnItsWay THEN SubSeq(history, 1, Len(history) - 1) ELSE history
FileInv ==
  /\ OnItsWay => history # <<>> /\ history[Len(history)] = run.entry
  /\ IF poisoned THEN IsPrefix(LoadedHistory(Saved), history)
     ELSE LoadedHistory(Saved) = BaseHistory /\ (pc[Worker] # "todos" => LoadedTodos(Saved) = todos)

\* The active history without it and without ephemeral entries.
PushedToActive == pc[Worker] = "persist" \/ (pc[Worker] = "history" /\ ~IsUser(run.entry))
Extra == IF PushedToActive THEN 1 ELSE EphemeralNow
BaseActive == SubSeq(active, 1, Len(active) - Extra)

\* An active history that stands for a transcript: it is the transcript, or it
\* ends as the transcript does behind a summary of the rest.
Stands(h, a) ==
  \/ a = h
  \/ /\ a # <<>> /\ Len(a) - 1 <= Len(h)
     /\ \A i \in 0..(Len(a) - 2) : a[Len(a) - i] = h[Len(h) - i]
     /\ \A i \in Recent(h) : IsUser(h[i]) => i > Len(h) - (Len(a) - 1)
     /\ Said(a) = Said(h)

\* What a compaction makes of an active history, and its line.
Compacted(a) == <<Summary(SubSeq(a, 1, TailStart(a)))>> \o SubSeq(a, TailStart(a) + 1, Len(a))
PlanFor(h, a) == CheckpointLine(Summary(SubSeq(a, 1, TailStart(a))), FirstKept(h, a, TailStart(a)))

ReplayInv ==
  /\ ~Beside
  /\ Extra <= Len(active) /\ (PushedToActive => active[Len(active)] = run.entry)
  /\ Stands(BaseHistory, BaseActive)
  /\ \A s \in DOMAIN files : Stands(LoadedHistory(files[s]), LoadedActive(files[s]))
  /\ \A t \in Threads :
       /\ pc[t] \in {"start", "summary", "checkpoint", "install"} => snapshot[t] = active /\ TailStart(active) > 0
       /\ pc[t] \in {"checkpoint", "install"} => plan[t] = PlanFor(history, active)
  /\ ~poisoned => LoadedActive(Saved) = IF \E t \in Threads : pc[t] = "install" THEN Compacted(active) ELSE BaseActive

\* Each part until an accident that undoes it.
ConversationInv ==
  /\ PlaceInv /\ RunInv /\ accidents \subseteq Accidents
  /\ "torn" \notin accidents => StoreType
  /\ accidents \cap {"torn", "mixed"} = {} => FileInv
  /\ accidents = {} => ReplayInv
================================================================================
