# A TLA+ verification of misy

misy is a coding agent for the terminal: a Rust core (`src/crates/misy-core`)
that runs the user's submissions against model providers, a terminal client
(`src/crates/misy-tui`) that observes the core through events and snapshots,
and provider packages (`src/plugins/providers`), TypeScript programs the core
starts as subprocesses. This directory holds TLA+ models of the core and of the
client, the TLC configurations that check them, and TLAPS proofs about them.

Line numbers refer to the commit this directory was written for.
`PROJECT.json` maps every definition to the lines it models and lists the
hazards (what is hard to test in this code) with the properties that cover
them. Below, `core/…` stands for `src/crates/misy-core/src/core/…`, `tools/…`
and `providers/…` for their neighbours, and `tui/…` for
`src/crates/misy-tui/src/tui/…`.

- [1. The system](#1-the-system)
- [2. Modules](#2-modules)
- [3. What the runs check](#3-what-the-runs-check)
- [4. What is proved](#4-what-is-proved)
- [5. Where the code and its documents disagree](#5-where-the-code-and-its-documents-disagree)
- [6. What is not modelled](#6-what-is-not-modelled)
- [7. Plan](#7-plan)

## 1. The system

### Who runs

A process has one `MisyCore`. Its state (`CoreState`, core.rs) is a record of
some twenty independent mutexes. These threads act on it:

| Thread | Where | What it does |
| --- | --- | --- |
| clients | `core/*_api`, the TUI's background tasks | call operations, most of them async; a dropped future stops at its next await |
| the submission worker | `core/queue.rs`, `core/agent.rs`, `core/turn/` | one Tokio task that drains the queue and runs turns; it ends when the queue is empty and a later `submit` spawns another |
| child agents | `core/agents/` | one task each, with turns and tools of their own |
| supervisors, captures, readers | `tools/activity/`, `providers/host/` | per process: read its output, wait for its exit |
| the runtime owner | `core.rs` (`shutdown_services`) | waits for the shutdown signal and takes everything down in order |

Threads meet in three ways: short critical sections of the mutexes (seldom
nested; the nested ones are the subject of `StateLocks`), watch channels and
`Notify` (cancellation, mailbox wake-ups), and events through the fan-out,
which a client may subscribe to losslessly (unbounded channel) or lossily
(bounded channel).

### Components

| Component | State | Hard part | What makes it correct |
| --- | --- | --- | --- |
| Submission queue (`core/queue.rs`, `core.rs`, `core/agent.rs`) | pending ids, the current one, worker flag and handle, active submissions | a worker that gives up while a submit comes in; a cancellation of what is ending; shutdown in the middle of a spawn | one worker; no lost wakeup; FIFO; events agree with snapshots; nothing after Shutdown |
| Lock order (`CoreState`) | the mutexes | a cycle needs the right operations at the right moment | no cycle |
| Child agents (`core/agents/`) | records, mailbox, recent list, two semaphores, generation, inboxes | results kept for a model that may be cancelled, capacity held by permits, a tree that grows while it is stopped, a discard that races all of these | results neither lost nor delivered twice; bounds; children follow their parent's end; no missed wake-up |
| Root conversation (`core/turn/loop.rs`, `core/session*.rs`, `core/compaction.rs`) | transcript, active history, todos, session file, compaction slot | three copies of one conversation, each with its own mutex; a compaction that awaits a model; a crash between writes | the file is the transcript; loading replays; a compaction forgets nothing |
| Questions (`core/questions.rs`) | pending questions with their senders, dismissals | an answer, a dismissal, a cancellation and shutdown claim one question | one owner; what was accepted is delivered; no turn hangs on a question |
| Credentials, catalogs, selection (`core/authentication.rs`, `core/models.rs`, `model_cache.rs`, `core/model_selection.rs`) | credential file and records, epochs, catalogs and their generation, the selected profile and its configuration | awaits between reading an epoch and storing under it; a save left behind by an aborted call; two files written by jobs | memory, file and catalog agree at rest; late results lose; the configuration is the selection |
| Provider host (`providers/host*`) | one process per provider, pending requests, stream routes, the lock on stdin | a deadline fails the process others share; a start that loses a race; late messages | no process and no route left behind; an abandoned chat is cancelled; every call ends |
| Turn loop and instructions (`core/turn/`, `core/instructions*`, `core/agents/spawn.rs`) | the stream, the batch, scopes, the child's chain of profiles | a scope that becomes active with calls already prepared; overflow, fallback and inbox share one allowance | every request is well formed; no tool under an unread scope; a child is one run |
| Activities (`tools/activity/`) | records, permits, recent list, capture, supervisor handles | a command that ends while it is published, polled, stopped or evicted; shutdown among all of it | no process forgotten; an end is final and complete; shutdown reaps |
| Reports (`tools/activity/output.rs`, `core/agents/transcript.rs`, `fanout.rs`) | bounded buffers and subscribers | budgets by bytes; a subscription among emissions | what is told is what happened |
| Terminal client (`tui/client*`, `tui/state*`, widgets) | view, background operations, transcript, dialog, lists, composer, prompt file | results that come back late, events behind snapshots, keys in any order | the screen is so; output under its prompt; Enter acts on what is shown; no draft lost |

The remaining components (file tools, redaction, roles, domain types, packages,
…) are in `PROJECT.json` with the reason they are left out.

## 2. Modules

    SubmissionContract <-refines- SubmissionQueue                SubmissionQueue_proofs
    StateLocks <- MCLockOrder                                    SubmissionQueue_proofs
    AgentRegistry, AgentProfiles, StateLocks <- MCAgentRegistry  AgentRegistry_proofs
    SessionFile <- Conversation, ContextBudget                   Conversation_proofs
    Questions                                                    Questions_proofs
    Credentials, ModelSelection <- ProviderAccount               ProviderAccount_proofs
    ProviderHost                                                 ProviderHost_proofs
    Instructions <- TurnLoop
    Activities                                                   Activities_proofs
      Activities, OutputCapture, ChildTranscript, EventFanout <- CommandTools
    ClientViews, TurnProjection, QuestionDialog,
      ListView, Composer, PromptHistory <- TerminalClient        TerminalClient_proofs

Each run has an `MC…` module that gives the constants their values. Definitions
that no action uses (`FreedTotalOnly` beside `Freed`, and the like) are what the
code would be with a plausible mistake: `PROJECT.json` pairs each with the
property that is violated when it takes the place of the real one. The
inductive invariant of a component stands at the end of its module, apart from
the properties; its theorems are in `…_proofs`.

A composition of parts that share no state (`CommandTools`, `TerminalClient`,
`ProviderAccount`) lets a behaviour be one of either part, which is as good as all at
once for properties of each part, and far smaller.

**SubmissionQueue, SubmissionContract.** A step is one critical section of the
queue mutex; the mutex of the worker slot, which `submit` keeps while it enqueues
and spawns, is a variable. `submit` is `SubmitCheck`, `SubmitReject`,
`SubmitLockSlot`, `SubmitEnqueue`/`SubmitRefused`, `SubmitSpawn`; cancels look up and
then cancel one by one; a worker task pops, runs, finishes and exits;
`shutdown_services` lists, cancels, shuts the services down, takes the worker, joins it
or aborts it after its timeout, and shuts the host down. A cancellation that is
forwarded, a run and either shutdown may have to write to a provider or a terminal
(`writing`), and no write need end. `SubmissionContract` is what a lossless subscriber may see, in terms
of events alone: acceptance in id order and never after the shutdown request, starts
and ends in FIFO order, one end each, nothing after `Shutdown`.

**StateLocks.** An operation is a script: the acquisitions (`Hold`), releases
(`Drop`) and locks taken and let go (`Peek`) its code makes, in order; threads run
any number of scripts. Rust's rules for temporaries decide what is held: a guard in
a `let` lives to the end of its scope, one in a scrutinee or an argument to the end
of that statement. `MCLockOrder` has the two numberings the scripts follow.

**AgentRegistry.** Records, mailbox, recent list and both semaphores; the task of
every agent (`pc`); `spawn_agent`, `agent_wait`, `agent_message`, `agent_stop` as
the owner's actions; the client's stops; `discard_agent_state` with its generation,
bounded wait and reopening, which a dropped future never reaches, and the close of
admission at shutdown. The semaphores are no counters: `LiveHeld` and
`MailboxHeld` count who keeps a permit, so a permit that is lost or kept too long
shows as a wrong bound. `Notify` wakes those whose future exists (`woken`), and
a cancellation sent before a `watch` subscription is not seen (`deaf`).
`AgentProfiles` has, as operators, what a child is given (role, chain of profiles,
forked history, tools); `MCAgentRegistry` checks them over all small inputs.

**SessionFile, Conversation, ContextBudget.** A file is a list of lines: entries,
todo lists, checkpoints with their `first_kept_index`. A push takes three locks
in turn (transcript, active history, file) and is three steps; a compaction takes
a slot, clones the active history, waits for the model, appends and assigns; a
session switch is one step under all locks. Storage may fail, the process may
restart between any two steps, and a write may be torn. The client is the terminal
client's: it does not await the end of what it cancelled before it switches, and a model
selection may call for a compaction beside a submission. What it takes to lose
something is recorded when it happens (`accidents`: `torn`, `mixed`, `overlap`). An entry is its role and the sequence of messages its
text stands for: a message has one, and a summary those of all it replaced, in order.
`ContextBudget` is the arithmetic of a model's window.

**Questions.** The asking tool from admission over registration and emission to its
wait, with cancellation and abort; the callers of answer and dismiss; the drain at
shutdown; and a client that follows the events.

**Credentials, ModelSelection, ProviderAccount.** A call (login, refresh, logout,
usage, chat, listing, search) is a record of where it is and what it captured
(token, epoch, document, snapshot of the catalogs); each await is a place, and an
aborted login leaves its blocking job behind. A request is written to the provider
first, and that write need not end (`SendRequest`). `ModelSelection` is the selected
model and level against `config.toml`, in the two steps the code takes.

**ProviderHost.** One provider: the process in the map, those not yet published,
failed or being killed; per process the routes of calls, the holder of stdin and
the reader; calls that pick, publish, enter, write, wait, fail and kill; a chat's
collector with its idle deadline and cancellation; shutdown. The provider itself
is external: it may fail to start, die, write nonsense, or hang for a while or for good
with its stdin full.

**TurnLoop, Instructions.** A run of model turns for the main agent and one child:
request, stream and response in either order, preflight and halted batches,
dispatch, forks, overflow compaction, fallback, the inbox. `Instructions` has the
scopes: a session caches nested files, activates those on the way to a tool's
target, draws on one budget per conversation and renders by size.

**Activities.** A command's call from admission over the spawn to its promotion,
return, cancellation or abort; the supervisor from its trigger over kill, drain
and `finish_record` to the recent list; the capture between its read and its append; polls
and terminal input; stops, the end of an owner, shutdown, and the router of events
with the flush behind them. System calls fail too: a wait, a kill or a reap, after which
the record ends with its process alive, and the connection of a shell that runs already
(`WaitFails`, `KillAndReap`, `SpawnFails`). `OutputCapture` is the bounded buffer by bytes,
`ChildTranscript` the one of a child's transcript, `EventFanout` the subscribers.

**The terminal client.** `ClientViews`: which surface has the keys and what becomes
of results that come back late. `TurnProjection`: the transcript as a projection of
events and snapshots. The widgets take keys by themselves: `QuestionDialog`,
`ListView` (whose rows are replaced or, for the model picker, built anew), `Composer`;
`PromptHistory` is the file several clients share, with what is left behind its last
whole line when a client dies or a write fails.

## 3. What the runs check

| Run | Question | Bounds |
| --- | --- | --- |
| `queue` | the queue's inductive invariant, its safety properties, the contract (`ContractHolds`), and that cancelled work and shutdown end unless a write holds them up (`WorkEnds`) | 2 submissions, 2 callers, 1 canceller, 2 worker identities, shutdown |
| `agents` | `ResultNotLost`, `RegistryBounded`, `WaiterNotLost`, `InboxSettled`, `ChildrenFollowParent`; the operators of `AgentProfiles`; `NoDeadlock` of the core's mutexes among submit, finish, snapshot, select_profile, the prologue of a run | 9 settings of up to 4 agents: crowded, overfull, nested, stopped, swept, dropped, shut down; 3 threads for the mutexes |
| `conversation` | `FileMatchesHistory`, `ActiveIsReplayed`, `NothingForgotten`; the examples of `ContextBudget` | 1 client, 3 submissions, 6 entries, 2 calls, 1 fault |
| `questions` | `OneOwner`, `AcceptedIsDelivered`, `QuestionsEnd` | a root turn and a child, 2 callers, 2 questions, shutdown |
| `account` | `AccountAgrees`, `ConfigIsSelection`, `SavesStand`, `EveryCallReturns` | 2 providers, 2 calls, 2 tokens each, 1 restart; 3 selections of 2 clients over 2 models and 2 levels |
| `host` | `NothingIsLeft`, `AbandonedIsCancelled`, `EveryCallEnds` | a chat beside a request or a cancellation, 2 processes, 1 fault, shutdown |
| `activities` | `LiveIsAccounted`, `FinishedIsComplete`, `ShutdownReapsAll`, `ReportIsExact` | 2 commands of two owners, 1 place in the recent list; failing system calls for a command alone; 9 bytes of output; 4 transcript entries; 3 emissions |
| `turn` | `RequestIsSound`, `ScopesAreRead`, `ChildIsOneRun`, `RunsEnd` | 2 turns a run, 2 profiles, 2 nested directories, 1 image, plans of up to 3 calls |
| `terminal` | `ScreenIsTrue`, `QuestionStaysShown`, `LateResultsAreInert`, `TranscriptFollowsTurns`, `EnterActsOnWhatIsShown`, `DraftIsTypedText`, `FileIsNewestPrompts` | 2 background jobs; 2 turns and 1 switch; 3 rows; 2 images in any order; 2 clients, 4 prompts, 2 deaths or failed writes |
| `locks_resume`, `switch_under_run`, `child_overflow` | three disagreements of section 5, which TLC violates | 2 threads; 1 client; the plans of `turn` |

Each property is stated in words above its definition.

**Why the bounds are enough.** *Queue*: two submissions are what it takes for one
to be queued behind another, for the second to be accepted while the worker gives
up, and for a cancel list to hold a finished one; two identities let an old task and
its successor exist side by side. *Agents*: there are fewer mailbox and recent places
than agents, so places are refused, evicted and handed on, and with four agents
a pinned entry takes the list over its limit; the chain has a grandchild,
which a stop that lists the tree once can miss; three threads cover the cycles of two and
three among the mutexes. *Conversation*: two compactions are needed for a
kept tail that reaches back over a checkpoint, where indices into transcript and
active history differ. *Account*: two calls of any two kinds for the same provider or
different ones; what goes wrong in this code goes wrong between two. A third selection
meets a profile that a resumed session and a second selection have each written a part of. *Host*: a
chat and its neighbour are what share a process, a second process is what a
replacement or a lost race needs. *Activities*: two commands compete for the child's
one slot and for the one place in the recent list; each is also taken alone with output,
input and polls, which do not interact with the other. *Turn*: two profiles for a
fallback, one directory below another for scopes that come one by one. *Terminal*: two jobs are
what a late result and its successor need, and one switch leaves events of another
conversation on their way; the prompt file is rewritten from the third prompt on, by one
client between two of the other, and two accidents are one behind the other's remains.

All the safety properties of `queue`, `agents`, `questions`, `account`, `host`
and `activities` but the reports, those of `conversation`, and those of `terminal` but
the composer's, are proved for all values as well (section 4), so that only liveness,
`ReportIsExact`, `DraftIsTypedText` and the safety of `turn` rest on these bounds.

`CHECK_DEADLOCK FALSE` is set because every one of these systems may stop for good:
nobody has to submit anything, shutdown ends the process, and the bounds end
behaviours. `agents` states the absence of deadlock of the mutexes as `NoDeadlock`: threads at
rest are none, threads that wait for each other are.

**What the constants leave out on purpose.** One deviation of section 5 would violate a
property in a run that allows it and is kept out by a constant: the cycles with
`resume_session`, `new_session` and `context_report` by `Operations` of `StateLocks` in
`agents`. Every other deviation happens in the runs, and the property names it: the
accidents of a conversation, the profile of a resumed session, the process the code gave up,
the model that is gone from the picker, the image pasted before another, the line that was cut
short.

### Fairness

Fairness is stated per thread, and only for steps the runtime must take: a Tokio
task that can run is polled, a synchronous section is finished, a wait with a timeout
ends, a blocking job runs. Nothing forces a client to call, a user to answer or
type, a program to exit or a model to finish.

No write to a provider's stdin need ever end, since it has no deadline and
keeps its lock (providers/host/process.rs:255-261), nor a write to a
pseudo-terminal (tools/activity/interaction.rs:89). A liveness property says who may wait
for such a write, and that nobody else waits for ever.

- *Queue*: a run that nobody cancels may last for ever. A cancelled one unwinds after
  finitely many writes (strong fairness of its return), if they end; the owner's steps go
  on but for its own writes. `WorkEnds` excepts what a write holds up.
- *StateLocks* alone assumes strong fairness of lock acquisition, so that the
  counterexample of `locks_resume` owes nothing to starvation.
- *Questions*: tools, callers and the drain take their steps, and shutdown cancels
  every turn.
- *Account*: every call goes on but for the write of its request; once that is written, the
  provider answers or the call fails at its deadline. The authentication lock and the
  single refresh of a provider are held over a request, the mutation lock is not.
- *Host*: calls, readers and shutdown go on. A hanging provider may take up reading again
  or not; what writes to it and what waits for that lock, to kill it, is excepted by name
  (`Jammed`).
- *Turn*: the loop of either agent goes on unless a write, a tool, a question or the
  summary of a compaction holds it (`HeldUp`); a stream has an idle deadline, and a waiting
  parent its own.
- *Activities*: captures, joins and the router go on; a supervisor does when its command
  is stopped or its process has ended (a program need not exit). A write to a
  terminal ends once the process is gone, and otherwise only if the program reads. The lock of
  the input, which a poll may take again and again, is granted in the end (strong fairness
  of `CloseInput`).

## 4. What is proved

TLAPS checks these for every value of the constants. The assumptions are those named
`…Assumption` beside the CONSTANTS: the bounds are natural numbers, the sets that
are counted are finite, absent values (`None`, `nobody`, …) are no members of what
they are absent from, and limits that the code has positive are positive. Each
states what the code's constants and types say.

| Module | Theorem | Statement |
| --- | --- | --- |
| `SubmissionQueue_proofs` | `TypeCorrect`, `QueueCorrect` | `TypeOK`, `QueueInv` always |
| | `OneWorkerAlways`, `NoLostWakeup`, `SlotNamesTheWorkerAlways`, `TerminalIsGoneAlways`, `QuietAfterShutdownAlways`, `EventsAreTrueAlways` | the safety properties of the run |
| | `QueueImplementsContract` | `Spec => ContractHolds`, the refinement |
| | `LockOrderPreventsDeadlock` | operations that follow one numbering never deadlock |
| `AgentRegistry_proofs` | `WithoutKeeps` | what `retain` keeps of a list of any length |
| | `RegistryCorrect` | `RegistryInv` always |
| | `ResultNotLostAlways`, `RegistryBoundedAlways`, `WaiterNotLostAlways`, `InboxSettledAlways`, `ChildrenFollowParentAlways` | the properties of the run |
| `Questions_proofs` | `QuestionsCorrect`, `OneOwnerAlways`, `AcceptedIsDeliveredAlways` | `QuestionInv` and the safety properties |
| `ProviderHost_proofs` | `HostCorrect`, `NothingIsLeftAlways`, `AbandonedIsCancelledAlways` | `HostInv` and the safety properties |
| `ProviderAccount_proofs` | `AccountCorrect`, `AccountAgreesAlways`, `ConfigIsSelectionAlways`, `SavesStandAlways` | `AccountInv`, the two invariants and the action property `SavesStand` |
| `Activities_proofs` | `ActivitiesCorrect`, `LiveIsAccountedAlways`, `FinishedIsCompleteAlways`, `ShutdownReapsAlways` | `ActivityInv`, the two properties with the action property in the second, and the safety half of `ShutdownReapsAll` |
| `Conversation_proofs` | `FileAlwaysMatches`, `ActiveAlwaysReplayed`, `NothingEverForgotten` | the properties of the run, each until the accidents it names |
| | `ThresholdLeavesReserve`, `UncompactedFits`, `SummaryFits`, `WarningAgrees` | the arithmetic of the window, for all windows and configurations |
| `TerminalClient_proofs` | `ScreenAlwaysTrue`, `QuestionAlwaysShown`, `LateResultsStayInert`, `EnterAlwaysActs`, `TranscriptAlwaysFollows`, `FileAlwaysNewest` | four of the run's invariants and its two action properties |

None of the safety properties is inductive; these are the strengthenings, each
checked by TLC before it was proved.

**Queue.** `OneWorker` needs to know that the flag `worker_running` is set while a
task lives or a caller with the slot mutex is about to spawn one: `OwnershipInv`.
That a task can be aborted without clearing the flag makes the converse false
once shutdown joins: `ShutdownInv`, which also says that from the listing on every
active submission is cancelled or about to be. The contract needs to know where an
id stands: the pending ids are an interval that ends at `next_submission - 1`
(`PendingInv`), the one a worker holds is just below (`HeldInv`), and each below
that has ended (`StageInv`). The refinement maps `SubmitEnqueue` to `Accept`,
`RunStart` to `Start`, `WorkerPublish` to `End`, `BeginShutdown` to `Close`,
`ShutdownOver` to the end, and the rest to stutters.

**Locks.** If a group of threads waited on itself, the mutexes its members wait for
and hold would have one of highest rank; its holder is in the group, so it waits
for a higher one. That a finite rank has a maximum follows from the library's
fact that strict inclusion of finite sets is well founded, and the held locks are those of
the script's prefix (`GuardsInv`). The hypothesis, that every script follows the rank, is evaluated by
TLC in `MCLockOrder` for both groups of operations; no one numbering serves both,
which is the circle of three in section 5.

**Agents.** `RegistryInv` has eleven parts. `PermitInv` follows a mailbox place
from admission over mark and push to one reader, and `ListInv` and `RecordInv` say that only
what is done leaves the maps. `RecentInv` is the delicate one: the list exceeds its limit
because `retain_recent` stops at a pinned entry, and what bounds the excess is
that each pinned entry moved from the back to the front was moved by a new one; the
invariant carries the number moved. `TreeInv` orders a stop: a parent past its
listing has every running child in its cancellations. `RegistryBounded` says when admission
may be closed (`KeepsClosed`): during a discard, after one whose future was dropped, and after
shutdown. Retaining a list is
written by position, not with `SelectSeq`, so that what it keeps can be proved for
lists of any length: `WithoutKeeps`, by counting positions, used by mailbox and recent list.

**Conversation.** Transcript, active history and file are equal at rest only; in
between, an entry is in some and not yet in others. `PlaceInv` says where the threads
are (at most one has the compaction slot), `RunInv` what the worker is about to push
and where it belongs, `SwitchInv` that a session is switched between two runs. With
these, `FileInv`: the file replays the transcript without the entry on its way. For the
active history no step can be taken from equality, since a compaction replaces its
front; what is kept instead is that it *stands for* the transcript (`Stands`): it is the
transcript, or it ends as the transcript does, behind a summary that says what the rest
says, and the last two user messages are in that end. `ReplayInv` has this for the memory, for
each file on disk and for the plan of a compaction under way. Pushes keep `Stands`
on both sides, and a compaction makes a history that stands again, which is where
the index into the transcript (`first_kept_index`) has to be counted from the end. What
a history says is a `FlattenSeq`; that it goes through appends, concatenations and
slices is proved without induction over data: two functions that meet its recursion
differ first at a least index, where they cannot.

The invariant holds each part until what undoes it has happened, and that is in the model:
a torn record ends the types (`StoreType`), a session switched under a run besides
ends `FileInv`, and a client's compaction that runs beside anything else besides ends
`ReplayInv`. The theorems have no other hypothesis, and so say that nothing else, no
failed write, crash, resume, cancellation or compaction of the worker, does. Section 5 has
what each of the three accidents loses.

**Questions.** An open question is in exactly one of four places (in the registry,
in a caller's hand, in its channel, in the tool's), `OwnerInv` and `PlaceInv`; what was sent is what was
accepted or else a cancellation (`ResultInv`); a tool that registers late finds
its turn cancelled (`ShutdownInv`); and without an event under way the client differs from the
registry only by questions whose event is to come (`ViewInv`).

**Host.** `MapInv` and `OwnedInv` say who may have taken a process out of the map
and who will kill a failed one; `UnknownInv` that a process is nobody else's until
it is published; `PathInv` and `RouteInv` that a call has its routes in one process, the one
it works with, and that nothing came along a route that is still there; `TiedInv` that
who waits will be told; `ChatInv` what became of a chat the provider has. The
proof of `CallInv` goes over the shapes a step can give a call (it moves on,
returns, hears of the end of its routes, is answered) and not over the actions one by one.

**Account.** Without a lock held across an await, what a call captured is only as
good as the epoch it was captured with: `CapturedInv` (the epoch stands, so the credential it
was sent with is the stored one, or the one who changed it has not recorded it yet)
carries chats, listings and searches past the request, and
`RefreshInv` does the same for a refresh, which keeps its lock. `CatalogInv` and `SnapshotInv` say that a catalog belongs to the stored
credential and a snapshot on its way to the file to its generation; `BehindInv` that a file
that is behind will be written again. Everything is stated for providers that no aborted
login's job has written behind the back of the others (`torn`, section 5). For
the selection, `Agreement` gives the order, configuration, model, level, and which parts of
the profile a resumed session has written last (`borrowed`).

**Activities.** `StageInv` ties call, supervisor, process and capture of a command
together; `PermitInv` makes the counters the cardinalities of who holds a permit
(what lives without one is `GivenUp`);
`ListInv` keeps a command listed from its registration until it is over and recent,
which is where the two steps of a promotion that finds its command over (publish, then
retain) matter; `OutputInv` accounts for every byte between program and buffer;
`EventInv` puts a change before an end on the way through the channel; `JoinInv`
gives every handle one taker and, once shutdown has listed the commands, everyone who
lives a joiner; `FlushInv` keeps the flush behind the ends. `FinishedIsComplete`
also says that no later step adds to the output of a command that is over, which
follows from its capture being over.

**Client.** `ScreenIsTrue` needs to know whose the outstanding jobs are: `BackgroundInv`
(a job is running or its result waits, never both), `StateInv` (what the client believes to be
under way is), `AuthTaskInv` (the task it would abort is the one of the operation shown) and
`AbortedInv` (an aborted task has no job, and its result is only among those read in this
pump). From the last follows the action property, that such a result changes nothing. The other
one, `QuestionStaysShown`, goes over every step that sets the surface. That a catalog refresh is
left behind when its list is hidden makes `CatalogIsComing` a disjunction, kept by the
generations.
`ListInv` is the three properties of a list with their types, which are
inductive together, with the one exception of a model picker whose model is gone; `DialogInv` says what a finished page has chosen, and that what is
sent is what the pages have. `ProjectionInv` is about events that are still on their way:
the rows of output have an announcement before them or in the queue (`OutputIsLed`),
a prompt is known before its turn is (`PromptIsKnown`), and while client and core differ an event that makes
the client look again is under way (`LooksAgain`). `HistoryInv` counts the lines of
the prompt file while a client has the lock: with what it still has to write they are the
newest prompts (`NothingLost`), or all but one for each write that was cut short (`LinesLost`;
the remains behind the last whole line, `unended`, cost the next one). That
appending to the newest and then taking the newest is the same as appending to everything
(`NewestAppended`) makes the rewrite harmless.

**Only model-checked.** Liveness (`WorkEnds`, `QuestionsEnd`, `EveryCallReturns`,
`EveryCallEnds`, `ShutdownEnds`, `RunsEnd`): TLAPS has no support for `ENABLED`
and fairness. `ReportIsExact`: `ChildTranscript` and `OutputCapture` trim with recursive
operators. `DraftIsTypedText`: the draft is a fold over tokens whose ranges
each edit shifts, in any order. `RequestIsSound`, `ScopesAreRead` and `ChildIsOneRun`: their parts fold
over histories and chains of profiles, and no inductive invariant is written yet.

## 5. Where the code and its documents disagree

Three have a run that shows them:

1. **`locks_resume`**: `resume_session` keeps the queue locked while it restores
   the saved profile and takes `selected_model` (core/session_api.rs:231);
   `snapshot` takes the two in the other order. Two threads can wait for each other
   for ever.
2. **`switch_under_run`**: "session switching is rejected while active or queued work
   exists" (docs/architecture.md:79), but a cancelled submission is not shown as active
   although its task still runs (core/session_api.rs:196), and it writes into the next
   conversation. The terminal client cancels and switches without awaiting the end
   (client/interrupts.rs:59-66, client/sessions.rs:32-42).
3. **`child_overflow`**: `run_child` takes `captured` once and slices
   `history[captured..]` after the overflow compaction has made the history shorter
   (core/agents/spawn.rs:236): the task panics and the child never finishes.

Met while reading and modelling, without a run of their own.

*Writes without a bound.* A message to a provider is written under the lock on its stdin
without a deadline (providers/host/process.rs:255-261; providers/host.rs:26-28 says that every
wait is bounded). A provider that stops reading blocks every writer, a request before its
deadline starts (host.rs:308-309), the cancellation of a submission (core/queue.rs:240),
the kill of its own process (process.rs:364-368), with the authentication lock of who asks, and
shutdown with its notice (core.rs:595), which then never ends.

*Locks and queue.* `context_report` locks the main instruction session and then, in
`discover_roles`, the runtime; the prologue of a run takes them in the other order
(core/context_report.rs:44, core/compaction/metrics.rs:42-49). A circle of three:
`persist_model_change` takes session then selected_thinking, `snapshot` selected_thinking
then submission_queue, `new_session` submission_queue then session. "No mutator holds
more than one of them" (core/snapshot.rs:61-62) does not hold for session switches.

*Agents.* A stop between the announcement of a new agent and `attach_active` returns
Ok and stops nothing (core/agents/record.rs:46), so no property says that a stop is
heeded. A `discard_agent_state` whose future is dropped while it waits leaves admission closed for
good, and one that ends after shutdown closed admission opens it again (core.rs:468-475,
580). `agent_wait` does not see a cancellation sent before it subscribed
(core/agents/registry.rs:294) until its timeout. A spawn that passed the admission check
just before a discard registers under the new generation and outlives it
(registry.rs:119). A swept agent that finishes after the discard stays in the recent list
(registry.rs:449-464), and its id may stay in the mailbox until it is read. The recent list exceeds its
limit by up to the number of pinned entries. A message for an agent whose turns are
used up is accepted and dropped (record.rs:82). `agent_stop` stops descendants too,
which its tool text does not say (tools.rs:68).

*Conversation.* What is pushed while a client's compaction (the command, or one called for
by a model selection) awaits its summary is forgotten: the tail of the clone is written
back (core/compaction.rs:280), where compaction.rs:35 returns an error "while work is
active", which a cancelled submission that still runs is not taken for, and
docs/architecture.md:137 keeps the recent user turns. After a
restart within a write the first record of the resumed session lands on the torn
line (core/session.rs:577). A dropped `compact` future leaves the slot taken
(core/compaction.rs:361). A summary may be asked for more tokens than a window
below 2000 has (core/compaction/metrics.rs:113). The popup shows 100 % for the last
hundredth of the window without a warning.

*Turns.* The transcript of a child that was compacted after an overflow may lack calls or
have them twice, when it does not die (core/agents/spawn.rs:223-242): `captured` is not
moved with the history. Start, refresh and summary requests, tools and questions are not
selected on cancellation or have no deadline (core/turn/stream.rs:39, 54-58), so a cancelled
submission may wait in one for ever. A source the 32 KiB limit of the chain leaves out entirely is marked
truncated without a warning (docs/tui-client.md:76-78). The calls and results of a
halted batch are still emitted to clients (core/turn/preflight.rs:97). A fresh child with one
entry has nothing to compact, and its overflow is terminal where a fallback was allowed.

*Account.* The save of an aborted login goes on unrecorded
(core/authentication.rs:469; docs/tui-client.md:204-207). `usage` stores rotated
credentials without comparing epochs (core/usage.rs:62). A chat sends the level as it
is at dispatch with the model as it was at submission (docs/provider-plugins.md:212).
`fetch_models` ignores `credentials` in an answer (docs/provider-plugins.md:94-98). After a
resumed session, selecting a level writes it next to the configuration's other model
(core/model_selection.rs:209-215), where config.rs:139 speaks of the level paired with the model.
`selected_profile` reads under two locks (core.rs:318: "atomically").

*Host.* `cancel_request` can start a
fresh process only to send it a cancellation. A failure kills whichever process is
in the map. An error reply with `id: null`, which the SDK sends, fails the process. A process may fail
while it is unpublished and is published all the same.

*Activities.* A second joiner finds the handle taken and does not wait, so shutdown
can return before a child's `stop_owner` has finished (tools/activity/record.rs:138);
`ShutdownReaps` says so. A kill that fails, a wait that fails or a reap that takes longer
than five seconds finishes the record and frees the permit while the process may live
(tools/activity/process.rs:87, 136-145; pty.rs:171-177), and a pipe command whose wait fails is
not even killed. A shell whose reader or writer cannot be had is dropped running, without a
record (pty.rs:47-50). A write to a pseudo-terminal keeps the lock of the input
while the program does not read, and a stop and shutdown wait for it (docs/architecture.md:93-94).
A command that is over when it is promoted is delivered as terminal twice. The omission marker
comes last when all bytes fit. An oversized entry of a child's transcript is
measured in characters and may be dropped itself. Lossy and lossless subscribers
may see two emitters in different orders.

*Client.* With an image pasted before another, taking the tokens out of the text slices at
ranges that have moved: the submission panics, or with text enough behind them takes typed
text away instead (tui/composer_attachment.rs:150-153). The operation of a catalog refresh whose
result comes while another view hides the list is never finished (model_view.rs:30-34), and
`/provider` refuses every action until a list is left for the input once
(client.rs:520-522, state.rs:631). A refresh of the model picker in which the selected model is gone
selects nothing, and Enter does nothing (model_picker.rs:174-178, list.rs:188-196; its
comment, model_picker.rs:70, retains the selected model). A line of the prompt file that is cut
inside a character makes every later load and append fail (history.rs:107-108), and a write
that fails after the file was emptied loses what it held (history.rs:97-101). A question asked while an operation's result
opens a view is hidden (client/operation_result.rs:355; docs/tui-client.md:149). The
transcript of a session switched to may keep rows of the one before (client/sessions.rs:36).
A late client loses the separator of a turn (state/events.rs:49). Escape on the confirmation of a discard keeps
the pending switch. A ticked "Other" without text is sent blank and rejected.
Some of these are within the properties as stated: `TranscriptFollowsTurns` speaks of this
conversation's rows and lets a separator be missing, `EnterActsOnWhatIsShown` names the blank answer.

## 6. What is not modelled

Within the modelled components:

- *Queue*: the forwarding of a cancellation to the turn's futures.
- *Locks*: the mutexes of registry, activities and host, which are never held
  across calls into `CoreState`.
- *Agents*: task names, token counts; the attempts along the chain are in `TurnLoop`
  for one child.
- *Conversation*: headers, images, listing and naming of sessions; a child's compaction.
- *Turn*: the choice of roles and candidates, path resolution, texts.
- *Account*: `auth.status`, parsing of catalogs, ranking of a search.
- *Host*: several providers (independent), parsing of frames (one step).
- *Activities*: validation of arguments and texts.
- *Client*: slash-command popup, usage, mouse, clipboard, wide cells, drawing.

Out of reach or not worth a model: redaction and manifest parsing (pure string
functions with unit tests), file and image tools (no state), roles and paths (file
input and text), the herdr reporter and rendering (output only), wire formats of remote
services (external).

## 7. Plan

Modelled, checked and proved: queue, lock order, agents, questions, conversation, account,
host, activities, window budget, and the client but for its composer. What is left, in the
order of importance:

1. Turn loop: the parts of `RequestIsSound` and `ScopesAreRead` that do not fold
   over histories (`ToolsKnowTheirScope`, `TurnsAreBounded`, `RetriesAreForgotten`).
2. Composer: that token ranges stay disjoint and within the text, in any order, as the
   core of `DraftIsTypedText`.
3. Several clients that compact one conversation, once the code decides who may.
