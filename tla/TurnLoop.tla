------------------------------ MODULE TurnLoop ------------------------------
(***************************************************************************)
(* The loop of model turns, for the main agent and one child it spawns:    *)
(* the request with its history and instruction scopes, the stream and the *)
(* response in either order, preflight of the tool batch, the tools one    *)
(* after the other, and what follows the end of a run: one compaction      *)
(* after an overflow, the next profile, the child's inbox.                 *)
(***************************************************************************)
EXTENDS Instructions, TLC

CONSTANTS MaxModelTurns,  \* model turns of one run
          MaxImages,        \* images one request may carry
          Profiles,         \* length of the child's chain of profiles
          Sighted,          \* the profiles whose model takes images
          Denied,           \* tools the child's role does not allow
          Prior,            \* entries of the main history before the first submission
          Plans             \* bounds of the behaviours: the calls models may make [tool, dir] and how many,
                            \* the submissions, attachments and messages, the forks and whether a child
                            \* runs in the background, and the nested files

Owners == {"main", "child"}

VARIABLES turn,      \* [Owners -> the run of that agent]
          cancelled,   \* [Owners -> the flag of its active submission]
          session,     \* [Owners -> its instruction session]
          budget,      \* what the conversation's sessions have reserved
          plan,        \* what this behaviour is bounded by, its files on disk
          recorded,    \* the canonical history of the main conversation
          inbox,       \* the child's inbox: messages waiting, and whether it is open
          issued       \* calls made and submissions and messages sent so far
vars == <<turn, cancelled, session, budget, plan, recorded, inbox, issued>>

NoStream == [text |-> FALSE, calls |-> <<>>, response |-> FALSE, completed |-> FALSE]
Success == [kind |-> "ok", unsafe |-> FALSE]
Failure(kind, unsafe) == [kind |-> kind, unsafe |-> unsafe]
\* What an error of the host or the remote service, or a stream's failure, is taken for.
FailureKinds == {"context", "retryable", "terminal"}
AllowsFallback(failure) == ~failure.unsafe /\ failure.kind \in {"context", "retryable"}

Idle == [pc |-> "idle", history |-> <<>>, ephemeral |-> 0, remaining |-> 0, prompt |-> {},
         stream |-> NoStream, results |-> <<>>, images |-> 0, profile |-> 1, retried |-> FALSE,
         closed |-> FALSE, captured |-> 0, transcript |-> <<>>, outcome |-> Success,
         ran |-> {}, requests |-> 0, inherited |-> {}, compacted |-> FALSE]   \* the last four only observe

Entry(role) == [role |-> role, text |-> FALSE, calls |-> <<>>, results |-> <<>>, images |-> 0]
UserEntry == Entry("user")
AssistantEntry(stream) == [Entry("assistant") EXCEPT !.text = stream.text, !.calls = stream.calls]
ToolEntry(results) == [Entry("tool") EXCEPT !.results = results]
Result(call, kind, images) == [id |-> call.id, kind |-> kind, images |-> images]

CallIds(history) == FlattenSeq([i \in DOMAIN history |-> [j \in DOMAIN history[i].calls |-> history[i].calls[j].id]])
ImagesOf(items) == FoldSeq(LAMBDA x, n : x.images + n, 0, items)
HistoryImages(history) == FoldSeq(LAMBDA e, n : e.images + ImagesOf(e.results) + n, 0, history)

TurnInit ==
  /\ plan \in Plans
  /\ turn = [o \in Owners |-> [Idle EXCEPT !.history = IF o = "main" THEN Prior ELSE <<>>]]
  /\ cancelled = [o \in Owners |-> FALSE]
  /\ session = [o \in Owners |-> [NewSession EXCEPT !.live = o = "main"]]
  /\ budget = BaseBudget
  /\ recorded = Prior
  /\ inbox = [waiting |-> 0, open |-> FALSE]
  /\ issued = [calls |-> 0, submissions |-> 0, messages |-> 0]

-----------------------------------------------------------------------------
(***************************************************************************)
(* A submission of the main agent.                                         *)
(***************************************************************************)
\* The loop starts over: the images in the history are counted anew.
Running(t, turns) == [t EXCEPT !.pc = "loop", !.remaining = turns, !.images = HistoryImages(t.history),
                               !.outcome = Success]

\* New attachments take the place of every image the history still holds.
ClearImages(history) ==
  [i \in DOMAIN history |-> [history[i] EXCEPT !.images = 0, !.results = [j \in DOMAIN @ |-> [@[j] EXCEPT !.images = 0]]]]
Attached(history, images) ==
  Append(IF images > 0 THEN ClearImages(history) ELSE history, [UserEntry EXCEPT !.images = images])

RunSubmission(images) ==
  /\ turn["main"].pc = "idle"
  /\ issued.submissions < plan.submissions
  /\ turn' = [turn EXCEPT !["main"] =
                Running([@ EXCEPT !.history = Attached(@, images), !.closed = FALSE, !.retried = FALSE,
                                  !.requests = 0], MaxModelTurns)]
  /\ session' = [session EXCEPT !["main"] = Inactive(@)]
  /\ cancelled' = [cancelled EXCEPT !["main"] = FALSE]
  /\ recorded' = Attached(recorded, images)
  /\ issued' = [issued EXCEPT !.submissions = @ + 1]
  /\ UNCHANGED <<budget, plan, inbox>>

\* The user cancels a submission, or somebody stops the child.
Cancel(o) ==
  /\ turn[o].pc \notin {"idle", "done", "panicked"}
  /\ ~cancelled[o]
  /\ cancelled' = [cancelled EXCEPT ![o] = TRUE]
  /\ UNCHANGED <<turn, session, budget, plan, recorded, inbox, issued>>

-----------------------------------------------------------------------------
(***************************************************************************)
(* One model turn.                                                         *)
(***************************************************************************)

RemoveEphemeral(t) ==
  [t EXCEPT !.history = SubSeq(@, 1, Len(@) - t.ephemeral), !.ephemeral = 0]

\* A run ends with an outcome; the pair of a halted batch goes with it.
Ended(t, outcome) == [RemoveEphemeral(t) EXCEPT !.pc = "ended", !.outcome = outcome, !.stream = NoStream,
                                                !.prompt = {}, !.results = <<>>, !.ran = {}]

\* The system prompt of a request shows the files that are active when it is sent.
PromptScopes(o) == session[o].active

StartTurn(o) ==
  /\ turn[o].pc = "loop"
  /\ turn' = [turn EXCEPT ![o] =
       IF turn[o].remaining = 0 THEN Ended(@, Failure("terminal", FALSE))
       ELSE IF cancelled[o] THEN Ended([@ EXCEPT !.remaining = @ - 1], Failure("cancelled", FALSE))
       ELSE [@ EXCEPT !.pc = "sending", !.remaining = @ - 1, !.requests = @ + 1, !.prompt = PromptScopes(o)]]
  /\ UNCHANGED <<cancelled, session, budget, plan, recorded, inbox, issued>>

\* Credentials that expire are refreshed, then the request is written; no cancellation is looked at meanwhile.
SendRequest(o) ==
  /\ turn[o].pc = "sending"
  /\ turn' = [turn EXCEPT ![o].pc = "streaming"]
  /\ UNCHANGED <<cancelled, session, budget, plan, recorded, inbox, issued>>

StartFails(o) ==
  /\ turn[o].pc = "sending"
  /\ \E kind \in FailureKinds : turn' = [turn EXCEPT ![o] = Ended(@, Failure(kind, FALSE))]
  /\ UNCHANGED <<cancelled, session, budget, plan, recorded, inbox, issued>>

\* A stream that has both its response and its end is the model's turn.
Collected(t, stream) ==
  [t EXCEPT !.stream = stream, !.pc = IF stream.response /\ stream.completed THEN "answered" ELSE @]

AppendText(o) ==
  /\ turn[o].pc = "streaming" /\ ~turn[o].stream.completed /\ ~turn[o].stream.text
  /\ turn' = [turn EXCEPT ![o].stream.text = TRUE, ![o].closed = TRUE]
  /\ UNCHANGED <<cancelled, session, budget, plan, recorded, inbox, issued>>

AppendToolCall(o) ==
  /\ turn[o].pc = "streaming" /\ ~turn[o].stream.completed
  /\ issued.calls < plan.calls
  /\ \E call \in plan.tools :
       turn' = [turn EXCEPT ![o].stream.calls = Append(@, call @@ [id |-> issued.calls + 1]), ![o].closed = TRUE]
  /\ issued' = [issued EXCEPT !.calls = @ + 1]
  /\ UNCHANGED <<cancelled, session, budget, plan, recorded, inbox>>

StreamCompleted(o) ==
  /\ turn[o].pc = "streaming" /\ ~turn[o].stream.completed
  /\ turn' = [turn EXCEPT ![o] = Collected(@, [@.stream EXCEPT !.completed = TRUE])]
  /\ UNCHANGED <<cancelled, session, budget, plan, recorded, inbox, issued>>

RecordResponse(o) ==
  /\ turn[o].pc = "streaming" /\ ~turn[o].stream.response
  /\ turn' = [turn EXCEPT ![o] = Collected(@, [@.stream EXCEPT !.response = TRUE])]
  /\ UNCHANGED <<cancelled, session, budget, plan, recorded, inbox, issued>>

\* What the model said before the failure makes it unsafe to ask again.
HasUnsafeOutput(stream) == stream.text \/ stream.calls # <<>>

Telling(t, outcome) == [t EXCEPT !.pc = "telling", !.outcome = outcome, !.stream = NoStream]

\* A failed stream or response, a lost route, the idle deadline.
TurnFails(o) ==
  /\ turn[o].pc = "streaming"
  /\ \E kind \in FailureKinds :
       turn' = [turn EXCEPT ![o] = Telling(@, Failure(kind, HasUnsafeOutput(@.stream)))]
  /\ UNCHANGED <<cancelled, session, budget, plan, recorded, inbox, issued>>

TurnCancelled(o) ==
  /\ turn[o].pc = "streaming" /\ cancelled[o]
  /\ turn' = [turn EXCEPT ![o] = Telling(@, Failure("cancelled", FALSE))]
  /\ UNCHANGED <<cancelled, session, budget, plan, recorded, inbox, issued>>

\* The provider is told that nobody reads the stream any more.
CancelRequest(o) ==
  /\ turn[o].pc = "telling"
  /\ turn' = [turn EXCEPT ![o] = Ended(@, @.outcome)]
  /\ UNCHANGED <<cancelled, session, budget, plan, recorded, inbox, issued>>

-----------------------------------------------------------------------------
(***************************************************************************)
(* What the turn asked for: nothing more, or a batch of tools.             *)
(***************************************************************************)
\* Only the main conversation is recorded, and no halted pair of it.
Recorded(o, entries) == IF o = "main" THEN recorded \o entries ELSE recorded

\* Arguments that do not validate have their result before anything else is looked at.
Prepared(call) == call.tool # "invalid"
TargetsOfFirst(calls) == {calls[1].dir : i \in {j \in {1} : Prepared(calls[1])}} \ {"none"}

Targets(calls) == {calls[i].dir : i \in {j \in DOMAIN calls : Prepared(calls[j])}} \ {"none"}

HaltedResults(calls) ==
  [i \in DOMAIN calls |-> Result(calls[i], IF Prepared(calls[i]) THEN "retry" ELSE "error", 0)]

Answer(o, t) ==
  /\ t.stream.calls = <<>>
  /\ turn' = [turn EXCEPT ![o] = Ended([t EXCEPT !.history = Append(@, AssistantEntry(t.stream))], Success)]
  /\ recorded' = Recorded(o, <<AssistantEntry(t.stream)>>)
  /\ UNCHANGED <<session, budget>>

\* New or blocked scopes halt the whole batch; otherwise its tools are dispatched.
Preflight(o, t) ==
  LET calls == t.stream.calls
      found == Discover(session[o], budget, plan.disk, Targets(calls))
      halted == found.activated \/ found.error
  IN /\ calls # <<>>
     /\ session' = [session EXCEPT ![o] = found.session]
     /\ budget' = found.budget
     /\ turn' = [turn EXCEPT ![o] =
          IF halted
            THEN [t EXCEPT !.pc = "loop", !.ephemeral = 2, !.stream = NoStream, !.prompt = {},
                           !.history = @ \o <<AssistantEntry(t.stream), ToolEntry(HaltedResults(calls))>>]
            ELSE [t EXCEPT !.pc = "dispatching", !.history = Append(@, AssistantEntry(t.stream))]]
     /\ recorded' = IF halted THEN recorded ELSE Recorded(o, <<AssistantEntry(t.stream)>>)

TakeTurn(o) ==
  /\ turn[o].pc = "answered"
  /\ LET t == RemoveEphemeral(turn[o])
     IN IF cancelled[o]
          THEN /\ turn' = [turn EXCEPT ![o] = Ended(t, Failure("cancelled", FALSE))]
               /\ UNCHANGED <<session, budget, recorded>>
          ELSE Answer(o, t) \/ Preflight(o, t)
  /\ UNCHANGED <<cancelled, plan, inbox, issued>>

-----------------------------------------------------------------------------
(***************************************************************************)
(* The tools of a batch, in the order of the calls.                        *)
(***************************************************************************)
NextCall(o) == turn[o].stream.calls[Len(turn[o].results) + 1]

\* Why a call gets an error without being run.
Refused(o, call) ==
  \/ ~Prepared(call)
  \/ cancelled[o]
  \/ o = "child" /\ call.tool \in Denied
  \/ call.tool = "view_image" /\ turn[o].profile \notin Sighted

\* A result whose image would exceed the request's budget is replaced by an error.
Budgeted(t, call, images) ==
  IF t.images + images > MaxImages
    THEN [t EXCEPT !.results = Append(@, Result(call, "error", 0))]
    ELSE [t EXCEPT !.results = Append(@, Result(call, "done", images)), !.images = @ + images]

Ran(t, call) == [t EXCEPT !.ran = @ \cup {call.dir}]

DispatchTool(o) ==
  /\ turn[o].pc = "dispatching"
  /\ Len(turn[o].results) < Len(turn[o].stream.calls)
  /\ LET call == NextCall(o)
     IN IF Refused(o, call)
          THEN turn' = [turn EXCEPT ![o].results = Append(@, Result(call, "error", 0))]
          ELSE /\ call.tool # "spawn_agent"
               /\ \E images \in (IF call.tool = "view_image" THEN {0, 1} ELSE {0}) :
                    turn' = [turn EXCEPT ![o] = Budgeted(Ran(@, call), call, images)]
  /\ UNCHANGED <<cancelled, session, budget, plan, recorded, inbox, issued>>

FinishBatch(o) ==
  /\ turn[o].pc = "dispatching"
  /\ Len(turn[o].results) = Len(turn[o].stream.calls)
  /\ turn' = [turn EXCEPT ![o].pc = "loop", ![o].stream = NoStream, ![o].prompt = {},
                          ![o].results = <<>>, ![o].ran = {},
                          ![o].history = Append(@, ToolEntry(turn[o].results))]
  /\ recorded' = Recorded(o, <<ToolEntry(turn[o].results)>>)
  /\ UNCHANGED <<cancelled, session, budget, plan, inbox, issued>>

-----------------------------------------------------------------------------
(***************************************************************************)
(* A child forks what is complete of its parent's history.                 *)
(***************************************************************************)
ForkableWhole(history) == history

ForkablePrefix(history) ==
  LET completed(call) == \E i \in DOMAIN history : \E r \in ToSet(history[i].results) : r.id = call.id
      open == {i \in DOMAIN history : \E c \in ToSet(history[i].calls) : ~completed(c)}
  IN SubSeq(history, 1, IF open = {} THEN Len(history) ELSE Min(open) - 1)

UserTurns(history) == {i \in DOMAIN history : history[i].role = "user"}

\* All of it, nothing, or what follows the last of its user entries.
ForkPrefix(prefix, fork) ==
  LET users == UserTurns(prefix)
  IN CASE fork = "all" -> prefix
       [] fork = "none" -> <<>>
       [] fork = "last" -> SubSeq(prefix, IF users = {} THEN 1 ELSE Max(users), Len(prefix))

IsAgentTool(call) == call.tool = "spawn_agent"

ChildHistory(prefix) ==
  LET removed(id) == \E i \in DOMAIN prefix : \E c \in ToSet(prefix[i].calls) : IsAgentTool(c) /\ c.id = id
      strip(e) == [e EXCEPT !.calls = SelectSeq(@, LAMBDA c : ~IsAgentTool(c)),
                            !.results = SelectSeq(@, LAMBDA r : ~removed(r.id))]
      empty(e) == e.role = "assistant" /\ ~e.text /\ e.calls = <<>> /\ e.results = <<>>
  IN Append(SelectSeq([i \in DOMAIN prefix |-> strip(prefix[i])], LAMBDA e : ~empty(e)), UserEntry)

Forked(history) == Running([Idle EXCEPT !.history = history, !.captured = Len(history), !.inherited = ToSet(CallIds(history))], MaxModelTurns)

\* A background child answers the call at once, another one when it is done.
Spawn(fork, background) ==
  /\ turn["main"].pc = "dispatching" /\ turn["child"].pc = "idle"
  /\ Len(turn["main"].results) < Len(turn["main"].stream.calls)
  /\ ~Refused("main", NextCall("main")) /\ NextCall("main").tool = "spawn_agent"
  /\ LET main == IF background THEN Budgeted(turn["main"], NextCall("main"), 0)
                 ELSE [turn["main"] EXCEPT !.pc = "waiting"]
     IN \E complete \in {ForkablePrefix(turn["main"].history)} :
        \E history \in {ChildHistory(ForkPrefix(complete, fork))} :
          turn' = [main |-> main, child |-> Forked(history)]
  /\ session' = [session EXCEPT !["child"] = NewSession]
  /\ inbox' = [waiting |-> 0, open |-> TRUE]
  /\ UNCHANGED <<cancelled, budget, plan, recorded, issued>>

\* The tree holds one child: a second one is not registered.
SpawnFails ==
  /\ turn["main"].pc = "dispatching" /\ turn["child"].pc # "idle"
  /\ Len(turn["main"].results) < Len(turn["main"].stream.calls)
  /\ ~Refused("main", NextCall("main")) /\ NextCall("main").tool = "spawn_agent"
  /\ turn' = [turn EXCEPT !["main"].results = Append(@, Result(NextCall("main"), "error", 0))]
  /\ UNCHANGED <<cancelled, session, budget, plan, recorded, inbox, issued>>

SpawnReturns(t) == [Budgeted(t, t.stream.calls[Len(t.results) + 1], 0) EXCEPT !.pc = "dispatching"]

\* The waiting parent sees the child's end.
WaitForSync ==
  /\ turn["main"].pc = "waiting" /\ turn["child"].pc = "done"
  /\ turn' = [turn EXCEPT !["main"] = SpawnReturns(@)]
  /\ UNCHANGED <<cancelled, session, budget, plan, recorded, inbox, issued>>

SyncGivesUpIfCancelled ==
  /\ turn["main"].pc = "waiting" /\ turn["child"].pc # "done"
  /\ cancelled["main"]
  /\ turn' = [turn EXCEPT !["main"] = SpawnReturns(@)]
  /\ cancelled' = [cancelled EXCEPT !["child"] = TRUE]
  /\ UNCHANGED <<session, budget, plan, recorded, inbox, issued>>

\* It is cancelled itself, or the deadline passes: it stops the child and gives up on it.
SyncGivesUp ==
  /\ turn["main"].pc = "waiting" /\ turn["child"].pc # "done"
  /\ turn' = [turn EXCEPT !["main"] = SpawnReturns(@)]
  /\ cancelled' = [cancelled EXCEPT !["child"] = TRUE]
  /\ UNCHANGED <<session, budget, plan, recorded, inbox, issued>>

Message ==
  /\ inbox.open
  /\ issued.messages < plan.messages
  /\ inbox' = [inbox EXCEPT !.waiting = @ + 1]
  /\ issued' = [issued EXCEPT !.messages = @ + 1]
  /\ UNCHANGED <<turn, cancelled, session, budget, plan, recorded>>

-----------------------------------------------------------------------------
(***************************************************************************)
(* What follows a run.                                                     *)
(***************************************************************************)
\* Compaction keeps the entries from the last but one user entry on.
PreservedTailStart(history) == Max(UserTurns(history) \ {Max(UserTurns(history))})
Compactable(history) == Cardinality(UserTurns(history)) > 1 /\ PreservedTailStart(history) > 1
Compacted(t) ==
  [t EXCEPT !.history = <<UserEntry>> \o SubSeq(@, PreservedTailStart(@), Len(@)), !.retried = TRUE, !.compacted = TRUE]

OverflowRetry(t) == t.outcome.kind = "context" /\ AllowsFallback(t.outcome) /\ ~t.retried

EndSubmission ==
  /\ turn["main"].pc = "ended"
  /\ LET t == turn["main"]
     IN \/ /\ OverflowRetry(t) /\ Compactable(t.history) /\ ~cancelled["main"]
           /\ turn' = [turn EXCEPT !["main"] = Running(Compacted(t), MaxModelTurns)]
           /\ UNCHANGED session
        \/ /\ turn' = [turn EXCEPT !["main"].pc = "idle"]
           /\ session' = [session EXCEPT !["main"] = Inactive(@)]
  /\ UNCHANGED <<cancelled, budget, plan, recorded, inbox, issued>>

\* The entries since the last look go into the child's transcript.
Capture(t) ==
  LET news == SubSeq(t.history, t.captured + 1, Len(t.history))
  IN [t EXCEPT !.transcript = @ \o CallIds(news)]

\* The slice starts behind the end of a history that compaction made shorter.
CapturePanics ==
  /\ turn["child"].pc = "ended"
  /\ turn["child"].captured > Len(turn["child"].history)
  /\ turn' = [turn EXCEPT !["child"].pc = "panicked"]
  /\ session' = [session EXCEPT !["child"] = Dropped(@)]
  /\ budget' = Released(budget, session["child"])
  /\ UNCHANGED <<cancelled, plan, recorded, inbox, issued>>

\* The last look at the inbox of a run that succeeded closes it; then its commands are stopped.
FinishChild(t) ==
  /\ turn' = [turn EXCEPT !["child"] = [t EXCEPT !.pc = "stopping"]]
  /\ inbox' = [inbox EXCEPT !.open = @ /\ t.outcome.kind # "ok"]
  /\ UNCHANGED <<session, budget>>

ChildFinished ==
  /\ turn["child"].pc = "stopping"
  /\ turn' = [turn EXCEPT !["child"].pc = "done"]
  /\ session' = [session EXCEPT !["child"] = Dropped(Inactive(@))]
  /\ budget' = Released(budget, session["child"])
  /\ inbox' = [inbox EXCEPT !.open = FALSE]
  /\ UNCHANGED <<cancelled, plan, recorded, issued>>

\* Messages that arrived meanwhile are a new task: the session starts over.
ContinueChild(t) ==
  /\ turn' = [turn EXCEPT !["child"] =
       LET history == t.history \o [i \in 1..inbox.waiting |-> UserEntry]
       IN Running([t EXCEPT !.history = history, !.captured = Len(history)], t.remaining)]
  /\ session' = [session EXCEPT !["child"] = Inactive(@)]
  /\ inbox' = [inbox EXCEPT !.waiting = 0]
  /\ UNCHANGED budget

NextProfile(t) ==
  /\ turn' = [turn EXCEPT !["child"] = Running([t EXCEPT !.profile = @ + 1, !.retried = FALSE], t.remaining)]
  /\ UNCHANGED <<session, budget, inbox>>

CompactAgent(t) ==
  /\ turn' = [turn EXCEPT !["child"] = Running(Compacted(t), t.remaining)]
  /\ UNCHANGED <<session, budget, inbox>>

MayFallBackLate(t) == AllowsFallback(t.outcome) /\ t.profile < Profiles

MayFallBack(t) == AllowsFallback(t.outcome) /\ ~t.closed /\ t.profile < Profiles

EndChildRun ==
  /\ turn["child"].pc = "ended"
  /\ turn["child"].captured <= Len(turn["child"].history)
  /\ LET t == Capture(turn["child"])
     IN CASE OverflowRetry(t) -> \/ Compactable(t.history) /\ ~cancelled["child"] /\ CompactAgent(t)
                                 \/ FinishChild(t)
          [] t.outcome.kind = "ok" /\ inbox.waiting > 0 /\ t.remaining > 0 -> ContinueChild(t)
          [] MayFallBack(t) /\ ~cancelled["child"] /\ ~OverflowRetry(t) -> NextProfile(t)
          [] OTHER -> FinishChild(t)
  /\ UNCHANGED <<cancelled, plan, recorded, issued>>

-----------------------------------------------------------------------------
Turn(o) == \/ StartTurn(o) \/ SendRequest(o) \/ StartFails(o) \/ CancelRequest(o) \/ AppendText(o) \/ AppendToolCall(o) \/ StreamCompleted(o) \/ RecordResponse(o)
           \/ TurnFails(o) \/ TurnCancelled(o) \/ TakeTurn(o) \/ DispatchTool(o) \/ FinishBatch(o)

SpawnAgent == SpawnFails \/ \E fork \in plan.forks, background \in plan.background : Spawn(fork, background)

Main == Turn("main") \/ SpawnAgent \/ WaitForSync \/ SyncGivesUp \/ EndSubmission
Child == Turn("child") \/ EndChildRun \/ ChildFinished \/ CapturePanics

TurnNext == \/ \E images \in plan.attachments : RunSubmission(images)
            \/ \E o \in Owners : Cancel(o)
            \/ Message \/ Main \/ Child

TurnSpec == TurnInit /\ [][TurnNext]_vars

\* Where nothing bounds a wait: a write to a provider, of a request, a refresh, a summary or a
\* cancellation; a tool, as a question to the user; the input of a command that is to be stopped.
HeldUp(o) ==
  \/ turn[o].pc \in {"sending", "telling", "stopping"}
  \/ turn[o].pc = "ended" /\ OverflowRetry(turn[o])
  \/ /\ turn[o].pc = "dispatching" /\ Len(turn[o].results) < Len(turn[o].stream.calls)
     /\ ~Refused(o, NextCall(o))

\* A stream has an idle deadline, a waiting parent its deadline, and the rest waits for nothing.
FairTurnSpec == TurnSpec /\ WF_vars(~HeldUp("main") /\ Main) /\ WF_vars(~HeldUp("child") /\ Child)

-----------------------------------------------------------------------------
(***************************************************************************)
(* Properties.                                                             *)
(***************************************************************************)
Resting == {"idle", "done", "panicked"}

TurnTypeOK ==
  /\ \A o \in Owners :
       /\ turn[o].pc \in Resting \cup {"loop", "sending", "streaming", "telling", "answered", "dispatching",
                                      "waiting", "ended", "stopping"}
       /\ turn[o].ephemeral \in {0, 2}
       /\ turn[o].remaining \in 0..MaxModelTurns
       /\ Len(turn[o].results) <= Len(turn[o].stream.calls)
       /\ session[o].active \subseteq DOMAIN session[o].nested
       /\ \A d \in DOMAIN session[o].nested : session[o].nested[d] \in Files
  /\ inbox.waiting \in 0..plan.messages

Paired(history) ==
  /\ \A i \in DOMAIN history : history[i].calls # <<>> => i < Len(history)
  /\ \A i \in 1..(Len(history) - 1) :
       [j \in DOMAIN history[i].calls |-> history[i].calls[j].id] =
       [j \in DOMAIN history[i + 1].results |-> history[i + 1].results[j].id]

RequestIsPaired == \A o \in Owners : turn[o].pc = "sending" => Paired(turn[o].history)

RetryEntries(history) == {i \in DOMAIN history : \E r \in ToSet(history[i].results) : r.kind = "retry"}

RetriesAreForgotten ==
  /\ RetryEntries(recorded) = {}
  /\ \A o \in Owners :
       /\ \A i \in RetryEntries(turn[o].history) :
            i = Len(turn[o].history) /\ turn[o].pc \in {"loop", "sending", "streaming", "telling", "answered"}
       /\ \A i \in RetryEntries(turn[o].history) : \A r \in ToSet(turn[o].history[i].results) :
            r.id \notin ToSet(turn[o].transcript)

ToolsKnowTheirScope ==
  \A o \in Owners : \A d \in turn[o].ran \ {"none"} : \A above \in Above[d] :
    \/ plan.disk[above].kind = "missing"
    \/ /\ above \in turn[o].prompt \cap DOMAIN session[o].nested
       /\ session[o].nested[above].kind = "source"

FallbackIsSilent ==
  [][turn'["child"].profile > turn["child"].profile =>
       /\ turn["child"].transcript = <<>>
       /\ \A i \in DOMAIN turn["child"].history :
            i > turn["child"].captured => turn["child"].history[i].role # "assistant"
       /\ ~turn["child"].outcome.unsafe]_vars

TurnsAreBounded ==
  /\ turn["child"].requests <= MaxModelTurns
  /\ turn["main"].requests <= (IF turn["main"].retried THEN 2 ELSE 1) * MaxModelTurns

TranscriptIsWhole ==
  LET t == turn["child"]
      own == SelectSeq(CallIds(t.history), LAMBDA id : id \notin t.inherited)
  IN /\ t.pc = "done" /\ ~t.compacted => t.transcript = own
     /\ ToSet(t.transcript) \cap t.inherited = {}

ImagesFit == \A o \in Owners : turn[o].pc = "sending" => HistoryImages(turn[o].history) <= MaxImages

SourceBytes(s) == MapThenSumSet(LAMBDA d : IF s.nested[d].kind = "source" THEN s.nested[d].size ELSE 0, DOMAIN s.nested)

BudgetIsReserved ==
  LET alive == {o \in Owners : session[o].live}
  IN /\ budget.slots = 1 + MapThenSumSet(LAMBDA o : session[o].reserved.slots, alive)
     /\ budget.bytes = BaseSize + MapThenSumSet(LAMBDA o : SourceBytes(session[o]), alive)
     /\ budget.slots <= MaxSlots /\ budget.bytes <= MaxBytes

DeeperFirst ==
  \A o \in Owners :
    LET shown == RenderProjectChain(ProjectChain(session[o])).shown
        used == FoldSeq(LAMBDA x, n : x.body + n, 0, shown)
        sections == Cardinality({i \in DOMAIN shown : shown[i].body > 0})
    IN /\ used + sections * Header + (IF sections > 0 THEN sections - 1 ELSE 0) * Separator <= ChainLimit
       /\ \A i, j \in DOMAIN shown : i < j /\ shown[j].truncated => shown[i].body = 0

\* Every submission and every child ends, or waits for ever in one of the calls that nothing
\* bounds; a parent never waits for ever for its child, whatever the child is held up by.
RunsEnd == \A o \in Owners : []<>(turn[o].pc \in Resting) \/ <>[]HeldUp(o)

\* "Context overflow receives exactly one compaction and same-profile retry before
\* fallback" (docs/architecture.md:134): the child lives to see the outcome of its retry.
OverflowIsSurvived == turn["child"].pc # "panicked"

\* Every request is one a provider can take: each call of an assistant entry is
\* answered, in order, by the entry that follows, and no result stands alone,
\* after forks that strip agent calls, halted batches, cancellations in the
\* middle of a batch and compactions; it carries no more images than one may,
\* whatever tools, forks and attachments have put into its history; its project
\* chain stays within its limit, and a file that is cut or left out leaves no
\* room to any above it.  And the turns are bounded: the profiles, compactions
\* and inbox rounds of a child share one allowance, a submission has a second
\* one only after its one overflow.
RequestIsSound ==
  TurnTypeOK /\ RequestIsPaired /\ ImagesFit /\ DeeperFirst /\ TurnsAreBounded

\* A tool only runs when each instruction file on the way to its target was part
\* of the request that asked for it, and never below a file that could not be
\* used.  A batch halted for a scope is told to the model once: it never reaches
\* the canonical history or the child's transcript.  And the conversation's
\* budget is what the sessions that are alive have cached beyond the shared base.
ScopesAreRead == ToolsKnowTheirScope /\ RetriesAreForgotten /\ BudgetIsReserved

\* A child is one run under one profile.  Once it has said or asked anything it
\* stays with its profile.  The transcript of a finished one that was never
\* compacted has each of its own calls once, in order; of a compacted one, whose
\* place in the history the code does not move along, only that no inherited call
\* is among them: it may lack calls, repeat them, or die (OverflowIsSurvived).
ChildIsOneRun == FallbackIsSilent /\ []TranscriptIsWhole
================================================================================
