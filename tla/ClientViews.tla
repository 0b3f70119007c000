------------------------------- MODULE ClientViews -------------------------------
(***************************************************************************)
(* tui/client.rs, its parts under client/, and the views of tui/state.rs:  *)
(* which surface has the keys, the operations that run in the background   *)
(* and come back later, the questions, the authentication flow, the        *)
(* session switch and the polling of task output.                          *)
(*                                                                         *)
(* The loop of terminal.rs handles at most one key and then pumps: the     *)
(* core's events, which refresh the client from a snapshot of the core as  *)
(* it is now, then the results of background tasks.  The limits of a pump  *)
(* are not reached here.  What a list shows is left out, so Enter picks    *)
(* any row; TerminalClient adds the lists.                                 *)
(***************************************************************************)
EXTENDS Naturals, Sequences, FiniteSets, SequencesExt

CONSTANTS
  Providers,     \* providers with an authentication method and models
  Tasks,         \* the activities of the task list
  Catalog,       \* OperationScope::ModelCatalog
  MaxJobs,       \* bound: background tasks the client spawns
  MaxQuestions,  \* bound: questions of the core
  None

\* OperationKind: an operation on a provider, or the refresh of the catalog.
AuthKinds == {"start", "complete", "validate"}
ProviderKinds == AuthKinds \cup {"select", "logout", "cancel"}
Operations == [scope : Providers, kind : ProviderKinds] \cup [scope : {Catalog}, kind : {"models"}]

ASSUME ClientAssumption ==
  /\ {MaxJobs, MaxQuestions} \subseteq Nat
  /\ Catalog \notin Providers
  /\ None \notin Providers \cup Tasks \cup Nat \cup {Catalog} \cup Operations

VARIABLES
  questions,      \* pending questions of the core, oldest first
  asked,          \* questions the core has asked so far
  retained,       \* the core keeps state of child agents
  unread,         \* events that refresh the projection are waiting
  known,          \* UiState.snapshot.pending_questions
  view,           \* UiState.view: its kind and what it is about
  output,         \* the task whose output the view or the preview holds
  bar_focused,    \* UiState.activity_bar_focused
  operation,      \* UiState.provider_operation: scope and kind
  auth_task,      \* TuiClient.auth_task: the task that Escape aborts
  generation,     \* TuiClient.model_refresh_generation
  cached,         \* the generation cached_models came from
  pending_switch, \* TuiClient.pending_session_switch is set
  output_pending, \* TuiClient.activity_output_pending
  jobs,           \* background tasks that run
  results,        \* the channel of operation results
  spawned,        \* history: tasks spawned so far
  aborted,        \* history: tasks that were aborted
  stage           \* of the loop: idle, events, results

core == <<questions, asked, retained>>
surface == <<view, output, bar_focused>>
catalog == <<generation, cached>>
background == <<jobs, results, spawned, aborted>>
clientVars == <<core, unread, known, surface, operation, auth_task, catalog, pending_switch,
                output_pending, background, stage>>

View(kind, of) == [kind |-> kind, of |-> of]
Input == View("input", None)
Operation(scope, kind) == [scope |-> scope, kind |-> kind]

ClientInit ==
  /\ questions = <<>> /\ asked = 0 /\ retained = FALSE /\ unread = FALSE /\ known = <<>>
  /\ view = Input /\ output = None /\ bar_focused = FALSE
  /\ operation = None /\ auth_task = None
  /\ generation = 0 /\ cached = 0
  /\ pending_switch = FALSE /\ output_pending = FALSE
  /\ jobs = {} /\ results = <<>> /\ spawned = 0 /\ aborted = {}
  /\ stage = "idle"

--------------------------------------------------------------------------------
(* Refreshing, tasks and operations.                                       *)

\* reconcile_questions: a pending question takes the surface, the oldest one
\* first, and one that is gone leaves it.
Uncovered(v) == IF v.kind = "question" THEN Input ELSE v
\* Mutant: a question waits until the popup before it is closed.
ReconciledUnderPopups(v, qs) ==
  IF v.kind = "question" /\ Contains(qs, v.of) THEN v
  ELSE IF qs # <<>> /\ v.kind \in {"input", "question"} THEN View("question", Head(qs)) ELSE Uncovered(v)
Reconciled(v, qs) ==
  IF v.kind = "question" /\ Contains(qs, v.of) THEN v
  ELSE IF qs # <<>> THEN View("question", Head(qs)) ELSE Uncovered(v)

\* refresh_core_projection and refresh_provider_choices, for a surface v that
\* the same step has set before.
RefreshOver(v) == known' = questions /\ view' = Reconciled(v, questions)
KeepView == UNCHANGED <<known, view>>

\* The next task; its result carries what it was about.
Job(kind, of) == [id |-> spawned + 1, kind |-> kind, of |-> of]
Spawn(kind, of) ==
  /\ spawned < MaxJobs  \* bound
  /\ spawned' = spawned + 1
  /\ jobs' = jobs \cup {Job(kind, of)}
  /\ UNCHANGED <<results, aborted>>
NoSpawn == UNCHANGED background

\* set_provider_operation with the task of the same kind; the kinds Escape can
\* abort are tracked.
StartOperation(p, kind) ==
  /\ operation' = Operation(p, kind)
  /\ Spawn(kind, p)
  /\ auth_task' = IF kind \in AuthKinds THEN Job(kind, p) ELSE auth_task

\* finish_provider_operation compares scope and kind.
Belongs(r) == operation = Operation(r.of, r.kind)

\* finish_auth_task.
ForgetTask(r) == IF auth_task # None /\ auth_task.kind = r.kind /\ auth_task.of = r.of THEN None ELSE auth_task

\* A task that ends sends its result; the core ends the questions of a turn,
\* drops agents or changes credentials meanwhile, and says so by an event.
Finish(job) ==
  /\ job \in jobs
  /\ jobs' = jobs \ {job}
  /\ \E ok \in BOOLEAN :
       /\ results' = Append(results, [job |-> job, ok |-> ok])
       /\ retained' = (retained /\ ~(job.kind = "discard" /\ ok))
  /\ unread' \in {unread, TRUE}
  /\ UNCHANGED <<questions, asked, known, surface, operation, auth_task, catalog, pending_switch,
                 output_pending, spawned, aborted, stage>>

--------------------------------------------------------------------------------
(* The core.                                                               *)

Ask ==
  /\ asked < MaxQuestions  \* bound
  /\ asked' = asked + 1
  /\ questions' = Append(questions, asked + 1)
  /\ unread' = TRUE
  /\ UNCHANGED retained

\* Somebody else answered, or the asking turn was cancelled.
Withdraw ==
  /\ \E i \in DOMAIN questions : questions' = RemoveAt(questions, i)
  /\ unread' = TRUE
  /\ UNCHANGED <<asked, retained>>

AgentsLeft == ~retained /\ retained' = TRUE /\ unread' = TRUE /\ UNCHANGED <<questions, asked>>

Core ==
  /\ Ask \/ Withdraw \/ AgentsLeft
  /\ UNCHANGED <<known, surface, operation, auth_task, catalog, pending_switch, output_pending,
                 background, stage>>

--------------------------------------------------------------------------------
(* Session switches.                                                       *)

\* new_session and resume_session, over the surface v: refused while agent
\* state is retained, or for another reason.
Switch(v) ==
  \/ /\ retained
     /\ pending_switch' = TRUE
     /\ view' = View("discard", None) /\ UNCHANGED known
  \/ /\ ~retained
     /\ RefreshOver(Input)
     /\ UNCHANGED pending_switch
  \/ /\ ~retained
     /\ view' = v /\ UNCHANGED <<known, pending_switch>>

--------------------------------------------------------------------------------
(* Keys.  A key is handled when the loop is idle, and the pump follows.    *)

Quiet == UNCHANGED <<operation, auth_task, catalog>> /\ NoSpawn

\* open_activities starts with no output.
OpenTasks == view' = View("activities", None) /\ output' = None

\* Slash commands of the composer: /provider, /thinking, /resume, /context, /tasks.
ShowProviders == view' = View("providers", None) /\ UNCHANGED output /\ Quiet
ShowThinking == view' = View("thinking", FALSE) /\ UNCHANGED output /\ Quiet
ShowSessions == view' = View("sessions", None) /\ UNCHANGED output /\ Quiet
ShowContext == view' = View("context", None) /\ UNCHANGED output /\ Quiet
ShowTasks == OpenTasks /\ Quiet

\* /model: the picker opens with the cached catalog, and a newer one is asked
\* for.
StartModelRefresh ==
  /\ operation' = Operation(Catalog, "models")
  /\ generation' = generation + 1
  /\ Spawn("models", generation + 1)
  /\ view' = View("models", None)
  /\ UNCHANGED <<output, auth_task, cached>>

StartCompaction ==
  /\ Spawn("compact", None)
  /\ UNCHANGED <<view, output, operation, auth_task, catalog>>

NewSession == Switch(view) /\ UNCHANGED output /\ Quiet

\* handle_composer_key: Enter on a command.
Command ==
  /\ view.kind = "input" /\ ~bar_focused
  /\ \/ /\ \/ ShowProviders \/ ShowThinking \/ ShowSessions \/ ShowContext \/ ShowTasks
           \/ StartModelRefresh \/ StartCompaction
        /\ UNCHANGED <<known, pending_switch>>
     \/ NewSession
  /\ UNCHANGED <<bar_focused, output_pending>>

\* Escape in the composer, and Ctrl+C anywhere, refresh before they interrupt.
Interrupt ==
  /\ RefreshOver(view)
  /\ UNCHANGED <<output, bar_focused, operation, auth_task, catalog, pending_switch, output_pending>>
  /\ NoSpawn

\* Down in an empty composer focuses the row of activities; Enter there opens
\* them over whatever the surface is by now, and Up or text leaves it.
Bar ==
  /\ \/ view.kind = "input" /\ ~bar_focused /\ bar_focused' = TRUE /\ UNCHANGED <<view, output>>
     \/ bar_focused /\ bar_focused' = FALSE /\ UNCHANGED <<view, output>>
     \/ bar_focused /\ bar_focused' = FALSE /\ OpenTasks
  /\ UNCHANGED <<known, operation, auth_task, catalog, pending_switch, output_pending>>
  /\ NoSpawn

\* The dialog returned a response or was dismissed; the core refuses it when
\* the question is gone.
RespondToQuestion ==
  /\ view.kind = "question"
  /\ IF Contains(questions, view.of)
     THEN /\ \E i \in DOMAIN questions : questions[i] = view.of /\ questions' = RemoveAt(questions, i)
          /\ known' = questions' /\ view' = Reconciled(view, questions')
          /\ unread' = TRUE
     ELSE UNCHANGED <<questions, known, view, unread>>
  /\ UNCHANGED <<asked, retained, output, bar_focused, operation, auth_task, catalog,
                 pending_switch, output_pending>>
  /\ NoSpawn

\* start_activity_output_refresh.
PollOutput(id) ==
  IF output_pending THEN NoSpawn /\ UNCHANGED output_pending
  ELSE Spawn("output", id) /\ output_pending' = TRUE

\* Enter on the row of the main conversation leaves the list.
HasTask == view.of # None

\* start_auth and logout; nothing else while an operation runs.
ConfirmAction ==
  /\ view.kind = "settings" /\ operation = None
  /\ \E kind \in {"start", "logout"} : StartOperation(view.of, kind)
  /\ UNCHANGED <<view, output>>

\* select_model, select_profile and select_thinking.
SelectModel ==
  /\ view.kind \in {"models", "thinking"}
  /\ \E p \in Providers : StartOperation(p, "select")
  /\ UNCHANGED <<view, output>>
OpenThinking ==
  /\ view.kind = "models" /\ view' = View("thinking", TRUE)
  /\ UNCHANGED <<output, operation, auth_task>> /\ NoSpawn

\* open_provider_settings.
OpenSettings ==
  /\ view.kind = "providers"
  /\ \E p \in Providers : view' = View("settings", p)
  /\ UNCHANGED <<output, operation, auth_task>> /\ NoSpawn

\* open_activity_detail and open_agent_detail keep an output of the same task.
OpenLog ==
  /\ view.kind = "activities"
  /\ IF ~HasTask
     THEN view' = Input /\ UNCHANGED <<output, output_pending>> /\ NoSpawn
     ELSE /\ view' = View("log", view.of)
          /\ output' = IF output = view.of THEN output ELSE None
          /\ PollOutput(view.of)
  /\ UNCHANGED <<operation, auth_task>>

\* start_agent_discard, or the agents are kept and nothing is switched.
ConfirmDiscard ==
  /\ view.kind = "discard" /\ view' = Input
  /\ \/ Spawn("discard", None) /\ UNCHANGED pending_switch
     \/ pending_switch' = FALSE /\ NoSpawn
  /\ UNCHANGED <<output, operation, auth_task>>

\* confirm_view: Enter, or the number of a row.
Confirm ==
  \/ /\ OpenSettings \/ ConfirmAction \/ OpenThinking \/ SelectModel
     /\ UNCHANGED <<pending_switch, output_pending>>
  \/ OpenLog /\ UNCHANGED pending_switch
  \/ ConfirmDiscard /\ UNCHANGED output_pending

ConfirmSession ==
  /\ view.kind = "sessions"
  /\ Switch(view)
  /\ UNCHANGED <<output, operation, auth_task, output_pending>> /\ NoSpawn

\* The selection of the task list moves.
SelectTask ==
  /\ view.kind = "activities"
  /\ \E id \in Tasks \cup {None} : view' = View("activities", id)
  /\ UNCHANGED <<output, operation, auth_task, pending_switch, output_pending>> /\ NoSpawn

\* stop_selected_activity in the log asks for its output at once.
StopTask ==
  /\ view.kind = "log"
  /\ PollOutput(view.of)
  /\ UNCHANGED <<view, output, operation, auth_task, pending_switch>>

\* cancel_active_authentication: the task of the operation is aborted, before
\* or after it sent its result, and the core is told.
\* Mutant: the operation stays.
CancelOperationKept(p) == operation
CancelOperation(p) == Operation(p, "cancel")
Abortable ==
  operation # None /\ operation.kind \in AuthKinds /\ auth_task # None
  /\ auth_task.of = operation.scope /\ auth_task.kind = operation.kind
AbortAuth ==
  /\ Abortable
  /\ spawned < MaxJobs  \* bound
  /\ operation' = CancelOperation(operation.scope)
  /\ auth_task' = None
  /\ aborted' = aborted \cup {auth_task.id}
  /\ spawned' = spawned + 1
  /\ jobs' = (jobs \ {auth_task}) \cup {Job("cancel", operation.scope)}
  /\ \/ UNCHANGED results
     \/ auth_task \in jobs /\ \E ok \in BOOLEAN : results' = Append(results, [job |-> auth_task, ok |-> ok])
  /\ UNCHANGED <<view, output, pending_switch, output_pending>>

\* back_from_picker.
Back ==
  /\ view.kind # "prompt"
  /\ view' = CASE view.kind = "settings" -> View("providers", None)
               [] view.kind = "thinking" /\ view.of -> View("models", None)
               [] view.kind = "log" -> View("activities", view.of)
               [] OTHER -> Input
  /\ operation' = IF view.kind \in {"providers", "models", "sessions", "discard"} THEN None ELSE operation
  /\ UNCHANGED <<output, auth_task, pending_switch, output_pending>> /\ NoSpawn

\* cancel_auth_prompt.
CancelPrompt ==
  /\ view.kind = "prompt"
  /\ view' = View("settings", view.of)
  /\ StartOperation(view.of, "cancel")
  /\ UNCHANGED <<output, pending_switch, output_pending>>

\* Escape in a view.
Escape ==
  \/ view.kind \in {"context", "log"} /\ Back
  \/ CancelPrompt
  \/ /\ view.kind \notin {"input", "context", "log", "prompt", "question"}
     /\ \/ AbortAuth
        \/ /\ ~Abortable
           /\ ~(operation # None /\ operation.kind \in {"cancel", "logout", "select"})
           /\ Back

\* finish_auth_prompt_field on the last field.
SubmitPrompt ==
  /\ view.kind = "prompt"
  /\ view' = View("settings", view.of)
  /\ StartOperation(view.of, "validate")
  /\ UNCHANGED <<output, pending_switch, output_pending>>

ViewKey ==
  /\ ~bar_focused
  /\ \/ (Confirm \/ SelectTask \/ StopTask \/ Escape \/ SubmitPrompt) /\ UNCHANGED known
     \/ ConfirmSession
  /\ UNCHANGED <<bar_focused, catalog>>

Key ==
  /\ stage = "idle" /\ stage' = "events"
  /\ \/ (Command \/ Interrupt \/ Bar \/ ViewKey) /\ UNCHANGED <<core, unread>>
     \/ RespondToQuestion /\ ~bar_focused

--------------------------------------------------------------------------------
(* The pump.                                                               *)

\* pump_events, after a key or when the poll for one has timed out.
HandleEvents ==
  /\ stage \in {"idle", "events"} /\ stage' = "results"
  /\ unread' = FALSE
  /\ IF unread THEN RefreshOver(view) ELSE KeepView
  /\ UNCHANGED <<core, output, bar_focused, operation, auth_task, catalog, pending_switch,
                 output_pending, background>>

\* Results of the model catalog.  Mutant: one of an older refresh counts.
CurrentAlways(r) == TRUE
Current(r) == r.of = generation
ApplyModels(r, ok) ==
  /\ cached' = IF Current(r) /\ ok THEN r.of ELSE cached
  /\ operation' = IF /\ Current(r) /\ operation = Operation(Catalog, "models")
                     /\ (ok => view.kind = "models") THEN None ELSE operation
  /\ KeepView
  /\ UNCHANGED <<auth_task, generation, output, pending_switch, output_pending, jobs, spawned>>

\* Results of an operation on a provider that is still the current one.
ApplyStart(r, ok) ==
  \/ /\ ok /\ spawned < MaxJobs  \* bound
     /\ operation' = Operation(r.of, "complete")
     /\ auth_task' = Job("complete", r.of)
     /\ jobs' = jobs \cup {Job("complete", r.of)} /\ spawned' = spawned + 1
     /\ KeepView
  \/ /\ operation' = None /\ auth_task' = ForgetTask(r)
     /\ \/ KeepView
        \/ ok /\ RefreshOver(view)
        \/ ok /\ view' = View("prompt", r.of) /\ UNCHANGED known
     /\ UNCHANGED <<jobs, spawned>>

ApplyOther(r, ok) ==
  /\ operation' = None
  /\ auth_task' = IF r.kind \in {"complete", "validate"} THEN ForgetTask(r) ELSE auth_task
  /\ IF ~ok THEN KeepView
     ELSE IF r.kind = "select" THEN known' = questions /\ view' = Input
     ELSE RefreshOver(view)
  /\ UNCHANGED <<jobs, spawned>>

ApplyOperation(r, ok) ==
  /\ IF ~Belongs(r)
     THEN KeepView /\ UNCHANGED <<operation, auth_task, jobs, spawned>>
     ELSE IF r.kind = "start" THEN ApplyStart(r, ok) ELSE ApplyOther(r, ok)
  /\ UNCHANGED <<catalog, output, pending_switch, output_pending>>

\* Agents were discarded: the switch that waits for it is tried again.
ApplyDiscard(ok) ==
  /\ IF ~ok THEN KeepView /\ UNCHANGED pending_switch
     ELSE IF ~pending_switch THEN KeepView /\ UNCHANGED pending_switch
     ELSE \/ ~retained /\ pending_switch' = FALSE /\ (RefreshOver(Input) \/ KeepView)
          \/ retained /\ view' = View("discard", None) /\ UNCHANGED <<known, pending_switch>>
  /\ UNCHANGED <<operation, auth_task, catalog, output, output_pending, jobs, spawned>>

\* set_activity_output: kept by the view that shows the task or has it selected.
ShowsTask(id) == view.kind \in {"activities", "log"} /\ view.of = id
PendingAfter(r) == FALSE
ApplyOutput(r, ok) ==
  /\ output_pending' = PendingAfter(r)
  /\ output' = IF ok /\ ShowsTask(r.of) THEN r.of ELSE output
  /\ KeepView
  /\ UNCHANGED <<operation, auth_task, catalog, pending_switch, jobs, spawned>>

ApplyCompact(ok) ==
  /\ IF ok THEN RefreshOver(view) ELSE KeepView
  /\ UNCHANGED <<operation, auth_task, catalog, output, pending_switch, output_pending, jobs, spawned>>

ApplyResult ==
  /\ stage = "results" /\ results # <<>>
  /\ results' = Tail(results)
  /\ LET r == Head(results).job
         ok == Head(results).ok
     IN CASE r.kind = "models" -> ApplyModels(r, ok)
          [] r.kind = "discard" -> ApplyDiscard(ok)
          [] r.kind = "output" -> ApplyOutput(r, ok)
          [] r.kind = "compact" -> ApplyCompact(ok)
          [] OTHER -> ApplyOperation(r, ok)
  /\ UNCHANGED <<core, unread, bar_focused, aborted, stage>>

\* refresh_activity_output_if_due, at the end of a pump.
Target == IF view.kind \in {"activities", "log"} THEN view.of ELSE None
EndPump ==
  /\ stage = "results" /\ results = <<>> /\ stage' = "idle"
  /\ \/ Target = None /\ output_pending' = FALSE /\ NoSpawn
     \/ Target # None /\ UNCHANGED output_pending /\ NoSpawn
     \/ Target # None /\ PollOutput(Target)
  /\ UNCHANGED <<core, unread, known, surface, operation, auth_task, catalog, pending_switch>>

Pump == HandleEvents \/ ApplyResult \/ EndPump

ClientNext == Core \/ (\E job \in jobs : Finish(job)) \/ Key \/ Pump

--------------------------------------------------------------------------------
(* Properties.                                                             *)

\* One type invariant: every view is about something of its kind.
ClientTypeOK ==
  /\ ToSet(questions) \cup ToSet(known) \subseteq 1..MaxQuestions
  /\ view.kind \in {"settings", "prompt"} => view.of \in Providers
  /\ view.kind = "log" => view.of \in Tasks
  /\ view.kind = "activities" => view.of \in Tasks \cup {None}
  /\ view.kind = "question" => view.of \in 1..MaxQuestions
  /\ output \in Tasks \cup {None}
  /\ operation # None => operation.scope \in Providers \cup {Catalog}
  /\ {unread, bar_focused, output_pending, pending_switch, retained} \subseteq BOOLEAN

Underway(kind, of) ==
  \/ \E job \in jobs : job.kind = kind /\ job.of = of
  \/ \E i \in DOMAIN results : results[i].job.kind = kind /\ results[i].job.of = of

ProviderIsBusy ==
  operation # None /\ operation.scope \in Providers => Underway(operation.kind, operation.scope)

\* The refresh of the catalog is under way, or its catalog has come when the
\* picker was not on the screen: then nothing has ended the operation.
CatalogIsComing ==
  operation = Operation(Catalog, "models") => Underway("models", generation) \/ cached = generation

OperationIsRunning == ProviderIsBusy /\ CatalogIsComing

CancelledIsInert ==
  [][\A i \in {1} \cap DOMAIN results :
       stage = "results" /\ results[i].job.id \in aborted /\ results' = Tail(results)
       => UNCHANGED <<view, operation, auth_task>>]_clientVars

NoQuestionLeftBehind ==
  view.kind = "question" /\ ~unread => Contains(questions, view.of)

OutputIsOfTask == view.kind = "log" => output \in {None, view.of}

CatalogOnlyNewer == [][cached' >= cached]_clientVars

PollIsRunning == output_pending => \E id \in Tasks : Underway("output", id)

\* What the screen shows is so.  An operation on a provider that a popup shows,
\* and that keeps its actions from being chosen and the popup from being
\* closed, is running: no abort, late result or other view leaves it behind.  A
\* refresh of the model catalog that keeps them from being chosen is running
\* too, or the catalog came while another surface hid the picker, and only then
\* the operation is left behind.  A poll that is pending is running, and the
\* log shows the output of its own task, whichever polls are late.  A question
\* that was answered elsewhere, or whose turn was cancelled, is gone from the
\* screen once the client has read the events.
ScreenIsTrue ==
  ClientTypeOK /\ OperationIsRunning /\ PollIsRunning /\ OutputIsOfTask /\ NoQuestionLeftBehind

\* What takes the surface from a question that is still pending.
Covers ==
  \/ bar_focused
  \/ /\ stage = "results" /\ results # <<>> /\ results' = Tail(results)
     /\ Head(results).ok /\ Head(results).job.kind \in {"start", "select", "discard"}

\* A question that has the surface keeps it while it is pending: no key of its
\* dialog, refresh or late result takes it away, but a step of an authentication
\* that needs its form, the end of a selection, a session switch that waited,
\* and Enter on the row of activities that had been focused before.  And the
\* events of a question that was asked bring one to the surface.
QuestionStaysShown ==
  [][/\ (view.kind = "question" /\ Contains(questions', view.of)) => (view' = view \/ Covers)
     /\ (unread /\ ~unread' /\ questions # <<>>) => view'.kind = "question"]_clientVars

\* Results are applied whenever they come: the late one of an authentication
\* that was cancelled changes neither the popup nor the state of the
\* authentication, and an older catalog never replaces a newer one.
LateResultsAreInert == CancelledIsInert /\ CatalogOnlyNewer

--------------------------------------------------------------------------------
(* The inductive invariant.                                                *)

JobType == [id : Nat, kind : ProviderKinds, of : Providers] \cup [id : Nat, kind : {"models"}, of : Nat]
           \cup [id : Nat, kind : {"output"}, of : Tasks] \cup [id : Nat, kind : {"compact", "discard"}, of : {None}]
ResultType == [job : JobType, ok : BOOLEAN]

\* A task runs or has its result in the channel.
Outstanding == jobs \cup {results[i].job : i \in DOMAIN results}

BackgroundInv ==
  /\ spawned \in Nat /\ jobs \subseteq JobType /\ results \in Seq(ResultType)
  /\ \A job \in Outstanding : job.id <= spawned

StateInv ==
  /\ asked \in 0..MaxQuestions
  /\ {questions, known} \subseteq Seq(1..MaxQuestions)
  /\ operation \in Operations \cup {None}
  /\ generation \in Nat /\ cached \in 0..generation

\* What Escape would abort is the one task with its number.
AuthTaskInv ==
  auth_task # None =>
    /\ auth_task \in JobType /\ auth_task.kind \in AuthKinds /\ auth_task.id <= spawned
    /\ \A job \in Outstanding : job.id = auth_task.id => job = auth_task

\* No aborted task runs.  The result it sent before is applied before the next
\* key, and until then no operation but its cancellation is under way.
AbortedInv ==
  /\ aborted \subseteq 0..spawned
  /\ \A job \in jobs : job.id \notin aborted
  /\ \A i \in DOMAIN results : results[i].job.id \in aborted =>
       /\ results[i].job.kind \in AuthKinds /\ stage # "idle"
       /\ operation = None \/ operation.kind = "cancel"

ClientInv == ScreenIsTrue /\ BackgroundInv /\ StateInv /\ AuthTaskInv /\ AbortedInv
================================================================================
