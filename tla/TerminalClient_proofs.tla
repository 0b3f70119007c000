-------------------------- MODULE TerminalClient_proofs --------------------------
(***************************************************************************)
(* Theorems about the terminal client for every number of providers,       *)
(* tasks, questions and background operations.                             *)
(***************************************************************************)
EXTENDS TerminalClient, FiniteSetTheorems, SequenceTheorems, WellFoundedInduction, TLAPS

--------------------------------------------------------------------------------
(* Sequences.                                                              *)

\* The first of a sequence, what follows it, and what is appended to it.
LEMMA SeqFirst ==
  ASSUME NEW S, NEW s \in Seq(S), s # <<>>
  PROVE  /\ Len(s) \in Nat \ {0} /\ DOMAIN s = 1..Len(s) /\ 1 \in DOMAIN s /\ Head(s) = s[1] /\ s[1] \in S
         /\ Tail(s) \in Seq(S) /\ Len(Tail(s)) = Len(s) - 1 /\ DOMAIN Tail(s) = 1..(Len(s) - 1)
         /\ \A i \in 1..(Len(s) - 1) : i + 1 \in DOMAIN s /\ Tail(s)[i] = s[i + 1]
OBVIOUS

LEMMA SeqAppended ==
  ASSUME NEW S, NEW s \in Seq(S), NEW x \in S
  PROVE  /\ Append(s, x) \in Seq(S) /\ DOMAIN Append(s, x) = 1..(Len(s) + 1) /\ DOMAIN s = 1..Len(s)
         /\ Len(s) \in Nat /\ Len(s) + 1 \in DOMAIN Append(s, x)
         /\ \A i \in DOMAIN s : i \in DOMAIN Append(s, x) /\ Append(s, x)[i] = s[i] /\ s[i] \in S
         /\ Append(s, x)[Len(s) + 1] = x
OBVIOUS

LEMMA SeqElements ==
  ASSUME NEW S, NEW s \in Seq(S)
  PROVE  \A i \in DOMAIN s : s[i] \in S
OBVIOUS

LEMMA SeqRemoved ==
  ASSUME NEW S, NEW s \in Seq(S), NEW i \in DOMAIN s
  PROVE  RemoveAt(s, i) \in Seq(S)
BY DEF RemoveAt

--------------------------------------------------------------------------------
(* What is on the surface.                                                 *)

\* What a view is about, by its kind.
ViewTyped(v) ==
  /\ v.kind \in {"settings", "prompt"} => v.of \in Providers
  /\ v.kind = "log" => v.of \in Tasks
  /\ v.kind = "activities" => v.of \in Tasks \cup {None}
  /\ v.kind = "question" => v.of \in 1..MaxQuestions

SurfaceInv ==
  /\ asked \in 0..MaxQuestions
  /\ questions \in Seq(1..MaxQuestions) /\ known \in Seq(1..MaxQuestions)
  /\ ViewTyped(view)
  /\ output \in Tasks \cup {None}
  /\ OutputIsOfTask /\ NoQuestionLeftBehind

FlagsTyped ==
  /\ unread \in BOOLEAN /\ bar_focused \in BOOLEAN /\ output_pending \in BOOLEAN
  /\ pending_switch \in BOOLEAN /\ retained \in BOOLEAN

\* A reconciled surface is a question of the core, or what it was, or the input.
LEMMA ReconciledView ==
  ASSUME NEW v, ViewTyped(v), NEW qs \in Seq(1..MaxQuestions)
  PROVE  /\ ViewTyped(Reconciled(v, qs))
         /\ Reconciled(v, qs).kind = "question" => Contains(qs, Reconciled(v, qs).of)
         /\ Reconciled(v, qs).kind = "log" => Reconciled(v, qs) = v
<1>1. CASE v.kind = "question" /\ Contains(qs, v.of)
  BY <1>1 DEF Reconciled
<1>2. CASE ~(v.kind = "question" /\ Contains(qs, v.of)) /\ qs # <<>>
  <2>1. Reconciled(v, qs) = View("question", Head(qs))
    BY <1>2 DEF Reconciled
  <2>2. 1 \in 1..Len(qs) /\ Head(qs) = qs[1] /\ qs[1] \in 1..MaxQuestions
    BY <1>2, SeqFirst
  <2> QED BY <2>1, <2>2 DEF View, ViewTyped, Contains
<1>3. CASE ~(v.kind = "question" /\ Contains(qs, v.of)) /\ qs = <<>>
  BY <1>3 DEF Reconciled, Uncovered, Input, View, ViewTyped
<1> QED BY <1>1, <1>2, <1>3

LEMMA InputTyped == ViewTyped(Input) /\ Input.kind = "input"
BY DEF ViewTyped, Input, View

\* A refresh keeps what is said of the surface.
LEMMA RefreshKeeps ==
  ASSUME NEW v, ViewTyped(v), SurfaceInv, UNCHANGED <<questions, asked, output>>,
         known' = questions, view' = Reconciled(v, questions),
         v.kind = "log" => output \in {None, v.of}
  PROVE  SurfaceInv'
<1>1. questions \in Seq(1..MaxQuestions)
  BY DEF SurfaceInv
<1>2. /\ ViewTyped(view')
      /\ view'.kind = "question" => Contains(questions, view'.of)
      /\ view'.kind = "log" => view' = v
  BY <1>1, ReconciledView
<1> QED BY <1>2 DEF SurfaceInv, ViewTyped, OutputIsOfTask, NoQuestionLeftBehind

\* So does a view that is no question.
LEMMA NewViewKeeps ==
  ASSUME SurfaceInv, UNCHANGED <<questions, asked, known>>, ViewTyped(view'),
         output' \in Tasks \cup {None}, view'.kind # "question",
         view'.kind = "log" => output' \in {None, view'.of}
  PROVE  SurfaceInv'
BY DEF SurfaceInv, ViewTyped, OutputIsOfTask, NoQuestionLeftBehind

\* And a step that leaves the surface alone, unless it reads the events.
LEMMA SameViewKeeps ==
  ASSUME SurfaceInv, UNCHANGED <<questions, asked, known, view, output>>,
         unread' = unread \/ unread' = TRUE
  PROVE  SurfaceInv'
BY DEF SurfaceInv, ViewTyped, OutputIsOfTask, NoQuestionLeftBehind

\* The core asks, withdraws a question or keeps an agent's state.
LEMMA CoreSurface ==
  ASSUME SurfaceInv, Core
  PROVE  SurfaceInv'
<1>1. UNCHANGED <<known, view, output>> /\ unread' = TRUE
  BY DEF Core, Ask, Withdraw, AgentsLeft, surface
<1>2. asked' \in 0..MaxQuestions /\ questions' \in Seq(1..MaxQuestions)
  <2>1. CASE Ask
    <3>1. asked + 1 \in 1..MaxQuestions
      BY <2>1, ClientAssumption DEF Ask, SurfaceInv
    <3> QED BY <2>1, <3>1, SeqAppended DEF Ask, SurfaceInv
  <2>2. CASE Withdraw
    BY <2>2, SeqRemoved DEF Withdraw, SurfaceInv
  <2>3. CASE AgentsLeft
    BY <2>3 DEF AgentsLeft, SurfaceInv
  <2> QED BY <2>1, <2>2, <2>3 DEF Core
<1> QED BY <1>1, <1>2 DEF SurfaceInv, ViewTyped, OutputIsOfTask, NoQuestionLeftBehind

\* A switch shows the refusal, the input, or what was there.
LEMMA SwitchSurface ==
  ASSUME SurfaceInv, UNCHANGED <<questions, asked, unread, output>>, Switch(view)
  PROVE  SurfaceInv'
<1>1. CASE view' = View("discard", None) /\ UNCHANGED known
  BY <1>1, NewViewKeeps DEF View, ViewTyped, SurfaceInv
<1>2. CASE RefreshOver(Input)
  BY <1>2, RefreshKeeps, InputTyped DEF RefreshOver
<1>3. CASE view' = view /\ UNCHANGED known
  BY <1>3, SameViewKeeps
<1> QED BY <1>1, <1>2, <1>3 DEF Switch

LEMMA CommandSurface ==
  ASSUME SurfaceInv, UNCHANGED <<questions, asked, unread>>, Command
  PROVE  SurfaceInv'
<1>1. output \in Tasks \cup {None}
  BY DEF SurfaceInv
<1>2. CASE NewSession
  BY <1>2, SwitchSurface DEF NewSession
<1>3. CASE StartCompaction /\ UNCHANGED known
  BY <1>3, SameViewKeeps DEF StartCompaction
<1>4. CASE /\ UNCHANGED known
           /\ \E kind \in {"providers", "thinking", "sessions", "context", "models", "activities"} :
                \E of \in {None, FALSE} : view' = View(kind, of) /\ (kind = "activities" => of = None)
           /\ output' \in {output, None}
  BY <1>1, <1>4, NewViewKeeps DEF View, ViewTyped
<1>5. CASE /\ UNCHANGED known
           /\ ShowProviders \/ ShowThinking \/ ShowSessions \/ ShowContext \/ ShowTasks \/ StartModelRefresh
  BY <1>4, <1>5 DEF ShowProviders, ShowThinking, ShowSessions, ShowContext, ShowTasks,
     StartModelRefresh, OpenTasks
<1> QED BY <1>2, <1>3, <1>5 DEF Command

\* Keys of a view other than the composer's and a question's.
LEMMA ViewKeySurface ==
  ASSUME SurfaceInv, FlagsTyped, operation \in Operations \cup {None},
         UNCHANGED <<questions, asked, unread>>, ViewKey
  PROVE  SurfaceInv'
<1> USE DEF View, ViewTyped
<1>1. ViewTyped(view) /\ output \in Tasks \cup {None}
  BY DEF SurfaceInv
<1>2. ASSUME Confirm, UNCHANGED known PROVE SurfaceInv'
  <2>1. CASE OpenSettings
    BY <1>1, <1>2, <2>1, NewViewKeeps DEF OpenSettings
  <2>2. CASE ConfirmAction
    BY <1>2, <2>2, SameViewKeeps DEF ConfirmAction
  <2>3. CASE OpenThinking
    BY <1>1, <1>2, <2>3, NewViewKeeps DEF OpenThinking
  <2>4. CASE SelectModel
    BY <1>2, <2>4, SameViewKeeps DEF SelectModel
  <2>5. CASE OpenLog
    <3>1. CASE view.of = None
      BY <1>1, <1>2, <2>5, <3>1, NewViewKeeps DEF OpenLog, HasTask, Input
    <3>2. CASE view.of # None
      <4>1. view.of \in Tasks /\ view' = View("log", view.of) /\ output' \in {None, view.of}
        BY <1>1, <2>5, <3>2 DEF OpenLog, HasTask
      <4> QED BY <1>2, <4>1, NewViewKeeps
    <3> QED BY <3>1, <3>2
  <2>6. CASE ConfirmDiscard
    BY <1>1, <1>2, <2>6, NewViewKeeps DEF ConfirmDiscard, Input
  <2> QED BY <1>2, <2>1, <2>2, <2>3, <2>4, <2>5, <2>6 DEF Confirm
<1>3. ASSUME SelectTask, UNCHANGED known PROVE SurfaceInv'
  BY <1>1, <1>3, NewViewKeeps DEF SelectTask
<1>4. ASSUME StopTask, UNCHANGED known PROVE SurfaceInv'
  BY <1>4, SameViewKeeps DEF StopTask
<1>5. ASSUME Back, view.kind # "question", UNCHANGED known PROVE SurfaceInv'
  <2>1. view.kind = "log" => view.of \in Tasks
    BY <1>1
  <2>2. /\ view'.kind \in {"providers", "models", "activities", "input"}
        /\ view'.kind = "activities" => view'.of \in Tasks
    BY <1>5, <2>1 DEF Back, Input
  <2>3. output' = output
    BY <1>5 DEF Back
  <2> QED BY <1>1, <1>5, <2>2, <2>3, NewViewKeeps
<1>6. ASSUME CancelPrompt \/ SubmitPrompt, UNCHANGED known PROVE SurfaceInv'
  BY <1>1, <1>6, NewViewKeeps DEF CancelPrompt, SubmitPrompt
<1>7. ASSUME AbortAuth, UNCHANGED known PROVE SurfaceInv'
  BY <1>7, SameViewKeeps DEF AbortAuth
<1>8. ASSUME Escape, UNCHANGED known PROVE SurfaceInv'
  BY <1>5, <1>6, <1>7, <1>8 DEF Escape
<1>9. ASSUME ConfirmSession PROVE SurfaceInv'
  BY <1>9, SwitchSurface DEF ConfirmSession
<1> QED BY <1>2, <1>3, <1>4, <1>6, <1>8, <1>9 DEF ViewKey

\* Every key.
LEMMA KeySurface ==
  ASSUME SurfaceInv, FlagsTyped, operation \in Operations \cup {None}, Key
  PROVE  SurfaceInv'
<1>1. CASE Command /\ UNCHANGED <<core, unread>>
  BY <1>1, CommandSurface DEF core
<1>2. CASE Interrupt /\ UNCHANGED <<core, unread>>
  BY <1>2, RefreshKeeps DEF Interrupt, RefreshOver, core, SurfaceInv, OutputIsOfTask
<1>3. CASE Bar /\ UNCHANGED <<core, unread>>
  <2>1. CASE UNCHANGED <<view, output>>
    BY <1>3, <2>1, SameViewKeeps DEF Bar, core
  <2>2. CASE OpenTasks
    BY <1>3, <2>2, NewViewKeeps DEF Bar, core, OpenTasks, View, ViewTyped
  <2> QED BY <1>3, <2>1, <2>2 DEF Bar
<1>4. CASE ViewKey /\ UNCHANGED <<core, unread>>
  BY <1>4, ViewKeySurface DEF core
<1>5. CASE RespondToQuestion
  <2>1. CASE UNCHANGED <<questions, known, view, unread>>
    BY <1>5, <2>1, SameViewKeeps DEF RespondToQuestion
  <2>2. CASE \E i \in DOMAIN questions : questions' = RemoveAt(questions, i) /\ known' = questions'
               /\ view' = Reconciled(view, questions') /\ unread' = TRUE
    <3>1. questions' \in Seq(1..MaxQuestions)
      BY <2>2, SeqRemoved DEF SurfaceInv
    <3>2. ViewTyped(view') /\ (view'.kind = "log" => view' = view)
      BY <2>2, <3>1, ReconciledView DEF SurfaceInv
    <3>3. known' = questions' /\ unread' = TRUE /\ UNCHANGED <<asked, output>>
      BY <1>5, <2>2 DEF RespondToQuestion
    <3> QED BY <3>1, <3>2, <3>3 DEF SurfaceInv, ViewTyped, OutputIsOfTask, NoQuestionLeftBehind
  <2> QED BY <1>5, <2>1, <2>2 DEF RespondToQuestion
<1> QED BY <1>1, <1>2, <1>3, <1>4, <1>5 DEF Key

\* Results and the pump.
LEMMA PumpSurface ==
  ASSUME SurfaceInv, FlagsTyped, BackgroundInv, operation \in Operations \cup {None}, Pump
  PROVE  SurfaceInv'
<1>1. CASE HandleEvents
  <2>1. CASE unread
    BY <1>1, <2>1, RefreshKeeps DEF HandleEvents, RefreshOver, core, SurfaceInv, OutputIsOfTask
  <2>2. CASE ~unread
    <3>1. UNCHANGED <<questions, asked, known, view, output>>
      BY <1>1, <2>2 DEF HandleEvents, KeepView, core
    <3> QED BY <2>2, <3>1 DEF SurfaceInv, ViewTyped, OutputIsOfTask, NoQuestionLeftBehind
  <2> QED BY <2>1, <2>2
<1>2. CASE EndPump
  BY <1>2, SameViewKeeps DEF EndPump, core, surface
<1>3. CASE ApplyResult
  <2> DEFINE r == Head(results).job
             ok == Head(results).ok
  <2>1. UNCHANGED <<questions, asked, unread>>
    BY <1>3 DEF ApplyResult, core
  <2>0. r \in JobType
    <3>1. results # <<>> /\ results \in Seq(ResultType)
      BY <1>3 DEF ApplyResult, BackgroundInv
    <3>2. Head(results) \in ResultType
      BY <3>1, SeqFirst
    <3> QED BY <3>2 DEF ResultType
  <2>2. CASE r.kind = "output" /\ ApplyOutput(r, ok)
    <3>1. KeepView /\ output' \in {output} \cup {x \in {r.of} : ShowsTask(x)}
      BY <2>2 DEF ApplyOutput
    <3>2. \/ output' = output
          \/ view.kind \in {"activities", "log"} /\ output' = view.of
      BY <3>1 DEF ShowsTask
    <3> QED BY <2>1, <3>1, <3>2 DEF KeepView, SurfaceInv, ViewTyped, OutputIsOfTask, NoQuestionLeftBehind
  <2>3. CASE KeepView /\ UNCHANGED output
    BY <2>1, <2>3, SameViewKeeps DEF KeepView
  <2>4. CASE RefreshOver(view) /\ UNCHANGED output
    BY <2>1, <2>4, RefreshKeeps DEF RefreshOver, SurfaceInv, OutputIsOfTask
  <2>5. CASE RefreshOver(Input) /\ UNCHANGED output
    BY <2>1, <2>5, RefreshKeeps, InputTyped DEF RefreshOver
  <2>6. CASE /\ view'.kind \in {"discard", "input"} \/ (view'.kind = "prompt" /\ view'.of \in Providers)
             /\ known' \in {known, questions} /\ UNCHANGED output
    BY <2>1, <2>6 DEF SurfaceInv, ViewTyped, OutputIsOfTask, NoQuestionLeftBehind
  <2>7. ASSUME ApplyModels(r, ok) PROVE SurfaceInv'
    BY <2>3, <2>7 DEF ApplyModels
  <2>8. ASSUME ApplyDiscard(ok) PROVE SurfaceInv'
    <3>1. UNCHANGED output
      BY <2>8 DEF ApplyDiscard
    <3>2. KeepView \/ RefreshOver(Input) \/ (view' = View("discard", None) /\ UNCHANGED known)
      BY <2>8 DEF ApplyDiscard
    <3>3. CASE view' = View("discard", None) /\ UNCHANGED known
      <4>1. view'.kind = "discard" /\ known' \in {known, questions}
        BY <3>3 DEF View
      <4> QED BY <2>6, <3>1, <4>1
    <3> QED BY <2>3, <2>5, <3>1, <3>2, <3>3
  <2>9. ASSUME ApplyCompact(ok) PROVE SurfaceInv'
    BY <2>3, <2>4, <2>9 DEF ApplyCompact
  <2>10. ASSUME ApplyOperation(r, ok), r.kind \notin {"models", "discard", "output", "compact"} PROVE SurfaceInv'
    <3>1. CASE ~Belongs(r)
      BY <2>3, <2>10, <3>1 DEF ApplyOperation
    <3>2. CASE Belongs(r) /\ r.kind = "start"
      <4>1. r.of \in Providers
        BY <2>0, <3>2 DEF JobType
      <4>2. ApplyStart(r, ok) /\ UNCHANGED output
        BY <2>10, <3>2 DEF ApplyOperation
      <4> QED BY <2>3, <2>4, <2>6, <4>1, <4>2 DEF ApplyStart, View
    <3>3. CASE Belongs(r) /\ r.kind # "start"
      <4>1. ApplyOther(r, ok) /\ UNCHANGED output
        BY <2>10, <3>3 DEF ApplyOperation
      <4>2. KeepView \/ RefreshOver(view) \/ (known' = questions /\ view' = Input)
        BY <4>1 DEF ApplyOther
      <4>3. CASE known' = questions /\ view' = Input
        <5>1. view'.kind = "input" /\ known' \in {known, questions} /\ UNCHANGED output
          BY <4>1, <4>3, InputTyped
        <5> QED BY <2>6, <5>1
      <4> QED BY <2>3, <2>4, <4>1, <4>2, <4>3
    <3> QED BY <3>1, <3>2, <3>3
  <2> QED BY <1>3, <2>2, <2>7, <2>8, <2>9, <2>10 DEF ApplyResult
<1> QED BY <1>1, <1>2, <1>3 DEF Pump

LEMMA SurfaceKept ==
  ASSUME SurfaceInv, FlagsTyped, BackgroundInv, operation \in Operations \cup {None}, ClientNext
  PROVE  SurfaceInv'
<1>1. ASSUME NEW task \in jobs, Finish(task) PROVE SurfaceInv'
  BY <1>1, SameViewKeeps DEF Finish, surface
<1> QED BY <1>1, CoreSurface, KeySurface, PumpSurface DEF ClientNext

\* The flags stay flags.
LEMMA FlagsKept ==
  ASSUME FlagsTyped, ClientNext
  PROVE  FlagsTyped'
<1> DEFINE Same == UNCHANGED <<unread, bar_focused, output_pending, pending_switch, retained>>
<1> USE DEF FlagsTyped
<1>1. CASE Core
  <2>1. unread' = TRUE /\ UNCHANGED <<bar_focused, output_pending, pending_switch>>
    BY <1>1 DEF Core, Ask, Withdraw, AgentsLeft, surface
  <2>2. retained' \in {retained, TRUE}
    BY <1>1 DEF Core, Ask, Withdraw, AgentsLeft
  <2> QED BY <2>1, <2>2
<1>2. ASSUME NEW task \in jobs, Finish(task) PROVE FlagsTyped'
  <2>1. unread' \in BOOLEAN /\ UNCHANGED <<bar_focused, output_pending, pending_switch>>
    BY <1>2 DEF Finish, surface
  <2>2. retained' \in {TRUE, FALSE}
    BY <1>2 DEF Finish
  <2> QED BY <2>1, <2>2
<1>3. CASE Key
  <2>1. ASSUME NEW v, Switch(v) PROVE pending_switch' \in BOOLEAN
    BY <2>1 DEF Switch
  <2>2. CASE Command /\ UNCHANGED <<core, unread>>
    <3>1. pending_switch' = pending_switch \/ NewSession
      BY <2>2 DEF Command
    <3> QED BY <2>1, <2>2, <3>1 DEF Command, NewSession, core
  <2>3. CASE Interrupt /\ UNCHANGED <<core, unread>>
    BY <2>3 DEF Interrupt, core
  <2>4. CASE Bar /\ UNCHANGED <<core, unread>>
    BY <2>4 DEF Bar, core
  <2>5. CASE ViewKey /\ UNCHANGED <<core, unread>>
    <3>1. UNCHANGED <<unread, retained, bar_focused>>
      BY <2>5 DEF ViewKey, core
    <3>2. ASSUME NEW of, PollOutput(of) PROVE output_pending' \in BOOLEAN
      BY <3>2 DEF PollOutput
    <3>3. CASE ConfirmSession
      BY <2>1, <3>1, <3>3 DEF ConfirmSession
    <3>4. CASE Confirm
      BY <3>1, <3>2, <3>4 DEF Confirm, OpenLog, ConfirmDiscard
    <3>5. CASE SelectTask \/ SubmitPrompt \/ Escape
      BY <3>1, <3>5 DEF SelectTask, SubmitPrompt, Escape, Back, CancelPrompt, AbortAuth
    <3>6. CASE StopTask
      BY <3>1, <3>2, <3>6 DEF StopTask
    <3> QED BY <2>5, <3>3, <3>4, <3>5, <3>6 DEF ViewKey
  <2>6. CASE RespondToQuestion
    BY <2>6 DEF RespondToQuestion
  <2> QED BY <1>3, <2>2, <2>3, <2>4, <2>5, <2>6 DEF Key
<1>4. CASE HandleEvents
  BY <1>4 DEF HandleEvents, core
<1>5. CASE EndPump
  <2>1. UNCHANGED <<unread, bar_focused, pending_switch, retained>>
    BY <1>5 DEF EndPump, core, surface
  <2>2. output_pending' \in {output_pending, FALSE, TRUE}
    BY <1>5 DEF EndPump, PollOutput
  <2> QED BY <2>1, <2>2
<1>6. CASE ApplyResult
  <2>1. UNCHANGED <<unread, bar_focused, retained>>
    BY <1>6 DEF ApplyResult, core
  <2>2. ASSUME NEW r, NEW ok, ApplyModels(r, ok) \/ ApplyOutput(r, ok) \/ ApplyDiscard(ok) \/ ApplyCompact(ok) \/ ApplyOperation(r, ok)
        PROVE  output_pending' \in BOOLEAN /\ pending_switch' \in BOOLEAN
    BY <2>2 DEF ApplyModels, ApplyOutput, PendingAfter, ApplyDiscard, ApplyCompact, ApplyOperation
  <2> QED BY <1>6, <2>1, <2>2 DEF ApplyResult
<1> QED BY <1>1, <1>2, <1>3, <1>4, <1>5, <1>6 DEF ClientNext, Pump

--------------------------------------------------------------------------------
(* What runs in the background.                                            *)

\* A new task has the next number, and what was under way stays so.
LEMMA SpawnKeeps ==
  ASSUME BackgroundInv, NEW kind, NEW of, Spawn(kind, of), Job(kind, of) \in JobType
  PROVE  /\ BackgroundInv'
         /\ Outstanding' = Outstanding \cup {Job(kind, of)} /\ Job(kind, of).id = spawned + 1
         /\ Underway(kind, of)'
         /\ \A k, o : Underway(k, o) => Underway(k, o)'
<1>1. /\ spawned' = spawned + 1 /\ jobs' = jobs \cup {Job(kind, of)} /\ UNCHANGED <<results, aborted>>
      /\ spawned \in Nat
  BY DEF Spawn, BackgroundInv
<1>2. Job(kind, of).id = spawned + 1 /\ Job(kind, of).kind = kind /\ Job(kind, of).of = of
  BY DEF Job
<1>3. Outstanding' = Outstanding \cup {Job(kind, of)}
  BY <1>1 DEF Outstanding
<1>4. \A task \in Outstanding : task.id \in Nat /\ task.id <= spawned
  <2>1. \A task \in JobType : task.id \in Nat
    BY DEF JobType
  <2>2. Outstanding \subseteq JobType
    <3>1. \A i \in DOMAIN results : results[i] \in ResultType
      BY DEF BackgroundInv
    <3>2. \A i \in DOMAIN results : results[i].job \in JobType
      BY <3>1 DEF ResultType
    <3> QED BY <3>2 DEF Outstanding, BackgroundInv
  <2> QED BY <2>1, <2>2 DEF BackgroundInv
<1>5. BackgroundInv'
  BY <1>1, <1>2, <1>3, <1>4 DEF BackgroundInv
<1>6. Underway(kind, of)'
  BY <1>1, <1>2 DEF Underway
<1>7. \A k, o : Underway(k, o) => Underway(k, o)'
  BY <1>1 DEF Underway
<1> QED BY <1>2, <1>3, <1>5, <1>6, <1>7

RunInv ==
  /\ operation \in Operations \cup {None} /\ generation \in Nat /\ cached \in 0..generation
  /\ BackgroundInv /\ ProviderIsBusy /\ PollIsRunning /\ AuthTaskInv /\ AbortedInv

\* Every task has a number that was given out.
LEMMA OutstandingTyped ==
  ASSUME BackgroundInv
  PROVE  /\ Outstanding \subseteq JobType /\ spawned \in Nat
         /\ \A task \in Outstanding : task.id \in Nat /\ task.id <= spawned
         /\ \A i \in DOMAIN results : results[i].job \in Outstanding
<1>1. \A i \in DOMAIN results : results[i] \in ResultType
  BY DEF BackgroundInv
<1>2. \A i \in DOMAIN results : results[i].job \in JobType
  BY <1>1 DEF ResultType
<1>3. Outstanding \subseteq JobType
  BY <1>2 DEF Outstanding, BackgroundInv
<1>4. \A task \in JobType : task.id \in Nat
  BY DEF JobType
<1> QED BY <1>3, <1>4 DEF BackgroundInv, Outstanding

\* A step that neither starts nor ends a task.
LEMMA QuietKeeps ==
  ASSUME RunInv, UNCHANGED <<jobs, results, spawned, aborted, auth_task, generation, cached>>,
         operation' \in {operation, None}, output_pending' = output_pending \/ output_pending' = FALSE,
         stage' \in {stage, "events", "results"} \/ results = <<>>
  PROVE  RunInv'
<1>1. Outstanding' = Outstanding /\ BackgroundInv'
  BY DEF RunInv, Outstanding, BackgroundInv
<1>2. \A k, o : Underway(k, o)' <=> Underway(k, o)
  BY DEF Underway
<1>3. ProviderIsBusy' /\ PollIsRunning'
  <2>1. ProviderIsBusy'
    BY <1>2 DEF RunInv, ProviderIsBusy
  <2>2. CASE output_pending' = output_pending
    BY <1>2, <2>1, <2>2 DEF RunInv, PollIsRunning
  <2>3. CASE output_pending' = FALSE
    BY <2>1, <2>3 DEF PollIsRunning
  <2> QED BY <2>1, <2>2, <2>3
<1>4. AuthTaskInv'
  BY <1>1 DEF RunInv, AuthTaskInv
<1>5. AbortedInv'
  BY DEF RunInv, AbortedInv
<1> QED BY <1>1, <1>3, <1>4, <1>5 DEF RunInv

\* A step that starts one, when no result of an aborted task is left.
LEMMA SpawnStep ==
  ASSUME RunInv, NEW kind, NEW of, Spawn(kind, of), Job(kind, of) \in JobType,
         stage = "idle" \/ results = <<>>,
         \/ operation' = operation
         \/ operation' \in Operations /\ operation' = Operation(of, kind)
         \/ operation' = Operation(Catalog, "models"),
         auth_task' = auth_task \/ (auth_task' = Job(kind, of) /\ kind \in AuthKinds),
         output_pending' = output_pending \/ kind = "output",
         generation' \in Nat, cached' \in 0..generation'
  PROVE  RunInv'
<1>1. /\ BackgroundInv' /\ Outstanding' = Outstanding \cup {Job(kind, of)} /\ Job(kind, of).id = spawned + 1
      /\ Underway(kind, of)' /\ \A k, o : Underway(k, o) => Underway(k, o)'
      /\ UNCHANGED <<results, aborted>> /\ jobs' = jobs \cup {Job(kind, of)} /\ spawned' = spawned + 1
  BY SpawnKeeps DEF RunInv, Spawn
<1>2. /\ spawned \in Nat /\ \A task \in Outstanding : task.id \in Nat /\ task.id <= spawned
  BY OutstandingTyped DEF RunInv
<1>3. operation' \in Operations \cup {None}
  BY DEF RunInv, Operations, Operation
<1>4. ProviderIsBusy'
  <2>1. CASE operation' = operation
    BY <1>1, <2>1 DEF RunInv, ProviderIsBusy
  <2>2. CASE operation' = Operation(of, kind)
    BY <1>1, <2>2 DEF ProviderIsBusy, Operation
  <2>3. CASE operation' = Operation(Catalog, "models")
    BY <2>3, ClientAssumption DEF ProviderIsBusy, Operation
  <2> QED BY <2>1, <2>2, <2>3
<1>5. PollIsRunning'
  <2>1. CASE kind = "output"
    <3>1. of \in Tasks
      BY <2>1 DEF JobType, Job, ProviderKinds, AuthKinds
    <3> QED BY <1>1, <2>1, <3>1 DEF PollIsRunning
  <2>2. CASE output_pending' = output_pending
    BY <1>1, <2>2 DEF RunInv, PollIsRunning
  <2> QED BY <2>1, <2>2
<1>6. AuthTaskInv'
  <2>1. CASE auth_task' = auth_task
    <3>1. SUFFICES ASSUME auth_task # None
                   PROVE  /\ auth_task \in JobType /\ auth_task.kind \in AuthKinds /\ auth_task.id <= spawned + 1
                          /\ \A task \in Outstanding \cup {Job(kind, of)} : task.id = auth_task.id => task = auth_task
      BY <1>1, <2>1 DEF AuthTaskInv
    <3>2. /\ auth_task \in JobType /\ auth_task.kind \in AuthKinds /\ auth_task.id <= spawned
          /\ \A task \in Outstanding : task.id = auth_task.id => task = auth_task
      BY <3>1 DEF RunInv, AuthTaskInv
    <3>3. auth_task.id \in Nat
      BY <3>2 DEF JobType
    <3> QED BY <1>1, <1>2, <3>2, <3>3
  <2>2. CASE auth_task' = Job(kind, of) /\ kind \in AuthKinds
    <3>1. Job(kind, of).kind = kind
      BY DEF Job
    <3> QED BY <1>1, <1>2, <2>2, <3>1 DEF AuthTaskInv
  <2> QED BY <2>1, <2>2
<1>7. AbortedInv'
  <2>1. \A i \in DOMAIN results : results[i].job.id \notin aborted
    BY DEF RunInv, AbortedInv
  <2>2. aborted \subseteq 0..spawned /\ \A task \in jobs : task.id \notin aborted
    BY DEF RunInv, AbortedInv
  <2> QED BY <1>1, <1>2, <2>1, <2>2 DEF AbortedInv
<1> QED BY <1>1, <1>3, <1>4, <1>5, <1>6, <1>7 DEF RunInv

\* A task ends and sends its result.
LEMMA FinishStep ==
  ASSUME RunInv, NEW task \in jobs, Finish(task)
  PROVE  RunInv'
<1>1. PICK ok \in BOOLEAN : results' = Append(results, [job |-> task, ok |-> ok])
  BY DEF Finish
<1>2. /\ jobs' = jobs \ {task} /\ task \in JobType /\ results \in Seq(ResultType)
      /\ UNCHANGED <<operation, auth_task, generation, cached, output_pending, spawned, aborted, stage>>
  BY DEF Finish, RunInv, BackgroundInv, catalog
<1>3. [job |-> task, ok |-> ok] \in ResultType
  BY <1>2 DEF ResultType
<1>4. /\ results' \in Seq(ResultType) /\ DOMAIN results' = 1..(Len(results) + 1) /\ Len(results) \in Nat
      /\ Len(results) + 1 \in DOMAIN results' /\ DOMAIN results = 1..Len(results)
      /\ \A i \in DOMAIN results : i \in DOMAIN results' /\ results'[i] = results[i]
      /\ results'[Len(results) + 1] = [job |-> task, ok |-> ok]
  BY <1>1, <1>2, <1>3, SeqAppended
<1>5. \A i \in DOMAIN results' : \/ i \in DOMAIN results /\ results'[i] = results[i]
                                 \/ i = Len(results) + 1 /\ results'[i].job = task
  BY <1>4
<1>6. Outstanding' = Outstanding
  <2>1. \A x \in Outstanding : x \in Outstanding'
    BY <1>2, <1>4 DEF Outstanding
  <2>2. \A x \in Outstanding' : x \in Outstanding
    BY <1>2, <1>5 DEF Outstanding
  <2> QED BY <2>1, <2>2
<1>7. \A k, o : Underway(k, o) => Underway(k, o)'
  BY <1>2, <1>4 DEF Underway
<1>8. BackgroundInv'
  BY <1>2, <1>4, <1>6 DEF RunInv, BackgroundInv
<1>9. ProviderIsBusy' /\ PollIsRunning'
  BY <1>2, <1>7 DEF RunInv, ProviderIsBusy, PollIsRunning
<1>10. AuthTaskInv'
  BY <1>2, <1>6 DEF RunInv, AuthTaskInv
<1>11. AbortedInv'
  BY <1>2, <1>5 DEF RunInv, AbortedInv
<1> QED BY <1>2, <1>8, <1>9, <1>10, <1>11 DEF RunInv

\* Escape aborts the task of the operation and starts its cancellation.
LEMMA AbortStep ==
  ASSUME RunInv, AbortAuth, stage = "idle", stage' = "events", UNCHANGED <<generation, cached>>
  PROVE  RunInv'
<1> DEFINE cancel == Job("cancel", operation.scope)
<1>1. /\ operation \in Operations /\ operation.kind \in AuthKinds /\ auth_task # None
      /\ auth_task.of = operation.scope /\ auth_task.kind = operation.kind
      /\ operation' = Operation(operation.scope, "cancel") /\ auth_task' = None
      /\ aborted' = aborted \cup {auth_task.id} /\ spawned' = spawned + 1
      /\ jobs' = (jobs \ {auth_task}) \cup {cancel} /\ UNCHANGED output_pending
  BY DEF AbortAuth, Abortable, RunInv, CancelOperation
<1>2. operation.scope \in Providers
  BY <1>1 DEF Operations, AuthKinds
<1>3. /\ auth_task \in JobType /\ auth_task.kind \in AuthKinds /\ auth_task.id <= spawned
      /\ \A task \in Outstanding : task.id = auth_task.id => task = auth_task
  BY <1>1 DEF RunInv, AuthTaskInv
<1>4. /\ spawned \in Nat /\ \A task \in Outstanding : task.id \in Nat /\ task.id <= spawned
      /\ \A i \in DOMAIN results : results[i].job \in Outstanding
      /\ jobs \subseteq Outstanding /\ Outstanding \subseteq JobType /\ auth_task.id \in Nat
  BY <1>3, OutstandingTyped DEF RunInv, Outstanding, JobType
<1>5. cancel \in JobType /\ cancel.id = spawned + 1 /\ cancel.kind = "cancel" /\ cancel.of = operation.scope
  BY <1>2, <1>4 DEF Job, JobType, ProviderKinds
<1>6. /\ results' \in Seq(ResultType)
      /\ \A i \in DOMAIN results : i \in DOMAIN results' /\ results'[i] = results[i]
      /\ \A i \in DOMAIN results' : \/ i \in DOMAIN results /\ results'[i] = results[i]
                                    \/ results'[i].job = auth_task /\ auth_task \in jobs
  <2>1. results \in Seq(ResultType)
    BY DEF RunInv, BackgroundInv
  <2>2. CASE UNCHANGED results
    BY <2>1, <2>2
  <2>3. CASE auth_task \in jobs /\ \E ok \in BOOLEAN : results' = Append(results, [job |-> auth_task, ok |-> ok])
    <3>1. PICK ok \in BOOLEAN : results' = Append(results, [job |-> auth_task, ok |-> ok])
      BY <2>3
    <3>2. [job |-> auth_task, ok |-> ok] \in ResultType
      BY <1>3 DEF ResultType
    <3>3. /\ results' \in Seq(ResultType) /\ DOMAIN results' = 1..(Len(results) + 1)
          /\ DOMAIN results = 1..Len(results) /\ Len(results) \in Nat
          /\ \A i \in DOMAIN results : i \in DOMAIN results' /\ results'[i] = results[i]
          /\ results'[Len(results) + 1] = [job |-> auth_task, ok |-> ok]
      BY <2>1, <3>1, <3>2, SeqAppended
    <3>4. results'[Len(results) + 1].job = auth_task
      BY <3>3
    <3> QED BY <2>3, <3>3, <3>4
  <2> QED BY <2>2, <2>3 DEF AbortAuth
<1>7. Outstanding' \subseteq Outstanding \cup {cancel}
  BY <1>1, <1>4, <1>6 DEF Outstanding
<1>8. BackgroundInv'
  <2>1. spawned' \in Nat /\ \A task \in Outstanding' : task.id <= spawned'
    BY <1>1, <1>4, <1>5, <1>7
  <2>2. jobs' \subseteq JobType
    BY <1>1, <1>4, <1>5
  <2> QED BY <1>6, <2>1, <2>2 DEF BackgroundInv
<1>9. operation' \in Operations /\ ProviderIsBusy'
  <2>1. operation' \in Operations
    BY <1>1, <1>2 DEF Operation, Operations, ProviderKinds
  <2>2. PICK p \in Providers : operation.scope = p
    BY <1>2
  <2>3. cancel \in jobs' /\ operation'.kind = "cancel" /\ operation'.scope = p
    BY <1>1, <2>2 DEF Operation
  <2>4. Underway("cancel", p)'
    BY <1>5, <2>2, <2>3 DEF Underway
  <2> QED BY <2>1, <2>3, <2>4 DEF ProviderIsBusy
<1>10. PollIsRunning'
  <2>1. ASSUME NEW id, Underway("output", id) PROVE Underway("output", id)'
    <3>1. CASE \E task \in jobs : task.kind = "output" /\ task.of = id
      <4>1. PICK task \in jobs : task.kind = "output" /\ task.of = id
        BY <3>1
      <4>2. task # auth_task
        BY <1>3, <4>1 DEF AuthKinds
      <4> QED BY <1>1, <4>1, <4>2 DEF Underway
    <3>2. CASE \E i \in DOMAIN results : results[i].job.kind = "output" /\ results[i].job.of = id
      BY <1>6, <3>2 DEF Underway
    <3> QED BY <2>1, <3>1, <3>2 DEF Underway
  <2> QED BY <1>1, <2>1 DEF RunInv, PollIsRunning
<1>11. AuthTaskInv'
  BY <1>1 DEF AuthTaskInv
<1>12. AbortedInv'
  <2>1. \A i \in DOMAIN results : results[i].job.id \notin aborted
    BY DEF RunInv, AbortedInv
  <2>2. aborted \subseteq 0..spawned /\ \A task \in jobs : task.id \notin aborted
    BY DEF RunInv, AbortedInv
  <2>3. aborted' \subseteq 0..spawned'
    <3>1. auth_task.id \in 0..spawned
      BY <1>3, <1>4
    <3>2. \A k \in 0..spawned : k \in 0..(spawned + 1)
      BY <1>4
    <3>3. aborted' = aborted \cup {auth_task.id} /\ spawned' = spawned + 1 /\ aborted \subseteq 0..spawned
      BY <1>1, <2>2
    <3>4. aborted \cup {auth_task.id} \subseteq 0..(spawned + 1)
      BY <3>1, <3>2, <3>3
    <3> QED BY <3>3, <3>4
  <2>4. \A task \in jobs' : task.id \notin aborted'
    <3>1. \A task \in jobs \ {auth_task} : task.id \notin aborted /\ task.id # auth_task.id
      BY <1>3, <1>4, <2>2
    <3>2. cancel.id \notin aborted /\ cancel.id # auth_task.id
      BY <1>3, <1>4, <1>5, <2>2
    <3> HIDE DEF cancel
    <3> QED BY <1>1, <3>1, <3>2
  <2>5. \A i \in DOMAIN results' : results'[i].job.id \in aborted' => results'[i].job = auth_task
    <3> SUFFICES ASSUME NEW i \in DOMAIN results', results'[i].job.id \in aborted'
                 PROVE  results'[i].job = auth_task
      OBVIOUS
    <3>1. CASE i \in DOMAIN results /\ results'[i] = results[i]
      BY <1>1, <1>3, <1>4, <2>1, <3>1
    <3> QED BY <1>6, <3>1
  <2>6. operation'.kind = "cancel" /\ stage' # "idle"
    BY <1>1 DEF Operation
  <2> QED BY <1>3, <2>3, <2>4, <2>5, <2>6 DEF AbortedInv
<1>13. generation' \in Nat /\ cached' \in 0..generation'
  BY DEF RunInv
<1> QED BY <1>8, <1>9, <1>10, <1>11, <1>12, <1>13 DEF RunInv

\* The result that is applied leaves the channel.
LEMMA TailFacts ==
  ASSUME BackgroundInv, results # <<>>, results' = Tail(results)
  PROVE  /\ results' \in Seq(ResultType) /\ Head(results) = results[1] /\ 1 \in DOMAIN results
         /\ \A i \in DOMAIN results' : i + 1 \in DOMAIN results /\ results'[i] = results[i + 1]
         /\ \A k, o : Underway(k, o) /\ jobs \subseteq jobs' /\ ~(Head(results).job.kind = k /\ Head(results).job.of = o)
                      => Underway(k, o)'
<1>1. results \in Seq(ResultType)
  BY DEF BackgroundInv
<1>2. /\ Len(results) \in Nat \ {0} /\ DOMAIN results = 1..Len(results) /\ Head(results) = results[1]
      /\ results' \in Seq(ResultType) /\ DOMAIN results' = 1..(Len(results) - 1)
      /\ \A i \in 1..(Len(results) - 1) : results'[i] = results[i + 1]
  BY <1>1, SeqFirst
<1>3. ASSUME NEW k, NEW o, Underway(k, o), jobs \subseteq jobs',
             ~(Head(results).job.kind = k /\ Head(results).job.of = o)
      PROVE  Underway(k, o)'
  <2>1. CASE \E task \in jobs : task.kind = k /\ task.of = o
    BY <1>3, <2>1 DEF Underway
  <2>2. CASE \E i \in DOMAIN results : results[i].job.kind = k /\ results[i].job.of = o
    <3>1. PICK i \in DOMAIN results : results[i].job.kind = k /\ results[i].job.of = o
      BY <2>2
    <3>2. i # 1
      BY <1>2, <1>3, <3>1
    <3>3. i - 1 \in DOMAIN results' /\ results'[i - 1] = results[i]
      BY <1>2, <3>2
    <3> QED BY <3>1, <3>3 DEF Underway
  <2> QED BY <1>3, <2>1, <2>2 DEF Underway
<1> QED BY <1>2, <1>3

\* A result is applied without a new task: what it ends was what it belongs to.
LEMMA ApplyStep ==
  ASSUME RunInv, results # <<>>, results' = Tail(results),
         UNCHANGED <<jobs, spawned, aborted, stage, generation>>, cached' \in {cached, generation},
         operation' \in {operation, None}, auth_task' \in {auth_task, None},
         output_pending' = FALSE \/ (output_pending' = output_pending /\ Head(results).job.kind # "output"),
         operation' = None \/ operation # Operation(Head(results).job.of, Head(results).job.kind)
           \/ operation = Operation(Catalog, "models")
  PROVE  RunInv'
<1>1. /\ results' \in Seq(ResultType) /\ Head(results) = results[1] /\ 1 \in DOMAIN results
      /\ \A i \in DOMAIN results' : i + 1 \in DOMAIN results /\ results'[i] = results[i + 1]
      /\ \A k, o : Underway(k, o) /\ jobs \subseteq jobs' /\ ~(Head(results).job.kind = k /\ Head(results).job.of = o)
                   => Underway(k, o)'
  BY TailFacts DEF RunInv
<1>2. Outstanding' \subseteq Outstanding
  BY <1>1 DEF Outstanding
<1>3. BackgroundInv'
  BY <1>1, <1>2 DEF RunInv, BackgroundInv
<1>4. ProviderIsBusy'
  <2>1. CASE operation' = None
    BY <2>1 DEF ProviderIsBusy
  <2>2. CASE operation' = operation /\ operation # None /\ operation.scope \in Providers
    <3>1. PICK k \in ProviderKinds, p \in Providers : operation.kind = k /\ operation.scope = p
      BY <2>2, ClientAssumption DEF RunInv, Operations
    <3>2. operation = Operation(p, k)
      BY <2>2, <3>1 DEF RunInv, Operations, Operation
    <3>3. operation # Operation(Catalog, "models")
      BY <2>2, ClientAssumption DEF Operation
    <3>4. ~(Head(results).job.kind = k /\ Head(results).job.of = p)
      BY <2>2, <3>2, <3>3
    <3>5. Underway(k, p)
      BY <2>2, <3>1 DEF RunInv, ProviderIsBusy
    <3> QED BY <1>1, <2>2, <3>1, <3>4, <3>5 DEF ProviderIsBusy
  <2> QED BY <2>1, <2>2 DEF ProviderIsBusy
<1>5. PollIsRunning'
  <2>1. CASE output_pending' = FALSE
    BY <2>1 DEF PollIsRunning
  <2>2. CASE output_pending' = output_pending /\ Head(results).job.kind # "output"
    BY <1>1, <2>2 DEF RunInv, PollIsRunning
  <2> QED BY <2>1, <2>2
<1>6. AuthTaskInv'
  BY <1>2 DEF RunInv, AuthTaskInv
<1>7. AbortedInv'
  BY <1>1 DEF RunInv, AbortedInv
<1> QED BY <1>3, <1>4, <1>5, <1>6, <1>7 DEF RunInv

\* A confirmed start goes on with its completion.
LEMMA CompleteStep ==
  ASSUME RunInv, results # <<>>, results' = Tail(results), NEW p \in Providers,
         Head(results).job.kind = "start", operation = Operation(p, "start"),
         operation' = Operation(p, "complete"), auth_task' = Job("complete", p),
         jobs' = jobs \cup {Job("complete", p)}, spawned' = spawned + 1,
         UNCHANGED <<aborted, stage, generation, cached, output_pending>>
  PROVE  RunInv'
<1> DEFINE next == Job("complete", p)
<1>1. /\ results' \in Seq(ResultType) /\ 1 \in DOMAIN results
      /\ \A i \in DOMAIN results' : i + 1 \in DOMAIN results /\ results'[i] = results[i + 1]
      /\ \A k, o : Underway(k, o) /\ jobs \subseteq jobs' /\ ~(Head(results).job.kind = k /\ Head(results).job.of = o)
                   => Underway(k, o)'
  BY TailFacts DEF RunInv
<1>2. /\ spawned \in Nat /\ \A task \in Outstanding : task.id \in Nat /\ task.id <= spawned
  BY OutstandingTyped DEF RunInv
<1>3. next \in JobType /\ next.id = spawned + 1 /\ next.kind = "complete" /\ next.of = p
  BY <1>2 DEF Job, JobType, ProviderKinds, AuthKinds
<1>4. Outstanding' \subseteq Outstanding \cup {next}
  BY <1>1 DEF Outstanding
<1> HIDE DEF next
<1>5. jobs' = jobs \cup {next} /\ auth_task' = next
  BY DEF next
<1>6. BackgroundInv'
  <2>1. spawned' \in Nat /\ \A task \in Outstanding' : task.id <= spawned'
    BY <1>2, <1>3, <1>4
  <2>2. jobs' \subseteq JobType
    BY <1>3, <1>5 DEF RunInv, BackgroundInv
  <2> QED BY <1>1, <2>1, <2>2 DEF BackgroundInv
<1>7. operation' \in Operations
  BY DEF Operation, Operations, ProviderKinds, AuthKinds
<1>8. ProviderIsBusy'
  <2>1. Underway("complete", p)'
    BY <1>3, <1>5 DEF Underway
  <2>2. operation'.kind = "complete" /\ operation'.scope = p
    BY DEF Operation
  <2> QED BY <2>1, <2>2 DEF ProviderIsBusy
<1>9. PollIsRunning'
  BY <1>1, <1>5 DEF RunInv, PollIsRunning
<1>10. AuthTaskInv'
  <2>1. \A task \in Outstanding' : task.id = next.id => task = next
    BY <1>2, <1>3, <1>4
  <2> QED BY <1>2, <1>3, <1>5, <2>1 DEF AuthTaskInv, AuthKinds
<1>11. AbortedInv'
  <2>1. operation \in Operations /\ operation.kind = "start"
    BY DEF Operation, Operations, ProviderKinds, AuthKinds
  <2>2. operation # None
    BY <2>1, ClientAssumption
  <2>3. \A i \in DOMAIN results : results[i].job.id \notin aborted
    BY <2>1, <2>2 DEF RunInv, AbortedInv
  <2>4. aborted \subseteq 0..spawned /\ \A task \in jobs : task.id \notin aborted
    BY DEF RunInv, AbortedInv
  <2>5. next.id \notin aborted /\ aborted \subseteq 0..(spawned + 1)
    BY <1>2, <1>3, <2>4
  <2>6. \A i \in DOMAIN results' : results'[i].job.id \notin aborted
    BY <1>1, <2>3
  <2> QED BY <1>5, <2>4, <2>5, <2>6 DEF AbortedInv
<1> QED BY <1>6, <1>7, <1>8, <1>9, <1>10, <1>11 DEF RunInv

\* A poll is of a task of the list.
LEMMA PollStep ==
  ASSUME RunInv, FlagsTyped, NEW of \in Tasks, PollOutput(of), stage = "idle" \/ results = <<>>,
         stage' \in {stage, "events", "results"} \/ results = <<>>,
         UNCHANGED <<operation, auth_task, generation, cached>>
  PROVE  RunInv'
<1>1. CASE NoSpawn /\ UNCHANGED output_pending
  BY <1>1, QuietKeeps DEF NoSpawn, background
<1>2. CASE Spawn("output", of)
  <2>1. Job("output", of) \in JobType
    BY OutstandingTyped DEF RunInv, Job, JobType
  <2>2. generation' \in Nat /\ cached' \in 0..generation'
    BY DEF RunInv
  <2> QED BY <1>2, <2>1, <2>2, SpawnStep
<1> QED BY <1>1, <1>2 DEF PollOutput

\* An operation on a provider that a key starts.
LEMMA StartStep ==
  ASSUME RunInv, NEW p \in Providers, NEW kind \in ProviderKinds, StartOperation(p, kind),
         stage = "idle", UNCHANGED <<generation, cached, output_pending>>
  PROVE  RunInv'
<1>1. Job(kind, p) \in JobType
  BY OutstandingTyped DEF RunInv, Job, JobType
<1>2. operation' \in Operations /\ operation' = Operation(p, kind) /\ Spawn(kind, p)
  BY DEF StartOperation, Operation, Operations
<1>3. auth_task' = auth_task \/ (auth_task' = Job(kind, p) /\ kind \in AuthKinds)
  BY DEF StartOperation
<1>4. generation' \in Nat /\ cached' \in 0..generation'
  BY DEF RunInv
<1> QED BY <1>1, <1>2, <1>3, <1>4, SpawnStep

LEMMA KeyRun ==
  ASSUME RunInv, FlagsTyped, ViewTyped(view), Key
  PROVE  RunInv'
<1> USE DEF background, catalog, NoSpawn
<1>1. stage = "idle" /\ stage' = "events"
  BY DEF Key
<1>2. ASSUME Quiet, UNCHANGED output_pending PROVE RunInv'
  BY <1>1, <1>2, QuietKeeps DEF Quiet
<1>3. ASSUME Command PROVE RunInv'
  <2>1. UNCHANGED output_pending
    BY <1>3 DEF Command
  <2>2. CASE StartModelRefresh
    <3>1. generation + 1 \in Nat /\ cached' \in 0..(generation + 1)
      BY <2>2 DEF RunInv, StartModelRefresh
    <3>2. Job("models", generation + 1) \in JobType
      BY <3>1, OutstandingTyped DEF RunInv, Job, JobType
    <3>3. /\ operation' = Operation(Catalog, "models") /\ generation' = generation + 1
          /\ Spawn("models", generation + 1) /\ auth_task' = auth_task
      BY <2>2 DEF StartModelRefresh
    <3> QED BY <1>1, <2>1, <3>1, <3>2, <3>3, SpawnStep
  <2>3. CASE StartCompaction
    <3>1. Job("compact", None) \in JobType
      BY OutstandingTyped DEF RunInv, Job, JobType
    <3>2. generation' \in Nat /\ cached' \in 0..generation'
      BY <2>3 DEF RunInv, StartCompaction
    <3>3. Spawn("compact", None) /\ auth_task' = auth_task /\ operation' = operation
      BY <2>3 DEF StartCompaction
    <3> QED BY <1>1, <2>1, <3>1, <3>2, <3>3, SpawnStep
  <2>4. CASE Quiet
    BY <1>2, <2>1, <2>4
  <2> QED BY <1>3, <2>2, <2>3, <2>4 DEF Command, ShowProviders, ShowThinking, ShowSessions,
             ShowContext, ShowTasks, NewSession
<1>4. ASSUME Interrupt \/ Bar \/ RespondToQuestion PROVE RunInv'
  <2>1. UNCHANGED <<operation, auth_task, catalog, output_pending>> /\ NoSpawn
    BY <1>4 DEF Interrupt, Bar, RespondToQuestion
  <2> QED BY <1>1, <2>1, QuietKeeps
<1>5. ASSUME ViewKey PROVE RunInv'
  <2>1. UNCHANGED <<generation, cached>>
    BY <1>5 DEF ViewKey
  <2>2. ASSUME NoSpawn, operation' \in {operation, None}, auth_task' = auth_task, UNCHANGED output_pending
        PROVE  RunInv'
    BY <1>1, <2>1, <2>2, QuietKeeps
  <2>3. ASSUME NEW p \in Providers, NEW kind \in ProviderKinds, StartOperation(p, kind), UNCHANGED output_pending
        PROVE  RunInv'
    BY <1>1, <2>1, <2>3, StartStep
  <2>4. CASE Confirm
    <3>1. CASE OpenSettings \/ OpenThinking
      <4>1. UNCHANGED output_pending
        BY <2>4, <3>1 DEF Confirm, OpenSettings, OpenThinking, OpenLog, ConfirmDiscard
      <4> QED BY <2>2, <3>1, <4>1 DEF OpenSettings, OpenThinking
    <3>2. CASE (ConfirmAction \/ SelectModel) /\ UNCHANGED output_pending
      <4>1. ASSUME ConfirmAction PROVE view.of \in Providers
        BY <4>1 DEF ConfirmAction, ViewTyped
      <4>2. \E p \in Providers, kind \in ProviderKinds : StartOperation(p, kind)
        BY <3>2, <4>1 DEF ConfirmAction, SelectModel, ProviderKinds, AuthKinds
      <4> QED BY <2>3, <3>2, <4>2
    <3>3. CASE OpenLog
      <4>1. CASE HasTask
        <5>1. view.of \in Tasks
          BY <3>3, <4>1 DEF OpenLog, HasTask, ViewTyped
        <5>2. PollOutput(view.of) /\ UNCHANGED <<operation, auth_task>>
          BY <3>3, <4>1 DEF OpenLog
        <5>3. PICK of \in Tasks : view.of = of
          BY <5>1
        <5> QED BY <1>1, <2>1, <5>2, <5>3, PollStep
      <4>2. CASE ~HasTask
        BY <2>2, <3>3, <4>2 DEF OpenLog
      <4> QED BY <4>1, <4>2
    <3>4. CASE ConfirmDiscard /\ UNCHANGED output_pending
      <4>1. CASE NoSpawn
        BY <2>2, <3>4, <4>1 DEF ConfirmDiscard
      <4>2. CASE Spawn("discard", None)
        <5>1. Job("discard", None) \in JobType
          BY OutstandingTyped DEF RunInv, Job, JobType
        <5>2. generation' \in Nat /\ cached' \in 0..generation'
          BY <2>1 DEF RunInv
        <5>3. auth_task' = auth_task /\ operation' = operation
          BY <3>4 DEF ConfirmDiscard
        <5> QED BY <1>1, <3>4, <4>2, <5>1, <5>2, <5>3, SpawnStep
      <4> QED BY <3>4, <4>1, <4>2 DEF ConfirmDiscard
    <3> QED BY <2>4, <3>1, <3>2, <3>3, <3>4 DEF Confirm
  <2>5. CASE SelectTask
    BY <2>2, <2>5 DEF SelectTask
  <2>6. CASE StopTask
    <3>1. view.of \in Tasks /\ PollOutput(view.of) /\ UNCHANGED <<operation, auth_task>>
      BY <2>6 DEF StopTask, ViewTyped
    <3>2. PICK of \in Tasks : view.of = of
      BY <3>1
    <3> QED BY <1>1, <2>1, <3>1, <3>2, PollStep
  <2>7. ASSUME Back PROVE RunInv'
    BY <2>2, <2>7 DEF Back
  <2>8. ASSUME CancelPrompt \/ SubmitPrompt PROVE RunInv'
    <3>1. view.of \in Providers /\ UNCHANGED output_pending
      BY <2>8 DEF CancelPrompt, SubmitPrompt, ViewTyped
    <3>2. \E p \in Providers, kind \in ProviderKinds : StartOperation(p, kind)
      BY <2>8, <3>1 DEF CancelPrompt, SubmitPrompt, ProviderKinds, AuthKinds
    <3> QED BY <2>3, <3>1, <3>2
  <2>9. ASSUME AbortAuth PROVE RunInv'
    BY <1>1, <2>1, <2>9, AbortStep
  <2>10. CASE Escape
    BY <2>7, <2>8, <2>9, <2>10 DEF Escape
  <2>11. CASE ConfirmSession
    BY <2>2, <2>11 DEF ConfirmSession
  <2> QED BY <1>5, <2>4, <2>5, <2>6, <2>8, <2>10, <2>11 DEF ViewKey
<1> QED BY <1>3, <1>4, <1>5 DEF Key

LEMMA PumpRun ==
  ASSUME RunInv, FlagsTyped, ViewTyped(view), Pump
  PROVE  RunInv'
<1> USE DEF background, catalog, NoSpawn
<1>1. CASE HandleEvents
  BY <1>1, QuietKeeps DEF HandleEvents
<1>2. CASE EndPump
  <2>1. results = <<>> /\ UNCHANGED <<operation, auth_task, generation, cached>>
    BY <1>2 DEF EndPump
  <2>2. CASE NoSpawn /\ (output_pending' = FALSE \/ output_pending' = output_pending)
    BY <2>1, <2>2, QuietKeeps
  <2>3. CASE Target # None /\ PollOutput(Target)
    <3>1. PICK of \in Tasks : Target = of
      BY <2>3 DEF Target, ViewTyped
    <3> QED BY <2>1, <2>3, <3>1, PollStep
  <2> QED BY <1>2, <2>2, <2>3 DEF EndPump
<1>3. CASE ApplyResult
  <2> DEFINE r == Head(results).job
             ok == Head(results).ok
  <2>1. results # <<>> /\ results' = Tail(results) /\ UNCHANGED <<aborted, stage>>
    BY <1>3 DEF ApplyResult
  <2>2. r \in JobType
    <3>1. results \in Seq(ResultType)
      BY DEF RunInv, BackgroundInv
    <3>2. Head(results) \in ResultType
      BY <2>1, <3>1, SeqFirst
    <3> QED BY <3>2 DEF ResultType
  <2>3. ASSUME UNCHANGED <<jobs, spawned, generation, cached, output_pending>>, r.kind # "output",
               operation' \in {operation, None}, auth_task' \in {auth_task, None},
               operation' = None \/ ~Belongs(r)
        PROVE  RunInv'
    BY <2>1, <2>3, ApplyStep DEF Belongs
  <2>4. CASE r.kind = "models" /\ ApplyModels(r, ok)
    <3>1. /\ UNCHANGED <<jobs, spawned, generation, output_pending, auth_task>>
          /\ cached' \in {cached, generation} /\ operation' \in {operation, None}
      BY <2>4 DEF ApplyModels, Current
    <3>2. operation = None \/ operation # Operation(r.of, "models") \/ operation = Operation(Catalog, "models")
      <4>1. ASSUME operation \in Operations, operation.kind = "models" PROVE operation = Operation(Catalog, "models")
        BY <4>1 DEF Operations, Operation, ProviderKinds, AuthKinds
      <4>2. Operation(r.of, "models").kind = "models"
        BY DEF Operation
      <4> QED BY <4>1, <4>2 DEF RunInv
    <3> QED BY <2>1, <2>4, <3>1, <3>2, ApplyStep
  <2>5. CASE r.kind = "discard" /\ ApplyDiscard(ok)
    <3>1. UNCHANGED <<jobs, spawned, generation, cached, output_pending, operation, auth_task>>
      BY <2>5 DEF ApplyDiscard
    <3>2. operation = None \/ operation # Operation(r.of, r.kind)
      BY <2>5 DEF RunInv, Operations, Operation, ProviderKinds, AuthKinds
    <3> QED BY <2>1, <2>5, <3>1, <3>2, ApplyStep
  <2>6. CASE r.kind = "compact" /\ ApplyCompact(ok)
    <3>1. UNCHANGED <<jobs, spawned, generation, cached, output_pending, operation, auth_task>>
      BY <2>6 DEF ApplyCompact
    <3>2. operation = None \/ operation # Operation(r.of, r.kind)
      BY <2>6 DEF RunInv, Operations, Operation, ProviderKinds, AuthKinds
    <3> QED BY <2>1, <2>6, <3>1, <3>2, ApplyStep
  <2>7. CASE r.kind = "output" /\ ApplyOutput(r, ok)
    <3>1. UNCHANGED <<jobs, spawned, generation, cached, operation, auth_task>> /\ output_pending' = FALSE
      BY <2>7 DEF ApplyOutput, PendingAfter
    <3>2. operation = None \/ operation # Operation(r.of, r.kind)
      BY <2>7 DEF RunInv, Operations, Operation, ProviderKinds, AuthKinds
    <3> QED BY <2>1, <2>7, <3>1, <3>2, ApplyStep
  <2>8. CASE r.kind \in ProviderKinds /\ ApplyOperation(r, ok)
    <3>1. UNCHANGED <<generation, cached, output_pending>> /\ r.kind # "output"
      BY <2>8 DEF ApplyOperation, ProviderKinds, AuthKinds
    <3>2. CASE ~Belongs(r)
      <4>1. UNCHANGED <<operation, auth_task, jobs, spawned>>
        BY <2>8, <3>2 DEF ApplyOperation
      <4> QED BY <2>3, <3>1, <3>2, <4>1
    <3>3. CASE Belongs(r) /\ r.kind = "start"
      <4>1. ApplyStart(r, ok)
        BY <2>8, <3>3 DEF ApplyOperation
      <4>2. PICK p \in Providers : r.of = p
        BY <2>2, <3>3 DEF JobType
      <4>3. operation = Operation(p, "start")
        BY <3>3, <4>2 DEF Belongs
      <4>4. CASE /\ operation' = Operation(p, "complete") /\ auth_task' = Job("complete", p)
                 /\ jobs' = jobs \cup {Job("complete", p)} /\ spawned' = spawned + 1
        BY <2>1, <3>1, <3>3, <4>3, <4>4, CompleteStep
      <4>5. CASE operation' = None /\ auth_task' = ForgetTask(r) /\ UNCHANGED <<jobs, spawned>>
        BY <2>3, <3>1, <4>5 DEF ForgetTask
      <4> QED BY <4>1, <4>2, <4>4, <4>5 DEF ApplyStart
    <3>4. CASE Belongs(r) /\ r.kind # "start"
      <4>1. ApplyOther(r, ok)
        BY <2>8, <3>4 DEF ApplyOperation
      <4>2. operation' = None /\ auth_task' \in {auth_task, None} /\ UNCHANGED <<jobs, spawned>>
        BY <4>1 DEF ApplyOther, ForgetTask
      <4> QED BY <2>3, <3>1, <4>2
    <3> QED BY <3>2, <3>3, <3>4
  <2>9. r.kind \in ProviderKinds \cup {"models", "output", "compact", "discard"}
    BY <2>2 DEF JobType
  <2> QED BY <1>3, <2>4, <2>5, <2>6, <2>7, <2>8, <2>9 DEF ApplyResult, ProviderKinds, AuthKinds
<1> QED BY <1>1, <1>2, <1>3 DEF Pump

LEMMA RunKept ==
  ASSUME RunInv, FlagsTyped, ViewTyped(view), ClientNext
  PROVE  RunInv'
<1>1. CASE Core
  BY <1>1, QuietKeeps DEF Core, background, catalog
<1>2. ASSUME NEW task \in jobs, Finish(task) PROVE RunInv'
  BY <1>2, FinishStep
<1> QED BY <1>1, <1>2, KeyRun, PumpRun DEF ClientNext

--------------------------------------------------------------------------------
(* The refresh of the model catalog.                                       *)

\* What is under way stays so, and no new refresh begins.
LEMMA CatalogStays ==
  ASSUME CatalogIsComing, UNCHANGED <<generation, cached>>,
         operation' = operation \/ operation' # Operation(Catalog, "models"),
         Underway("models", generation) => Underway("models", generation)'
  PROVE  CatalogIsComing'
BY DEF CatalogIsComing

LEMMA CatalogFinish ==
  ASSUME CatalogIsComing, RunInv, NEW task \in jobs, Finish(task)
  PROVE  CatalogIsComing'
<1>1. PICK ok \in BOOLEAN : results' = Append(results, [job |-> task, ok |-> ok])
  BY DEF Finish
<1>2. /\ jobs' = jobs \ {task} /\ task \in JobType /\ results \in Seq(ResultType)
      /\ UNCHANGED <<operation, generation, cached>>
  BY DEF Finish, RunInv, BackgroundInv, catalog
<1>3. [job |-> task, ok |-> ok] \in ResultType
  BY <1>2 DEF ResultType
<1>4. /\ Len(results) + 1 \in DOMAIN results'
      /\ \A i \in DOMAIN results : i \in DOMAIN results' /\ results'[i] = results[i]
      /\ results'[Len(results) + 1].job = task
  BY <1>1, <1>2, <1>3, SeqAppended
<1>5. ASSUME Underway("models", generation) PROVE Underway("models", generation)'
  BY <1>2, <1>4, <1>5 DEF Underway
<1> QED BY <1>2, <1>5, CatalogStays

\* A key starts a newer refresh or leaves it alone.
LEMMA CatalogKey ==
  ASSUME CatalogIsComing, RunInv, ViewTyped(view), Key
  PROVE  CatalogIsComing'
<1> USE DEF catalog, background, NoSpawn
<1>1. ASSUME NEW kind, NEW of, NoSpawn \/ Spawn(kind, of)
      PROVE  \A o : Underway("models", o) => Underway("models", o)'
  BY <1>1 DEF Spawn, Underway
<1>2. ASSUME UNCHANGED <<generation, cached>>, operation' \in {operation, None}, NEW kind, NEW of, NoSpawn \/ Spawn(kind, of)
      PROVE  CatalogIsComing'
  <2>1. None # Operation(Catalog, "models")
    BY ClientAssumption DEF Operation, Operations
  <2> QED BY <1>1, <1>2, <2>1, CatalogStays
<1>3. ASSUME NEW p \in Providers, NEW kind PROVE Operation(p, kind) # Operation(Catalog, "models")
  <2>1. Operation(p, kind).scope = p /\ Operation(Catalog, "models").scope = Catalog
    BY DEF Operation
  <2> QED BY <2>1, ClientAssumption
<1>4. ASSUME NEW p \in Providers, NEW kind, StartOperation(p, kind), UNCHANGED <<generation, cached>>
      PROVE  CatalogIsComing'
  <2>1. operation' = Operation(p, kind) /\ Spawn(kind, p)
    BY <1>4 DEF StartOperation
  <2> QED BY <1>1, <1>3, <1>4, <2>1, CatalogStays
<1>5. ASSUME NEW of, PollOutput(of), UNCHANGED <<operation, generation, cached>> PROVE CatalogIsComing'
  <2>1. NoSpawn \/ Spawn("output", of)
    BY <1>5 DEF PollOutput
  <2> QED BY <1>2, <1>5, <2>1
<1>6. ASSUME Command PROVE CatalogIsComing'
  <2>1. CASE StartModelRefresh
    <3>1. generation' = generation + 1 /\ Spawn("models", generation + 1)
      BY <2>1 DEF StartModelRefresh
    <3>2. Job("models", generation + 1) \in jobs' /\ Job("models", generation + 1).kind = "models"
          /\ Job("models", generation + 1).of = generation'
      BY <3>1 DEF Spawn, Job
    <3>3. Underway("models", generation)'
      BY <3>2 DEF Underway
    <3> QED BY <3>3 DEF CatalogIsComing
  <2>2. CASE StartCompaction
    <3>1. Spawn("compact", None) /\ UNCHANGED <<operation, generation, cached>>
      BY <2>2 DEF StartCompaction
    <3> QED BY <1>2, <3>1
  <2>3. CASE Quiet
    BY <1>2, <2>3 DEF Quiet
  <2> QED BY <1>6, <2>1, <2>2, <2>3 DEF Command, ShowProviders, ShowThinking, ShowSessions,
             ShowContext, ShowTasks, NewSession
<1>7. ASSUME Interrupt \/ Bar \/ RespondToQuestion PROVE CatalogIsComing'
  BY <1>2, <1>7 DEF Interrupt, Bar, RespondToQuestion
<1>8. ASSUME ViewKey PROVE CatalogIsComing'
  <2>1. UNCHANGED <<generation, cached>>
    BY <1>8 DEF ViewKey
  <2>2. CASE Confirm
    <3>1. CASE OpenSettings \/ OpenThinking
      BY <1>2, <2>1, <3>1 DEF OpenSettings, OpenThinking
    <3>2. CASE ConfirmAction \/ SelectModel
      <4>1. ASSUME ConfirmAction PROVE view.of \in Providers
        BY <4>1 DEF ConfirmAction, ViewTyped
      <4>2. \E p \in Providers, kind \in ProviderKinds : StartOperation(p, kind)
        BY <3>2, <4>1 DEF ConfirmAction, SelectModel, ProviderKinds, AuthKinds
      <4> QED BY <1>4, <2>1, <4>2
    <3>3. CASE OpenLog
      <4>1. UNCHANGED operation /\ (NoSpawn \/ PollOutput(view.of))
        BY <3>3 DEF OpenLog
      <4> QED BY <1>2, <1>5, <2>1, <4>1
    <3>4. CASE ConfirmDiscard
      <4>1. UNCHANGED operation /\ (NoSpawn \/ Spawn("discard", None))
        BY <3>4 DEF ConfirmDiscard
      <4> QED BY <1>2, <2>1, <4>1
    <3> QED BY <2>2, <3>1, <3>2, <3>3, <3>4 DEF Confirm
  <2>3. CASE SelectTask \/ ConfirmSession
    BY <1>2, <2>1, <2>3 DEF SelectTask, ConfirmSession
  <2>4. CASE StopTask
    BY <1>5, <2>1, <2>4 DEF StopTask
  <2>5. ASSUME Back PROVE CatalogIsComing'
    BY <1>2, <2>1, <2>5 DEF Back
  <2>6. ASSUME CancelPrompt \/ SubmitPrompt PROVE CatalogIsComing'
    <3>1. view.of \in Providers
      BY <2>6 DEF CancelPrompt, SubmitPrompt, ViewTyped
    <3> QED BY <1>4, <2>1, <2>6, <3>1 DEF CancelPrompt, SubmitPrompt
  <2>7. ASSUME AbortAuth PROVE CatalogIsComing'
    <3>1. /\ operation \in Operations /\ operation.kind \in AuthKinds
          /\ operation' = Operation(operation.scope, "cancel")
      BY <2>7 DEF AbortAuth, Abortable, RunInv, CancelOperation
    <3>2. operation.scope \in Providers
      BY <3>1 DEF Operations, AuthKinds
    <3>3. operation' # Operation(Catalog, "models")
      <4>1. operation'.kind = "cancel" /\ Operation(Catalog, "models").kind = "models"
        BY <3>1 DEF Operation
      <4> QED BY <4>1
    <3> QED BY <3>3 DEF CatalogIsComing
  <2>8. CASE Escape
    BY <2>5, <2>6, <2>7, <2>8 DEF Escape
  <2> QED BY <1>8, <2>2, <2>3, <2>4, <2>6, <2>8 DEF ViewKey
<1> QED BY <1>6, <1>7, <1>8 DEF Key

\* The catalog that comes ends the refresh, or is kept; an older one is not.
LEMMA CatalogApplied ==
  ASSUME CatalogIsComing, RunInv, ApplyResult
  PROVE  CatalogIsComing'
<1> DEFINE r == Head(results).job
           ok == Head(results).ok
<1> USE DEF catalog
<1>1. results # <<>> /\ results' = Tail(results)
  BY DEF ApplyResult
<1>2. r \in JobType
  <2>1. results \in Seq(ResultType)
    BY DEF RunInv, BackgroundInv
  <2>2. Head(results) \in ResultType
    BY <1>1, <2>1, SeqFirst
  <2> QED BY <2>2 DEF ResultType
<1>3. \A o : Underway("models", o) /\ jobs \subseteq jobs' /\ ~(r.kind = "models" /\ r.of = o) => Underway("models", o)'
  BY <1>1, TailFacts DEF RunInv
<1>4. Operation(Catalog, "models") # None
  BY ClientAssumption DEF Operation, Operations
<1> HIDE DEF r, ok
<1>5. CASE r.kind = "models" /\ ApplyModels(r, ok)
  <2>1. CASE r.of # generation
    <3>1. operation' = operation /\ cached' = cached /\ generation' = generation /\ jobs' = jobs
      BY <1>5, <2>1 DEF ApplyModels, Current
    <3> QED BY <1>3, <2>1, <3>1, CatalogStays
  <2>2. CASE r.of = generation /\ operation' = Operation(Catalog, "models")
    <3>1. operation = Operation(Catalog, "models") /\ ok /\ generation' = generation
      BY <1>4, <1>5, <2>2 DEF ApplyModels, Current
    <3>2. cached' = generation
      BY <1>5, <2>2, <3>1 DEF ApplyModels, Current
    <3> QED BY <3>1, <3>2 DEF CatalogIsComing
  <2>3. CASE operation' # Operation(Catalog, "models")
    BY <2>3 DEF CatalogIsComing
  <2> QED BY <2>1, <2>2, <2>3
<1>6. ASSUME r.kind # "models", UNCHANGED <<generation, cached>>, jobs \subseteq jobs',
             operation' = operation \/ operation' # Operation(Catalog, "models")
      PROVE  CatalogIsComing'
  BY <1>3, <1>6, CatalogStays
<1>7. CASE r.kind # "models" /\ (ApplyDiscard(ok) \/ ApplyOutput(r, ok) \/ ApplyCompact(ok))
  <2>1. UNCHANGED <<generation, cached, jobs, operation>>
    BY <1>7 DEF ApplyDiscard, ApplyOutput, ApplyCompact
  <2> QED BY <1>6, <1>7, <2>1
<1>8. CASE r.kind # "models" /\ ApplyOperation(r, ok)
  <2>1. UNCHANGED <<generation, cached>>
    BY <1>8 DEF ApplyOperation
  <2>2. CASE ~Belongs(r)
    <3>1. UNCHANGED <<jobs, operation>>
      BY <1>8, <2>2 DEF ApplyOperation
    <3> QED BY <1>6, <1>8, <2>1, <3>1
  <2>3. CASE Belongs(r)
    <3>1. ApplyStart(r, ok) \/ ApplyOther(r, ok)
      BY <1>8, <2>3 DEF ApplyOperation
    <3>2. operation' = None \/ operation' = Operation(r.of, "complete")
      BY <3>1 DEF ApplyStart, ApplyOther
    <3>3. Operation(r.of, "complete") # Operation(Catalog, "models")
      <4>1. Operation(r.of, "complete").kind = "complete" /\ Operation(Catalog, "models").kind = "models"
        BY DEF Operation
      <4> QED BY <4>1
    <3>4. operation' # Operation(Catalog, "models")
      BY <1>4, <3>2, <3>3
    <3> QED BY <3>4 DEF CatalogIsComing
  <2> QED BY <2>2, <2>3
<1> QED BY <1>5, <1>7, <1>8 DEF ApplyResult, r, ok

LEMMA CatalogKept ==
  ASSUME CatalogIsComing, RunInv, ViewTyped(view), ClientNext
  PROVE  CatalogIsComing'
<1> USE DEF background, catalog, NoSpawn
<1>1. ASSUME UNCHANGED <<jobs, results, generation, cached, operation>> PROVE CatalogIsComing'
  BY <1>1, CatalogStays DEF Underway
<1>2. CASE Core
  BY <1>1, <1>2 DEF Core
<1>3. CASE HandleEvents
  BY <1>1, <1>3 DEF HandleEvents
<1>4. CASE EndPump
  <2>1. UNCHANGED <<generation, cached, operation>> /\ (NoSpawn \/ PollOutput(Target))
    BY <1>4 DEF EndPump
  <2>2. jobs \subseteq jobs' /\ results' = results
    BY <2>1 DEF PollOutput, Spawn
  <2> QED BY <2>1, <2>2, CatalogStays DEF Underway
<1> QED BY <1>2, <1>3, <1>4, CatalogFinish, CatalogKey, CatalogApplied DEF ClientNext, Pump

--------------------------------------------------------------------------------
(* The invariant of the client.                                            *)

LEMMA ClientInvParts == ClientInv <=> SurfaceInv /\ FlagsTyped /\ RunInv /\ CatalogIsComing
<1>1. ASSUME SurfaceInv, FlagsTyped, RunInv PROVE ClientTypeOK
  <2>1. ToSet(questions) \cup ToSet(known) \subseteq 1..MaxQuestions
    <3>1. \A i \in DOMAIN questions : questions[i] \in 1..MaxQuestions
      BY <1>1, SeqElements DEF SurfaceInv
    <3>2. \A i \in DOMAIN known : known[i] \in 1..MaxQuestions
      BY <1>1, SeqElements DEF SurfaceInv
    <3> QED BY <3>1, <3>2 DEF ToSet
  <2>2. operation # None => operation.scope \in Providers \cup {Catalog}
    BY <1>1 DEF RunInv, Operations
  <2> QED BY <1>1, <2>1, <2>2 DEF ClientTypeOK, SurfaceInv, ViewTyped, FlagsTyped
<1>2. ASSUME ClientTypeOK PROVE FlagsTyped /\ ViewTyped(view) /\ output \in Tasks \cup {None}
  BY <1>2 DEF ClientTypeOK, FlagsTyped, ViewTyped
<1> QED BY <1>1, <1>2 DEF ClientInv, ScreenIsTrue, OperationIsRunning, SurfaceInv, RunInv, StateInv

LEMMA ClientInvPartsNext == (ClientInv <=> SurfaceInv /\ FlagsTyped /\ RunInv /\ CatalogIsComing)'
BY ClientInvParts, PTL

LEMMA ClientInitInv == ClientInit => ClientInv
<1> SUFFICES ASSUME ClientInit PROVE ClientInv
  OBVIOUS
<1> USE DEF ClientInit
<1>1. SurfaceInv
  BY ClientAssumption, InputTyped DEF SurfaceInv, OutputIsOfTask, NoQuestionLeftBehind
<1>2. FlagsTyped
  BY DEF FlagsTyped
<1>3. RunInv
  BY DEF RunInv, BackgroundInv, Outstanding, ProviderIsBusy, PollIsRunning, AuthTaskInv, AbortedInv
<1>4. CatalogIsComing
  BY DEF CatalogIsComing
<1> QED BY <1>1, <1>2, <1>3, <1>4, ClientInvParts

LEMMA ClientInvKept == ClientInv /\ ClientNext => ClientInv'
<1> SUFFICES ASSUME ClientInv, ClientNext PROVE ClientInv'
  OBVIOUS
<1>1. SurfaceInv /\ FlagsTyped /\ RunInv /\ CatalogIsComing /\ BackgroundInv /\ operation \in Operations \cup {None} /\ ViewTyped(view)
  BY ClientInvParts DEF RunInv, SurfaceInv
<1>2. SurfaceInv' /\ FlagsTyped' /\ RunInv' /\ CatalogIsComing'
  BY <1>1, SurfaceKept, FlagsKept, RunKept, CatalogKept
<1> QED BY <1>2, ClientInvPartsNext

\* A step of another part of the client leaves the views alone.
LEMMA OthersLeaveViews == [Next]_vars => ClientNext \/ UNCHANGED clientVars
BY DEF Next, vars, Views, Turns, Dialog, List, Compose, Remember

LEMMA ClientUnchanged == ClientInv /\ UNCHANGED clientVars => ClientInv'
<1> SUFFICES ASSUME ClientInv, UNCHANGED clientVars PROVE ClientInv'
  OBVIOUS
<1>1. UNCHANGED <<questions, asked, known, view, output, unread, bar_focused, output_pending, pending_switch, retained>>
  BY DEF clientVars, core, surface
<1>2. /\ UNCHANGED <<jobs, results, spawned, aborted, auth_task, generation, cached, operation, stage>>
      /\ SurfaceInv /\ FlagsTyped /\ RunInv /\ CatalogIsComing
  BY ClientInvParts DEF clientVars, background, catalog
<1>3. SurfaceInv'
  BY <1>1, <1>2, SameViewKeeps
<1>4. FlagsTyped'
  BY <1>1, <1>2 DEF FlagsTyped
<1>5. RunInv'
  BY <1>1, <1>2, QuietKeeps
<1>6. CatalogIsComing'
  BY <1>2, CatalogStays DEF Underway
<1> QED BY <1>3, <1>4, <1>5, <1>6, ClientInvPartsNext

\* The invariant of the views and their background operations.
LEMMA ClientAlways == Spec => []ClientInv
<1>1. Init => ClientInv
  BY ClientInitInv DEF Init
<1>2. ClientInv /\ [Next]_vars => ClientInv'
  BY ClientInvKept, ClientUnchanged, OthersLeaveViews
<1> QED BY <1>1, <1>2, PTL DEF Spec

\* What the screen shows is so, whichever results come late, are aborted or are
\* superseded: an operation on a provider that is shown is running, a refresh of
\* the catalog is running or left behind by a catalog that came unseen, a pending
\* poll is running, the log shows its own task, and no question stays that the
\* core has ended.
THEOREM ScreenAlwaysTrue == Spec => []ScreenIsTrue
<1>1. ClientInv => ScreenIsTrue
  BY DEF ClientInv
<1> QED BY <1>1, ClientAlways, PTL

\* No result of an aborted task belongs to the operation of the moment.
LEMMA AbortedDoesNotBelong ==
  ASSUME RunInv, results # <<>>, Head(results).job.id \in aborted
  PROVE  Head(results).job.kind \in AuthKinds /\ ~Belongs(Head(results).job)
<1> DEFINE r == Head(results).job
<1>1. results \in Seq(ResultType)
  BY DEF RunInv, BackgroundInv
<1>2. Head(results) = results[1] /\ 1 \in DOMAIN results /\ results[1] \in ResultType
  BY <1>1, SeqFirst
<1>3. r.kind \in AuthKinds /\ (operation = None \/ operation.kind = "cancel")
  BY <1>2 DEF RunInv, AbortedInv
<1>4. r \in JobType
  BY <1>2 DEF ResultType
<1>5. r.of \in Providers
  BY <1>3, <1>4 DEF JobType, AuthKinds
<1>6. Operation(r.of, r.kind) \in Operations /\ Operation(r.of, r.kind).kind # "cancel"
  BY <1>3, <1>5 DEF Operation, Operations, ProviderKinds, AuthKinds
<1>7. Operation(r.of, r.kind) # None
  BY <1>6, ClientAssumption
<1> QED BY <1>3, <1>6, <1>7 DEF Belongs

LEMMA CancelledStaysInert ==
  ASSUME RunInv, ClientNext, NEW i \in {1} \cap DOMAIN results, stage = "results",
         results[i].job.id \in aborted, results' = Tail(results)
  PROVE  UNCHANGED <<view, operation, auth_task>>
<1>1. results \in Seq(ResultType) /\ results # <<>> /\ Head(results) = results[i]
  BY SeqFirst DEF RunInv, BackgroundInv
<1>2. Len(Tail(results)) = Len(results) - 1 /\ Len(results) \in Nat
  BY <1>1, SeqFirst
<1>3. results' # results
  <2>1. Len(results') = Len(results) - 1
    BY <1>2
  <2> QED BY <1>2, <2>1
<1>4. ~Core
  BY <1>3 DEF Core, background
<1>5. ~\E task \in jobs : Finish(task)
  <2> SUFFICES ASSUME NEW task \in jobs, Finish(task) PROVE FALSE
    OBVIOUS
  <2>1. PICK ok \in BOOLEAN : results' = Append(results, [job |-> task, ok |-> ok])
    BY DEF Finish
  <2>2. [job |-> task, ok |-> ok] \in ResultType
    BY DEF ResultType, RunInv, BackgroundInv
  <2>3. Len(results') = Len(results) + 1
    BY <1>1, <2>1, <2>2
  <2> QED BY <1>2, <2>3
<1>6. ~Key /\ ~HandleEvents /\ ~EndPump
  BY <1>1 DEF Key, HandleEvents, EndPump
<1>7. ApplyResult
  BY <1>4, <1>5, <1>6 DEF ClientNext, Pump
<1>8. Head(results).job.kind \in AuthKinds /\ ~Belongs(Head(results).job)
  BY <1>1, AbortedDoesNotBelong
<1>9. ApplyOperation(Head(results).job, Head(results).ok)
  BY <1>7, <1>8 DEF ApplyResult, AuthKinds
<1> QED BY <1>8, <1>9 DEF ApplyOperation, KeepView

\* A catalog is replaced by the one that was asked for last.
LEMMA CatalogGrows ==
  ASSUME RunInv, ClientNext
  PROVE  cached' >= cached
<1> USE DEF RunInv, catalog
<1>1. CASE UNCHANGED cached
  BY <1>1
<1>2. CASE Core \/ HandleEvents \/ EndPump \/ \E task \in jobs : Finish(task)
  BY <1>1, <1>2 DEF Core, HandleEvents, EndPump, Finish
<1>3. CASE Key
  BY <1>1, <1>3 DEF Key, Command, ShowProviders, ShowThinking, ShowSessions, ShowContext, ShowTasks, NewSession, Quiet,
     StartModelRefresh, StartCompaction, Interrupt, Bar, ViewKey, RespondToQuestion
<1>4. CASE ApplyResult
  <2>1. ASSUME NEW r, NEW ok, ApplyModels(r, ok) PROVE cached' \in {cached, generation}
    BY <2>1 DEF ApplyModels, Current
  <2>2. ASSUME NEW r, NEW ok, ApplyOutput(r, ok) \/ ApplyDiscard(ok) \/ ApplyCompact(ok) \/ ApplyOperation(r, ok)
        PROVE  UNCHANGED cached
    BY <2>2 DEF ApplyOutput, ApplyDiscard, ApplyCompact, ApplyOperation
  <2>3. cached' \in {cached, generation}
    BY <1>4, <2>1, <2>2 DEF ApplyResult
  <2> QED BY <2>3
<1> QED BY <1>2, <1>3, <1>4 DEF ClientNext, Pump

\* A late result is inert: that of a cancelled authentication changes neither the
\* view nor the operation under way, and an older catalog never replaces a newer.
THEOREM LateResultsStayInert == Spec => LateResultsAreInert
<1>1. ClientInv /\ [Next]_vars =>
        [\A i \in {1} \cap DOMAIN results :
           stage = "results" /\ results[i].job.id \in aborted /\ results' = Tail(results)
           => UNCHANGED <<view, operation, auth_task>>]_clientVars
  <2> SUFFICES ASSUME ClientInv, ClientNext
               PROVE  \A i \in {1} \cap DOMAIN results :
                        stage = "results" /\ results[i].job.id \in aborted /\ results' = Tail(results)
                        => UNCHANGED <<view, operation, auth_task>>
    BY OthersLeaveViews
  <2> QED BY CancelledStaysInert, ClientInvParts
<1>2. ClientInv /\ [Next]_vars => [cached' >= cached]_clientVars
  BY OthersLeaveViews, CatalogGrows, ClientInvParts
<1> QED BY <1>1, <1>2, ClientAlways, PTL DEF Spec, LateResultsAreInert, CancelledIsInert, CatalogOnlyNewer


\* A pending question keeps the surface in every step but those that cover it.
LEMMA QuestionKept ==
  ASSUME ClientTypeOK, ClientNext, view.kind = "question", Contains(questions', view.of)
  PROVE  view' = view \/ Covers
<1>1. ASSUME NEW qs, Contains(qs, view.of) PROVE Reconciled(view, qs) = view
  BY <1>1 DEF Reconciled
<1>2. ASSUME RefreshOver(view), UNCHANGED questions PROVE view' = view
  BY <1>1, <1>2 DEF RefreshOver
<1>3. CASE Core \/ \E j \in jobs : Finish(j)
  BY <1>3 DEF Core, Finish, surface
<1>4. CASE Key
  <2>1. Interrupt \/ Bar \/ RespondToQuestion \/ ViewKey
    BY <1>4 DEF Key, Command
  <2>2. CASE Interrupt /\ UNCHANGED core
    BY <1>2, <2>2 DEF Interrupt, core
  <2>3. CASE Bar
    BY <2>3 DEF Bar, Covers
  <2>4. CASE RespondToQuestion
    BY <1>1, <2>4 DEF RespondToQuestion
  <2>5. CASE ViewKey
    <3>1. StopTask => view.kind = "log"
      BY DEF StopTask
    <3> QED BY <2>5, <3>1 DEF ViewKey, Confirm, OpenSettings, ConfirmAction, OpenThinking, SelectModel, OpenLog,
               ConfirmDiscard, ConfirmSession, SelectTask, Escape, Back, CancelPrompt, SubmitPrompt
  <2> QED BY <1>4, <2>1, <2>2, <2>3, <2>4, <2>5 DEF Key, Command
<1>5. CASE HandleEvents
  BY <1>2, <1>5 DEF HandleEvents, KeepView, core
<1>6. CASE EndPump
  BY <1>6 DEF EndPump, surface
<1>7. CASE ApplyResult
  <2> DEFINE r == Head(results).job
             ok == Head(results).ok
  <2>1. UNCHANGED questions /\ stage = "results" /\ results # <<>> /\ results' = Tail(results)
    BY <1>7 DEF ApplyResult, core
  <2>2. ASSUME KeepView \/ RefreshOver(view) PROVE view' = view
    BY <1>2, <2>1, <2>2 DEF KeepView
  <2>3. CASE ok /\ r.kind \in {"start", "select", "discard"}
    BY <2>1, <2>3 DEF Covers
  <2>4. CASE ApplyModels(r, ok) \/ ApplyOutput(r, ok) \/ ApplyCompact(ok)
    BY <2>2, <2>4 DEF ApplyModels, ApplyOutput, ApplyCompact
  <2>5. CASE ~ok /\ ApplyDiscard(ok)
    BY <2>2, <2>5 DEF ApplyDiscard
  <2>6. CASE ~(ok /\ r.kind \in {"start", "select"}) /\ ApplyOperation(r, ok)
    BY <2>2, <2>6 DEF ApplyOperation, ApplyStart, ApplyOther
  <2> QED BY <1>7, <2>3, <2>4, <2>5, <2>6 DEF ApplyResult
<1> QED BY <1>3, <1>4, <1>5, <1>6, <1>7 DEF ClientNext, Pump

\* The events of a question bring one to the surface.
LEMMA QuestionShown ==
  ASSUME FlagsTyped, ClientNext, unread, ~unread', questions # <<>>
  PROVE  view'.kind = "question"
<1>1. HandleEvents
  <2>1. ~Core
    BY DEF Core, Ask, Withdraw, AgentsLeft
  <2>2. \A j \in jobs : ~Finish(j)
    BY DEF Finish, FlagsTyped
  <2>3. ~Key
    BY DEF Key, RespondToQuestion
  <2>4. ~ApplyResult /\ ~EndPump
    BY DEF ApplyResult, EndPump
  <2> QED BY <2>1, <2>2, <2>3, <2>4 DEF ClientNext, Pump
<1>2. view' = Reconciled(view, questions)
  BY <1>1 DEF HandleEvents, RefreshOver
<1> QED BY <1>2 DEF Reconciled, View

\* For any questions, results and keys: a pending question that has the surface
\* keeps it but for what covers it, and is brought there by its events.
THEOREM QuestionAlwaysShown == Spec => QuestionStaysShown
<1>1. ClientInv => ClientTypeOK /\ FlagsTyped
  BY ClientInvParts DEF ClientInv, ScreenIsTrue
<1>2. ASSUME ClientInv, [Next]_vars
      PROVE  [/\ (view.kind = "question" /\ Contains(questions', view.of)) => (view' = view \/ Covers)
              /\ (unread /\ ~unread' /\ questions # <<>>) => view'.kind = "question"]_clientVars
  BY <1>1, <1>2, OthersLeaveViews, QuestionKept, QuestionShown
<1> QED BY <1>2, ClientAlways, PTL DEF Spec, QuestionStaysShown

--------------------------------------------------------------------------------
(* The list behind a picker.                                               *)

\* A set of natural numbers has a least element: the intervals below its
\* elements are finite sets, which strict inclusion orders well.
LEMMA LeastNatural ==
  ASSUME NEW T \in SUBSET Nat, T # {}
  PROVE  \E n \in T : \A m \in T : n <= m
<1> DEFINE Below(n) == 0..n
           family == {Below(n) : n \in T}
           order == StrictSubsetOrdering(Nat)
           subsets == FiniteSubsetsOf(Nat)
<1>1. IsWellFoundedOn(order, subsets)
  BY FS_StrictSubsetOrderingWellFounded
<1>2. \A n \in T : Below(n) \in subsets
  <2> TAKE n \in T
  <2>1. IsFiniteSet(0..n)
    BY FS_Interval
  <2> QED BY <2>1 DEF FiniteSubsetsOf
<1>3. family \subseteq subsets /\ family # {}
  <2> HIDE DEF Below, subsets
  <2> QED BY <1>2
<1>4. PICK least \in family : \A other \in family : ~(<<other, least>> \in order)
  <2> HIDE DEF family, order, subsets
  <2> QED BY <1>1, <1>3, WFMin
<1>5. PICK n \in T : least = Below(n)
  BY <1>4
<1>6. ASSUME NEW m \in T, ~(n <= m) PROVE FALSE
  <2>1. Below(m) \subseteq Below(n) /\ n \in Below(n) /\ n \notin Below(m)
    BY <1>6
  <2>2. <<Below(m), Below(n)>> \in order
    BY <2>1 DEF StrictSubsetOrdering
  <2> QED BY <1>4, <1>5, <2>2
<1> QED BY <1>6

LEMMA MinIsLeast ==
  ASSUME NEW S \in SUBSET Nat, S # {}
  PROVE  Min(S) \in S
BY LeastNatural DEF Min

\* A filtered list is a list.
LEMMA FilteredIsList ==
  ASSUME NEW r \in Seq(Row), NEW q \in BOOLEAN
  PROVE  /\ Len(Filtered(r, q)) \in Nat /\ DOMAIN Filtered(r, q) = 1..Len(Filtered(r, q))
         /\ Selectable(Filtered(r, q)) \subseteq 1..Len(Filtered(r, q))
<1> DEFINE S == Staying(r, q)
           n == Cardinality(S)
           nth(k) == CHOOSE i \in S : Cardinality({j \in S : j <= i}) = k
           f == [k \in 1..n |-> r[nth(k)]]
           R == {r[nth(k)] : k \in 1..n}
<1>1. n \in Nat
  <2>1. S \subseteq 1..Len(r) /\ Len(r) \in Nat
    BY DEF Staying
  <2>2. IsFiniteSet(1..Len(r))
    BY <2>1, FS_Interval
  <2>3. IsFiniteSet(S)
    BY <2>1, <2>2, FS_Subset
  <2> QED BY <2>3, FS_CardinalityType
<1>2. Filtered(r, q) = f
  BY DEF Filtered
<1> HIDE DEF n, nth
<1>3. f \in [1..n -> R]
  OBVIOUS
<1> HIDE DEF R
<1>4. f \in Seq(R)
  BY <1>1, <1>3
<1>5. Len(f) \in Nat /\ DOMAIN f = 1..Len(f)
  <2> HIDE DEF f
  <2> QED BY <1>4
<1> QED BY <1>2, <1>5 DEF Selectable

\* The first row that can be chosen, if there is one.
LEMMA FirstIsSelectable ==
  ASSUME NEW r \in Seq(Row), NEW q \in BOOLEAN
  PROVE  LET f == Filtered(r, q) IN
         IF FirstSelectable(f) = NoValue THEN Selectable(f) = {} ELSE FirstSelectable(f) \in Selectable(f)
<1>1. Selectable(Filtered(r, q)) \subseteq Nat
  BY FilteredIsList
<1> QED BY <1>1, MinIsLeast, ListAssumption DEF FirstSelectable

\* So is the one a replacement selects, and it has the value looked for.
LEMMA SelectionAfterIsSelectable ==
  ASSUME NEW r \in Seq(Row), NEW q \in BOOLEAN, NEW v
  PROVE  LET f == Filtered(r, q)
             s == SelectionAfter(f, v)
         IN /\ IF s = NoValue THEN Selectable(f) = {} ELSE s \in Selectable(f)
            /\ (v # NoValue /\ \E i \in DOMAIN f : f[i].value = v) => s # NoValue /\ f[s].value = v
<1> DEFINE f == Filtered(r, q)
           at == {i \in DOMAIN f : f[i].value = v}
<1>1. DOMAIN f \subseteq Nat
  BY FilteredIsList
<1> HIDE DEF f
<1>2. CASE v = NoValue \/ at = {}
  BY <1>2, FirstIsSelectable DEF SelectionAfter, f
<1>3. CASE v # NoValue /\ at # {}
  <2>1. Min(at) \in at
    BY <1>1, <1>3, MinIsLeast
  <2>2. SelectionAfter(f, v) = Min(at)
    BY <1>3 DEF SelectionAfter
  <2>3. Min(at) \in Nat /\ Min(at) \in DOMAIN f /\ f[Min(at)].value = v
    BY <1>1, <2>1
  <2>4. Min(at) # NoValue
    BY <2>3, ListAssumption
  <2>5. Min(at) \in Selectable(f)
    BY <1>3, <2>3 DEF Selectable
  <2> QED BY <2>2, <2>3, <2>4, <2>5 DEF f
<1> QED BY <1>2, <1>3

\* A list built anew has it selected, or nothing when it is gone.
LEMMA SelectionInIsRight ==
  ASSUME NEW r \in Seq(Row), NEW q \in BOOLEAN, NEW v
  PROVE  LET f == Filtered(r, q)
             s == SelectionIn(f, v)
         IN /\ IF s = NoValue THEN Selectable(f) = {} \/ (v # NoValue /\ \A i \in DOMAIN f : f[i].value # v)
               ELSE s \in Selectable(f)
            /\ (v # NoValue /\ \E i \in DOMAIN f : f[i].value = v) => s # NoValue /\ f[s].value = v
<1> DEFINE f == Filtered(r, q)
           at == {i \in DOMAIN f : f[i].value = v}
<1>1. CASE v = NoValue
  BY <1>1, FirstIsSelectable DEF SelectionIn
<1>2. CASE v # NoValue /\ at = {}
  BY <1>2 DEF SelectionIn
<1>3. CASE v # NoValue /\ at # {}
  <2>1. SelectionIn(f, v) = SelectionAfter(f, v)
    BY <1>3 DEF SelectionIn, SelectionAfter
  <2>2. SelectionAfter(f, v) # NoValue /\ f[SelectionAfter(f, v)].value = v
    BY <1>3, SelectionAfterIsSelectable
  <2> QED BY <1>3, <2>1, <2>2, SelectionAfterIsSelectable
<1> QED BY <1>1, <1>2, <1>3

\* A move round the end comes to a row that can be chosen.
LEMMA MoveKeeps ==
  ASSUME ListInv, NEW up \in BOOLEAN, MoveSelection(up)
  PROVE  SelectionIsChoosable'
<1> DEFINE n == Len(Shown)
           start == IF selected = NoValue THEN 1 ELSE selected
           distance(j) == LET d == IF up THEN (start + n - j) % n ELSE (j + n - start) % n
                          IN IF d = 0 THEN n ELSE d
           targets == Reachable(Shown)
           target == CHOOSE j \in targets : \A k \in targets : distance(j) <= distance(k)
<1>1. /\ rows \in Seq(Row) /\ query \in BOOLEAN /\ SelectionIsChoosable
      /\ Shown' = Shown
      /\ selected' = IF n = 0 THEN NoValue ELSE IF targets = {} THEN selected ELSE target
  BY DEF ListInv, MoveSelection, Shown
<1>2. n \in Nat /\ targets \subseteq 1..n /\ targets = Selectable(Shown)
  BY <1>1, FilteredIsList DEF Shown, Reachable
<1>3. CASE targets = {}
  <2>1. selected' = NoValue
    BY <1>1, <1>2, <1>3 DEF SelectionIsChoosable
  <2> QED BY <1>1, <1>2, <1>3, <2>1 DEF SelectionIsChoosable
<1>4. CASE targets # {}
  <2>1. n # 0 /\ start \in 1..n
    BY <1>1, <1>2, <1>4 DEF SelectionIsChoosable
  <2>2. \A j \in targets : distance(j) \in Nat
    <3> TAKE j \in targets
    <3>1. j \in 1..n
      BY <1>2
    <3>2. (start + n - j) % n \in Nat /\ (j + n - start) % n \in Nat
      BY <1>2, <2>1, <3>1, SMTT(40)
    <3> QED BY <1>2, <3>2
  <2> HIDE DEF distance, targets
  <2>3. PICK m \in {distance(j) : j \in targets} : \A other \in {distance(j) : j \in targets} : m <= other
    BY <1>4, <2>2, LeastNatural
  <2>4. \E j \in targets : \A k \in targets : distance(j) <= distance(k)
    BY <2>3
  <2>5. target \in targets
    BY <2>4
  <2>6. selected' = target /\ target \in Nat /\ target \in Selectable(Shown)
    BY <1>1, <1>2, <1>4, <2>1, <2>5
  <2>7. target # NoValue
    BY <2>6, ListAssumption
  <2> HIDE DEF target, n, start
  <2> QED BY <1>1, <2>6, <2>7 DEF SelectionIsChoosable
<1> QED BY <1>3, <1>4

\* A drawing scrolls to the selection.
LEMMA DrawKeeps ==
  ASSUME ListInv, NEW h \in 1..MaxRows, Draw(h)
  PROVE  ListInv'
<1>1. /\ rows \in Seq(Row) /\ query \in BOOLEAN /\ scroll_top \in Nat \ {0} /\ height \in Nat
      /\ SelectionIsChoosable /\ SelectionFollowsValue /\ h \in Nat \ {0}
  BY ListAssumption DEF ListInv
<1>2. /\ UNCHANGED <<rows, query, selected, rebuilt, followed>> /\ height' = h /\ scroll_top' = TopFor(h)
      /\ Shown' = Shown /\ SelectedValue' = SelectedValue
  BY DEF Draw, Shown, SelectedValue
<1>3. selected = NoValue \/ selected \in Nat \ {0}
  <2>1. Selectable(Shown) \subseteq 1..Len(Shown) /\ Len(Shown) \in Nat
    BY <1>1, FilteredIsList DEF Shown
  <2> QED BY <1>1, <2>1 DEF SelectionIsChoosable
<1>4. SelectionIsChoosable' /\ SelectionFollowsValue'
  BY <1>1, <1>2 DEF SelectionIsChoosable, Vanished, SelectionFollowsValue
<1>5. scroll_top' \in Nat \ {0} /\ SelectionShown'
  BY <1>1, <1>2, <1>3 DEF TopFor, SelectionShown
<1> QED BY <1>1, <1>2, <1>4, <1>5 DEF ListInv

LEMMA ListInvKept == ListInv /\ ListNext => ListInv'
<1> SUFFICES ASSUME ListInv, ListNext PROVE ListInv'
  OBVIOUS
<1>1. /\ rows \in Seq(Row) /\ query \in BOOLEAN /\ rebuilt \in BOOLEAN /\ scroll_top \in Nat \ {0}
      /\ SelectionIsChoosable /\ SelectionFollowsValue
  BY DEF ListInv
<1>2. ASSUME NEW q \in BOOLEAN, EditFilter(q) PROVE ListInv'
  <2>1. SelectionIsChoosable'
    BY <1>1, <1>2, FirstIsSelectable DEF EditFilter, SelectionIsChoosable, Shown
  <2> QED BY <1>1, <1>2, <2>1 DEF EditFilter, ListInv, SelectionShown, SelectionFollowsValue
<1>3. ASSUME NEW r \in RowLists, ReplaceRows(r) PROVE ListInv'
  <2>1. r \in Seq(Row)
    BY ListAssumption DEF RowLists, SeqOf
  <2> DEFINE v == SelectedValue
             f == Filtered(r, query)
             s == SelectionAfter(f, v)
  <2>2. Shown' = f /\ selected' = s /\ followed' = v
    BY <1>3 DEF ReplaceRows, Shown
  <2> HIDE DEF v
  <2>3. SelectionIsChoosable'
    BY <1>1, <2>1, <2>2, SelectionAfterIsSelectable DEF SelectionIsChoosable
  <2>4. SelectionFollowsValue'
    BY <1>1, <2>1, <2>2, SelectionAfterIsSelectable DEF SelectionFollowsValue, SelectedValue
  <2> QED BY <1>1, <1>3, <2>1, <2>3, <2>4 DEF ReplaceRows, ListInv, SelectionShown
<1>7. ASSUME NEW r \in RowLists, NEW v, RebuildList(r, v) PROVE ListInv'
  <2>1. r \in Seq(Row)
    BY ListAssumption DEF RowLists, SeqOf
  <2> DEFINE f == Filtered(r, query)
             s == SelectionIn(f, v)
  <2>2. Shown' = f /\ selected' = s /\ followed' = v /\ rebuilt' /\ rebuilt
    BY <1>7 DEF RebuildList, Shown
  <2>3. SelectionIsChoosable'
    BY <1>1, <2>1, <2>2, SelectionInIsRight DEF SelectionIsChoosable, Vanished
  <2>4. SelectionFollowsValue'
    BY <1>1, <2>1, <2>2, SelectionInIsRight DEF SelectionFollowsValue, SelectedValue
  <2> QED BY <1>1, <1>7, <2>1, <2>3, <2>4 DEF RebuildList, ListInv, SelectionShown
<1>4. ASSUME NEW up \in BOOLEAN, MoveSelection(up) PROVE ListInv'
  <2>1. SelectionIsChoosable'
    BY <1>1, <1>4, MoveKeeps
  <2>2. followed' = NoValue /\ height' = 0 /\ UNCHANGED <<rows, query, scroll_top, rebuilt>>
    BY <1>4 DEF MoveSelection
  <2>3. SelectionFollowsValue' /\ SelectionShown'
    <3>1. height' = 0 /\ followed' = NoValue
      BY <2>2
    <3> QED BY <3>1 DEF SelectionFollowsValue, SelectionShown
  <2> QED BY <1>1, <2>1, <2>2, <2>3 DEF ListInv
<1>5. ASSUME NEW n \in 1..MaxRows, SelectNumber(n) PROVE ListInv'
  <2>1. n # NoValue
    BY ListAssumption
  <2>2. SelectionIsChoosable'
    BY <1>5, <2>1 DEF SelectNumber, SelectionIsChoosable, Shown
  <2> QED BY <1>1, <1>5, <2>2 DEF SelectNumber, ListInv, SelectionShown, SelectionFollowsValue
<1>6. ASSUME NEW h \in 1..MaxRows, Draw(h) PROVE ListInv'
  BY <1>6, DrawKeeps
<1> QED BY <1>2, <1>3, <1>4, <1>5, <1>6, <1>7 DEF ListNext

LEMMA ListInitInv ==
  ASSUME NEW lists, lists \subseteq Seq(Row), ListInit(lists)
  PROVE  ListInv
<1>1. rows \in Seq(Row) /\ query = FALSE
  BY DEF ListInit
<1>2. SelectionIsChoosable
  BY <1>1, FirstIsSelectable DEF ListInit, SelectionIsChoosable, Shown
<1>3. scroll_top = 1 /\ height = 0 /\ followed = NoValue
  BY DEF ListInit
<1>6. scroll_top \in Nat \ {0} /\ height \in Nat
  BY <1>3
<1>4. SelectionShown /\ SelectionFollowsValue
  BY <1>3 DEF SelectionShown, SelectionFollowsValue
<1>5. query \in BOOLEAN /\ rebuilt \in BOOLEAN
  BY <1>1 DEF ListInit
<1> QED BY <1>1, <1>2, <1>4, <1>5, <1>6, Zenon DEF ListInv

--------------------------------------------------------------------------------
(* The question dialog.                                                    *)

\* What the invariant says of the page on the screen.
Confirmed(p) == IF multi[open] THEN SomeAnswer(p) ELSE OneAnswer(p)
PageOK(p) == p \in PageType /\ (p.complete => Confirmed(p))

LEMMA PagesAreSequence ==
  ASSUME DialogType
  PROVE  /\ DOMAIN multi = 1..Len(multi) /\ Len(multi) \in Nat \ {0}
         /\ DOMAIN pages = DOMAIN multi /\ Len(pages) = Len(multi)
<1>1. multi \in Seq(BOOLEAN) /\ multi # <<>>
  BY DEF DialogType
<1>2. DOMAIN multi = 1..Len(multi) /\ Len(multi) \in Nat
  BY <1>1
<1>3. Len(multi) # 0
  BY <1>1, EmptySeq
<1>4. pages \in [1..Len(multi) -> PageType]
  BY <1>2 DEF DialogType
<1>5. pages \in Seq(PageType) /\ Len(pages) = Len(multi)
  BY <1>2, <1>4
<1> QED BY <1>2, <1>3, <1>4, <1>5

LEMMA OpenPage ==
  ASSUME DialogInv, OnQuestion
  PROVE  open \in DOMAIN pages /\ PageOK(Page) /\ pages \in [DOMAIN multi -> PageType] /\ multi[open] \in BOOLEAN
<1>1. DialogType /\ open \in Nat /\ open >= 1 /\ open <= Len(pages)
  BY PagesAreSequence DEF DialogInv, DialogType, OnQuestion, TabCount, HasSubmitPage
<1>2. open \in DOMAIN pages
  BY <1>1, PagesAreSequence
<1>3. pages \in [DOMAIN multi -> PageType] /\ DOMAIN pages = DOMAIN multi
  BY <1>1, PagesAreSequence DEF DialogType
<1>4. multi[open] \in BOOLEAN
  BY <1>1, <1>2, <1>3 DEF DialogType
<1> QED BY <1>2, <1>3, <1>4 DEF DialogInv, PageOK, Confirmed, PageInv, Page

\* A page that is right may take the place of the one on the screen.
LEMMA PagesKept ==
  ASSUME DialogInv, OnQuestion, NEW p, PageOK(p), NEW ps, ps = [pages EXCEPT ![open] = p],
         pages' = ps, UNCHANGED multi
  PROVE  /\ pages' \in [DOMAIN multi' -> PageType] /\ multi' \in Seq(BOOLEAN) \ {<<>>}
         /\ DOMAIN pages' = DOMAIN pages /\ Len(pages') = Len(pages) /\ TabCount' = TabCount
         /\ \A q \in DOMAIN pages : PageInv(q)'
<1>1. DialogType /\ open \in DOMAIN pages /\ pages \in [DOMAIN multi -> PageType] /\ p \in PageType
  BY OpenPage DEF DialogInv, PageOK
<1>2. pages' \in [DOMAIN multi -> PageType] /\ pages'[open] = p
      /\ \A q \in DOMAIN pages : q # open => pages'[q] = pages[q]
  BY <1>1
<1>3. pages \in [1..Len(multi) -> PageType] /\ pages' \in [1..Len(multi) -> PageType]
      /\ Len(multi) \in Nat /\ Len(pages) = Len(multi)
  BY <1>1, <1>2, PagesAreSequence
<1>4. Len(pages') = Len(multi)
  BY <1>3
<1>5. TabCount' = TabCount
  BY <1>3, <1>4 DEF TabCount, HasSubmitPage
<1>6. \A q \in DOMAIN pages : PageInv(q)'
  BY <1>2 DEF DialogInv, PageInv, PageOK, Confirmed
<1> QED BY <1>1, <1>2, <1>3, <1>4, <1>5, <1>6 DEF DialogType

LEMMA SetPageKeeps ==
  ASSUME DialogInv, OnQuestion, sent = <<>>, NEW p, PageOK(p), SetPage(p), UNCHANGED <<multi, open, sent>>
  PROVE  DialogInv'
<1>1. /\ pages' \in [DOMAIN multi' -> PageType] /\ multi' \in Seq(BOOLEAN) \ {<<>>}
      /\ DOMAIN pages' = DOMAIN pages /\ TabCount' = TabCount
      /\ \A q \in DOMAIN pages : PageInv(q)'
  BY PagesKept DEF SetPage
<1>2. open' \in 1..TabCount'
  BY <1>1 DEF DialogInv, DialogType
<1> QED BY <1>1, <1>2 DEF DialogInv, DialogType, SentInv

\* A completed page is answered: the dialog goes on, or is over.
LEMMA AdvanceKeeps ==
  ASSUME DialogInv, OnQuestion, sent = <<>>, NEW p, PageOK(p), p.complete,
         Advance([pages EXCEPT ![open] = p]), UNCHANGED multi
  PROVE  DialogInv'
<1> DEFINE ps == [pages EXCEPT ![open] = p]
<1>1. pages' = ps
  BY DEF Advance
<1>2. /\ pages' \in [DOMAIN multi' -> PageType] /\ multi' \in Seq(BOOLEAN) \ {<<>>}
      /\ DOMAIN pages' = DOMAIN pages /\ Len(pages') = Len(pages) /\ TabCount' = TabCount
      /\ \A q \in DOMAIN pages : PageInv(q)'
  BY <1>1, PagesKept
<1>3. /\ DialogType /\ open \in DOMAIN pages /\ DOMAIN pages = 1..Len(pages) /\ Len(pages) \in Nat \ {0}
      /\ open \in 1..TabCount /\ open <= Len(pages)
  BY OpenPage, PagesAreSequence DEF DialogInv, DialogType, OnQuestion
<1>4. CASE ~HasSubmitPage /\ AllComplete(ps)
  <2>1. sent' = [q \in DOMAIN ps |-> AnswerFor(ps[q])] /\ open' = open
    BY <1>4 DEF Advance, Respond
  <2>2. AllComplete(pages)' /\ sent' = [q \in DOMAIN pages' |-> AnswerFor(pages'[q])]
    BY <1>1, <1>4, <2>1 DEF AllComplete
  <2>3. SentInv'
    BY <2>2 DEF SentInv, AnswerFor
  <2>4. DialogType'
    BY <1>2, <1>3, <2>1 DEF DialogType
  <2> QED BY <1>2, <2>3, <2>4 DEF DialogInv
<1>5. CASE ~(~HasSubmitPage /\ AllComplete(ps))
  <2>1. open' = open + 1 /\ sent' = <<>>
    BY <1>5 DEF Advance
  <2>2. HasSubmitPage
    <3>1. CASE ~HasSubmitPage
      <4>1. Len(pages) = 1 /\ DOMAIN pages = {1} /\ open = 1
        BY <1>3, <3>1 DEF HasSubmitPage
      <4>2. DOMAIN ps = {1} /\ ps[1] = p
        BY <4>1
      <4>3. AllComplete(ps)
        BY <4>2 DEF AllComplete
      <4> QED BY <1>5, <3>1, <4>3
    <3> QED BY <3>1
  <2>3. open' \in 1..TabCount'
    BY <1>2, <1>3, <2>1, <2>2 DEF TabCount
  <2> QED BY <1>2, <2>1, <2>3 DEF DialogInv, DialogType, SentInv
<1> QED BY <1>4, <1>5

\* Fields of a page.
LEMMA PageFields ==
  ASSUME NEW p \in PageType
  PROVE  /\ p.cursor \in Rows /\ p.selected \subseteq 1..Options /\ p.other_selected \in BOOLEAN
         /\ p.other_draft \in Seq({"x", " "}) /\ p.editing_other \in BOOLEAN /\ p.complete \in BOOLEAN
         /\ \A n \in Rows : [p EXCEPT !.cursor = n] \in PageType
         /\ \A set \in SUBSET (1..Options) : [p EXCEPT !.selected = set] \in PageType
         /\ \A b \in BOOLEAN : /\ [p EXCEPT !.other_selected = b] \in PageType
                               /\ [p EXCEPT !.editing_other = b] \in PageType
                               /\ [p EXCEPT !.complete = b] \in PageType
         /\ \A s \in Seq({"x", " "}) : [p EXCEPT !.other_draft = s] \in PageType
BY DEF PageType

\* A row that is not "Other" is an option.
LEMMA OptionRow ==
  ASSUME NEW p \in PageType, p.cursor # Other
  PROVE  p.cursor \in 1..Options
<1>1. p.cursor \in Rows
  BY PageFields
<1>2. Options \in Nat
  BY DialogAssumption
<1> QED BY <1>1, <1>2 DEF Rows, Other

\* A row of the question, on or off: the page has to be confirmed again.
LEMMA ToggledIsRight ==
  ASSUME NEW p \in PageType
  PROVE  PageOK(Toggled(p))
<1> DEFINE other == [p EXCEPT !.other_selected = ~@, !.editing_other = IF p.other_selected THEN @ ELSE TRUE]
           option == [p EXCEPT !.selected = IF p.cursor \in @ THEN @ \ {p.cursor} ELSE @ \cup {p.cursor}]
           changed == IF p.cursor = Other THEN other ELSE option
<1>1. changed \in PageType
  <2>1. CASE p.cursor = Other
    <3> DEFINE ticked == [p EXCEPT !.other_selected = ~p.other_selected]
    <3>1. ticked \in PageType /\ ticked.editing_other = p.editing_other /\ p.editing_other \in BOOLEAN
      BY PageFields, ZenonT(60) DEF PageType
    <3>2. other = [ticked EXCEPT !.editing_other = IF p.other_selected THEN p.editing_other ELSE TRUE]
      BY DEF PageType
    <3> HIDE DEF ticked
    <3>3. other \in PageType
      BY <3>1, <3>2, PageFields
    <3> QED BY <2>1, <3>3
  <2>2. CASE p.cursor # Other
    <3>1. p.cursor \in 1..Options
      BY <2>2, OptionRow
    <3>2. option \in PageType
      BY <3>1, PageFields
    <3> QED BY <2>2, <3>2
  <2> QED BY <2>1, <2>2
<1>2. Toggled(p) = [changed EXCEPT !.complete = FALSE]
  BY DEF Toggled, Unconfirmed
<1> HIDE DEF changed
<1>3. [changed EXCEPT !.complete = FALSE] \in PageType /\ [changed EXCEPT !.complete = FALSE].complete = FALSE
  BY <1>1 DEF PageType
<1> QED BY <1>2, <1>3 DEF PageOK

\* A page whose cursor moves is as right as before.
LEMMA MovedIsRight ==
  ASSUME NEW p, PageOK(p), NEW n \in Rows
  PROVE  PageOK([p EXCEPT !.cursor = n])
<1> DEFINE m == [p EXCEPT !.cursor = n]
<1>1. m \in PageType
  BY PageFields DEF PageOK
<1>2. /\ m.selected = p.selected /\ m.other_selected = p.other_selected /\ m.complete = p.complete
      /\ m.other_draft = p.other_draft /\ m.editing_other = p.editing_other
  BY DEF PageOK, PageType
<1> QED BY <1>1, <1>2 DEF PageOK, Confirmed, SomeAnswer, OneAnswer, Typed

\* A confirmed page has its answer.
LEMMA ConfirmKeeps ==
  ASSUME DialogInv, OnQuestion, sent = <<>>, NEW p, PageOK(p), ConfirmTab(p)
  PROVE  DialogInv'
<1> DEFINE done(r) == [r EXCEPT !.complete = TRUE]
<1>1. p \in PageType /\ multi[open] \in BOOLEAN /\ UNCHANGED multi
  BY OpenPage DEF PageOK, ConfirmTab
<1>2. ASSUME NEW r \in PageType, Confirmed(done(r)), Advance([pages EXCEPT ![open] = done(r)])  PROVE DialogInv'
  <2>1. done(r) \in PageType /\ done(r).complete
    BY <1>2, PageFields DEF PageType
  <2>2. PageOK(done(r))
    BY <1>2, <2>1 DEF PageOK
  <2> HIDE DEF done
  <2> QED BY <1>1, <1>2, <2>1, <2>2, AdvanceKeeps
<1>3. KeptChoices(p) \subseteq 1..Options /\ (~multi[open] => KeptChoices(p) = {})
  BY <1>1, PageFields DEF KeptChoices
<1>4. CASE p.editing_other /\ Typed(p)
  <2> DEFINE other == [p EXCEPT !.other_selected = TRUE, !.editing_other = FALSE, !.selected = KeptChoices(p)]
             ticked == [p EXCEPT !.other_selected = TRUE]
             left == [ticked EXCEPT !.editing_other = FALSE]
  <2>1. Advance([pages EXCEPT ![open] = done(other)])
    BY <1>4 DEF ConfirmTab
  <2>2. left \in PageType /\ other = [left EXCEPT !.selected = KeptChoices(p)]
    <3>1. ticked \in PageType
      BY <1>1, PageFields
    <3>2. other = [left EXCEPT !.selected = KeptChoices(p)]
      OBVIOUS
    <3> HIDE DEF ticked
    <3> QED BY <3>1, <3>2, PageFields
  <2>3. other \in PageType
    <3> HIDE DEF left, other
    <3> QED BY <1>3, <2>2, PageFields
  <2>4. /\ done(other).selected = KeptChoices(p) /\ done(other).other_selected = TRUE
        /\ done(other).editing_other = FALSE /\ done(other).other_draft = p.other_draft
    BY <1>1 DEF PageType
  <2>5. Confirmed(done(other))
    <3> HIDE DEF other, done
    <3> QED BY <1>1, <1>3, <1>4, <2>4 DEF Confirmed, SomeAnswer, OneAnswer, Typed
  <2> HIDE DEF other, done
  <2> QED BY <1>2, <2>1, <2>3, <2>5
<1>5. CASE ~p.editing_other /\ p.cursor = Other /\ ~Typed(p)
  <2> DEFINE asking == [p EXCEPT !.editing_other = TRUE]
  <2>1. SetPage(asking) /\ UNCHANGED <<multi, open, sent>>
    BY <1>5 DEF ConfirmTab
  <2>2. asking \in PageType
    BY <1>1, PageFields
  <2>3. /\ asking.selected = p.selected /\ asking.other_selected = p.other_selected
        /\ asking.complete = p.complete
    BY <1>1 DEF PageType
  <2>4. p.complete => SomeAnswer(p) \/ ~multi[open]
    BY DEF PageOK, Confirmed
  <2>5. ~multi[open] /\ p.complete => \E option \in 1..Options : p.selected = {option} /\ ~p.other_selected
    BY <1>5 DEF PageOK, Confirmed, OneAnswer
  <2>6. PageOK(asking)
    <3> HIDE DEF asking
    <3> QED BY <2>2, <2>3, <2>4, <2>5 DEF PageOK, Confirmed, SomeAnswer, OneAnswer
  <2> HIDE DEF asking
  <2> QED BY <2>1, <2>6, SetPageKeeps
<1>6. CASE ~p.editing_other /\ p.cursor = Other /\ Typed(p)
  <2> DEFINE ticked == [p EXCEPT !.other_selected = TRUE]
             other == [p EXCEPT !.other_selected = TRUE, !.selected = KeptChoices(p)]
  <2>1. Advance([pages EXCEPT ![open] = done(other)])
    BY <1>6 DEF ConfirmTab
  <2>2. ticked \in PageType /\ other = [ticked EXCEPT !.selected = KeptChoices(p)]
    BY <1>1, PageFields
  <2>3. other \in PageType
    <3> HIDE DEF ticked, other
    <3> QED BY <1>3, <2>2, PageFields
  <2>4. /\ done(other).selected = KeptChoices(p) /\ done(other).other_selected = TRUE
        /\ done(other).editing_other = p.editing_other /\ done(other).other_draft = p.other_draft
    BY <1>1 DEF PageType
  <2>5. Confirmed(done(other))
    <3> HIDE DEF other, done
    <3> QED BY <1>1, <1>3, <1>6, <2>4 DEF Confirmed, SomeAnswer, OneAnswer, Typed
  <2> HIDE DEF other, done
  <2> QED BY <1>2, <2>1, <2>3, <2>5
<1>7. CASE ~p.editing_other /\ p.cursor # Other /\ multi[open] /\ (p.selected # {} \/ p.other_selected)
  <2>1. Advance([pages EXCEPT ![open] = done(p)])
    BY <1>7 DEF ConfirmTab
  <2>2. done(p).selected = p.selected /\ done(p).other_selected = p.other_selected
    BY <1>1 DEF PageType
  <2>3. Confirmed(done(p))
    <3> HIDE DEF done
    <3> QED BY <1>7, <2>2 DEF Confirmed, SomeAnswer
  <2> HIDE DEF done
  <2> QED BY <1>1, <1>2, <2>1, <2>3
<1>8. CASE ~p.editing_other /\ p.cursor # Other /\ ~multi[open]
  <2> DEFINE option == [p EXCEPT !.selected = {p.cursor}, !.other_selected = FALSE]
             chosen == [p EXCEPT !.selected = {p.cursor}]
  <2>1. Advance([pages EXCEPT ![open] = done(option)])
    BY <1>8 DEF ConfirmTab
  <2>2. p.cursor \in 1..Options
    BY <1>1, <1>8, OptionRow
  <2>3. chosen \in PageType /\ option = [chosen EXCEPT !.other_selected = FALSE]
    BY <1>1, <2>2, PageFields
  <2>4. option \in PageType
    <3> HIDE DEF option, chosen
    <3> QED BY <2>3, PageFields
  <2>5. done(option).selected = {p.cursor} /\ done(option).other_selected = FALSE
    BY <1>1 DEF PageType
  <2>6. Confirmed(done(option))
    <3> HIDE DEF option, done
    <3> QED BY <1>8, <2>2, <2>5 DEF Confirmed, OneAnswer
  <2> HIDE DEF option, done
  <2> QED BY <1>2, <2>1, <2>4, <2>6
<1>9. CASE SetPage(p) /\ UNCHANGED <<open, sent>>
  BY <1>1, <1>9, SetPageKeeps
<1>10. \/ p.editing_other /\ Typed(p)
       \/ ~p.editing_other /\ p.cursor = Other /\ ~Typed(p)
       \/ ~p.editing_other /\ p.cursor = Other /\ Typed(p)
       \/ ~p.editing_other /\ p.cursor # Other /\ multi[open] /\ (p.selected # {} \/ p.other_selected)
       \/ ~p.editing_other /\ p.cursor # Other /\ ~multi[open]
       \/ SetPage(p) /\ UNCHANGED <<open, sent>>
  BY DEF ConfirmTab
<1> QED BY <1>4, <1>5, <1>6, <1>7, <1>8, <1>9, <1>10

\* Keys that leave the choices of a page as they are: the cursor, the text of
\* "Other" while it is edited, and the end of its editing.
LEMMA EditKeeps ==
  ASSUME DialogInv, OnQuestion, sent = <<>>, UNCHANGED <<multi, open, sent>>,
         NEW p \in PageType, SetPage(p),
         p.selected = Page.selected, p.other_selected = Page.other_selected, p.complete = Page.complete,
         Page.editing_other \/ (p.other_draft = Page.other_draft /\ p.editing_other = Page.editing_other)
  PROVE  DialogInv'
<1>1. PageOK(Page) /\ multi[open] \in BOOLEAN
  BY OpenPage
<1>2. PageOK(p)
  BY <1>1 DEF PageOK, Confirmed, SomeAnswer, OneAnswer, Typed
<1> QED BY <1>2, SetPageKeeps

LEMMA CursorKeeps ==
  ASSUME DialogInv, sent = <<>>, MoveUp \/ MoveDown
  PROVE  DialogInv'
<1>1. OnQuestion /\ UNCHANGED <<multi, open, sent>>
  BY DEF MoveUp, MoveDown
<1>2. PageOK(Page) /\ Page \in PageType
  BY <1>1, OpenPage DEF PageOK
<1>3. Page.cursor \in 1..Other /\ Options \in Nat
  BY <1>2, PageFields, DialogAssumption DEF Rows
<1>4. PICK n \in Rows : SetPage([Page EXCEPT !.cursor = n])
  <2>1. CASE MoveUp
    <3>1. (IF Page.cursor = 1 THEN Other ELSE Page.cursor - 1) \in Rows
      BY <1>3 DEF Rows, Other
    <3>2. SetPage([Page EXCEPT !.cursor = IF Page.cursor = 1 THEN Other ELSE Page.cursor - 1])
      BY <2>1 DEF MoveUp
    <3> QED BY <3>1, <3>2
  <2>2. CASE MoveDown
    <3>1. (IF Page.cursor = Other THEN 1 ELSE Page.cursor + 1) \in Rows
      BY <1>3 DEF Rows, Other
    <3>2. SetPage([Page EXCEPT !.cursor = IF Page.cursor = Other THEN 1 ELSE Page.cursor + 1])
      BY <2>2 DEF MoveDown
    <3> QED BY <3>1, <3>2
  <2> QED BY <2>1, <2>2
<1>5. PageOK([Page EXCEPT !.cursor = n])
  BY <1>2, MovedIsRight
<1> QED BY <1>1, <1>4, <1>5, SetPageKeeps

LEMMA TabsKeep ==
  ASSUME DialogInv, sent = <<>>, TabLeft \/ TabRight
  PROVE  DialogInv'
<1>1. UNCHANGED <<multi, pages, sent>> /\ TabCount' = TabCount
  BY DEF TabLeft, TabRight, TabCount, HasSubmitPage
<1>2. DialogType /\ Len(pages) \in Nat \ {0} /\ open \in 1..TabCount
  BY PagesAreSequence DEF DialogInv, DialogType
<1>3. TabCount \in Nat \ {0}
  BY <1>2 DEF TabCount
<1>4. open' \in 1..TabCount
  BY <1>2, <1>3 DEF TabLeft, TabRight
<1> QED BY <1>1, <1>2, <1>4 DEF DialogInv, DialogType, PageInv, SentInv

LEMMA LettersErased ==
  ASSUME NEW S, NEW s \in Seq(S), s # <<>>
  PROVE  Front(s) \in Seq(S)
BY DEF Front

LEMMA TextKeeps ==
  ASSUME DialogInv, sent = <<>>,
         EraseText \/ EscapeEditor \/ \E letter \in {"x", " "} : InsertText(letter)
  PROVE  DialogInv'
<1>1. OnQuestion /\ UNCHANGED <<multi, open, sent>>
  BY DEF EraseText, EscapeEditor, InsertText, Editing
<1>2. PageOK(Page) /\ Page \in PageType /\ Page.other_draft \in Seq({"x", " "})
  BY <1>1, OpenPage, PageFields DEF PageOK
<1>3. ASSUME NEW s \in Seq({"x", " "}), SetPage([Page EXCEPT !.other_draft = s]), Page.editing_other
      PROVE  DialogInv'
  <2> DEFINE p == [Page EXCEPT !.other_draft = s]
  <2>1. p \in PageType
    BY <1>2, PageFields
  <2>2. p.selected = Page.selected /\ p.other_selected = Page.other_selected /\ p.complete = Page.complete
    BY <1>2 DEF PageType
  <2>3. SetPage(p)
    BY <1>3
  <2> HIDE DEF p
  <2> QED BY <1>1, <1>3, <2>1, <2>2, <2>3, EditKeeps
<1>4. CASE EraseText
  <2>1. Front(Page.other_draft) \in Seq({"x", " "})
    BY <1>2, <1>4, LettersErased DEF EraseText
  <2>2. SetPage([Page EXCEPT !.other_draft = Front(Page.other_draft)]) /\ Page.editing_other
    BY <1>4 DEF EraseText, Editing
  <2> QED BY <1>3, <2>1, <2>2
<1>5. CASE EscapeEditor
  <2> DEFINE p == [Page EXCEPT !.editing_other = FALSE]
  <2>1. p \in PageType
    BY <1>2, PageFields
  <2>2. p.selected = Page.selected /\ p.other_selected = Page.other_selected /\ p.complete = Page.complete
    BY <1>2 DEF PageType
  <2>3. SetPage(p) /\ Page.editing_other
    BY <1>5 DEF EscapeEditor, Editing
  <2> HIDE DEF p
  <2> QED BY <1>1, <2>1, <2>2, <2>3, EditKeeps
<1>6. ASSUME NEW letter \in {"x", " "}, InsertText(letter)  PROVE DialogInv'
  <2>1. CASE Editing /\ SetPage([Page EXCEPT !.other_draft = Append(Page.other_draft, letter)])
    <3>1. Append(Page.other_draft, letter) \in Seq({"x", " "})
      BY <1>2, AppendProperties
    <3> QED BY <1>3, <2>1, <3>1 DEF Editing
  <2>2. CASE SetPage(Toggled(Page))
    BY <1>1, <1>2, <2>2, ToggledIsRight, SetPageKeeps
  <2> QED BY <1>6, <2>1, <2>2 DEF InsertText
<1> QED BY <1>4, <1>5, <1>6

LEMMA NumberKeeps ==
  ASSUME DialogInv, sent = <<>>, NEW n \in Rows, ChooseNumber(n)
  PROVE  DialogInv'
<1> DEFINE p == [Page EXCEPT !.cursor = n]
<1>1. OnQuestion
  BY DEF ChooseNumber
<1>2. PageOK(p) /\ p \in PageType
  BY <1>1, OpenPage, MovedIsRight DEF PageOK
<1>3. \/ SetPage(Toggled(p)) /\ UNCHANGED <<multi, open, sent>>
      \/ ConfirmTab(p)
  BY DEF ChooseNumber
<1> HIDE DEF p
<1> QED BY <1>1, <1>2, <1>3, ToggledIsRight, SetPageKeeps, ConfirmKeeps

LEMMA EnterKeeps ==
  ASSUME DialogInv, sent = <<>>, Enter
  PROVE  DialogInv'
<1>1. CASE OnQuestion /\ ConfirmTab(Page)
  BY <1>1, OpenPage, ConfirmKeeps
<1>2. CASE AllComplete(pages) /\ Respond(pages) /\ UNCHANGED <<multi, open, pages>>
  <2>1. DialogType' /\ \A q \in DOMAIN pages' : PageInv(q)'
    BY <1>2 DEF DialogInv, DialogType, PageInv, TabCount, HasSubmitPage
  <2>2. SentInv'
    BY <1>2 DEF SentInv, Respond, AllComplete, AnswerFor
  <2> QED BY <2>1, <2>2 DEF DialogInv
<1> QED BY <1>1, <1>2 DEF Enter

LEMMA DialogInvKept == DialogInv /\ DialogNext => DialogInv'
<1>1. ASSUME DialogInv, Rejected PROVE DialogInv'
  BY <1>1 DEF Rejected, DialogInv, DialogType, PageInv, SentInv, TabCount, HasSubmitPage
<1> QED BY <1>1, CursorKeeps, TabsKeep, TextKeeps, NumberKeeps, EnterKeeps DEF DialogNext, DialogKey

LEMMA DialogInitInv ==
  ASSUME NEW requests, requests \subseteq Seq(BOOLEAN) \ {<<>>}, DialogInit(requests)
  PROVE  DialogInv
<1>1. multi \in Seq(BOOLEAN) \ {<<>>} /\ open = 1 /\ sent = <<>> /\ pages = [q \in DOMAIN multi |-> NewPage]
  BY DEF DialogInit
<1>2. NewPage \in PageType /\ NewPage.complete = FALSE
  BY DialogAssumption DEF NewPage, PageType, Rows, Other
<1>3. multi \in Seq(BOOLEAN) /\ Len(multi) \in Nat \ {0} /\ DOMAIN multi = 1..Len(multi)
  BY <1>1, EmptySeq
<1>4. pages \in [1..Len(multi) -> PageType]
  BY <1>1, <1>2, <1>3
<1>5. Len(pages) = Len(multi)
  BY <1>3, <1>4
<1>6. DialogType
  BY <1>1, <1>3, <1>4, <1>5 DEF DialogType, TabCount, HasSubmitPage
<1>7. \A q \in DOMAIN pages : PageInv(q)
  BY <1>1, <1>2 DEF PageInv
<1> QED BY <1>1, <1>6, <1>7 DEF DialogInv, SentInv

\* What the invariant means for the user.
LEMMA DialogIsRight == DialogInv => CursorShown /\ SingleHasOneAnswer /\ BlankOnlyByOther
<1> SUFFICES ASSUME DialogInv PROVE CursorShown /\ SingleHasOneAnswer /\ BlankOnlyByOther
  OBVIOUS
<1>1. \A q \in DOMAIN pages : pages[q] \in PageType /\ multi[q] \in BOOLEAN /\ PageInv(q)
  BY PagesAreSequence DEF DialogInv, DialogType
<1>2. CursorShown
  <2> SUFFICES ASSUME NEW q \in DOMAIN pages, NEW h \in 1..Other
               PROVE  WindowStart(pages[q].cursor, h) \in (pages[q].cursor - h + 1)..pages[q].cursor
    BY DEF CursorShown
  <2>1. pages[q].cursor \in 1..Other /\ Other \in Nat /\ h \in Nat \ {0}
    <3>1. pages[q].cursor \in Rows
      BY <1>1, PageFields
    <3> QED BY <3>1, DialogAssumption DEF Rows, Other
  <2> QED BY <2>1 DEF WindowStart, Above
<1>3. SingleHasOneAnswer
  <2> SUFFICES ASSUME NEW q \in DOMAIN pages, pages[q].complete, ~multi[q]
               PROVE  Cardinality(pages[q].selected) + (IF pages[q].other_selected THEN 1 ELSE 0) = 1
    BY DEF SingleHasOneAnswer
  <2>1. OneAnswer(pages[q])
    BY <1>1 DEF PageInv
  <2>2. ASSUME NEW option, pages[q].selected = {option}, ~pages[q].other_selected
        PROVE  Cardinality(pages[q].selected) + (IF pages[q].other_selected THEN 1 ELSE 0) = 1
    <3>1. Cardinality({option}) = 1
      BY FS_Singleton
    <3> QED BY <2>2, <3>1
  <2>3. CASE pages[q].selected = {} /\ pages[q].other_selected
    <3>1. Cardinality({}) = 0
      BY FS_EmptySet
    <3> QED BY <2>3, <3>1
  <2> QED BY <2>1, <2>2, <2>3 DEF OneAnswer
<1>4. BlankOnlyByOther
  <2> SUFFICES ASSUME NEW q \in DOMAIN sent, sent[q].chosen = {},
                      sent[q].other = <<>> \/ Blank(sent[q].other[1])
               PROVE  multi[q] /\ sent[q].other # <<>>
    BY DEF BlankOnlyByOther
  <2>1. sent # <<>>
    OBVIOUS
  <2>2. q \in DOMAIN pages /\ pages[q].complete /\ sent[q] = AnswerFor(pages[q])
    BY <2>1 DEF DialogInv, SentInv, AllComplete
  <2>3. /\ sent[q].chosen = pages[q].selected
        /\ sent[q].other = IF pages[q].other_selected THEN <<pages[q].other_draft>> ELSE <<>>
    BY <2>2 DEF AnswerFor
  <2>4. multi[q] /\ pages[q].other_selected
    BY <1>1, <2>2, <2>3 DEF PageInv, OneAnswer, SomeAnswer, Typed
  <2> QED BY <2>3, <2>4
<1> QED BY <1>2, <1>3, <1>4

--------------------------------------------------------------------------------
(* The parts that take keys by themselves, in the client.                  *)

LEMMA KeyPartsInitially == Init => ListInv /\ DialogInv
<1> SUFFICES ASSUME Init PROVE ListInv /\ DialogInv
  OBVIOUS
<1>1. RowLists \subseteq Seq(Row)
  BY ListAssumption DEF RowLists, SeqOf
<1>2. {<<>>} \subseteq Seq(Row)
  OBVIOUS
<1>3. {<<FALSE>>} \subseteq Seq(BOOLEAN) \ {<<>>}
  OBVIOUS
<1>4. ListInv
  <2>1. CASE focus = "list"
    BY <1>1, <2>1, ListInitInv DEF Init
  <2>2. CASE focus # "list"
    BY <1>2, <2>2, ListInitInv DEF Init
  <2> QED BY <2>1, <2>2
<1>5. DialogInv
  <2>1. CASE focus = "dialog"
    BY <2>1, DialogInitInv, RequestsAssumption DEF Init
  <2>2. CASE focus # "dialog"
    BY <1>3, <2>2, DialogInitInv DEF Init
  <2> QED BY <2>1, <2>2
<1> QED BY <1>4, <1>5

LEMMA KeyPartsStep == [Next]_vars => /\ ListNext \/ UNCHANGED listVars
                                     /\ DialogNext \/ UNCHANGED dialogVars
BY DEF Next, vars, Views, Turns, Dialog, List, Compose, Remember

LEMMA ListUnchanged == ListInv /\ UNCHANGED listVars => ListInv'
<1> SUFFICES ASSUME ListInv, UNCHANGED listVars PROVE ListInv'
  OBVIOUS
<1>1. UNCHANGED <<rows, query, selected, scroll_top, height, rebuilt, followed>>
  BY DEF listVars
<1>2. Shown' = Shown
  BY <1>1 DEF Shown
<1>3. SelectedValue' = SelectedValue /\ Vanished' = Vanished
  BY <1>1, <1>2 DEF SelectedValue, Vanished
<1>4. SelectionIsChoosable' /\ SelectionFollowsValue' /\ SelectionShown'
  BY <1>1, <1>2, <1>3 DEF ListInv, SelectionIsChoosable, SelectionFollowsValue, SelectionShown
<1> QED BY <1>1, <1>4 DEF ListInv

LEMMA DialogUnchanged == DialogInv /\ UNCHANGED dialogVars => DialogInv'
BY DEF DialogInv, dialogVars, DialogType, PageInv, SentInv, TabCount, HasSubmitPage

\* Enter acts on what the user sees, for lists of any length and requests of any
\* number of questions: the selection is a shown row that can be chosen and keeps
\* its value, and a finished question has the answer the dialog sends.
THEOREM EnterAlwaysActs == Spec => []EnterActsOnWhatIsShown
<1>1. ListInv /\ DialogInv /\ [Next]_vars => ListInv' /\ DialogInv'
  BY KeyPartsStep, ListInvKept, ListUnchanged, DialogInvKept, DialogUnchanged
<1>2. ListInv /\ DialogInv => EnterActsOnWhatIsShown
  BY DialogIsRight DEF ListInv, EnterActsOnWhatIsShown
<1> QED BY <1>1, <1>2, KeyPartsInitially, PTL DEF Spec

--------------------------------------------------------------------------------
(* The projection of turns.                                                *)

\* t begins with s.
Extends(s, t) == DOMAIN s \subseteq DOMAIN t /\ \A i \in DOMAIN s : t[i] = s[i]

LEMMA AppendExtends ==
  ASSUME NEW S, NEW s \in Seq(S), NEW x
  PROVE  /\ Extends(s, Append(s, x)) /\ Len(Append(s, x)) = Len(s) + 1
         /\ Append(s, x)[Len(s) + 1] = x /\ DOMAIN Append(s, x) = 1..(Len(s) + 1)
BY DEF Extends

LEMMA SeqWider ==
  ASSUME NEW S, NEW T, S \subseteq T, NEW s \in Seq(S)
  PROVE  s \in Seq(T)
OBVIOUS

LEMMA SameExtends == ASSUME NEW s PROVE Extends(s, s)
BY DEF Extends

\* The events are those of submissions.
LEMMA EventFacts ==
  ASSUME ProjectionType
  PROVE  /\ DOMAIN events = 1..Len(events) /\ Len(events) \in Nat
         /\ \A i \in DOMAIN events : events[i].of \in Submissions /\ events[i].kind \in EventKinds
         /\ \A x : /\ DOMAIN Append(events, x) = 1..(Len(events) + 1) /\ Append(events, x)[Len(events) + 1] = x
                  /\ Len(Append(events, x)) = Len(events) + 1 /\ Extends(events, Append(events, x))
<1> DEFINE R == [kind : EventKinds, of : Submissions]
<1>1. events \in Seq(R)
  BY DEF ProjectionType
<1>2. \A r \in R : r.of \in Submissions /\ r.kind \in EventKinds
  OBVIOUS
<1> HIDE DEF R
<1> QED BY <1>1, <1>2, SeqElements, AppendExtends

\* What stands before a place of the transcript does not change when it grows.
LEMMA PromptStays ==
  ASSUME ProjectionType, NEW s, NEW i \in 1..(Len(transcript) + 1), Extends(transcript, transcript')
  PROVE  PromptBefore(s, i) <=> PromptBefore(s, i)'
<1>1. DOMAIN transcript = 1..Len(transcript) /\ Len(transcript) \in Nat
  BY DEF ProjectionType
<1>2. \A j \in 1..(i - 1) : transcript'[j] = transcript[j]
  BY <1>1 DEF Extends
<1> QED BY <1>1, <1>2 DEF PromptBefore, Event

\* A row that is no prompt leaves the last prompt the last one.
LEMMA PromptStaysLast ==
  ASSUME ProjectionType, NEW s, Extends(transcript, transcript'),
         Len(transcript') \in {Len(transcript), Len(transcript) + 1},
         Len(transcript') = Len(transcript) + 1 => transcript'[Len(transcript')].kind # "prompt",
         PromptBefore(s, Len(transcript) + 1)
  PROVE  PromptBefore(s, Len(transcript) + 1)'
<1>1. DOMAIN transcript = 1..Len(transcript) /\ Len(transcript) \in Nat
  BY DEF ProjectionType
<1>2. \A j \in 1..Len(transcript) : transcript'[j] = transcript[j]
  BY <1>1 DEF Extends
<1>3. PICK j \in 1..Len(transcript) : /\ transcript[j] = Event("prompt", s)
                                      /\ \A k \in (j + 1)..Len(transcript) : transcript[k].kind # "prompt"
  BY <1>1 DEF PromptBefore
<1>4. transcript'[j] = Event("prompt", s)
  BY <1>2, <1>3
<1>5. \A k \in (j + 1)..Len(transcript') : transcript'[k].kind # "prompt"
  <2> SUFFICES ASSUME NEW k \in (j + 1)..Len(transcript') PROVE transcript'[k].kind # "prompt"
    OBVIOUS
  <2>1. CASE k \in 1..Len(transcript)
    BY <1>1, <1>2, <1>3, <2>1
  <2>2. CASE k = Len(transcript) + 1
    BY <1>1, <2>2
  <2> QED BY <1>1, <1>3, <2>1, <2>2
<1>6. (Len(transcript) + 1)' - 1 = Len(transcript') /\ j \in 1..Len(transcript')
  BY <1>1, <1>3
<1> QED BY <1>4, <1>5, <1>6 DEF PromptBefore, Event

--------------------------------------------------------------------------------
(* What the core adds to the events.                                       *)

LEMMA LeadsStays ==
  ASSUME ProjectionType, NEW s, NEW n \in 1..(Len(events) + 1), Leads(s, n),
         Extends(events, events'), UNCHANGED transcript
  PROVE  Leads(s, n)'
<1>1. DOMAIN events = 1..Len(events) /\ Len(events) \in Nat
  BY DEF ProjectionType
<1>2. \A j \in 1..(n - 1) : events'[j] = events[j]
  BY <1>1 DEF Extends
<1>3. CASE \E j \in 1..(n - 1) : /\ events[j] = Event("started", s)
                                 /\ \A k \in (j + 1)..(n - 1) : events[k].kind # "started"
  <2>1. PICK j \in 1..(n - 1) : /\ events[j] = Event("started", s)
                                /\ \A k \in (j + 1)..(n - 1) : events[k].kind # "started"
    BY <1>3
  <2>2. events'[j] = Event("started", s) /\ \A k \in (j + 1)..(n - 1) : events'[k].kind # "started"
    BY <1>1, <1>2, <2>1
  <2> QED BY <2>2 DEF Leads, Event
<1>4. CASE PromptBefore(s, Len(transcript) + 1) /\ \A k \in 1..(n - 1) : events[k].kind # "started"
  BY <1>2, <1>4 DEF Leads, PromptBefore, Event
<1> QED BY <1>3, <1>4 DEF Leads

\* An event that starts no turn leaves the one that leads.
LEMMA LeadsPasses ==
  ASSUME ProjectionType, NEW s, Leads(s, Len(events) + 1), NEW e, e.kind # "started",
         events' = Append(events, e), UNCHANGED transcript
  PROVE  Leads(s, Len(events) + 1)'
<1>1. Len(events) \in Nat /\ Len(events') = Len(events) + 1
  BY AppendExtends DEF ProjectionType
<1>2. Leads(s, Len(events) + 1)' <=> \/ \E j \in 1..Len(events') :
                                          /\ events'[j] = Event("started", s)
                                          /\ \A k \in (j + 1)..Len(events') : events'[k].kind # "started"
                                     \/ /\ PromptBefore(s, Len(transcript) + 1)'
                                        /\ \A k \in 1..Len(events') : events'[k].kind # "started"
  BY <1>1 DEF Leads, Event
<1>3. \A j \in 1..Len(events) : events'[j] = events[j]
  BY AppendExtends DEF ProjectionType, Extends
<1>4. events'[Len(events) + 1] = e
  BY AppendExtends DEF ProjectionType
<1>5. CASE \E j \in 1..Len(events) : /\ events[j] = Event("started", s)
                                     /\ \A k \in (j + 1)..Len(events) : events[k].kind # "started"
  <2>1. PICK j \in 1..Len(events) : /\ events[j] = Event("started", s)
                                    /\ \A k \in (j + 1)..Len(events) : events[k].kind # "started"
    BY <1>5
  <2>2. events'[j] = Event("started", s) /\ j \in 1..Len(events')
    BY <1>1, <1>3, <2>1
  <2>3. \A k \in (j + 1)..Len(events') : events'[k].kind # "started"
    BY <1>1, <1>3, <1>4, <2>1
  <2> QED BY <1>2, <2>2, <2>3
<1>6. CASE PromptBefore(s, Len(transcript) + 1) /\ \A k \in 1..Len(events) : events[k].kind # "started"
  <2>1. \A k \in 1..Len(events') : events'[k].kind # "started"
    BY <1>1, <1>3, <1>4, <1>6
  <2>2. PromptBefore(s, Len(transcript) + 1)'
    BY <1>6 DEF PromptBefore, Event
  <2> QED BY <1>2, <2>1, <2>2
<1> QED BY <1>1, <1>5, <1>6 DEF Leads

\* The start of a turn makes it lead.
LEMMA StartLeads ==
  ASSUME ProjectionType, NEW s, events' = Append(events, Event("started", s))
  PROVE  Leads(s, Len(events) + 1)'
<1>1. Len(events) \in Nat /\ Len(events') = Len(events) + 1 /\ events'[Len(events')] = Event("started", s)
  BY AppendExtends DEF ProjectionType
<1>2. (Len(events) + 1)' - 1 = Len(events') /\ Len(events') \in 1..Len(events')
      /\ (Len(events') + 1)..Len(events') = {}
  BY <1>1
<1> QED BY <1>1, <1>2 DEF Leads, Event

LEMMA AnnouncedStays ==
  ASSUME ProjectionType, NEW s, NEW n \in 1..(Len(events) + 1), NEW m \in Int, n <= m, IsAnnounced(s, n),
         Extends(events, events'), UNCHANGED prompt_text
  PROVE  IsAnnounced(s, m)'
<1>1. DOMAIN events = 1..Len(events) /\ Len(events) \in Nat
  BY DEF ProjectionType
<1>2. \A j \in 1..(n - 1) : events'[j] = events[j] /\ j \in 1..(m - 1)
  BY <1>1 DEF Extends
<1> QED BY <1>2 DEF IsAnnounced, Event

--------------------------------------------------------------------------------
(* A step of the core.                                                     *)

\* It adds at most one event, of a submission, and forgets none.
LEMMA CoreStepShape ==
  ASSUME ProjectionType, CoreStep
  PROVE  /\ UNCHANGED <<conversation, turnView, response, prompt_text, transcript>>
         /\ Submissions \subseteq Submissions' /\ used \subseteq used'
         /\ home' \in Seq(Nat) /\ \A s \in Submissions : home'[s] = home[s]
         /\ \A s \in Submissions' : home'[s] <= conversation'
         /\ \/ UNCHANGED events
            \/ \E e \in [kind : EventKinds, of : Submissions'] : events' = Append(events, e)
<1>1. CASE Accept
  <2>1. home' = Append(home, conversation) /\ home \in Seq(Nat) /\ conversation \in Nat /\ UNCHANGED <<used, conversation>>
    BY <1>1 DEF Accept, ProjectionType, CoreStep
  <2>2. Len(home') = Len(home) + 1 /\ home' \in Seq(Nat)
    BY <2>1, AppendExtends
  <2>3. \A s \in 1..Len(home) : home'[s] = home[s]
    BY <2>1
  <2>4. home'[Len(home) + 1] = conversation
    BY <2>1, AppendExtends
  <2>5. events' = Append(events, Event("accepted", Len(home) + 1))
    BY <1>1 DEF Accept, Emit
  <2>6. Event("accepted", Len(home) + 1) \in [kind : EventKinds, of : Submissions']
    BY <2>1, <2>2 DEF Event, EventKinds, Submissions
  <2>7. \A s \in Submissions' : home'[s] <= conversation'
    BY <2>1, <2>2, <2>3, <2>4 DEF Submissions, ProjectionType
  <2> QED BY <2>1, <2>2, <2>3, <2>5, <2>6, <2>7 DEF CoreStep, Submissions
<1>2. CASE ~Accept
  <2>1. UNCHANGED <<home, conversation>>
    BY <1>2 DEF CoreStep, Claim, Start, Part, FinishTurn, EmitTerminal
  <2>2. Submissions' = Submissions
    BY <2>1 DEF Submissions
  <2>3. used \subseteq used'
    BY <1>2 DEF CoreStep, Claim, Start, Part, FinishTurn, EmitTerminal
  <2>4. \/ UNCHANGED events
        \/ \E e \in [kind : EventKinds, of : Submissions] : events' = Append(events, e)
    <3>1. CASE Claim \/ FinishTurn
      BY <3>1 DEF Claim, FinishTurn
    <3>2. CASE Start \/ Part \/ EmitTerminal
      <4>1. turn.of \in Submissions
        BY <3>2 DEF ProjectionType, Start, Part, EmitTerminal, Outcomes
      <4>2. PICK kind \in EventKinds : events' = Append(events, Event(kind, turn.of))
        BY <3>2 DEF Start, Part, EmitTerminal, Emit, EventKinds
      <4> QED BY <4>1, <4>2 DEF Event
    <3> QED BY <1>2, <3>1, <3>2 DEF CoreStep
  <2> QED BY <2>1, <2>2, <2>3, <2>4 DEF CoreStep, ProjectionType
<1> QED BY <1>1, <1>2

LEMMA CoreStepType ==
  ASSUME ProjectionType, CoreStep
  PROVE  ProjectionType'
<1>1. /\ UNCHANGED <<conversation, turnView, response, prompt_text, transcript>>
      /\ Submissions \subseteq Submissions'
      /\ home' \in Seq(Nat) /\ \A s \in Submissions' : home'[s] <= conversation'
  BY CoreStepShape
<1>2. events' \in Seq([kind : EventKinds, of : Submissions'])
  <2>1. events \in Seq([kind : EventKinds, of : Submissions'])
    <3>1. [kind : EventKinds, of : Submissions] \subseteq [kind : EventKinds, of : Submissions']
      BY <1>1
    <3> DEFINE R == [kind : EventKinds, of : Submissions]
               T == [kind : EventKinds, of : Submissions']
    <3>2. events \in Seq(R)
      BY DEF ProjectionType
    <3>3. R \subseteq T
      BY <3>1
    <3> HIDE DEF R, T
    <3>4. events \in Seq(T)
      BY <3>2, <3>3, SeqWider
    <3> QED BY <3>4 DEF T
  <2>2. \A e \in [kind : EventKinds, of : Submissions'] : Append(events, e) \in Seq([kind : EventKinds, of : Submissions'])
    BY <2>1, SeqAppended
  <2> QED BY <2>1, <2>2, CoreStepShape
<1>3. transcript' \in Seq([kind : RowKinds, of : Submissions'])
  <2>1. [kind : RowKinds, of : Submissions] \subseteq [kind : RowKinds, of : Submissions']
    BY <1>1
  <2>2. transcript \in Seq([kind : RowKinds, of : Submissions'])
    <3> DEFINE R == [kind : RowKinds, of : Submissions]
               T == [kind : RowKinds, of : Submissions']
    <3>1. transcript \in Seq(R)
      BY DEF ProjectionType
    <3>2. R \subseteq T
      BY <2>1
    <3> HIDE DEF R, T
    <3>3. transcript \in Seq(T)
      BY <3>1, <3>2, SeqWider
    <3> QED BY <3>3 DEF T
  <2> QED BY <1>1, <2>2
<1>4. /\ active' \in Submissions' \cup {Nobody} /\ {spinner', had_tool'} \subseteq BOOLEAN
      /\ terminal_turn' \in [of : Submissions' \cup {Nobody}, had_tool : BOOLEAN]
  BY <1>1 DEF ProjectionType, turnView
<1>5. waiting \in Seq(Submissions')
  BY <1>1, SeqWider DEF ProjectionType
<1>6. /\ waiting' \in Seq(Submissions') /\ current' \in Submissions' \cup {Nobody}
      /\ turn' \in [at : Places, of : Submissions' \cup {Nobody}]
      /\ turn'.at # "none" => turn'.of \in Submissions'
  <2>1. CASE Accept
    <3>1. Len(home) + 1 \in Submissions'
      BY <2>1, AppendExtends DEF Accept, Submissions, ProjectionType
    <3> QED BY <1>1, <1>5, <2>1, <3>1 DEF Accept, ProjectionType
  <2>2. CASE Claim
    BY <1>5, <2>2, SeqFirst DEF Claim, At, Places
  <2>3. CASE Start
    BY <1>1, <1>5, <2>3 DEF Start, At, Places, ProjectionType
  <2>4. CASE Part
    BY <1>1, <1>5, <2>4 DEF Part, ProjectionType
  <2>5. CASE FinishTurn
    BY <1>1, <1>5, <2>5 DEF FinishTurn, At, Places, Outcomes, ProjectionType
  <2>6. CASE EmitTerminal
    BY <1>1, <1>5, <2>6 DEF EmitTerminal, At, Places, Outcomes, ProjectionType
  <2> QED BY <2>1, <2>2, <2>3, <2>4, <2>5, <2>6 DEF CoreStep
<1>7. conversation' \in Nat
  BY <1>1 DEF ProjectionType
<1> QED BY <1>1, <1>2, <1>3, <1>4, <1>6, <1>7 DEF ProjectionType

\* What it says of the events that were there holds on.
LEMMA CoreStepHolds ==
  ASSUME ProjectionType, CoreStep
  PROVE  /\ Extends(events, events') /\ DOMAIN events = 1..Len(events) /\ Len(events) \in Nat
         /\ UNCHANGED <<transcript, prompt_text, conversation>>
         /\ \A s \in Submissions : Here(s)' <=> Here(s)
<1>1. Extends(events, events')
  <2>1. \A e : Extends(events, Append(events, e))
    BY AppendExtends DEF ProjectionType
  <2> QED BY <2>1, CoreStepShape, SameExtends
<1> QED BY <1>1, CoreStepShape DEF Here, ProjectionType

LEMMA CoreStepAnnounces ==
  ASSUME ProjectionType, PromptIsKnown, CoreStep
  PROVE  PromptIsKnown'
<1>1. \A s \in Submissions' : Here(s)' => IsAnnounced(s, Len(events) + 1)'
  <2> SUFFICES ASSUME NEW s \in Submissions', Here(s)' PROVE IsAnnounced(s, Len(events) + 1)'
    OBVIOUS
  <2>1. CASE s \in Submissions
    <3>1. Here(s)
      BY <2>1, CoreStepHolds
    <3>2. IsAnnounced(s, Len(events) + 1)
      BY <2>1, <3>1 DEF PromptIsKnown
    <3>3. Len(events') \in Nat /\ Len(events) <= Len(events')
      BY CoreStepShape, AppendExtends DEF ProjectionType
    <3>4. PICK m \in Int : m = Len(events') + 1
      BY <3>3
    <3>5. Len(events) + 1 \in 1..(Len(events) + 1) /\ Len(events) + 1 <= m
      BY <3>3, <3>4, CoreStepHolds
    <3>6. IsAnnounced(s, m)'
      BY <3>2, <3>5, CoreStepHolds, AnnouncedStays
    <3> QED BY <3>4, <3>6 DEF IsAnnounced
  <2>2. CASE s \notin Submissions
    <3>1. Accept
      BY <2>2 DEF CoreStep, Claim, Start, Part, FinishTurn, EmitTerminal, Submissions
    <3>2. s = Len(home) + 1
      BY <2>2, <3>1, AppendExtends DEF Accept, Submissions, ProjectionType
    <3>3. events' = Append(events, Event("accepted", s))
      BY <3>1, <3>2 DEF Accept, Emit
    <3>4. Len(events') \in Nat /\ events'[Len(events')] = Event("accepted", s) /\ Len(events') \in 1..(Len(events') + 1 - 1)
      BY <3>3, AppendExtends, CoreStepHolds DEF ProjectionType
    <3> QED BY <3>4 DEF IsAnnounced, Event
  <2> QED BY <2>1, <2>2
<1>2. ASSUME NEW i \in DOMAIN events', NEW e, e = events'[i], e.kind = "started", Here(e.of)'
      PROVE  IsAnnounced(e.of, i)'
  <2>1. CASE i \in DOMAIN events
    <3>1. events[i] = e
      BY <1>2, <2>1, CoreStepHolds DEF Extends
    <3>2. e.of \in Submissions
      BY <2>1, <3>1, EventFacts
    <3>3. Here(e.of)
      BY <1>2, <3>2, CoreStepHolds
    <3>4. IsAnnounced(e.of, i)
      BY <1>2, <2>1, <3>1, <3>3 DEF PromptIsKnown
    <3>5. i \in 1..(Len(events) + 1) /\ i \in Int /\ i <= i
      BY <2>1, CoreStepHolds
    <3> QED BY <3>4, <3>5, CoreStepHolds, AnnouncedStays
  <2>2. CASE i \notin DOMAIN events
    <3>1. PICK x : events' = Append(events, x)
      BY <2>2, CoreStepShape
    <3>2. i = Len(events) + 1 /\ x = e
      BY <1>2, <2>2, <3>1, EventFacts
    <3>3. Start
      BY <1>2, <2>2, <3>2, AppendExtends, CoreStepHolds
         DEF CoreStep, Accept, Claim, Part, FinishTurn, EmitTerminal, Emit, Event, Outcomes, ProjectionType
    <3>4. events' = Append(events, Event("started", turn.of)) /\ turn.of \in Submissions
      BY <3>3 DEF Start, Emit, ProjectionType
    <3>5. e.of = turn.of
      BY <1>2, <3>2, <3>4, AppendExtends DEF ProjectionType, Event
    <3>6. Here(e.of)
      BY <1>2, <3>4, <3>5, CoreStepHolds
    <3>7. IsAnnounced(e.of, i)
      BY <3>2, <3>4, <3>5, <3>6 DEF PromptIsKnown
    <3>8. i \in 1..(Len(events) + 1) /\ i \in Int /\ i <= i
      BY <3>2, CoreStepHolds
    <3> QED BY <3>7, <3>8, CoreStepHolds, AnnouncedStays
  <2> QED BY <2>1, <2>2
<1>3. \A i \in DOMAIN events' : \A e : e = events'[i] /\ e.kind = "started" /\ Here(e.of)' => IsAnnounced(e.of, i)'
  BY <1>2
<1> QED BY <1>1, <1>3 DEF PromptIsKnown, IsAnnounced, Here

LEMMA CoreStepLeads ==
  ASSUME ProjectionType, OutputIsLed, CoreStep
  PROVE  OutputIsLed'
<1>1. ASSUME NEW i \in DOMAIN events', NEW e, e = events'[i],
             e.kind \in {"text", "tool", "completed"}, Here(e.of)'
      PROVE  Leads(e.of, i)'
  <2>1. i \in 1..(Len(events) + 1)
    BY CoreStepShape, EventFacts
  <2>2. Leads(e.of, i)
    <3>1. CASE i \in DOMAIN events
      <4>1. events[i] = e
        BY <1>1, <3>1, CoreStepHolds DEF Extends
      <4>2. e.of \in Submissions
        BY <3>1, <4>1, EventFacts
      <4>3. Here(e.of)
        BY <1>1, <4>2, CoreStepHolds
      <4> QED BY <1>1, <3>1, <4>1, <4>3 DEF OutputIsLed
    <3>2. CASE i \notin DOMAIN events
      <4>1. PICK x : events' = Append(events, x)
        BY <3>2, CoreStepShape
      <4>2. i = Len(events) + 1 /\ x = e
        BY <1>1, <3>2, <4>1, EventFacts
      <4>3. (Part \/ EmitTerminal) /\ e.of = turn.of /\ turn.at \in {"running", "completed"}
        <5>1. CASE Accept \/ Start
          BY <1>1, <4>2, <5>1, EventFacts DEF Accept, Start, Emit, Event
        <5>2. CASE Claim \/ FinishTurn
          BY <3>2, <5>2 DEF Claim, FinishTurn
        <5>3. CASE Part
          BY <1>1, <4>2, <5>3, EventFacts DEF Part, Emit, Event
        <5>4. CASE EmitTerminal
          BY <1>1, <4>2, <5>4, EventFacts DEF EmitTerminal, Emit, Event, Outcomes
        <5> QED BY <5>1, <5>2, <5>3, <5>4 DEF CoreStep
      <4>4. turn.of \in Submissions
        BY <4>3 DEF ProjectionType
      <4>5. Here(turn.of)
        BY <1>1, <4>3, <4>4, CoreStepHolds
      <4> QED BY <4>2, <4>3, <4>5 DEF OutputIsLed
    <3> QED BY <3>1, <3>2
  <2> QED BY <2>1, <2>2, CoreStepHolds, LeadsStays
<1>2. ASSUME NEW s, s = turn'.of, turn'.at \in {"running", "completed"}, Here(s)'
      PROVE  Leads(s, Len(events) + 1)'
  <2>1. CASE Accept
    <3>1. turn.at \in {"running", "completed"} /\ s = turn.of
      BY <1>2, <2>1 DEF Accept
    <3>2. s \in Submissions
      BY <3>1 DEF ProjectionType
    <3>3. Leads(s, Len(events) + 1)
      BY <1>2, <3>1, <3>2, CoreStepHolds DEF OutputIsLed
    <3>4. PICK e : events' = Append(events, e) /\ e.kind # "started"
      BY <2>1 DEF Accept, Emit, Event
    <3> QED BY <3>3, <3>4, CoreStepHolds, LeadsPasses
  <2>2. CASE Start
    BY <1>2, <2>2, StartLeads DEF Start, At, Emit
  <2>3. CASE Part
    <3>1. turn.at \in {"running", "completed"} /\ s = turn.of
      BY <1>2, <2>3 DEF Part
    <3>2. s \in Submissions
      BY <3>1 DEF ProjectionType
    <3>3. Leads(s, Len(events) + 1)
      BY <1>2, <3>1, <3>2, CoreStepHolds DEF OutputIsLed
    <3>4. PICK e : events' = Append(events, e) /\ e.kind # "started"
      BY <2>3 DEF Part, Emit, Event
    <3> QED BY <3>3, <3>4, CoreStepHolds, LeadsPasses
  <2>4. CASE FinishTurn
    <3>1. turn.at = "running" /\ s = turn.of /\ UNCHANGED events
      BY <1>2, <2>4 DEF FinishTurn, At, Outcomes
    <3>2. s \in Submissions
      BY <3>1 DEF ProjectionType
    <3>3. Leads(s, Len(events) + 1)
      BY <1>2, <3>1, <3>2, CoreStepHolds DEF OutputIsLed
    <3> QED BY <3>1, <3>3, CoreStepHolds DEF Leads, PromptBefore, Event
  <2>5. CASE Claim \/ EmitTerminal
    BY <1>2, <2>5 DEF Claim, EmitTerminal, At
  <2> QED BY <2>1, <2>2, <2>3, <2>4, <2>5 DEF CoreStep
<1>3. \A i \in DOMAIN events' : \A e : /\ e = events'[i] /\ e.kind \in {"text", "tool", "completed"}
                                      /\ Here(e.of)'
                                      => Leads(e.of, i)'
  BY <1>1
<1> QED BY <1>2, <1>3 DEF OutputIsLed, Leads, PromptBefore, Here

LEMMA CoreStepFlags ==
  ASSUME ProjectionType, FlagsAreOfTools, CoreStep
  PROVE  FlagsAreOfTools'
<1>1. UNCHANGED <<had_tool, active, terminal_turn>> /\ used \subseteq used'
  BY CoreStepShape DEF turnView
<1>2. ASSUME NEW i \in DOMAIN events', events'[i].kind = "tool"
      PROVE  events'[i].of \in used'
  <2>1. CASE i \in DOMAIN events
    BY <1>1, <1>2, <2>1, CoreStepHolds DEF Extends, FlagsAreOfTools
  <2>2. CASE i \notin DOMAIN events
    <3>1. PICK x : events' = Append(events, x)
      BY <2>2, CoreStepShape
    <3>2. events'[i] = x
      BY <2>2, <3>1, EventFacts
    <3>3. \A kind, s : Emit(kind, s) => x = Event(kind, s)
      <4>1. ASSUME NEW y, events' = Append(events, y)
            PROVE  x = y
        <5>1. Append(events, x)[Len(events) + 1] = x /\ Append(events, y)[Len(events) + 1] = y
          BY EventFacts
        <5> QED BY <3>1, <4>1, <5>1
      <4> QED BY <4>1 DEF Emit
    <3>4. Part
      <4>1. x.kind = "tool"
        BY <1>2, <3>2
      <4>2. \A kind, s : Emit(kind, s) => kind = "tool"
        BY <3>3, <4>1 DEF Event
      <4>3. CASE Claim \/ FinishTurn
        BY <2>2, <4>3 DEF Claim, FinishTurn
      <4> QED BY <4>2, <4>3 DEF CoreStep, Accept, Start, EmitTerminal, Outcomes
    <3>5. x = Event("tool", turn.of) /\ turn.of \in used'
      <4>1. ~Emit("text", turn.of)
        BY <1>2, <3>2, <3>3 DEF Event
      <4> QED BY <3>3, <3>4, <4>1 DEF Part
    <3> QED BY <3>2, <3>5 DEF Event
  <2> QED BY <2>1, <2>2
<1> QED BY <1>1, <1>2 DEF FlagsAreOfTools

\* A core that leaves its submission has an event to send, or sends it.
LEMMA CoreStepLooks ==
  ASSUME ProjectionType, LooksAgain, CoreStep
  PROVE  LooksAgain'
<1>1. UNCHANGED <<spinner, active>>
  BY CoreStepShape DEF turnView
<1>2. (spinner => active # Nobody)'
  BY <1>1 DEF LooksAgain
<1>3. (current # Nobody => current = turn.of /\ turn.at \in {"claimed", "running"})'
  BY DEF LooksAgain, CoreStep, Accept, Claim, Start, Part, FinishTurn, EmitTerminal, At, Outcomes
<1>4. ASSUME active' # current', turn'.at \notin {"claimed"} \cup Outcomes
      PROVE  \E i \in DOMAIN events' : events'[i].kind \notin {"text", "tool"}
  <2>1. ASSUME NEW e, events' = Append(events, e), e.kind \notin {"text", "tool"}
        PROVE  \E i \in DOMAIN events' : events'[i].kind \notin {"text", "tool"}
    BY <2>1, EventFacts
  <2>2. CASE Accept
    BY <2>1, <2>2 DEF Accept, Emit, Event
  <2>3. CASE Start
    BY <2>1, <2>3 DEF Start, Emit, Event
  <2>4. CASE EmitTerminal
    BY <2>1, <2>4 DEF EmitTerminal, Emit, Event, Outcomes
  <2>5. CASE Claim \/ FinishTurn
    BY <1>4, <2>5 DEF Claim, FinishTurn, At, Outcomes
  <2>6. CASE Part
    <3>1. active # current /\ turn.at \notin {"claimed"} \cup Outcomes
      BY <1>1, <1>4, <2>6 DEF Part
    <3>2. PICK i \in DOMAIN events : events[i].kind \notin {"text", "tool"}
      BY <3>1 DEF LooksAgain
    <3> QED BY <3>2, CoreStepHolds DEF Extends
  <2> QED BY <2>2, <2>3, <2>4, <2>5, <2>6 DEF CoreStep
<1> QED BY <1>2, <1>3, <1>4 DEF LooksAgain

LEMMA CoreStepRows ==
  ASSUME ProjectionType, OutputUnderItsPrompt, SeparatorOnlyAfterTools, CoreStep
  PROVE  OutputUnderItsPrompt' /\ SeparatorOnlyAfterTools'
<1>1. UNCHANGED transcript /\ used \subseteq used'
  BY CoreStepShape
<1>2. SeparatorOnlyAfterTools'
  BY <1>1 DEF SeparatorOnlyAfterTools
<1>3. ASSUME NEW i \in DOMAIN transcript
      PROVE  Here(transcript[i].of)' => Here(transcript[i].of)
  <2> DEFINE R == [kind : RowKinds, of : Submissions]
  <2>1. transcript \in Seq(R) /\ \A r \in R : r.of \in Submissions
    BY DEF ProjectionType
  <2> HIDE DEF R
  <2>2. transcript[i].of \in Submissions
    BY <1>3, <2>1, SeqElements
  <2> QED BY <1>1, <2>2, CoreStepShape DEF Here
<1> QED BY <1>1, <1>2, <1>3 DEF OutputUnderItsPrompt, PromptBefore, Event, Here

LEMMA CoreStepKeeps == ProjectionInv /\ CoreStep => ProjectionInv'
BY CoreStepType, CoreStepAnnounces, CoreStepLeads, CoreStepFlags, CoreStepLooks, CoreStepRows DEF ProjectionInv

--------------------------------------------------------------------------------
(* A step of the client.                                                   *)

\* What a snapshot shows.
LEMMA RefreshedIs ==
  ASSUME ProjectionType, FlagsAreOfTools, LooksAgain
  PROVE  /\ Refreshed.active = current
         /\ Refreshed.spinner \in BOOLEAN /\ (Refreshed.spinner => current # Nobody)
         /\ Refreshed.had_tool \in BOOLEAN /\ (Refreshed.had_tool => current \in used)
         /\ Refreshed.terminal_turn \in [of : Submissions \cup {Nobody}, had_tool : BOOLEAN]
         /\ Refreshed.terminal_turn.had_tool => Refreshed.terminal_turn.of \in used
<1>1. Captured \in [of : Submissions \cup {Nobody}, had_tool : BOOLEAN] /\ (Captured.had_tool => Captured.of \in used)
  BY DEF ProjectionType, FlagsAreOfTools, Captured
<1>2. CASE current = active
  BY <1>2 DEF Refreshed, ProjectionType, FlagsAreOfTools, LooksAgain
<1>3. CASE current # active
  BY <1>1, <1>3 DEF Refreshed, FlagAfter, ProjectionType
<1> QED BY <1>2, <1>3

\* What a view has to say for the rest of the invariant.
ViewIsRight(v) ==
  /\ v.active = current /\ v.spinner \in BOOLEAN /\ (v.spinner => current # Nobody)
  /\ v.had_tool \in BOOLEAN /\ (v.had_tool => current \in used)
  /\ v.terminal_turn \in [of : Submissions \cup {Nobody}, had_tool : BOOLEAN]
  /\ v.terminal_turn.had_tool => v.terminal_turn.of \in used

LEMMA ShowKeeps ==
  ASSUME ProjectionType, FlagsAreOfTools, LooksAgain, NEW v, ViewIsRight(v), Show(v),
         UNCHANGED <<waiting, current, turn, used, home, conversation>>,
         \A i \in DOMAIN events' : events'[i].kind = "tool" => events'[i].of \in used
  PROVE  FlagsAreOfTools' /\ LooksAgain' /\ (active \in Submissions \cup {Nobody})'
         /\ ({spinner, had_tool} \subseteq BOOLEAN)'
         /\ (terminal_turn \in [of : Submissions \cup {Nobody}, had_tool : BOOLEAN])'
<1>1. active' = current /\ current' = current /\ used' = used /\ turn' = turn /\ Submissions' = Submissions
  BY DEF Show, ViewIsRight, Submissions
<1>2. FlagsAreOfTools'
  BY <1>1 DEF Show, ViewIsRight, FlagsAreOfTools
<1>3. LooksAgain'
  BY <1>1 DEF Show, ViewIsRight, LooksAgain
<1> QED BY <1>1, <1>2, <1>3 DEF Show, ViewIsRight, ProjectionType

\* The event that is handled is the first, and the others move up.
LEMMA HandleShape ==
  ASSUME ProjectionType, HandleEvent
  PROVE  /\ 1 \in DOMAIN events /\ Head(events) = events[1] /\ events[1].of \in Submissions
         /\ events[1].kind \in EventKinds
         /\ events' \in Seq([kind : EventKinds, of : Submissions])
         /\ DOMAIN events' = 1..Len(events') /\ Len(events') \in Nat /\ Len(events') = Len(events) - 1
         /\ \A i \in DOMAIN events' : i + 1 \in DOMAIN events /\ events'[i] = events[i + 1]
         /\ UNCHANGED <<waiting, current, turn, parts, used, home, conversation>>
<1> DEFINE R == [kind : EventKinds, of : Submissions]
<1>1. events \in Seq(R) /\ events # <<>> /\ events' = Tail(events)
  BY DEF ProjectionType, HandleEvent
<1>2. \A r \in R : r.of \in Submissions /\ r.kind \in EventKinds
  OBVIOUS
<1>3. UNCHANGED <<waiting, current, turn, parts, used, home, conversation>>
  BY DEF HandleEvent, coreOfTurns
<1> HIDE DEF R
<1>4. /\ Len(events) \in Nat \ {0} /\ DOMAIN events = 1..Len(events) /\ 1 \in DOMAIN events
      /\ Head(events) = events[1] /\ events[1] \in R
      /\ Tail(events) \in Seq(R) /\ Len(Tail(events)) = Len(events) - 1
      /\ DOMAIN Tail(events) = 1..(Len(events) - 1)
      /\ \A i \in 1..(Len(events) - 1) : i + 1 \in DOMAIN events /\ Tail(events)[i] = events[i + 1]
  BY <1>1, SeqFirst
<1> QED BY <1>1, <1>2, <1>3, <1>4 DEF R

\* The handlers by the kind of their event.
LEMMA HandleCases ==
  ASSUME ProjectionType, HandleEvent, NEW h, h = events[1]
  PROVE  \/ h.kind = "accepted" /\ NoteAcceptance(h.of)
         \/ h.kind = "started" /\ StartSubmission(h.of)
         \/ h.kind = "text" /\ TextDelta(h.of)
         \/ h.kind = "tool" /\ ToolCall(h.of)
         \/ h.kind = "completed" /\ Completed(h.of)
         \/ h.kind \in {"cancelled", "failed"} /\ Interrupted(h.kind, h.of)
<1>1. h = Head(events) /\ h.kind \in EventKinds
  BY HandleShape
<1>2. h.kind = "accepted" => NoteAcceptance(h.of)
  BY <1>1 DEF HandleEvent
<1>3. h.kind = "started" => StartSubmission(h.of)
  BY <1>1 DEF HandleEvent
<1>4. h.kind = "text" => TextDelta(h.of)
  BY <1>1 DEF HandleEvent
<1>5. h.kind = "tool" => ToolCall(h.of)
  BY <1>1 DEF HandleEvent
<1>6. h.kind = "completed" => Completed(h.of)
  BY <1>1 DEF HandleEvent
<1>7. h.kind \in {"cancelled", "failed"} => Interrupted(h.kind, h.of)
  BY <1>1 DEF HandleEvent
<1> QED BY <1>1, <1>2, <1>3, <1>4, <1>5, <1>6, <1>7 DEF EventKinds, Outcomes

\* What a handled event adds to the transcript.
LEMMA HandleRows ==
  ASSUME ProjectionType, FlagsAreOfTools, LooksAgain, HandleEvent, NEW h, h = events[1]
  PROVE  /\ prompt_text' \in {prompt_text, prompt_text \cup {h.of}}
         /\ h.kind = "accepted" => h.of \in prompt_text'
         /\ \/ UNCHANGED transcript /\ ~(h.kind = "started" /\ h.of \in prompt_text)
            \/ \E kind \in RowKinds :
                 /\ transcript' = Append(transcript, Event(kind, h.of))
                 /\ kind = "prompt" <=> h.kind = "started"
                 /\ kind \in {"text", "tool"} => h.kind = kind
                 /\ kind = "separator" => h.kind = "completed" /\ h.of \in used
<1>1. CASE h.kind = "accepted" /\ NoteAcceptance(h.of)
  BY <1>1 DEF NoteAcceptance, AcceptedRow
<1>2. CASE h.kind = "started" /\ StartSubmission(h.of)
  BY <1>2 DEF StartSubmission, RowKinds
<1>3. CASE h.kind = "text" /\ TextDelta(h.of)
  BY <1>3 DEF TextDelta, RowKinds
<1>4. CASE h.kind = "tool" /\ ToolCall(h.of)
  BY <1>4 DEF ToolCall, RowKinds
<1>5. CASE h.kind = "completed" /\ Completed(h.of)
  <2>1. Refreshed.terminal_turn = [of |-> h.of, had_tool |-> TRUE] => h.of \in used
    BY RefreshedIs
  <2> QED BY <1>5, <2>1 DEF Completed, RowKinds
<1>6. CASE h.kind \in {"cancelled", "failed"} /\ Interrupted(h.kind, h.of)
  BY <1>6 DEF Interrupted, RowKinds
<1> QED BY <1>1, <1>2, <1>3, <1>4, <1>5, <1>6, HandleCases

\* And to the view.
LEMMA HandleView ==
  ASSUME ProjectionType, FlagsAreOfTools, LooksAgain, HandleEvent
  PROVE  /\ FlagsAreOfTools' /\ LooksAgain' /\ (active \in Submissions \cup {Nobody})'
         /\ ({spinner, had_tool} \subseteq BOOLEAN)'
         /\ (terminal_turn \in [of : Submissions \cup {Nobody}, had_tool : BOOLEAN])'
<1> DEFINE h == events[1]
<1>1. /\ UNCHANGED <<waiting, current, turn, used, home, conversation>>
      /\ h.of \in Submissions /\ h.of # Nobody
  <2>1. h.of \in Nat
    BY HandleShape DEF Submissions, ProjectionType
  <2> QED BY <2>1, HandleShape, ProjectionAssumption
<1>2. \A i \in DOMAIN events' : events'[i].kind = "tool" => events'[i].of \in used
  BY HandleShape DEF FlagsAreOfTools
<1>3. ViewIsRight(Refreshed)
  BY RefreshedIs DEF ViewIsRight
<1>4. Refreshed = [active |-> Refreshed.active, spinner |-> Refreshed.spinner, had_tool |-> Refreshed.had_tool,
                   terminal_turn |-> Refreshed.terminal_turn]
  BY DEF Refreshed
<1>5. ASSUME NEW v, ViewIsRight(v), Show(v)
      PROVE  /\ FlagsAreOfTools' /\ LooksAgain' /\ (active \in Submissions \cup {Nobody})'
             /\ ({spinner, had_tool} \subseteq BOOLEAN)'
             /\ (terminal_turn \in [of : Submissions \cup {Nobody}, had_tool : BOOLEAN])'
  BY <1>1, <1>2, <1>5, ShowKeeps
<1>6. CASE NoteAcceptance(h.of)
  BY <1>3, <1>5, <1>6 DEF NoteAcceptance
<1>7. CASE StartSubmission(h.of)
  <2> DEFINE v == Refreshed
             w == [v EXCEPT !.spinner = @ \/ StartsSpinner(v, h.of), !.had_tool = @ /\ v.active # h.of]
  <2>1. Show(w)
    BY <1>7 DEF StartSubmission
  <2>2. w = [active |-> v.active, spinner |-> (v.spinner \/ StartsSpinner(v, h.of)),
             had_tool |-> (v.had_tool /\ v.active # h.of), terminal_turn |-> v.terminal_turn]
    <3>1. v = [active |-> v.active, spinner |-> v.spinner, had_tool |-> v.had_tool,
               terminal_turn |-> v.terminal_turn]
      BY <1>4
    <3> HIDE DEF v
    <3>2. \A x, y : [v EXCEPT !.spinner = x, !.had_tool = y]
                   = [active |-> v.active, spinner |-> x, had_tool |-> y, terminal_turn |-> v.terminal_turn]
      <4> SUFFICES ASSUME NEW x, NEW y
                   PROVE  [v EXCEPT !.spinner = x, !.had_tool = y]
                          = [active |-> v.active, spinner |-> x, had_tool |-> y, terminal_turn |-> v.terminal_turn]
        OBVIOUS
      <4> DEFINE r == [v EXCEPT !.spinner = x]
      <4>1. r = [active |-> v.active, spinner |-> x, had_tool |-> v.had_tool, terminal_turn |-> v.terminal_turn]
        BY <3>1
      <4>2. [v EXCEPT !.spinner = x, !.had_tool = y] = [r EXCEPT !.had_tool = y]
        OBVIOUS
      <4> HIDE DEF r
      <4>3. [r EXCEPT !.had_tool = y]
            = [active |-> v.active, spinner |-> x, had_tool |-> y, terminal_turn |-> v.terminal_turn]
        BY <4>1
      <4> QED BY <4>2, <4>3
    <3>3. w = [v EXCEPT !.spinner = (v.spinner \/ StartsSpinner(v, h.of)), !.had_tool = (v.had_tool /\ v.active # h.of)]
      BY Zenon
    <3> QED BY <3>2, <3>3
  <2> HIDE DEF v, w
  <2>3. /\ w.active = v.active /\ w.terminal_turn = v.terminal_turn
        /\ w.spinner = (v.spinner \/ StartsSpinner(v, h.of)) /\ w.had_tool = (v.had_tool /\ v.active # h.of)
    BY <2>2
  <2>4. ViewIsRight(v)
    BY <1>3 DEF v
  <2>5. ViewIsRight(w)
    BY <1>1, <2>3, <2>4 DEF ViewIsRight, StartsSpinner
  <2> QED BY <1>5, <2>1, <2>5
<1>8. CASE TextDelta(h.of) /\ h.kind = "text"
  <2>1. UNCHANGED <<active, spinner, had_tool, terminal_turn>>
    BY <1>8 DEF TextDelta, turnView
  <2>2. (\E i \in DOMAIN events : events[i].kind \notin {"text", "tool"})
        => \E i \in DOMAIN events' : events'[i].kind \notin {"text", "tool"}
    <3> SUFFICES ASSUME NEW i \in DOMAIN events, events[i].kind \notin {"text", "tool"}
                 PROVE  \E j \in DOMAIN events' : events'[j].kind \notin {"text", "tool"}
      OBVIOUS
    <3>1. i - 1 \in DOMAIN events' /\ events'[i - 1] = events[(i - 1) + 1] /\ (i - 1) + 1 = i
      <4>1. i # 1
        BY <1>8
      <4>2. i \in 1..Len(events) /\ Len(events) \in Nat
        BY DEF ProjectionType
      <4>3. i - 1 \in 1..(Len(events) - 1)
        BY <4>1, <4>2
      <4> QED BY <4>2, <4>3, HandleShape
    <3> QED BY <3>1
  <2>3. FlagsAreOfTools'
    BY <1>1, <1>2, <2>1 DEF FlagsAreOfTools
  <2>4. LooksAgain'
    BY <1>1, <2>1, <2>2 DEF LooksAgain
  <2> QED BY <1>1, <2>1, <2>3, <2>4 DEF ProjectionType, Submissions
<1>9. CASE ToolCall(h.of) /\ h.kind = "tool"
  <2>1. UNCHANGED <<active, spinner, terminal_turn>> /\ had_tool' = (had_tool \/ active = h.of)
    BY <1>9 DEF ToolCall
  <2>2. (\E i \in DOMAIN events : events[i].kind \notin {"text", "tool"})
        => \E i \in DOMAIN events' : events'[i].kind \notin {"text", "tool"}
    <3> SUFFICES ASSUME NEW i \in DOMAIN events, events[i].kind \notin {"text", "tool"}
                 PROVE  \E j \in DOMAIN events' : events'[j].kind \notin {"text", "tool"}
      OBVIOUS
    <3>1. i - 1 \in DOMAIN events' /\ events'[i - 1] = events[(i - 1) + 1] /\ (i - 1) + 1 = i
      <4>1. i # 1
        BY <1>9
      <4>2. i \in 1..Len(events) /\ Len(events) \in Nat
        BY DEF ProjectionType
      <4>3. i - 1 \in 1..(Len(events) - 1)
        BY <4>1, <4>2
      <4> QED BY <4>2, <4>3, HandleShape
    <3> QED BY <3>1
  <2>3. h.of \in used
    BY <1>9, HandleShape DEF FlagsAreOfTools
  <2>4. FlagsAreOfTools'
    BY <1>1, <1>2, <2>1, <2>3 DEF FlagsAreOfTools
  <2>5. LooksAgain'
    BY <1>1, <2>1, <2>2 DEF LooksAgain
  <2>6. had_tool' \in BOOLEAN
    BY <2>1 DEF ProjectionType
  <2> QED BY <1>1, <2>1, <2>4, <2>5, <2>6 DEF ProjectionType, Submissions
<1>10. ASSUME Show([Refreshed EXCEPT !.terminal_turn = NoTurn])
       PROVE  /\ FlagsAreOfTools' /\ LooksAgain' /\ (active \in Submissions \cup {Nobody})'
              /\ ({spinner, had_tool} \subseteq BOOLEAN)'
              /\ (terminal_turn \in [of : Submissions \cup {Nobody}, had_tool : BOOLEAN])'
  <2> DEFINE w == [Refreshed EXCEPT !.terminal_turn = NoTurn]
  <2>1. w = [active |-> Refreshed.active, spinner |-> Refreshed.spinner, had_tool |-> Refreshed.had_tool,
             terminal_turn |-> NoTurn]
    BY <1>4
  <2>2. Show(w)
    BY <1>10
  <2> HIDE DEF w
  <2>3. ViewIsRight(w)
    BY <1>3, <2>1 DEF ViewIsRight, NoTurn
  <2> QED BY <1>5, <2>2, <2>3
<1>11. CASE Completed(h.of)
  BY <1>10, <1>11 DEF Completed
<1>12. CASE Interrupted(h.kind, h.of)
  BY <1>10, <1>12 DEF Interrupted
<1> QED BY <1>6, <1>7, <1>8, <1>9, <1>11, <1>12, HandleCases

LEMMA HandleType ==
  ASSUME ProjectionType, FlagsAreOfTools, LooksAgain, HandleEvent
  PROVE  ProjectionType'
<1> DEFINE R == [kind : RowKinds, of : Submissions]
<1>1. PICK h : h = events[1]
  OBVIOUS
<1>2. transcript' \in Seq(R)
  <2>1. transcript \in Seq(R)
    BY DEF ProjectionType
  <2>2. h.of \in Submissions
    BY <1>1, HandleShape
  <2>3. \A kind \in RowKinds : Event(kind, h.of) \in R
    BY <2>2 DEF Event
  <2> HIDE DEF R
  <2>4. \A kind \in RowKinds : Append(transcript, Event(kind, h.of)) \in Seq(R)
    BY <2>1, <2>3, SeqAppended
  <2> QED BY <1>1, <2>1, <2>4, HandleRows
<1>3. Submissions' = Submissions
  BY HandleShape DEF Submissions
<1>4. UNCHANGED <<waiting, current, turn, home, conversation>>
  BY HandleShape
<1>5. events' \in Seq([kind : EventKinds, of : Submissions])
  BY HandleShape
<1> QED BY <1>2, <1>3, <1>4, <1>5, HandleView DEF ProjectionType

\* The transcript only grows, by one row at most.
LEMMA HandleExtends ==
  ASSUME ProjectionType, FlagsAreOfTools, LooksAgain, HandleEvent, NEW h, h = events[1]
  PROVE  /\ DOMAIN transcript = 1..Len(transcript) /\ Len(transcript) \in Nat
         /\ DOMAIN transcript' = 1..Len(transcript')
         /\ Extends(transcript, transcript')
         /\ Len(transcript') \in {Len(transcript), Len(transcript) + 1}
         /\ Len(transcript') = Len(transcript) + 1
            => /\ transcript'[Len(transcript')].kind = "prompt" <=> h.kind = "started"
               /\ transcript'[Len(transcript')].of = h.of
               /\ transcript'[Len(transcript')].kind \in {"text", "tool"} => h.kind \in {"text", "tool"}
               /\ transcript'[Len(transcript')].kind = "separator" => h.kind = "completed" /\ h.of \in used
         /\ h.kind = "started" /\ h.of \in prompt_text
            => transcript' = Append(transcript, Event("prompt", h.of))
<1>1. DOMAIN transcript = 1..Len(transcript) /\ Len(transcript) \in Nat
  BY DEF ProjectionType
<1>2. CASE UNCHANGED transcript /\ ~(h.kind = "started" /\ h.of \in prompt_text)
  <2>1. Extends(transcript, transcript') /\ transcript' = transcript
    BY <1>2, SameExtends
  <2>2. Len(transcript') = Len(transcript) /\ DOMAIN transcript' = DOMAIN transcript
    BY <2>1
  <2>3. Len(transcript') # Len(transcript) + 1
    <3>1. \A n \in Nat : n # n + 1
      OBVIOUS
    <3> QED BY <1>1, <2>2, <3>1
  <2> QED BY <1>1, <1>2, <2>1, <2>2, <2>3
<1>3. ASSUME NEW kind \in RowKinds, transcript' = Append(transcript, Event(kind, h.of)),
             kind = "prompt" <=> h.kind = "started",
             kind \in {"text", "tool"} => h.kind = kind,
             kind = "separator" => h.kind = "completed" /\ h.of \in used
      PROVE  /\ DOMAIN transcript' = 1..Len(transcript')
             /\ Extends(transcript, transcript')
             /\ Len(transcript') = Len(transcript) + 1
             /\ transcript'[Len(transcript')] = Event(kind, h.of)
             /\ h.kind = "started" => transcript' = Append(transcript, Event("prompt", h.of))
  BY <1>3, AppendExtends DEF ProjectionType
<1>4. ASSUME NEW kind \in RowKinds, transcript' = Append(transcript, Event(kind, h.of)),
             kind = "prompt" <=> h.kind = "started",
             kind \in {"text", "tool"} => h.kind = kind,
             kind = "separator" => h.kind = "completed" /\ h.of \in used
      PROVE  /\ DOMAIN transcript' = 1..Len(transcript')
             /\ Extends(transcript, transcript')
             /\ Len(transcript') \in {Len(transcript), Len(transcript) + 1}
             /\ transcript'[Len(transcript')].kind = "prompt" <=> h.kind = "started"
             /\ transcript'[Len(transcript')].of = h.of
             /\ transcript'[Len(transcript')].kind \in {"text", "tool"} => h.kind \in {"text", "tool"}
             /\ transcript'[Len(transcript')].kind = "separator" => h.kind = "completed" /\ h.of \in used
             /\ h.kind = "started" => transcript' = Append(transcript, Event("prompt", h.of))
  BY <1>3, <1>4 DEF Event
<1>5. \/ UNCHANGED transcript /\ ~(h.kind = "started" /\ h.of \in prompt_text)
      \/ \E kind \in RowKinds :
           /\ transcript' = Append(transcript, Event(kind, h.of))
           /\ kind = "prompt" <=> h.kind = "started"
           /\ kind \in {"text", "tool"} => h.kind = kind
           /\ kind = "separator" => h.kind = "completed" /\ h.of \in used
  BY HandleRows
<1> QED BY <1>1, <1>2, <1>4, <1>5

\* What leads an event still does when the first is handled: the first was the
\* start of its turn, whose prompt is then the last one shown, or it was not.
LEMMA LeadsHandled ==
  ASSUME ProjectionType, FlagsAreOfTools, LooksAgain, HandleEvent,
         NEW s, NEW n \in 2..(Len(events) + 1), Leads(s, n),
         events[1] = Event("started", s) => s \in prompt_text
  PROVE  Leads(s, n - 1)'
<1>1. PICK h : h = events[1]
  OBVIOUS
<1>2. Len(events) \in Nat /\ \A k \in 1..(n - 2) : events'[k] = events[k + 1]
  <2>1. DOMAIN events' = 1..Len(events') /\ Len(events') = Len(events) - 1 /\ Len(events) \in Nat
        /\ \A i \in DOMAIN events' : events'[i] = events[i + 1]
    BY HandleShape, EventFacts
  <2> QED BY <2>1
<1>3. CASE \E j \in 2..(n - 1) : /\ events[j] = Event("started", s)
                                 /\ \A k \in (j + 1)..(n - 1) : events[k].kind # "started"
  <2>1. PICK j \in 2..(n - 1) : /\ events[j] = Event("started", s)
                                /\ \A k \in (j + 1)..(n - 1) : events[k].kind # "started"
    BY <1>3
  <2>2. j - 1 \in 1..(n - 2) /\ events'[j - 1] = Event("started", s)
    BY <1>2, <2>1
  <2>3. \A k \in ((j - 1) + 1)..(n - 2) : events'[k].kind # "started"
    BY <1>2, <2>1, SMTT(40)
  <2> QED BY <2>2, <2>3 DEF Leads, Event
<1>4. CASE events[1] = Event("started", s) /\ \A k \in 2..(n - 1) : events[k].kind # "started"
  <2>1. transcript' = Append(transcript, Event("prompt", s))
    BY <1>1, <1>4, HandleExtends DEF Event
  <2>2. Len(transcript') = Len(transcript) + 1 /\ Len(transcript) \in Nat
        /\ transcript'[Len(transcript')] = Event("prompt", s)
    BY <2>1, AppendExtends DEF ProjectionType
  <2>3. PromptBefore(s, Len(transcript) + 1)'
    <3>1. (Len(transcript') + 1) - 1 = Len(transcript') /\ Len(transcript') \in 1..Len(transcript')
          /\ (Len(transcript') + 1)..Len(transcript') = {}
      BY <2>2
    <3> QED BY <2>2, <3>1 DEF PromptBefore, Event
  <2>4. \A k \in 1..(n - 2) : events'[k].kind # "started"
    BY <1>2, <1>4
  <2> QED BY <2>3, <2>4 DEF Leads, PromptBefore, Event
<1>5. CASE PromptBefore(s, Len(transcript) + 1) /\ \A k \in 1..(n - 1) : events[k].kind # "started"
  <2>1. h.kind # "started"
    BY <1>1, <1>5
  <2>2. PromptBefore(s, Len(transcript) + 1)'
    BY <1>1, <1>5, <2>1, HandleExtends, PromptStaysLast
  <2>3. \A k \in 1..(n - 2) : events'[k].kind # "started"
    BY <1>2, <1>5
  <2> QED BY <2>2, <2>3 DEF Leads, PromptBefore, Event
<1>6. ASSUME NEW j \in 1..(n - 1), events[j] = Event("started", s),
             \A k \in (j + 1)..(n - 1) : events[k].kind # "started"
      PROVE  Leads(s, n - 1)'
  <2>1. CASE j = 1
    BY <1>4, <1>6, <2>1
  <2>2. CASE j \in 2..(n - 1)
    BY <1>3, <1>6, <2>2
  <2> QED BY <2>1, <2>2
<1> QED BY <1>5, <1>6 DEF Leads

LEMMA AnnouncedHandled ==
  ASSUME ProjectionType, FlagsAreOfTools, LooksAgain, HandleEvent,
         NEW s, NEW n \in 2..(Len(events) + 1), IsAnnounced(s, n)
  PROVE  IsAnnounced(s, n - 1)'
<1>1. PICK h : h = events[1]
  OBVIOUS
<1>2. prompt_text \subseteq prompt_text' /\ (h.kind = "accepted" => h.of \in prompt_text')
  BY <1>1, HandleRows
<1>3. CASE s \in prompt_text
  BY <1>2, <1>3 DEF IsAnnounced
<1>4. ASSUME NEW j \in 1..(n - 1), events[j] = Event("accepted", s)
      PROVE  IsAnnounced(s, n - 1)'
  <2>1. CASE j = 1
    BY <1>1, <1>2, <1>4, <2>1 DEF IsAnnounced, Event
  <2>2. CASE j # 1
    <3>1. j - 1 \in 1..(n - 2) /\ events'[j - 1] = events[j]
      BY <2>2, HandleShape, EventFacts
    <3> QED BY <1>4, <3>1 DEF IsAnnounced, Event
  <2> QED BY <2>1, <2>2
<1> QED BY <1>3, <1>4 DEF IsAnnounced

\* A prompt is known before its turn starts, whatever is handled.
LEMMA HandleAnnounces ==
  ASSUME ProjectionType, PromptIsKnown, FlagsAreOfTools, LooksAgain, HandleEvent
  PROVE  PromptIsKnown'
<1>1. /\ Len(events) \in Nat \ {0} /\ Len(events') = Len(events) - 1 /\ DOMAIN events' = 1..(Len(events) - 1)
      /\ UNCHANGED <<home, conversation>> /\ Submissions' = Submissions
  BY HandleShape, EventFacts DEF Submissions
<1>2. ASSUME NEW s \in Submissions, Here(s)'
      PROVE  IsAnnounced(s, Len(events) + 1)'
  <2>1. PICK n : n = Len(events) + 1
    OBVIOUS
  <2>2. IsAnnounced(s, n) /\ n \in 2..(Len(events) + 1)
    BY <1>1, <1>2, <2>1 DEF PromptIsKnown, Here
  <2>3. IsAnnounced(s, n - 1)'
    BY <2>2, AnnouncedHandled
  <2>4. n - 1 = Len(events') + 1
    BY <1>1, <2>1
  <2> QED BY <2>3, <2>4 DEF IsAnnounced
<1>3. ASSUME NEW i \in DOMAIN events', NEW e, e = events'[i], e.kind = "started", Here(e.of)'
      PROVE  IsAnnounced(e.of, i)'
  <2>1. i + 1 \in DOMAIN events /\ e = events[i + 1] /\ i + 1 \in 2..(Len(events) + 1) /\ (i + 1) - 1 = i
    BY <1>1, <1>3, HandleShape
  <2>2. Here(e.of)
    BY <1>1, <1>3 DEF Here
  <2>3. IsAnnounced(e.of, i + 1)
    BY <1>3, <2>1, <2>2 DEF PromptIsKnown
  <2>4. IsAnnounced(e.of, (i + 1) - 1)'
    BY <2>1, <2>3, AnnouncedHandled
  <2> QED BY <2>1, <2>4
<1>4. \A i \in DOMAIN events' : \A e : e = events'[i] /\ e.kind = "started" /\ Here(e.of)' => IsAnnounced(e.of, i)'
  BY <1>3
<1> QED BY <1>1, <1>2, <1>4 DEF PromptIsKnown, IsAnnounced, Here

\* The start of a turn of this conversation comes with the text of its prompt.
LEMMA FirstStartHasText ==
  ASSUME ProjectionType, PromptIsKnown, HandleEvent, NEW s, Here(s), events[1] = Event("started", s)
  PROVE  s \in prompt_text
<1>1. IsAnnounced(s, 1)
  BY HandleShape DEF PromptIsKnown, Event
<1> QED BY <1>1 DEF IsAnnounced

LEMMA HandleLeads ==
  ASSUME ProjectionType, PromptIsKnown, OutputIsLed, FlagsAreOfTools, LooksAgain, HandleEvent
  PROVE  OutputIsLed'
<1>1. /\ Len(events) \in Nat \ {0} /\ Len(events') = Len(events) - 1 /\ DOMAIN events' = 1..(Len(events) - 1)
      /\ UNCHANGED <<turn, home, conversation>>
  BY HandleShape, EventFacts
<1>2. ASSUME NEW i \in DOMAIN events', NEW e, e = events'[i],
             e.kind \in {"text", "tool", "completed"}, Here(e.of)'
      PROVE  Leads(e.of, i)'
  <2>1. i + 1 \in DOMAIN events /\ e = events[i + 1] /\ i + 1 \in 2..(Len(events) + 1) /\ (i + 1) - 1 = i
    BY <1>1, <1>2, HandleShape
  <2>2. Here(e.of)
    BY <1>1, <1>2 DEF Here
  <2>3. Leads(e.of, i + 1)
    BY <1>2, <2>1, <2>2 DEF OutputIsLed
  <2>4. Leads(e.of, (i + 1) - 1)'
    BY <2>1, <2>2, <2>3, FirstStartHasText, LeadsHandled
  <2> QED BY <2>1, <2>4
<1>3. ASSUME NEW s, s = turn.of, turn.at \in {"running", "completed"}, Here(s)'
      PROVE  Leads(s, Len(events) + 1)'
  <2>1. PICK n : n = Len(events) + 1
    OBVIOUS
  <2>2. Here(s) /\ n \in 2..(Len(events) + 1)
    BY <1>1, <1>3, <2>1 DEF Here
  <2>3. Leads(s, n)
    BY <1>3, <2>1, <2>2 DEF OutputIsLed
  <2>4. Leads(s, n - 1)'
    BY <2>2, <2>3, FirstStartHasText, LeadsHandled
  <2>5. n - 1 = Len(events') + 1
    BY <1>1, <2>1
  <2> QED BY <2>4, <2>5 DEF Leads, PromptBefore
<1>4. \A i \in DOMAIN events' : \A e : /\ e = events'[i] /\ e.kind \in {"text", "tool", "completed"}
                                      /\ Here(e.of)'
                                      => Leads(e.of, i)'
  BY <1>2
<1> QED BY <1>1, <1>3, <1>4 DEF OutputIsLed, Leads, PromptBefore, Here

\* What a turn said or did is put under its prompt.
LEMMA HandleOutput ==
  ASSUME ProjectionType, PromptIsKnown, OutputIsLed, FlagsAreOfTools, LooksAgain,
         OutputUnderItsPrompt, SeparatorOnlyAfterTools, HandleEvent
  PROVE  OutputUnderItsPrompt' /\ SeparatorOnlyAfterTools'
<1>1. PICK h : h = events[1]
  OBVIOUS
<1>2. /\ DOMAIN transcript = 1..Len(transcript) /\ Len(transcript) \in Nat
      /\ DOMAIN transcript' = 1..Len(transcript') /\ Extends(transcript, transcript')
      /\ Len(transcript') \in {Len(transcript), Len(transcript) + 1}
  BY <1>1, HandleExtends
<1>3. UNCHANGED <<used, home, conversation>>
  BY HandleShape
<1>4. ASSUME NEW i \in DOMAIN transcript', NEW r, r = transcript'[i]
      PROVE  /\ Here(r.of)' /\ r.kind \in {"text", "tool", "separator"} => PromptBefore(r.of, i)'
             /\ r.kind = "separator" => r.of \in used'
  <2> PICK n : n = Len(transcript)
    OBVIOUS
  <2> PICK m : m = Len(transcript')
    OBVIOUS
  <2>a. n \in Nat /\ m \in {n, n + 1} /\ i \in 1..m /\ DOMAIN transcript = 1..n
    BY <1>2
  <2>b. i \in 1..(n + 1) /\ (i \notin 1..n => i = n + 1 /\ m = n + 1)
    BY <2>a
  <2>1. i \in 1..(Len(transcript) + 1)
    BY <2>b
  <2>2. CASE i \in DOMAIN transcript
    <3>1. r = transcript[i]
      BY <1>2, <1>4, <2>2 DEF Extends
    <3>2. Here(r.of)' => Here(r.of)
      BY <1>3 DEF Here
    <3>3. Here(r.of)' /\ r.kind \in {"text", "tool", "separator"} => PromptBefore(r.of, i)
      BY <2>2, <3>1, <3>2 DEF OutputUnderItsPrompt
    <3>4. r.kind = "separator" => r.of \in used
      BY <2>2, <3>1 DEF SeparatorOnlyAfterTools
    <3> QED BY <1>2, <1>3, <2>1, <3>3, <3>4, PromptStays
  <2>3. CASE i \notin DOMAIN transcript
    <3>1. i = Len(transcript) + 1 /\ Len(transcript') = Len(transcript) + 1 /\ r = transcript'[Len(transcript')]
      BY <1>4, <2>3, <2>a, <2>b
    <3>2. /\ r.of = h.of
          /\ r.kind \in {"text", "tool"} => h.kind \in {"text", "tool"}
          /\ r.kind = "separator" => h.kind = "completed" /\ h.of \in used
      BY <1>1, <3>1, HandleExtends
    <3>3. ASSUME Here(r.of)', r.kind \in {"text", "tool", "separator"}
          PROVE  PromptBefore(r.of, i)'
      <4>1. Here(h.of) /\ h.kind \in {"text", "tool", "completed"}
        BY <1>3, <3>2, <3>3 DEF Here
      <4>2. Leads(h.of, 1)
        BY <1>1, <4>1, HandleShape DEF OutputIsLed
      <4>3. PromptBefore(h.of, Len(transcript) + 1)
        BY <4>2 DEF Leads
      <4>4. PromptBefore(r.of, i)
        BY <3>1, <3>2, <4>3
      <4> QED BY <1>2, <2>1, <4>4, PromptStays
    <3> QED BY <1>3, <3>2, <3>3
  <2> QED BY <2>2, <2>3
<1>5. \A i \in DOMAIN transcript' : \A r : r = transcript'[i]
        => /\ Here(r.of)' /\ r.kind \in {"text", "tool", "separator"} => PromptBefore(r.of, i)'
           /\ r.kind = "separator" => r.of \in used'
  BY <1>4
<1> QED BY <1>5 DEF OutputUnderItsPrompt, SeparatorOnlyAfterTools, PromptBefore, Here

LEMMA HandleKeeps == ProjectionInv /\ HandleEvent => ProjectionInv'
BY HandleType, HandleView, HandleAnnounces, HandleLeads, HandleOutput DEF ProjectionInv

LEMMA RefreshByKeyKeeps == ProjectionInv /\ RefreshByKey => ProjectionInv'
<1> SUFFICES ASSUME ProjectionInv, RefreshByKey PROVE ProjectionInv'
  OBVIOUS
<1>1. /\ UNCHANGED <<waiting, current, turn, used, events, home, conversation, prompt_text, transcript>>
      /\ Show(Refreshed)
  BY DEF RefreshByKey, coreOfTurns
<1>2. ProjectionType /\ FlagsAreOfTools /\ LooksAgain
  BY DEF ProjectionInv
<1>3. ViewIsRight(Refreshed)
  BY <1>2, RefreshedIs DEF ViewIsRight
<1>4. /\ FlagsAreOfTools' /\ LooksAgain' /\ (active \in Submissions \cup {Nobody})'
      /\ ({spinner, had_tool} \subseteq BOOLEAN)'
      /\ (terminal_turn \in [of : Submissions \cup {Nobody}, had_tool : BOOLEAN])'
  <2>1. \A i \in DOMAIN events' : events'[i].kind = "tool" => events'[i].of \in used
    BY <1>1, <1>2 DEF FlagsAreOfTools
  <2> QED BY <1>1, <1>2, <1>3, <2>1, ShowKeeps
<1>5. ProjectionType'
  BY <1>1, <1>2, <1>4 DEF ProjectionType, Submissions
<1>6. PromptIsKnown' /\ OutputIsLed'
  BY <1>1 DEF ProjectionInv, PromptIsKnown, OutputIsLed, Submissions, Here, IsAnnounced, Leads, PromptBefore, Event
<1>7. OutputUnderItsPrompt' /\ SeparatorOnlyAfterTools'
  BY <1>1 DEF ProjectionInv, OutputUnderItsPrompt, SeparatorOnlyAfterTools, Here, PromptBefore, Event
<1> QED BY <1>4, <1>5, <1>6, <1>7 DEF ProjectionInv

\* After a switch no turn is one of the conversation.
LEMMA SwitchKeeps == ProjectionInv /\ SwitchConversation => ProjectionInv'
<1> SUFFICES ASSUME ProjectionInv, SwitchConversation PROVE ProjectionInv'
  OBVIOUS
<1>1. /\ UNCHANGED <<waiting, current, turn, used, events, home>> /\ Submissions' = Submissions
      /\ current = Nobody /\ conversation' = conversation + 1 /\ transcript' = <<>>
      /\ active' = Nobody /\ spinner' = FALSE /\ had_tool' = FALSE
      /\ terminal_turn' = IF active = Nobody THEN NoTurn ELSE [of |-> active, had_tool |-> FALSE]
  BY DEF SwitchConversation, coreOfTurns, Submissions
<1>2. ProjectionType
  BY DEF ProjectionInv
<1>3. terminal_turn' \in [of : Submissions \cup {Nobody}, had_tool : BOOLEAN] /\ ~terminal_turn'.had_tool
  BY <1>1, <1>2 DEF ProjectionType, NoTurn
<1>4. \A s \in Submissions : home[s] <= conversation' /\ ~Here(s)'
  <2>1. conversation \in Nat /\ \A s \in Submissions : home[s] \in Nat /\ home[s] <= conversation
    BY <1>2, SMTT(40) DEF ProjectionType, Submissions
  <2> QED BY <1>1, <2>1 DEF Here
<1>5. ProjectionType'
  <2>1. conversation' \in Nat
    BY <1>1, <1>2 DEF ProjectionType
  <2>2. transcript' \in Seq([kind : RowKinds, of : Submissions])
    BY <1>1
  <2> QED BY <1>1, <1>2, <1>3, <1>4, <2>1, <2>2 DEF ProjectionType
<1>6. \A i \in DOMAIN events : events[i].of \in Submissions
  BY <1>2, EventFacts
<1>7. PromptIsKnown'
  BY <1>1, <1>4, <1>6 DEF PromptIsKnown, Here
<1>8. turn.at \in {"running", "completed"} => turn.of \in Submissions
  BY <1>2 DEF ProjectionType
<1>9. OutputIsLed'
  BY <1>1, <1>4, <1>6, <1>8 DEF OutputIsLed, Here
<1>10. FlagsAreOfTools' /\ LooksAgain'
  BY <1>1, <1>3 DEF ProjectionInv, FlagsAreOfTools, LooksAgain
<1>11. OutputUnderItsPrompt' /\ SeparatorOnlyAfterTools'
  BY <1>1 DEF OutputUnderItsPrompt, SeparatorOnlyAfterTools
<1> QED BY <1>5, <1>7, <1>9, <1>10, <1>11 DEF ProjectionInv

--------------------------------------------------------------------------------
(* The projection in the client.                                           *)

LEMMA ProjectionInitially == TurnInit => ProjectionInv
<1> SUFFICES ASSUME TurnInit PROVE ProjectionInv
  OBVIOUS
<1>1. ProjectionType
  <2>1. <<>> \in Seq(Submissions) /\ <<>> \in Seq(Nat) /\ <<>> \in Seq([kind : EventKinds, of : Submissions])
        /\ <<>> \in Seq([kind : RowKinds, of : Submissions])
    OBVIOUS
  <2>2. Submissions = {}
    BY DEF TurnInit, Submissions
  <2> QED BY <2>1, <2>2 DEF TurnInit, ProjectionType, NoTurn, Places
<1>2. PromptIsKnown /\ OutputIsLed
  BY DEF TurnInit, PromptIsKnown, OutputIsLed, Submissions
<1>3. FlagsAreOfTools /\ LooksAgain /\ OutputUnderItsPrompt /\ SeparatorOnlyAfterTools
  BY DEF TurnInit, FlagsAreOfTools, LooksAgain, OutputUnderItsPrompt, SeparatorOnlyAfterTools, NoTurn
<1> QED BY <1>1, <1>2, <1>3 DEF ProjectionInv

LEMMA ProjectionUnchanged == ProjectionInv /\ UNCHANGED turnVars => ProjectionInv'
<1> SUFFICES ASSUME ProjectionInv, UNCHANGED turnVars PROVE ProjectionInv'
  OBVIOUS
<1>1. UNCHANGED <<waiting, current, turn, used, events, home, conversation, active, spinner, had_tool,
                  terminal_turn, prompt_text, transcript>>
  BY DEF turnVars, coreOfTurns, turnView
<1>2. ProjectionType'
  BY <1>1 DEF ProjectionInv, ProjectionType, Submissions
<1>3. PromptIsKnown' /\ OutputIsLed'
  BY <1>1 DEF ProjectionInv, PromptIsKnown, OutputIsLed, Submissions, Here, IsAnnounced, Leads, PromptBefore, Event
<1>4. FlagsAreOfTools' /\ LooksAgain'
  BY <1>1 DEF ProjectionInv, FlagsAreOfTools, LooksAgain
<1>5. OutputUnderItsPrompt' /\ SeparatorOnlyAfterTools'
  BY <1>1 DEF ProjectionInv, OutputUnderItsPrompt, SeparatorOnlyAfterTools, Here, PromptBefore, Event
<1> QED BY <1>2, <1>3, <1>4, <1>5 DEF ProjectionInv

\* A client that has handled every event of a core at rest has looked at it since.
LEMMA TranscriptIsRight == ProjectionInv => TranscriptFollowsTurns
<1>1. ProjectionInv => SpinnerEnds
  BY DEF ProjectionInv, LooksAgain, SpinnerEnds, Outcomes
<1> QED BY <1>1 DEF ProjectionInv, TranscriptFollowsTurns

\* However late the events and however early the snapshots, for any number of
\* submissions, deltas, tool calls and session switches: output stands under its
\* own prompt, a separator of work follows work, and the spinner ends.
THEOREM TranscriptAlwaysFollows == Spec => []TranscriptFollowsTurns
<1>1. Init => ProjectionInv
  BY ProjectionInitially DEF Init
<1>2. ProjectionInv /\ [Next]_vars => ProjectionInv'
  <2>1. ProjectionInv /\ TurnNext => ProjectionInv'
    BY CoreStepKeeps, HandleKeeps, RefreshByKeyKeeps, SwitchKeeps DEF TurnNext, ClientStep
  <2>2. [Next]_vars => TurnNext \/ UNCHANGED turnVars
    BY DEF Next, vars, Views, Turns, Dialog, List, Compose, Remember
  <2> QED BY <2>1, <2>2, ProjectionUnchanged
<1> QED BY <1>1, <1>2, TranscriptIsRight, PTL DEF Spec

--------------------------------------------------------------------------------
(* Lists of lists, one after the other.                                    *)

IsFlat(f, seqs, n) == f = [i \in 1..n |-> IF i = 1 THEN seqs[i] ELSE f[i-1] \o seqs[i]]

\* The first lists are joined in one way only.
LEMMA FlatAgree ==
  ASSUME NEW s, NEW t, NEW f, NEW g, NEW n \in Nat, NEW m \in Nat, n <= m,
         IsFlat(f, s, n), IsFlat(g, t, m), \A i \in 1..n : s[i] = t[i]
  PROVE  \A i \in 1..n : f[i] = g[i]
<1> DEFINE T == {i \in 1..n : f[i] # g[i]}
<1>1. SUFFICES ASSUME T # {} PROVE FALSE
  OBVIOUS
<1>2. PICK k \in T : \A j \in T : k <= j
  <2>1. T \in SUBSET Nat
    BY SMT
  <2> QED BY <1>1, <2>1, LeastNatural
<1>3. k \in 1..n /\ k \in 1..m /\ f[k] # g[k]
  BY <1>2, SMT
<1>4. f[k] = (IF k = 1 THEN s[k] ELSE f[k-1] \o s[k]) /\ g[k] = (IF k = 1 THEN t[k] ELSE g[k-1] \o t[k])
  BY <1>3 DEF IsFlat
<1>5. k # 1 => k - 1 \in 1..n /\ k - 1 \notin T
  BY <1>2, <1>3, SMT
<1>6. k # 1 => f[k-1] = g[k-1]
  BY <1>5
<1> QED BY <1>3, <1>4, <1>6

\* They are joined.
LEMMA FlatExists ==
  ASSUME NEW S, NEW s \in Seq(Seq(S)), NEW n \in 1..Len(s)
  PROVE  \E f : IsFlat(f, s, n) /\ f \in [1..n -> Seq(S)]
<1> DEFINE Has(k) == \E f : IsFlat(f, s, k) /\ f \in [1..k -> Seq(S)]
           T == {k \in 1..Len(s) : ~Has(k)}
<1>1. SUFFICES ASSUME T # {} PROVE FALSE
  OBVIOUS
<1>2. PICK k \in T : \A j \in T : k <= j
  <2>1. T \in SUBSET Nat
    BY SMT
  <2> QED BY <1>1, <2>1, LeastNatural
<1>3. k \in 1..Len(s) /\ ~Has(k)
  BY <1>2
<1>4. s[k] \in Seq(S)
  BY <1>3
<1>5. CASE k = 1
  <2> DEFINE f == [i \in 1..1 |-> s[i]]
  <2>1. f = [i \in 1..1 |-> IF i = 1 THEN s[i] ELSE f[i-1] \o s[i]]
    BY SMT
  <2>2. f \in [1..1 -> Seq(S)]
    BY <1>4, <1>5, SMT
  <2>3. IsFlat(f, s, 1)
    BY <2>1 DEF IsFlat
  <2> HIDE DEF f
  <2> QED BY <1>3, <1>5, <2>2, <2>3
<1>6. CASE k # 1
  <2>1. k - 1 \in 1..Len(s) /\ k - 1 \notin T /\ k \in Nat /\ k > 1
    <3> HIDE DEF T
    <3>1. k \in 1..Len(s)
      BY <1>3
    <3>2. k - 1 \in 1..Len(s) /\ k \in Nat /\ k > 1 /\ ~(k <= k - 1)
      BY <1>6, <3>1, SMT
    <3> QED BY <1>2, <3>2
  <2>2. PICK g : IsFlat(g, s, k - 1) /\ g \in [1..(k-1) -> Seq(S)]
    BY <2>1
  <2> DEFINE f == [i \in 1..k |-> IF i = k THEN g[k-1] \o s[k] ELSE g[i]]
  <2>3. f \in [1..k -> Seq(S)]
    <3>1. g[k-1] \in Seq(S)
      BY <2>1, <2>2, SMT
    <3>2. g[k-1] \o s[k] \in Seq(S)
      BY <1>4, <3>1
    <3>3. \A i \in 1..k : i # k => g[i] \in Seq(S)
      BY <2>1, <2>2, SMT
    <3> QED BY <3>2, <3>3
  <2>4. ASSUME NEW i \in 1..k PROVE f[i] = IF i = 1 THEN s[i] ELSE f[i-1] \o s[i]
    <3>1. CASE i = k
      <4>1. k - 1 \in 1..k /\ k - 1 # k
        BY <2>1, SMT
      <4> QED BY <1>6, <3>1, <4>1
    <3>2. CASE i # k
      <4>1. i \in 1..(k-1) /\ (i # 1 => i - 1 \in 1..k /\ i - 1 # k)
        BY <2>1, <3>2, SMT
      <4>2. g[i] = IF i = 1 THEN s[i] ELSE g[i-1] \o s[i]
        BY <2>2, <4>1 DEF IsFlat
      <4> QED BY <3>2, <4>1, <4>2
    <3> QED BY <3>1, <3>2
  <2>5. IsFlat(f, s, k)
    <3>1. f = [i \in 1..k |-> f[i]]
      BY <2>3
    <3> HIDE DEF f
    <3> QED BY <2>4, <3>1 DEF IsFlat
  <2> HIDE DEF f
  <2> QED BY <1>3, <2>3, <2>5
<1> QED BY <1>5, <1>6

\* What FlattenSeq returns.
LEMMA FlattenIsFlat ==
  ASSUME NEW S, NEW s \in Seq(Seq(S)), Len(s) # 0
  PROVE  \E f : IsFlat(f, s, Len(s)) /\ f \in [1..Len(s) -> Seq(S)] /\ FlattenSeq(s) = f[Len(s)]
<1>1. Len(s) \in 1..Len(s)
  BY SMT
<1>2. \E f : IsFlat(f, s, Len(s))
  BY <1>1, FlatExists
<1> DEFINE g == CHOOSE f : f = [i \in 1..Len(s) |-> IF i = 1 THEN s[i] ELSE f[i-1] \o s[i]]
<1>3. IsFlat(g, s, Len(s))
  BY <1>2 DEF IsFlat
<1>4. FlattenSeq(s) = g[Len(s)]
  BY DEF FlattenSeq
<1>5. PICK f : IsFlat(f, s, Len(s)) /\ f \in [1..Len(s) -> Seq(S)]
  BY <1>1, FlatExists
<1>6. g = f
  <2> HIDE DEF g
  <2>1. \A i \in 1..Len(s) : g[i] = f[i]
    BY <1>3, <1>5, FlatAgree
  <2>2. g = [i \in 1..Len(s) |-> g[i]]
    BY <1>3 DEF IsFlat
  <2> QED BY <1>5, <2>1, <2>2
<1> QED BY <1>4, <1>5, <1>6

\* FlattenSeq joins lists, and one more list behind them.
LEMMA FlattenPush ==
  ASSUME NEW S, NEW s \in Seq(Seq(S)), NEW x \in Seq(S)
  PROVE  FlattenSeq(s) \in Seq(S) /\ FlattenSeq(Append(s, x)) = FlattenSeq(s) \o x
<1> DEFINE n == Len(s)
           t == Append(s, x)
<1>1. t \in Seq(Seq(S)) /\ Len(t) = n + 1 /\ n \in Nat /\ t[n + 1] = x /\ \A i \in 1..n : t[i] = s[i]
  OBVIOUS
<1>2. PICK g : IsFlat(g, t, Len(t)) /\ FlattenSeq(t) = g[Len(t)]
  <2>1. Len(t) # 0
    BY <1>1, SMT
  <2> HIDE DEF t
  <2> QED BY <1>1, <2>1, FlattenIsFlat
<1>3. g[n + 1] = IF n + 1 = 1 THEN x ELSE g[n] \o x
  <2>1. n + 1 \in 1..(n + 1) /\ (n + 1) - 1 = n
    BY <1>1, SMT
  <2>2. IsFlat(g, t, n + 1)
    BY <1>1, <1>2
  <2> HIDE DEF t, n
  <2> QED BY <1>1, <2>1, <2>2 DEF IsFlat
<1>4. CASE n = 0
  <2>1. s = <<>> /\ FlattenSeq(s) = s
    BY <1>4 DEF FlattenSeq
  <2>2. <<>> \o x = x /\ <<>> \in Seq(S)
    OBVIOUS
  <2>3. n + 1 = 1
    BY <1>4, SMT
  <2>4. FlattenSeq(t) = x
    <3> HIDE DEF t, n
    <3> QED BY <1>1, <1>2, <1>3, <2>3
  <2> HIDE DEF n
  <2> QED BY <2>1, <2>2, <2>4
<1>5. CASE n # 0
  <2>1. PICK f : IsFlat(f, s, n) /\ f \in [1..n -> Seq(S)] /\ FlattenSeq(s) = f[n]
    BY <1>5, FlattenIsFlat
  <2>2. n \in 1..n /\ n <= n + 1
    BY <1>1, <1>5, SMT
  <2>3. \A i \in 1..n : f[i] = g[i]
    <3>1. IsFlat(g, t, n + 1)
      BY <1>1, <1>2
    <3>2. n \in Nat /\ n + 1 \in Nat /\ \A i \in 1..n : s[i] = t[i]
      BY <1>1, SMT
    <3>3. IsFlat(f, s, n)
      BY <2>1
    <3> HIDE DEF t, n
    <3> QED BY <2>2, <3>1, <3>2, <3>3, FlatAgree
  <2>4. n + 1 # 1
    BY <1>1, <1>5, SMT
  <2>5. FlattenSeq(t) = g[n + 1]
    BY <1>1, <1>2
  <2>6. f[n] = g[n] /\ f[n] \in Seq(S)
    BY <2>1, <2>2, <2>3
  <2>7. FlattenSeq(t) = FlattenSeq(s) \o x
    <3> HIDE DEF t, n
    <3> QED BY <1>3, <2>1, <2>4, <2>5, <2>6
  <2> QED BY <2>1, <2>6, <2>7
<1> QED BY <1>4, <1>5

--------------------------------------------------------------------------------
(* The file of prompts.                                                    *)

\* What read_entries makes of the lines.
Lines == Prompts \cup {Unreadable}
EntriesIn(lines) == FlattenSeq([i \in DOMAIN lines |-> Readable(lines[i])])

LEMMA ReadBehind ==
  ASSUME NEW lines \in Seq(Lines), NEW line \in Lines
  PROVE  /\ EntriesIn(lines) \in Seq(Prompts)
         /\ EntriesIn(Append(lines, line)) = IF line = Unreadable THEN EntriesIn(lines) ELSE Append(EntriesIn(lines), line)
<1> DEFINE f == [i \in DOMAIN lines |-> Readable(lines[i])]
           t == Append(lines, line)
           g == [i \in DOMAIN t |-> Readable(t[i])]
<1>1. \A l \in Lines : Readable(l) \in Seq(Prompts)
  BY DEF Readable, Lines
<1>2. Len(lines) \in Nat /\ DOMAIN lines = 1..Len(lines) /\ \A i \in 1..Len(lines) : lines[i] \in Lines
  OBVIOUS
<1>3. f \in Seq(Seq(Prompts)) /\ Len(f) = Len(lines)
  BY <1>1, <1>2, SMT
<1>4. DOMAIN t = 1..(Len(lines) + 1) /\ t[Len(lines) + 1] = line /\ \A i \in 1..Len(lines) : t[i] = lines[i]
  OBVIOUS
<1>5. g = Append(f, Readable(line))
  <2>1. DOMAIN Append(f, Readable(line)) = 1..(Len(lines) + 1)
    BY <1>2, <1>3
  <2>2. Append(f, Readable(line))[Len(lines) + 1] = Readable(line) /\ \A i \in 1..Len(lines) : Append(f, Readable(line))[i] = Readable(lines[i])
    BY <1>2, <1>3
  <2>3. \A i \in 1..(Len(lines) + 1) : i = Len(lines) + 1 \/ i \in 1..Len(lines)
    BY <1>2, SMT
  <2>4. \A i \in 1..(Len(lines) + 1) : g[i] = Append(f, Readable(line))[i]
    BY <1>4, <2>2, <2>3
  <2> QED BY <1>3, <1>4, <2>1, <2>4
<1>6. FlattenSeq(f) \in Seq(Prompts) /\ FlattenSeq(g) = FlattenSeq(f) \o Readable(line)
  <2> HIDE DEF f, g, t
  <2> QED BY <1>1, <1>3, <1>5, FlattenPush
<1>7. EntriesIn(lines) = FlattenSeq(f) /\ EntriesIn(t) = FlattenSeq(g)
  BY DEF EntriesIn
<1>8. \A s \in Seq(Prompts) : s \o <<>> = s /\ \A p \in Prompts : s \o <<p>> = Append(s, p)
  OBVIOUS
<1> QED BY <1>6, <1>7, <1>8 DEF Readable, Lines

LEMMA NothingRead == EntriesIn(<<>>) = <<>>
<1> DEFINE f == [i \in DOMAIN (<<>>) |-> Readable((<<>>)[i])]
<1>1. f = <<>> /\ Len(f) = 0
  BY SMT
<1>2. EntriesIn(<<>>) = FlattenSeq(f)
  BY DEF EntriesIn
<1> HIDE DEF f
<1> QED BY <1>1, <1>2 DEF FlattenSeq

\* A part of a list.
LEMMA PartOfList ==
  ASSUME NEW s \in Seq(Prompts), NEW x \in Nat, NEW y \in Nat, 1 <= x, x <= y, y <= Len(s)
  PROVE  /\ SubSeq(s, x, y) \in Seq(Prompts) /\ Len(SubSeq(s, x, y)) = y - x + 1
         /\ \A i \in 1..(y - x + 1) : SubSeq(s, x, y)[i] = s[x + i - 1]
<1>1. x \in 1..(Len(s) + 1) /\ y \in (x - 1)..Len(s)
  BY SMT
<1> QED BY <1>1, SubSeqProperties

\* What the newest of a list are.
LEMMA NewestOf ==
  ASSUME NEW s \in Seq(Prompts), NEW n \in Nat \ {0}
  PROVE  /\ Newest(s, n) \in Seq(Prompts) /\ Len(Newest(s, n)) = Shorter(n, Len(s))
         /\ Len(s) < n => Newest(s, n) = s /\ \A p \in Prompts : Newest(Append(s, p), n) = Append(s, p)
<1>1. Len(s) \in Nat
  OBVIOUS
<1>2. CASE Len(s) <= n
  BY <1>2, SMT DEF Newest, Shorter
<1>3. CASE ~(Len(s) <= n)
  <2>1. \A k \in Nat : k < Len(s) => SubSeq(s, Len(s) - k + 1, Len(s)) \in Seq(Prompts) /\ Len(SubSeq(s, Len(s) - k + 1, Len(s))) = k
    OBVIOUS
  <2> QED BY <1>1, <1>3, <2>1, SMT DEF Newest, Shorter
<1> QED BY <1>2, <1>3

\* The newest of what was appended to the newest.
LEMMA NewestAppended ==
  ASSUME NEW s \in Seq(Prompts), NEW n \in Nat \ {0}, NEW p \in Prompts
  PROVE  Newest(Append(Newest(s, n), p), n) = Newest(Append(s, p), n)
<1>1. CASE Len(s) <= n
  BY <1>1 DEF Newest
<1>2. CASE ~(Len(s) <= n)
  <2>e. PICK m \in Nat : m = Len(s)
    OBVIOUS
  <2> DEFINE g == SubSeq(s, m - n + 1, m)
  <2>1. m = Len(s) /\ g = SubSeq(s, m - n + 1, m)
    BY <2>e
  <2> HIDE DEF g
  <2>2. n < m
    BY <1>2, <2>1, SMT
  <2>3. g \in Seq(Prompts) /\ Len(g) = n /\ \A i \in 1..n : g[i] = s[m - n + i]
    <3>2. /\ m - n + 1 \in Nat /\ 1 <= m - n + 1 /\ m - n + 1 <= m /\ m - (m - n + 1) + 1 = n
          /\ \A i \in 1..n : (m - n + 1) + i - 1 = m - n + i
      BY <2>2, SMT
    <3> QED BY <2>1, <3>2, PartOfList
  <2>a. \A u \in Seq(Prompts) : Append(u, p) \in Seq(Prompts)
    OBVIOUS
  <2>4. PICK a \in Seq(Prompts), b \in Seq(Prompts) : a = Append(g, p) /\ b = Append(s, p)
    BY <2>3, <2>a
  <2>5. Len(a) = n + 1 /\ Len(b) = m + 1 /\ a[n + 1] = p /\ b[m + 1] = p /\ (\A i \in 1..n : a[i] = g[i]) /\ \A i \in 1..m : b[i] = s[i]
    BY <2>1, <2>3, <2>4, SMTT(40)
  <2>6. SubSeq(a, 2, n + 1) = SubSeq(b, m - n + 2, m + 1)
    <3>1. PICK x \in Nat, y \in Nat, v \in Nat, w \in Nat : x = 2 /\ y = n + 1 /\ v = m - n + 2 /\ w = m + 1
      <4>1. m - n + 2 \in Nat
        BY <2>2, SMT
      <4> QED BY <4>1
    <3>2. /\ 1 <= x /\ x <= y /\ y <= Len(a) /\ y - x + 1 = n
          /\ 1 <= v /\ v <= w /\ w <= Len(b) /\ w - v + 1 = n
      BY <2>2, <2>5, <3>1, SMT
    <3>3. /\ SubSeq(a, x, y) \in Seq(Prompts) /\ Len(SubSeq(a, x, y)) = n /\ \A i \in 1..n : SubSeq(a, x, y)[i] = a[x + i - 1]
          /\ SubSeq(b, v, w) \in Seq(Prompts) /\ Len(SubSeq(b, v, w)) = n /\ \A i \in 1..n : SubSeq(b, v, w)[i] = b[v + i - 1]
      <4>1. SubSeq(a, x, y) \in Seq(Prompts) /\ Len(SubSeq(a, x, y)) = y - x + 1 /\ \A i \in 1..(y - x + 1) : SubSeq(a, x, y)[i] = a[x + i - 1]
        <5>1. a \in Seq(Prompts) /\ x \in Nat /\ y \in Nat /\ 1 <= x /\ x <= y /\ y <= Len(a)
          BY <2>4, <3>2
        <5> QED BY <5>1, PartOfList, SMTT(40)
      <4>2. SubSeq(b, v, w) \in Seq(Prompts) /\ Len(SubSeq(b, v, w)) = w - v + 1 /\ \A i \in 1..(w - v + 1) : SubSeq(b, v, w)[i] = b[v + i - 1]
        BY <2>4, <3>2, PartOfList
      <4> QED BY <3>2, <4>1, <4>2
    <3>4. \A i \in 1..n : x + i - 1 = i + 1 /\ v + i - 1 = m - n + 1 + i
      BY <2>2, <3>1, SMT
    <3>5. \A i \in 1..n : a[i + 1] = b[m - n + 1 + i]
      <4> TAKE i \in 1..n
      <4>1. CASE i = n
        <5>1. m - n + 1 + i = m + 1
          BY <2>2, <4>1, SMT
        <5> QED BY <2>5, <4>1, <5>1
      <4>2. CASE i # n
        <5>1. i + 1 \in 1..n /\ m - n + 1 + i \in 1..m /\ m - n + (i + 1) = m - n + 1 + i
          BY <2>2, <4>2, SMT
        <5>2. PICK j \in 1..n, k \in 1..m : j = i + 1 /\ k = m - n + 1 + i /\ k = m - n + j
          BY <5>1
        <5>3. a[j] = g[j] /\ g[j] = s[m - n + j] /\ b[k] = s[k]
          BY <2>3, <2>5
        <5> QED BY <5>2, <5>3
      <4> QED BY <4>1, <4>2
    <3>6. ASSUME NEW i \in 1..n PROVE SubSeq(a, x, y)[i] = SubSeq(b, v, w)[i]
      <4>1. SubSeq(a, x, y)[i] = a[i + 1] /\ SubSeq(b, v, w)[i] = b[m - n + 1 + i]
        BY <3>3, <3>4
      <4> QED BY <3>5, <4>1
    <3>7. SubSeq(a, x, y) = SubSeq(b, v, w)
      BY <3>3, <3>6, SeqEqual
    <3> QED BY <3>1, <3>7
  <2>7. Newest(a, n) = SubSeq(a, 2, n + 1)
    <3>1. ~(Len(a) <= n) /\ Len(a) - n + 1 = 2
      BY <2>5, SMT
    <3> QED BY <2>5, <3>1 DEF Newest
  <2>8. Newest(b, n) = SubSeq(b, m - n + 2, m + 1)
    <3>1. ~(Len(b) <= n) /\ Len(b) - n + 1 = m - n + 2
      BY <2>2, <2>5, SMT
    <3> QED BY <2>5, <3>1 DEF Newest
  <2>9. Newest(s, n) = g
    BY <1>2, <2>1 DEF Newest
  <2> QED BY <2>4, <2>6, <2>7, <2>8, <2>9
<1> QED BY <1>1, <1>2

LEMMA EntriesTyped ==
  ASSUME HistoryTypes
  PROVE  /\ Ended = EntriesIn(file) /\ Ended \in Seq(Prompts) /\ Len(Ended) \in Nat
         /\ Entries \in Seq(Prompts) /\ Len(Entries) \in Nat /\ Len(Entries) >= Len(Ended)
         /\ unended = NoLine => Entries = Ended /\ Loaded = Ended
<1>1. PICK e \in Prompts \cup {Unreadable} : e = Unreadable
  OBVIOUS
<1>2. file \in Seq(Lines) /\ e \in Lines
  BY DEF HistoryTypes, Lines
<1>3. Ended = EntriesIn(file)
  BY DEF Ended, EntriesIn
<1>4. EntriesIn(file) \in Seq(Prompts)
  BY <1>2, ReadBehind
<1>5. Ended \in Seq(Prompts) /\ Len(Ended) \in Nat
  BY <1>3, <1>4
<1>6. ASSUME NEW p \in Prompts PROVE Append(Ended, p) \in Seq(Prompts) /\ Len(Append(Ended, p)) = Len(Ended) + 1
  BY <1>5
<1>7. Entries \in Seq(Prompts) /\ Len(Entries) \in Nat /\ Len(Entries) >= Len(Ended)
  BY <1>5, <1>6 DEF Entries
<1>8. unended = NoLine => Entries = Ended /\ Loaded = Ended
  BY HistoryAssumption DEF Entries, Loaded, Decodable
<1> QED BY <1>3, <1>5, <1>7, <1>8

LEMMA EntriesPrimed == Ended' = EntriesIn(file')
BY DEF Ended, EntriesIn

\* The last of the newest is what was appended.
LEMMA NewestEndsWith ==
  ASSUME NEW s \in Seq(Prompts), NEW n \in Nat \ {0}, NEW p \in Prompts
  PROVE  LET j == Newest(Append(s, p), n) IN j \in Seq(Prompts) /\ j # <<>> /\ Last(j) = p
<1> DEFINE t == Append(s, p)
<1>1. t \in Seq(Prompts) /\ Len(t) = Len(s) + 1 /\ t[Len(s) + 1] = p /\ Len(s) \in Nat
  OBVIOUS
<1> HIDE DEF t
<1>2. CASE Len(t) <= n
  BY <1>1, <1>2 DEF Newest, Last, t
<1>3. CASE ~(Len(t) <= n)
  <2>1. PICK m \in Nat, k \in Nat : m = Len(t) /\ k = m - n + 1 /\ 1 <= k /\ k <= m /\ m - k + 1 = n /\ n \in 1..n /\ k + n - 1 = m
    <3>1. Len(t) - n + 1 \in Nat
      BY <1>1, <1>3, SMT
    <3> QED BY <1>1, <1>3, <3>1, SMT
  <2>2. SubSeq(t, k, m) \in Seq(Prompts) /\ Len(SubSeq(t, k, m)) = n /\ SubSeq(t, k, m)[n] = t[m]
    <3>1. 1 <= k /\ k <= m /\ m <= Len(t)
      BY <2>1
    <3>2. /\ SubSeq(t, k, m) \in Seq(Prompts) /\ Len(SubSeq(t, k, m)) = m - k + 1
          /\ \A i \in 1..(m - k + 1) : SubSeq(t, k, m)[i] = t[k + i - 1]
      BY <1>1, <3>1, PartOfList
    <3> QED BY <2>1, <3>2
  <2>3. Newest(t, n) = SubSeq(t, k, m)
    BY <1>3, <2>1 DEF Newest
  <2>4. SubSeq(t, k, m) # <<>>
    BY <2>2
  <2>5. t[m] = p
    BY <1>1, <2>1
  <2> QED BY <2>2, <2>3, <2>4, <2>5 DEF Last, t
<1> QED BY <1>2, <1>3 DEF t

\* Nothing is in the file and nothing was recorded.
LEMMA HistoryStarts == HistoryInit => HistoryInv
<1> SUFFICES ASSUME HistoryInit PROVE HistoryInv
  OBVIOUS
<1>1. HistoryTypes
  <2>1. <<>> \in Seq(Prompts \cup {Unreadable}) /\ <<>> \in Seq(Prompts) /\ <<>> \in Seq(Accidents)
    OBVIOUS
  <2> QED BY <2>1 DEF HistoryInit, HistoryTypes
<1>2. Ended = <<>>
  BY <1>1, EntriesTyped, NothingRead DEF HistoryInit
<1>3. NothingLost
  BY <1>2, HistoryAssumption DEF HistoryInit, NothingLost, Newest
<1>4. LinesLost
  BY <1>2, HistoryAssumption DEF HistoryInit, LinesLost, Counted, Shorter, Decodable
<1> QED BY <1>1, <1>3, <1>4 DEF HistoryInv

\* The holder of the lock starts to write a line, or all of the lines again.
LEMMA AppendBegun ==
  ASSUME HistoryInv, NEW c \in Clients, NEW p \in Prompts, BeginAppend(c, p)
  PROVE  HistoryInv'
<1>1. HistoryTypes /\ NothingLost /\ LinesLost
  BY DEF HistoryInv
<1>2. /\ Ended \in Seq(Prompts) /\ Len(Ended) \in Nat /\ Ended = EntriesIn(file)
      /\ Entries \in Seq(Prompts) /\ Len(Entries) \in Nat /\ Len(Entries) >= Len(Ended)
      /\ unended = NoLine => Entries = Ended
  BY <1>1, EntriesTyped
<1>3. job = <<>> /\ log \in Seq(Prompts) /\ accidents \in Seq(Accidents) /\ file \in Seq(Prompts \cup {Unreadable}) /\ unended \in Prompts \cup {Unreadable, Undecodable, NoLine}
  BY <1>1 DEF BeginAppend, LockFree, HistoryTypes
<1>4. lock' = c /\ c # NoClient /\ log' = log /\ accidents' = accidents
  BY HistoryAssumption DEF BeginAppend
<1>5. MaxEntries \in Nat \ {0}
  BY HistoryAssumption
<1>6. accidents = <<>> => unended = NoLine /\ Ended = Newest(log, MaxEntries)
  <2>1. log \o <<>> = log /\ Ended \o <<>> = Ended
    BY <1>2, <1>3
  <2> QED BY <1>1, <1>3, <2>1 DEF NothingLost
<1>7. (\A i \in DOMAIN accidents : accidents[i] = "line") => Counted
  BY <1>1, <1>3 DEF LinesLost
<1>8. CASE Len(Entries) < MaxEntries
  <2>1. job' = <<p>> /\ file' = file /\ unended' = unended
    BY <1>8 DEF BeginAppend
  <2>2. <<p>> \in Seq(Prompts) /\ <<p>> # <<>> /\ Len(<<p>>) = 1 /\ Last(<<p>>) = p
    BY DEF Last
  <2>3. Ended' = Ended
    BY <1>2, <2>1, EntriesPrimed
  <2>4. HistoryTypes'
    BY <1>3, <1>4, <2>1, <2>2 DEF HistoryTypes
  <2>5. NothingLost'
    <3> SUFFICES ASSUME accidents = <<>> PROVE unended = NoLine /\ Ended \o <<p>> = Newest(log \o <<p>>, MaxEntries)
      BY <1>4, <2>1, <2>2, <2>3 DEF NothingLost
    <3>1. Len(log) < MaxEntries /\ Ended = log
      <4>1. Len(Newest(log, MaxEntries)) = Shorter(MaxEntries, Len(log)) /\ (Len(log) < MaxEntries => Newest(log, MaxEntries) = log)
        BY <1>3, <1>5, NewestOf
      <4>2. Len(log) \in Nat
        BY <1>3
      <4>3. Len(log) < MaxEntries
        BY <1>2, <1>5, <1>6, <1>8, <4>1, <4>2 DEF Shorter
      <4> QED BY <1>6, <4>1, <4>3
    <3>2. Newest(Append(log, p), MaxEntries) = Append(log, p)
      BY <1>3, <1>5, <3>1, NewestOf
    <3>3. log \o <<p>> = Append(log, p)
      BY <1>3
    <3> QED BY <1>6, <3>1, <3>2, <3>3
  <2>6. LinesLost'
    BY <1>4, <1>7, <2>1, <2>2, <2>3 DEF LinesLost, Counted, Decodable, BeginAppend
  <2> QED BY <2>4, <2>5, <2>6 DEF HistoryInv
<1>9. CASE ~(Len(Entries) < MaxEntries)
  <2> DEFINE j == Newest(Append(Entries, p), MaxEntries)
  <2>1. job' = j /\ file' = <<>> /\ unended' = NoLine
    BY <1>9 DEF BeginAppend, Retained
  <2>2. j \in Seq(Prompts) /\ j # <<>> /\ Last(j) = p
    BY <1>2, <1>5, NewestEndsWith
  <2>3. Ended' = <<>>
    BY <2>1, EntriesPrimed, NothingRead
  <2>4. Len(j) = MaxEntries
    <3>1. Append(Entries, p) \in Seq(Prompts) /\ Len(Append(Entries, p)) = Len(Entries) + 1
      BY <1>2
    <3>2. Len(j) = Shorter(MaxEntries, Len(Entries) + 1)
      BY <1>5, <3>1, NewestOf
    <3> HIDE DEF j
    <3> QED BY <1>2, <1>5, <1>9, <3>2, SMT DEF Shorter
  <2>5. accidents = <<>> => j = Newest(log \o <<p>>, MaxEntries)
    <3>1. log \o <<p>> = Append(log, p)
      BY <1>3
    <3>2. ASSUME accidents = <<>> PROVE Entries = Newest(log, MaxEntries)
      BY <1>2, <1>6, <3>2
    <3>3. Newest(Append(Newest(log, MaxEntries), p), MaxEntries) = Newest(Append(log, p), MaxEntries)
      BY <1>3, <1>5, NewestAppended
    <3> QED BY <3>1, <3>2, <3>3
  <2> HIDE DEF j
  <2>6. HistoryTypes'
    <3>1. <<>> \in Seq(Prompts \cup {Unreadable})
      OBVIOUS
    <3> QED BY <1>3, <1>4, <2>1, <2>2, <3>1 DEF HistoryTypes
  <2>7. NothingLost'
    <3>1. <<>> \o j = j
      BY <2>2
    <3> QED BY <1>4, <2>1, <2>2, <2>3, <2>5, <3>1 DEF NothingLost
  <2>8. LinesLost'
    <3>1. Rewriting'
      BY <1>5, <2>1, <2>3, <2>4 DEF Rewriting
    <3> QED BY <2>1, <2>2, <3>1, HistoryAssumption DEF LinesLost, Decodable
  <2> QED BY <2>6, <2>7, <2>8 DEF HistoryInv
<1> QED BY <1>8, <1>9

\* One more of the lines is in the file, unless it lies behind one without an end.
LEMMA EntryWritten ==
  ASSUME HistoryInv, WriteEntry
  PROVE  HistoryInv'
<1>1. HistoryTypes /\ NothingLost /\ LinesLost
  BY DEF HistoryInv
<1>2. Ended \in Seq(Prompts) /\ Len(Ended) \in Nat /\ Ended = EntriesIn(file)
  BY <1>1, EntriesTyped
<1>3. /\ job # <<>> /\ job \in Seq(Prompts) /\ lock # NoClient /\ log \in Seq(Prompts) /\ accidents \in Seq(Accidents)
      /\ file \in Seq(Prompts \cup {Unreadable}) /\ unended \in Prompts \cup {Unreadable, Undecodable, NoLine}
  BY <1>1 DEF WriteEntry, HistoryTypes
<1> DEFINE line == Head(job)
<1>4. /\ line \in Prompts /\ line # Unreadable /\ Tail(job) \in Seq(Prompts) /\ Len(Tail(job)) = Len(job) - 1 /\ Len(job) \in Nat \ {0}
      /\ <<line>> \o Tail(job) = job
  BY <1>3, HistoryAssumption
<1>5. /\ file' = Written(line) /\ unended' = NoLine /\ job' = Tail(job) /\ lock' = lock /\ accidents' = accidents
      /\ log' = IF Len(job) = 1 THEN Append(log, line) ELSE log
  BY DEF WriteEntry
<1> HIDE DEF line
<1>6. Ended' = IF unended = NoLine THEN Append(Ended, line) ELSE Ended
  <2>1. CASE unended # NoLine
    <3>1. PICK e \in Lines : e = Unreadable
      BY DEF Lines
    <3>2. file \in Seq(Lines) /\ Unreadable \in Lines
      BY <1>3, <3>1 DEF Lines
    <3>3. EntriesIn(Append(file, Unreadable)) = EntriesIn(file)
      BY <3>2, ReadBehind
    <3> QED BY <1>2, <1>5, <2>1, <3>3, EntriesPrimed DEF Written
  <2>2. CASE unended = NoLine
    <3>1. file \in Seq(Lines) /\ line \in Lines
      BY <1>3, <1>4 DEF Lines
    <3>2. EntriesIn(Append(file, line)) = Append(EntriesIn(file), line)
      BY <1>4, <3>1, ReadBehind
    <3> QED BY <1>2, <1>5, <2>2, <3>2, EntriesPrimed DEF Written
  <2> QED BY <2>1, <2>2
<1>7. HistoryTypes'
  <2>1. file' \in Seq(Prompts \cup {Unreadable})
    BY <1>3, <1>4, <1>5 DEF Written
  <2>2. log' \in Seq(Prompts)
    BY <1>3, <1>4, <1>5
  <2> QED BY <1>3, <1>4, <1>5, <2>1, <2>2 DEF HistoryTypes
<1>8. Len(job) = 1 => Tail(job) = <<>> /\ Last(job) = line
  <2>1. \A s \in Seq(Prompts) : Len(s) = 0 => s = <<>>
    OBVIOUS
  <2>2. Head(job) = job[1]
    BY <1>3
  <2>3. Last(job) = job[Len(job)] /\ line = job[1]
    BY <2>2 DEF line, Last
  <2>4. Len(job) = 1 => Len(Tail(job)) = 0
    BY <1>4
  <2> QED BY <1>4, <2>1, <2>3, <2>4
<1>9. Len(job) # 1 => Tail(job) # <<>> /\ Last(Tail(job)) = Last(job)
  <2> SUFFICES ASSUME Len(job) # 1 PROVE Tail(job) # <<>> /\ Tail(job)[Len(Tail(job))] = job[Len(job)]
    BY DEF Last
  <2>1. Len(job) - 1 \in 1..Len(Tail(job)) /\ Len(job) - 1 + 1 = Len(job)
    BY <1>4
  <2>2. \A i \in 1..Len(Tail(job)) : Tail(job)[i] = job[i + 1]
    BY <1>3, <1>4
  <2>3. Tail(job)[Len(job) - 1] = job[Len(job)]
    BY <2>1, <2>2
  <2> QED BY <1>4, <2>1, <2>3
<1>10. NothingLost'
  <2> SUFFICES ASSUME accidents = <<>>
      PROVE Ended' \o job' = Newest(log' \o (IF job' = <<>> THEN <<>> ELSE <<Last(job')>>), MaxEntries)
    BY <1>5 DEF NothingLost
  <2>1. unended = NoLine /\ Ended \o job = Newest(log \o <<Last(job)>>, MaxEntries)
    BY <1>1, <1>3 DEF NothingLost
  <2>2. Ended' \o job' = Ended \o job
    <3>1. \A s, t \in Seq(Prompts), e \in Prompts : Append(s, e) \o t = s \o (<<e>> \o t)
      OBVIOUS
    <3>2. Append(Ended, line) \o Tail(job) = Ended \o (<<line>> \o Tail(job))
      BY <1>2, <1>4, <3>1
    <3> QED BY <1>4, <1>5, <1>6, <2>1, <3>2
  <2>3. CASE Len(job) = 1
    <3>1. Append(log, line) \o <<>> = Append(log, line) /\ log \o <<line>> = Append(log, line)
      BY <1>3, <1>4
    <3>2. job' = <<>> /\ log' = Append(log, line) /\ Last(job) = line
      BY <1>5, <1>8, <2>3
    <3> QED BY <2>1, <2>2, <3>1, <3>2
  <2>4. CASE Len(job) # 1
    BY <1>5, <1>9, <2>1, <2>2, <2>4
  <2> QED BY <2>3, <2>4
<1>11. LinesLost'
  <2> SUFFICES ASSUME \A i \in DOMAIN accidents : accidents[i] = "line"
      PROVE IF job' = <<>> THEN Counted' ELSE Rewriting'
    BY <1>5, HistoryAssumption DEF LinesLost, Decodable
  <2>1. PICK e \in Nat, k \in Nat, d \in Nat, l \in Nat, N \in Nat \ {0} :
          e = Len(Ended) /\ k = Len(job) /\ d = Len(accidents) /\ l = Len(log) /\ N = MaxEntries
    <3>1. Len(job) \in Nat /\ Len(accidents) \in Nat /\ Len(log) \in Nat
      BY <1>3
    <3> QED BY <1>2, <3>1, HistoryAssumption
  <2>2. Len(Ended') = (IF unended = NoLine THEN e + 1 ELSE e) /\ Len(job') = k - 1 /\ Len(accidents') = d /\ Len(log') = (IF k = 1 THEN l + 1 ELSE l)
    <3>1. Len(Append(Ended, line)) = e + 1 /\ Len(Append(log, line)) = l + 1
      BY <1>2, <1>3, <1>4, <2>1
    <3> QED BY <1>4, <1>5, <1>6, <2>1, <3>1
  <2>3. Rewriting \/ (Len(job) = 1 /\ Counted)
    BY <1>1, <1>3 DEF LinesLost
  <2>4. CASE Rewriting
    <3>1. unended = NoLine /\ e + k = N
      BY <2>1, <2>4 DEF Rewriting
    <3>2. Rewriting'
      <4>1. Len(Ended') + Len(job') = N
        <5>1. Len(Ended') = e + 1 /\ Len(job') = k - 1
          BY <2>2, <3>1
        <5>2. (e + 1) + (k - 1) = N
          BY <2>1, <3>1, SMT
        <5> QED BY <5>1, <5>2
      <4> QED BY <1>5, <2>1, <4>1 DEF Rewriting
    <3>3. job' = <<>> => Counted'
      <4> SUFFICES ASSUME job' = <<>> PROVE Counted'
        OBVIOUS
      <4>1. k = 1 /\ Len(Ended') = N /\ Len(accidents') = d /\ Len(log') = l + 1
        <5>1. k = 1
          BY <1>8, <1>9, <1>5, <2>1
        <5> QED BY <2>1, <2>2, <3>1, <5>1
      <4>2. N + d >= (IF N <= l + 1 + 0 THEN N ELSE l + 1 + 0)
        BY <2>1, SMT
      <4> QED BY <1>5, <2>1, <4>1, <4>2 DEF Counted, Shorter
    <3> QED BY <3>2, <3>3
  <2>5. CASE Len(job) = 1 /\ Counted
    <3>1. job' = <<>>
      BY <1>5, <1>8, <2>5
    <3>2. e + d >= Shorter(N, l + (IF unended = NoLine THEN 0 ELSE 1))
      BY <2>1, <2>5 DEF Counted
    <3>3. (IF unended = NoLine THEN e + 1 ELSE e) + d >= Shorter(N, l + 1)
      BY <1>3, <2>1, <3>2, SMT DEF Shorter
    <3>4. Len(log') = l + 1
      BY <2>1, <2>2, <2>5
    <3>5. Len(Ended') + Len(accidents') >= Shorter(N, Len(log') + 0)
      <4>1. l + 1 + 0 = l + 1
        BY <2>1
      <4> QED BY <2>2, <3>3, <3>4, <4>1
    <3> QED BY <1>5, <2>1, <3>1, <3>5 DEF Counted
  <2> QED BY <2>3, <2>4, <2>5
<1> QED BY <1>7, <1>10, <1>11 DEF HistoryInv

\* The holder dies or its write fails, before a line or in the middle of one.
LEMMA WriteCutShort ==
  ASSUME HistoryInv, StopShort
  PROVE  HistoryInv'
<1>1. HistoryTypes /\ LinesLost
  BY DEF HistoryInv
<1>2. /\ Ended \in Seq(Prompts) /\ Len(Ended) \in Nat /\ Ended = EntriesIn(file)
      /\ Len(Entries) \in Nat /\ Len(Entries) >= Len(Ended)
  BY <1>1, EntriesTyped
<1>3. /\ job # <<>> /\ job \in Seq(Prompts) /\ log \in Seq(Prompts) /\ accidents \in Seq(Accidents)
      /\ file \in Seq(Prompts \cup {Unreadable}) /\ unended \in Prompts \cup {Unreadable, Undecodable, NoLine}
  BY <1>1 DEF StopShort, HistoryTypes
<1> DEFINE how == Accident
<1>4. /\ lock' = NoClient /\ job' = <<>> /\ accidents' = Append(accidents, how) /\ log' = log /\ file' = file
      /\ unended' \in {unended} \cup PartsOf(Head(job))
  BY DEF StopShort
<1>5. how \in Accidents /\ (how = "line" => unended' # Undecodable /\ Len(Entries) < MaxEntries /\ Len(job) = 1)
  BY DEF Accident, Accidents
<1> HIDE DEF how
<1>6. accidents' \in Seq(Accidents) /\ accidents' # <<>> /\ Len(accidents') = Len(accidents) + 1 /\ accidents'[Len(accidents) + 1] = how
      /\ Len(accidents) \in Nat /\ \A i \in DOMAIN accidents : i \in DOMAIN accidents' /\ accidents'[i] = accidents[i]
  <2>1. accidents \in Seq(Accidents) /\ how \in Accidents /\ accidents' = Append(accidents, how)
    BY <1>3, <1>4, <1>5
  <2> QED BY <2>1, SMTT(40)
<1>7. Ended' = Ended
  BY <1>2, <1>4, EntriesPrimed
<1>8. HistoryTypes'
  <2>1. <<>> \in Seq(Prompts)
    OBVIOUS
  <2>2. Head(job) \in Prompts
    BY <1>3
  <2>3. unended' \in Prompts \cup {Unreadable, Undecodable, NoLine}
    BY <1>3, <1>4, <2>2 DEF PartsOf
  <2> QED BY <1>3, <1>4, <1>6, <2>1, <2>3 DEF HistoryTypes
<1>9. NothingLost'
  BY <1>6 DEF NothingLost
<1>10. LinesLost'
  <2> SUFFICES ASSUME \A i \in DOMAIN accidents' : accidents'[i] = "line" PROVE Decodable' /\ Counted'
    BY <1>4 DEF LinesLost
  <2>1. how = "line" /\ \A i \in DOMAIN accidents : accidents[i] = "line"
    <3>1. Len(accidents) + 1 \in DOMAIN accidents'
      BY <1>6
    <3> QED BY <1>6, <3>1
  <2>2. PICK e \in Nat, k \in Nat, d \in Nat, l \in Nat, N \in Nat \ {0} :
          e = Len(Ended) /\ k = Len(job) /\ d = Len(accidents) /\ l = Len(log) /\ N = MaxEntries
    BY <1>2, <1>3, HistoryAssumption
  <2>3. Decodable' /\ e < N /\ k = 1
    <3>1. Decodable' /\ Len(Entries) < N /\ k = 1
      BY <1>5, <2>1, <2>2 DEF Decodable
    <3>2. Len(Ended) < N
      BY <1>2, <2>2, <3>1
    <3> QED BY <2>2, <3>1, <3>2
  <2>4. Rewriting \/ Counted
    BY <1>1, <1>3, <2>1 DEF LinesLost
  <2>5. (unended = NoLine /\ e + k = N) \/ e + d >= Shorter(N, l + (IF unended = NoLine THEN 0 ELSE 1))
    BY <2>2, <2>4 DEF Rewriting, Counted
  <2>6. e + (d + 1) >= Shorter(N, l + (IF unended' = NoLine THEN 0 ELSE 1))
    <3>1. PICK was \in {0, 1}, now \in {0, 1} : was = (IF unended = NoLine THEN 0 ELSE 1) /\ now = (IF unended' = NoLine THEN 0 ELSE 1)
      OBVIOUS
    <3>2. (e + k = N) \/ e + d >= Shorter(N, l + was)
      BY <2>5, <3>1
    <3>3. e + (d + 1) >= Shorter(N, l + now)
      BY <2>2, <2>3, <3>1, <3>2, SMT DEF Shorter
    <3> QED BY <3>1, <3>3
  <2> QED BY <1>4, <1>6, <1>7, <2>2, <2>3, <2>6 DEF Counted
<1> QED BY <1>8, <1>9, <1>10 DEF HistoryInv

\* A step that leaves the file of prompts alone.
LEMMA HistoryAlone ==
  ASSUME HistoryInv, UNCHANGED fileVars
  PROVE  HistoryInv'
<1>1. file' = file /\ unended' = unended /\ lock' = lock /\ job' = job /\ log' = log /\ accidents' = accidents
  BY DEF fileVars
<1>2. Ended' = Ended
  BY <1>1 DEF Ended
<1> QED BY <1>1, <1>2 DEF HistoryInv, HistoryTypes, NothingLost, LinesLost, Counted, Rewriting, Decodable

LEMMA LockReleased ==
  ASSUME HistoryInv, Unlock
  PROVE  HistoryInv'
<1>1. file' = file /\ unended' = unended /\ job' = job /\ log' = log /\ accidents' = accidents /\ job = <<>>
  BY DEF Unlock
<1>2. Ended' = Ended
  BY <1>1 DEF Ended
<1> QED BY <1>1, <1>2 DEF HistoryInv, HistoryTypes, NothingLost, LinesLost, Counted, Rewriting, Decodable

LEMMA HistoryKept ==
  ASSUME HistoryInv, HistoryFileNext
  PROVE  HistoryInv'
BY AppendBegun, EntryWritten, WriteCutShort, LockReleased DEF HistoryFileNext

LEMMA HistoryHolds == HistoryInv => FileIsNewestPrompts
<1> SUFFICES ASSUME HistoryInv, lock = NoClient
    PROVE /\ accidents = <<>> => Loaded = Newest(log, MaxEntries)
          /\ (\A i \in DOMAIN accidents : accidents[i] = "line") => Len(Loaded) + Len(accidents) >= Len(Newest(log, MaxEntries))
  BY DEF FileIsNewestPrompts
<1>1. HistoryTypes /\ NothingLost /\ LinesLost
  BY DEF HistoryInv
<1>2. /\ job = <<>> /\ log \in Seq(Prompts) /\ accidents \in Seq(Accidents) /\ Ended \in Seq(Prompts) /\ Len(Ended) \in Nat
      /\ Len(Entries) \in Nat /\ Len(Entries) >= Len(Ended) /\ (unended = NoLine => Loaded = Ended)
  BY <1>1, EntriesTyped DEF HistoryTypes
<1>3. accidents = <<>> => Loaded = Newest(log, MaxEntries)
  <2>1. log \o <<>> = log /\ Ended \o <<>> = Ended
    BY <1>2
  <2> QED BY <1>1, <1>2, <2>1 DEF NothingLost
<1>4. ASSUME \A i \in DOMAIN accidents : accidents[i] = "line" PROVE Len(Loaded) + Len(accidents) >= Len(Newest(log, MaxEntries))
  <2>1. Decodable /\ Counted
    BY <1>1, <1>2, <1>4 DEF LinesLost
  <2>2. PICK e \in Nat, f \in Nat, d \in Nat, l \in Nat, N \in Nat \ {0} :
          e = Len(Ended) /\ f = Len(Entries) /\ d = Len(accidents) /\ l = Len(log) /\ N = MaxEntries
    BY <1>2, HistoryAssumption
  <2>3. PICK t \in {0, 1} : t = (IF unended = NoLine THEN 0 ELSE 1)
    OBVIOUS
  <2>4. e + d >= Shorter(N, l + t) /\ f >= e
    BY <1>2, <2>1, <2>2, <2>3 DEF Counted
  <2>5. f + d >= Shorter(N, l)
    BY <2>2, <2>3, <2>4, SMT DEF Shorter
  <2>6. Len(Newest(log, N)) = Shorter(N, l)
    BY <1>2, <2>2, NewestOf
  <2>7. Len(Loaded) = f
    BY <2>1, <2>2 DEF Loaded
  <2> QED BY <2>2, <2>5, <2>6, <2>7
<1> QED BY <1>3, <1>4

LEMMA HistoryInitially == Init => HistoryInv
BY HistoryStarts DEF Init

LEMMA HistoryStep == [Next]_vars => HistoryFileNext \/ UNCHANGED fileVars
BY DEF Next, vars, Views, Turns, Dialog, List, Compose, Remember

\* For any number of clients, prompts and entries kept: with no write cut short a
\* client loads the newest prompts in the order they were recorded, and a new line
\* that is cut short, by a death or by a failed write, costs at most one prompt.
THEOREM FileAlwaysNewest == Spec => []FileIsNewestPrompts
<1>1. HistoryInv /\ [Next]_vars => HistoryInv'
  BY HistoryStep, HistoryKept, HistoryAlone
<1> QED BY HistoryInitially, <1>1, HistoryHolds, PTL DEF Spec
================================================================================
