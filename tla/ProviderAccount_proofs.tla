------------------------- MODULE ProviderAccount_proofs -------------------------
(***************************************************************************)
(* Theorems about ProviderAccount, and so about Credentials and            *)
(* ModelSelection, for any providers, models and levels and any number of  *)
(* calls, tokens and restarts.                                             *)
(***************************************************************************)
EXTENDS ProviderAccount, TLAPS

----------------------------------------------------------------------------
(***************************************************************************)
(* The selection                                                           *)
(***************************************************************************)

\* A model's default level is one of its own, or none.
LEMMA DefaultIsSupported ==
  ASSUME NEW m \in Models
  PROVE  DefaultLevel(m) \in Options(Levels) /\ IsSupported(m, DefaultLevel(m))
<1>1. CASE Supports[m] = {}
  BY <1>1 DEF DefaultLevel, IsSupported, Options
<1>2. CASE Supports[m] # {}
  <2>1. PICK l : l \in Supports[m]
    BY <1>2
  <2>2. DefaultLevel(m) \in Supports[m]
    BY <1>2, <2>1 DEF DefaultLevel
  <2> QED
    BY <2>2, SelectionAssumption DEF IsSupported, Options
<1> QED
  BY <1>1, <1>2

\* The level a selection is saved with is one of the options.
LEMMA ChosenIsALevel ==
  ASSUME SelectionType, NEW c \in Selectors, SelectorInv(c)
  PROVE  Chosen(selecting[c]) \in Options(Levels)
<1>1. CASE selecting[c].kind = "profile"
  BY <1>1, DefaultIsSupported DEF SelectionType, SelectorInv, Chosen
<1>2. CASE selecting[c].kind # "profile"
  BY <1>2 DEF SelectionType, Chosen
<1> QED
  BY <1>1, <1>2

\* What the core starts with satisfies the invariant.
LEMMA SelectionInitially ==
  ASSUME SelectionInit
  PROVE  SelectionInv
<1> USE SelectionAssumption
<1>1. \/ config.model = NoProfile /\ config.thinking = NoProfile
      \/ config.model \in Models /\ config.thinking = DefaultLevel(config.model)
  <2>1. CASE config = Profile(NoProfile, NoProfile)
    BY <2>1 DEF Profile
  <2>2. CASE \E m \in Models : config = Profile(m, DefaultLevel(m))
    BY <2>2 DEF Profile
  <2> QED
    BY <2>1, <2>2 DEF SelectionInit
<1>2. config = Profile(config.model, config.thinking)
  BY DEF SelectionInit, Profile
<1>3. config.thinking \in Options(Levels) /\ config.model \in Options(Models)
      /\ IsSupported(config.model, config.thinking)
  BY <1>1, DefaultIsSupported DEF Options, IsSupported
<1>4. config \in [model : Options(Models), thinking : Options(Levels)]
  BY <1>2, <1>3 DEF Profile
<1>5. SelectionType
  BY <1>3, <1>4 DEF SelectionType, SelectionInit, Options, NoSelection
<1>6. \A c \in Selectors : SelectorInv(c)
  BY DEF SelectorInv, SelectionInit, NoSelection
<1>7. Agreement
  BY <1>2, <1>3 DEF SelectionInit, Agreement
<1> QED
  BY <1>5, <1>6, <1>7 DEF SelectionInv

\* A selection that starts touches neither the profile nor the lock.
LEMMA StartSelectionKeeps ==
  ASSUME SelectionInv, NEW c \in Selectors, NEW kind \in {"profile", "default", "thinking"}, NEW m,
         NEW level \in Options(Levels), StartSelection(c, kind, m, level),
         IF kind = "profile" THEN m \in Models ELSE m = NoProfile
  PROVE  SelectionInv'
<1> USE SelectionAssumption
<1> DEFINE s == selecting[c]
<1>1. SelectionType /\ SelectorInv(c) /\ Agreement
  BY DEF SelectionInv
<1>2. Chosen(s) \in Options(Levels)
  BY <1>1, ChosenIsALevel
<1>3. SelectionType'
  BY <1>1, <1>2 DEF SelectionType, SelectorInv, Options, selection, StartSelection
<1>4. SelectorInv(c)'
  BY <1>1, <1>2, <1>3
     DEF SelectionType, SelectorInv, Options, IsSupported, selection, StartSelection
<1>5. ASSUME NEW d \in Selectors, d # c  PROVE SelectorInv(d)'
  BY <1>1, <1>5
     DEF SelectionInv, SelectionType, SelectorInv, Options, IsSupported, selection, StartSelection
<1>6. Agreement'
  BY <1>1, <1>2, <1>4, <1>5
     DEF SelectionType, SelectorInv, Agreement, Options, Profile, IsSupported, selection,
         StartSelection
<1> QED
  BY <1>3, <1>4, <1>5, <1>6 DEF SelectionInv

\* The lock is taken when nobody works on the profile; a change of level is for the model of that moment.
LEMMA LockSelectionKeeps ==
  ASSUME SelectionInv, NEW c \in Selectors, LockSelection(c)
  PROVE  SelectionInv'
<1> USE SelectionAssumption
<1> DEFINE s == selecting[c]
<1>1. SelectionType /\ SelectorInv(c) /\ Agreement
  BY DEF SelectionInv
<1>2. Chosen(s) \in Options(Levels)
  BY <1>1, ChosenIsALevel
<1>3. SelectionType'
  BY <1>1, <1>2
     DEF SelectionType, SelectorInv, Options, selection, LockSelection, EndSelection, NoSelection
<1>4. SelectorInv(c)'
  BY <1>1, <1>2, <1>3
     DEF SelectionType, SelectorInv, Options, IsSupported, selection, LockSelection, EndSelection,
         NoSelection
<1>5. ASSUME NEW d \in Selectors, d # c  PROVE SelectorInv(d)'
  BY <1>1, <1>5
     DEF SelectionInv, SelectionType, SelectorInv, Options, IsSupported, selection, LockSelection,
         EndSelection, NoSelection
<1>6. Agreement'
  BY <1>1, <1>2, <1>4, <1>5
     DEF SelectionType, SelectorInv, Agreement, Options, Profile, IsSupported, selection,
         LockSelection, EndSelection, NoSelection
<1> QED
  BY <1>3, <1>4, <1>5, <1>6 DEF SelectionInv

\* The catalog lists the model with its level, or the selection ends or becomes another one.
LEMMA FetchCatalogKeeps ==
  ASSUME SelectionInv, NEW c \in Selectors, FetchCatalog(c)
  PROVE  SelectionInv'
<1> USE SelectionAssumption
<1> DEFINE s == selecting[c]
<1>1. SelectionType /\ SelectorInv(c) /\ Agreement
  BY DEF SelectionInv
<1>2. Chosen(s) \in Options(Levels)
  BY <1>1, ChosenIsALevel
<1>3. SelectionType'
  BY <1>1, <1>2
     DEF SelectionType, SelectorInv, Options, selection, FetchCatalog, EndSelection, NoSelection
<1>4. SelectorInv(c)'
  BY <1>1, <1>2, <1>3
     DEF SelectionType, SelectorInv, Options, IsSupported, selection, FetchCatalog, EndSelection,
         NoSelection
<1>5. ASSUME NEW d \in Selectors, d # c  PROVE SelectorInv(d)'
  BY <1>1, <1>5
     DEF SelectionInv, SelectionType, SelectorInv, Options, IsSupported, selection, FetchCatalog,
         EndSelection, NoSelection
<1>6. Agreement'
  BY <1>1, <1>2, <1>4, <1>5
     DEF SelectionType, SelectorInv, Agreement, Options, Profile, IsSupported, selection,
         FetchCatalog, EndSelection, NoSelection
<1> QED
  BY <1>3, <1>4, <1>5, <1>6 DEF SelectionInv

\* The configuration runs ahead of the profile in memory.
LEMMA SaveConfigKeeps ==
  ASSUME SelectionInv, NEW c \in Selectors, SaveConfig(c)
  PROVE  SelectionInv'
<1> USE SelectionAssumption
<1> DEFINE s == selecting[c]
<1>1. SelectionType /\ SelectorInv(c) /\ Agreement
  BY DEF SelectionInv
<1>2. Chosen(s) \in Options(Levels)
  BY <1>1, ChosenIsALevel
<1>3. SelectionType'
  BY <1>1, <1>2
     DEF SelectionType, SelectorInv, Options, selection, SaveConfig, EndSelection, NoSelection,
         Stand, Changed, Profile
<1>4. SelectorInv(c)'
  BY <1>1, <1>2, <1>3
     DEF SelectionType, SelectorInv, Options, IsSupported, selection, SaveConfig, EndSelection,
         NoSelection, Stand, Changed, Profile
<1>5. ASSUME NEW d \in Selectors, d # c  PROVE SelectorInv(d)'
  BY <1>1, <1>5
     DEF SelectionInv, SelectionType, SelectorInv, Options, IsSupported, selection, SaveConfig,
         EndSelection, NoSelection, Stand, Changed, Profile
<1>6. Agreement'
  BY <1>1, <1>2, <1>4, <1>5
     DEF SelectionType, SelectorInv, Agreement, Options, Profile, IsSupported, selection,
         SaveConfig, EndSelection, NoSelection, Stand, Changed, Profile
<1> QED
  BY <1>3, <1>4, <1>5, <1>6 DEF SelectionInv

\* The model follows.
LEMMA SetModelKeeps ==
  ASSUME SelectionInv, NEW c \in Selectors, SetModel(c)
  PROVE  SelectionInv'
<1> USE SelectionAssumption
<1> DEFINE s == selecting[c]
<1>1. SelectionType /\ SelectorInv(c) /\ Agreement
  BY DEF SelectionInv
<1>2. Chosen(s) \in Options(Levels)
  BY <1>1, ChosenIsALevel
<1>3. SelectionType'
  BY <1>1, <1>2 DEF SelectionType, SelectorInv, Options, selection, SetModel, Stand
<1>4. SelectorInv(c)'
  BY <1>1, <1>2, <1>3
     DEF SelectionType, SelectorInv, Options, IsSupported, selection, SetModel, Stand
<1>5. ASSUME NEW d \in Selectors, d # c  PROVE SelectorInv(d)'
  BY <1>1, <1>5
     DEF SelectionInv, SelectionType, SelectorInv, Options, IsSupported, selection, SetModel, Stand
<1>6. Agreement'
  BY <1>1, <1>2, <1>4, <1>5
     DEF SelectionType, SelectorInv, Agreement, Options, Profile, IsSupported, selection, SetModel,
         Stand
<1> QED
  BY <1>3, <1>4, <1>5, <1>6 DEF SelectionInv

\* The level follows, and the lock is dropped.
LEMMA SetThinkingKeeps ==
  ASSUME SelectionInv, NEW c \in Selectors, SetThinking(c)
  PROVE  SelectionInv'
<1> USE SelectionAssumption
<1> DEFINE s == selecting[c]
<1>1. SelectionType /\ SelectorInv(c) /\ Agreement
  BY DEF SelectionInv
<1>2. Chosen(s) \in Options(Levels)
  BY <1>1, ChosenIsALevel
<1>3. SelectionType'
  BY <1>1, <1>2
     DEF SelectionType, SelectorInv, Options, selection, SetThinking, EndSelection, NoSelection
<1>4. SelectorInv(c)'
  BY <1>1, <1>2, <1>3
     DEF SelectionType, SelectorInv, Options, IsSupported, selection, SetThinking, EndSelection,
         NoSelection
<1>5. ASSUME NEW d \in Selectors, d # c  PROVE SelectorInv(d)'
  BY <1>1, <1>5
     DEF SelectionInv, SelectionType, SelectorInv, Options, IsSupported, selection, SetThinking,
         EndSelection, NoSelection
<1>6. Agreement'
  BY <1>1, <1>2, <1>4, <1>5
     DEF SelectionType, SelectorInv, Agreement, Options, Profile, IsSupported, selection,
         SetThinking, EndSelection, NoSelection
<1> QED
  BY <1>3, <1>4, <1>5, <1>6 DEF SelectionInv

\* A resumed session may bring back a profile the configuration does not hold.
LEMMA RestoreModelKeeps ==
  ASSUME SelectionInv, NEW m \in Models, NEW level, RestoreModel(m, level)
  PROVE  SelectionInv'
<1>1. "model" \in borrowed' /\ UNCHANGED <<config, selecting, model_operations, selected_thinking>>
  BY DEF RestoreModel
<1>2. "thinking" \in borrowed' <=> "thinking" \in borrowed
  BY DEF RestoreModel
<1>3. restoring' \in [model : Models, thinking : Options(Levels)]
  BY DefaultIsSupported, SelectionAssumption DEF RestoreModel, Profile, Options
<1>4. SelectionType'
  BY <1>1, <1>3 DEF SelectionInv, SelectionType, RestoreModel, Options
<1>5. \A c \in Selectors : SelectorInv(c)'
  BY <1>1 DEF SelectionInv, SelectorInv, IsSupported
<1>6. Agreement'
  BY <1>1, <1>2 DEF SelectionInv, Agreement
<1> QED
  BY <1>4, <1>5, <1>6 DEF SelectionInv

\* The level of the resumed session follows its model.
LEMMA RestoreThinkingKeeps ==
  ASSUME SelectionInv, RestoreThinking
  PROVE  SelectionInv'
<1>1. "thinking" \in borrowed' /\ UNCHANGED <<config, selecting, model_operations, selected_model>>
  BY DEF RestoreThinking
<1>2. "model" \in borrowed' <=> "model" \in borrowed
  BY DEF RestoreThinking
<1>3. restoring.thinking \in Options(Levels)
  BY DEF SelectionInv, SelectionType, RestoreThinking, Options
<1>4. SelectionType'
  BY <1>1, <1>3 DEF SelectionInv, SelectionType, RestoreThinking, Options
<1>5. \A c \in Selectors : SelectorInv(c)'
  BY <1>1, <1>2 DEF SelectionInv, SelectorInv, IsSupported
<1>6. Agreement'
  BY <1>1, <1>2 DEF SelectionInv, Agreement, IsSupported
<1> QED
  BY <1>4, <1>5, <1>6 DEF SelectionInv

\* A submission reads the selection and changes nothing of it.
LEMMA SubmissionKeeps ==
  ASSUME SelectionInv, Submit \/ Enqueue \/ StartTurn \/ UNCHANGED selectionVars
  PROVE  SelectionInv'
BY
   DEF SelectionInv, SelectionType, SelectorInv, Agreement, Options, IsSupported, selection,
       selectionVars,
       Submit, Enqueue, StartTurn

\* Every step of a selection, a restore and a submission keeps the invariant.
LEMMA SelectionStep ==
  ASSUME SelectionInv, SelectionNext \/ UNCHANGED selectionVars
  PROVE  SelectionInv'
<1>1. ASSUME NEW c \in Selectors, NEW m \in Models, NEW level \in Levels \cup {NoProfile},
             StartSelection(c, "profile", m, level) \/ StartSelection(c, "thinking", NoProfile, level)
      PROVE  SelectionInv'
  <2>1. level \in Options(Levels)
    BY DEF Options
  <2>2. CASE StartSelection(c, "profile", m, level)
    BY <2>1, <2>2, StartSelectionKeeps
  <2>3. CASE StartSelection(c, "thinking", NoProfile, level)
    BY <2>1, <2>3, StartSelectionKeeps
  <2> QED
    BY <1>1, <2>2, <2>3
<1>2. ASSUME NEW c \in Selectors, StartSelection(c, "default", NoProfile, NoProfile)
      PROVE  SelectionInv'
  BY <1>2, StartSelectionKeeps DEF Options
<1>3. ASSUME NEW c \in Selectors,
             LockSelection(c) \/ FetchCatalog(c) \/ SaveConfig(c) \/ SetModel(c) \/ SetThinking(c)
      PROVE  SelectionInv'
  BY <1>3, LockSelectionKeeps, FetchCatalogKeeps, SaveConfigKeeps, SetModelKeeps, SetThinkingKeeps
<1>4. ASSUME NEW m \in Models, NEW level \in Levels \cup {NoProfile}, RestoreModel(m, level)
      PROVE  SelectionInv'
  BY <1>4, RestoreModelKeeps
<1> QED
  BY <1>1, <1>2, <1>3, <1>4, RestoreThinkingKeeps, SubmissionKeeps DEF SelectionNext

\* The invariant says what the run checks.
LEMMA SelectionAgrees ==
  ASSUME SelectionInv
  PROVE  ConfigIsSelection
BY
   DEF SelectionInv, SelectorInv, Agreement, ConfigIsSelection, SelectionIsSupported,
       ConfigIsProfile

----------------------------------------------------------------------------
(***************************************************************************)
(* The credentials: one step of one call                                   *)
(***************************************************************************)

\* A step of call c is c's own: the other calls stay where they are, and keep
\* the guards they hold.
Moved(c) == calls' \in [Calls -> CallType] /\ \A d \in Calls \ {c} : calls'[d] = calls[d]
GuardsKept(c) ==
  \A d \in Calls \ {c} :
    /\ credential_operations = d => credential_operations' = d
    /\ \A p \in Providers : auth_operations[p] = d => auth_operations'[p] = d

\* What the invariant says of a call by itself, and of its data.
OwnInv(c) == PathInv(c) /\ GuardInv(c)
DataInv(c) == DocumentInv(c) /\ CapturedInv(c) /\ RefreshInv(c)

Stored == <<file, record, torn>>
Catalog == <<cache, epochs, generation, models_file, unsaved>>

Publishing(c) == calls[c].at \in {"persist", "compare"}

\* None is no epoch and no call.
LEMMA NoneIsNoCall == None \notin Nat /\ None \notin Calls
BY CredentialAssumption DEF CredentialAssumption

\* A slot nobody uses is of the type of a call.
LEMMA IdleIsACall == Idle \in CallType
BY DEF Idle, CallType, Tokens, Kinds

\* The other calls keep their places and guards.
LEMMA OthersKeep ==
  ASSUME CredentialInv, NEW c \in Calls, Moved(c), GuardsKept(c), NEW d \in Calls \ {c}
  PROVE  OwnInv(d)'
<1>1. OwnInv(d) /\ calls'[d] = calls[d] /\ calls \in [Calls -> CallType]
  BY DEF CredentialInv, StateType, OwnInv, Moved
<1>2. calls[d].kind # "idle" => calls[d].p \in Providers
  BY <1>1 DEF OwnInv, PathInv
<1>3. PathInv(d)'
  BY <1>1 DEF OwnInv, PathInv, Asks
<1>4. GuardInv(d)'
  BY <1>1, <1>2 DEF OwnInv, PathInv, GuardInv, Asks, GuardsKept
<1> QED
  BY <1>3, <1>4 DEF OwnInv

\* Who is about to record stays so while others move.
LEMMA UnrecordedKept ==
  ASSUME NEW c \in Calls, Moved(c), ~At(c, "saved")
  PROVE  \A p : Unrecorded(p) => Unrecorded(p)'
BY DEF Moved, Unrecorded, At

\* A step that changes no credential, and no record of one, keeps what the
\* invariant says of them if it does so for its own call.
LEMMA StoredStep ==
  ASSUME CredentialInv, NEW c \in Calls, Moved(c), GuardsKept(c), UNCHANGED Stored,
         ~At(c, "saved"), (At(c, "saved") => Asks(c) # "logout")', OwnInv(c)', DataInv(c)'
  PROVE  /\ \A d \in Calls : (OwnInv(d) /\ DataInv(d))'
         /\ \A p \in Providers : RecordInv(p)' /\ (Unrecorded(p) => Unrecorded(p)')
<1>1. \A d \in Calls \ {c} : calls'[d] = calls[d] /\ (At(d, "saved"))' = At(d, "saved")
                             /\ Asks(d)' = Asks(d)
  BY DEF Moved, At, Asks
<1>2. file' = file /\ record' = record /\ torn' = torn
  BY DEF Stored
<1>3. ASSUME NEW p \in Providers, Unrecorded(p)  PROVE Unrecorded(p)'
  BY <1>1, <1>3 DEF Unrecorded
<1>4. ASSUME NEW d \in Calls  PROVE OwnInv(d)'
  BY OthersKeep
<1>5. ASSUME NEW d \in Calls \ {c}  PROVE DataInv(d)'
  <2>1. DocumentInv(d) /\ CapturedInv(d) /\ RefreshInv(d) /\ PathInv(d)
    BY DEF CredentialInv
  <2>2. Asks(d) \in {"chat", "list", "search"} => calls[d].p \in Providers
    BY <2>1 DEF PathInv, Asks, Kinds
  <2>3. DocumentInv(d)'
    BY <1>1, <1>2, <2>1 DEF DocumentInv, At
  <2>4. CapturedInv(d)'
    BY <1>1, <1>2, <1>3, <2>1, <2>2 DEF CapturedInv
  <2>5. RefreshInv(d)'
    BY <1>1, <1>2, <2>1 DEF RefreshInv
  <2> QED
    BY <2>3, <2>4, <2>5 DEF DataInv
<1>6. ASSUME NEW p \in Providers  PROVE RecordInv(p)'
  <2>1. RecordInv(p)
    BY DEF CredentialInv
  <2>2. \A d \in Calls : At(d, "saved") => d # c
    OBVIOUS
  <2> QED
    BY <1>1, <1>2, <2>1, <2>2 DEF RecordInv
<1> QED
  BY <1>3, <1>4, <1>5, <1>6

\* A step that has nothing to do with the catalogs keeps what the invariant says
\* of their file.
LEMMA CatalogStep ==
  ASSUME CredentialInv, NEW c \in Calls, Moved(c), UNCHANGED Catalog, ~Publishing(c), ~Publishing(c)'
  PROVE  (\A d \in Calls : SnapshotInv(d)') /\ BehindInv'
<1>1. \A d \in Calls \ {c} : calls'[d] = calls[d] /\ Written(d)' = Written(d)
  BY DEF Moved, Written
<1>2. cache' = cache /\ generation' = generation /\ models_file' = models_file /\ unsaved' = unsaved
  BY DEF Catalog
<1>3. ASSUME NEW d \in Calls  PROVE SnapshotInv(d)'
  <2>1. SnapshotInv(d)
    BY DEF CredentialInv
  <2>2. CASE d = c
    BY <2>2 DEF SnapshotInv, Publishing
  <2>3. CASE d # c
    BY <1>1, <1>2, <2>1, <2>3 DEF SnapshotInv
  <2> QED
    BY <2>2, <2>3
<1>4. BehindInv'
  <2>1. BehindInv
    BY DEF CredentialInv
  <2>2. ASSUME NEW d \in Calls, At(d, "persist") \/ At(d, "compare")  PROVE d # c
    BY <2>2 DEF Publishing, At
  <2> QED
    BY <1>1, <1>2, <2>1, <2>2 DEF BehindInv, At
<1> QED
  BY <1>3, <1>4

\* A step that does neither keeps the invariant.
LEMMA QuietStep ==
  ASSUME CredentialInv, NEW c \in Calls, Moved(c), GuardsKept(c), StateType',
         UNCHANGED <<Stored, Catalog>>,
         ~At(c, "saved"), ~Publishing(c), ~Publishing(c)', (At(c, "saved") => Asks(c) # "logout")',
         OwnInv(c)', DataInv(c)'
  PROVE  CredentialInv'
<1>1. /\ \A d \in Calls : (OwnInv(d) /\ DataInv(d))'
      /\ \A p \in Providers : RecordInv(p)' /\ (Unrecorded(p) => Unrecorded(p)')
  BY StoredStep
<1>2. (\A d \in Calls : SnapshotInv(d)') /\ BehindInv'
  BY CatalogStep
<1>3. ASSUME NEW p \in Providers  PROVE CatalogInv(p)'
  <2>1. CatalogInv(p) /\ UNCHANGED <<file, record, torn, cache, epochs>>
    BY DEF CredentialInv, Stored, Catalog
  <2> QED
    BY <1>1, <2>1 DEF CatalogInv
<1> QED
  BY <1>1, <1>2, <1>3 DEF CredentialInv, OwnInv, DataInv

\* A call that returns, or goes on from its refresh, holds nothing any more.
LEMMA LeavingStep ==
  ASSUME CredentialInv, NEW c \in Calls, Return(c) \/ Continue(c), ~At(c, "idle"),
         UNCHANGED <<issued, Stored, Catalog>>, ~At(c, "saved"), ~Publishing(c)
  PROVE  CredentialInv'
<1> USE NoneIsNoCall, IdleIsACall
<1>1. StateType /\ PathInv(c)
  BY DEF CredentialInv
<1>2. ReleaseAll(c)
  BY DEF Return, Continue
<1>3. PICK s \in CallType :
        /\ calls' = [calls EXCEPT ![c] = s]
        /\ s.aborted = FALSE /\ s.expiring = FALSE /\ s.new = None
        /\ \/ s.at = "idle" /\ s.kind = "idle"
           \/ s.at = "begin" /\ s.kind \in {"usage", "chat"} /\ s.p \in Providers
  <2>1. CASE Return(c)
    BY <2>1 DEF Return, Idle
  <2>2. CASE Continue(c) /\ calls[c].expiring
    <3>1. calls[c].kind \in {"usage", "chat"} /\ calls[c].p \in Providers
      BY <1>1, <2>2 DEF PathInv
    <3>2. [Idle EXCEPT !.kind = calls[c].kind, !.p = calls[c].p, !.at = "begin"] \in CallType
      BY <3>1 DEF CallType, Kinds, Idle, Tokens
    <3> QED
      BY <2>2, <3>1, <3>2 DEF Continue, Idle
  <2> QED
    BY <2>1, <2>2 DEF Continue
<1>4. Moved(c) /\ calls'[c] = s
  BY <1>1, <1>3 DEF StateType, Moved
<1>5. GuardsKept(c)
  BY <1>1, <1>2 DEF ReleaseAll, GuardsKept, Dropped, StateType
<1>6. StateType'
  BY <1>1, <1>2, <1>4 DEF StateType, ReleaseAll, Dropped, Moved, Stored, Catalog
<1>7. OwnInv(c)'
  BY <1>3, <1>4 DEF OwnInv, PathInv, GuardInv, Asks
<1>8. DataInv(c)' /\ ~Publishing(c)' /\ (At(c, "saved"))' = FALSE
  BY <1>3, <1>4 DEF DataInv, DocumentInv, CapturedInv, RefreshInv, Asks, At, Publishing
<1> QED
  BY <1>4, <1>5, <1>6, <1>7, <1>8, QuietStep

----------------------------------------------------------------------------
(***************************************************************************)
(* The steps that store nothing                                            *)
(***************************************************************************)

\* The two updates that change a token as well leave a record a call record.
LEMMA TokenUpdated ==
  ASSUME NEW s \in CallType, NEW n \in Tokens
  PROVE  /\ [s EXCEPT !.at = "sending", !.tok = n] \in CallType
         /\ [s EXCEPT !.at = "answered", !.new = n] \in CallType
<1> DEFINE sending == [s EXCEPT !.at = "sending"]
           answered == [s EXCEPT !.at = "answered"]
<1>1. sending \in CallType /\ answered \in CallType
  BY DEF CallType
<1>2. /\ [s EXCEPT !.at = "sending", !.tok = n] = [sending EXCEPT !.tok = n]
      /\ [s EXCEPT !.at = "answered", !.new = n] = [answered EXCEPT !.new = n]
  OBVIOUS
<1> HIDE DEF sending, answered
<1>3. [sending EXCEPT !.tok = n] \in CallType
  BY <1>1, SMTT(40) DEF CallType
<1>4. [answered EXCEPT !.new = n] \in CallType
  BY <1>1, SMTT(40) DEF CallType
<1> QED BY <1>2, <1>3, <1>4

\* A call takes the provider's authentication lock when nobody has it.
LEMMA LockAuthKeeps ==
  ASSUME CredentialInv, NEW c \in Calls, LockAuth(c)
  PROVE  CredentialInv'
<1> USE NoneIsNoCall, IdleIsACall
<1>1. StateType /\ PathInv(c) /\ GuardInv(c) /\ DataInv(c)
  BY DEF CredentialInv, DataInv
<1> DEFINE s == [calls[c] EXCEPT !.at = (IF calls[c].expiring THEN "expiry" ELSE "load")]
<1>2. calls' = [calls EXCEPT ![c] = s]
  BY <1>1 DEF LockAuth, Go, StateType, AuthFree
<1>3. calls[c].at # "saved" /\ calls[c].at # "idle" /\ calls[c].p \in Providers
  BY <1>1 DEF PathInv, LockAuth, At
<1>4. s \in CallType
  <2>1. calls[c] \in CallType
    BY <1>1 DEF StateType
  <2> QED
    BY <2>1 DEF CallType
<1>5. /\ s.kind = calls[c].kind
      /\ s.p = calls[c].p
      /\ s.at = (IF calls[c].expiring THEN "expiry" ELSE "load")
      /\ s.expiring = calls[c].expiring
      /\ s.aborted = calls[c].aborted
      /\ s.tok = calls[c].tok
      /\ s.epoch = calls[c].epoch
      /\ s.new = calls[c].new
      /\ s.doc = calls[c].doc
      /\ s.write = calls[c].write
  BY <1>1, <1>3 DEF StateType, CallType
<1> HIDE DEF s
<1>6. Moved(c) /\ calls'[c] = s
  BY <1>1, <1>3, <1>2, <1>4 DEF StateType, Moved
<1>7. GuardsKept(c)
  BY <1>1, <1>3 DEF GuardsKept, StateType, LockAuth, locks, AuthFree
<1>8. StateType'
  BY <1>1, <1>3, <1>6 DEF StateType, Moved, LockAuth, locks, catalog, AuthFree
<1>9. PathInv(c)'
  BY <1>1, <1>3, <1>5, <1>6 DEF PathInv, Asks, At, LockAuth, StateType, AuthFree
<1>10. GuardInv(c)'
  BY <1>1, <1>3, <1>5, <1>6 DEF PathInv, GuardInv, Asks, At, LockAuth, locks, StateType, AuthFree
<1>11. DocumentInv(c)'
  BY <1>1, <1>3, <1>5, <1>6
     DEF DataInv, PathInv, DocumentInv, Asks, At, LockAuth, StateType, AuthFree
<1>12. CapturedInv(c)'
  BY <1>1, <1>3, <1>5, <1>6, UnrecordedKept
     DEF DataInv, PathInv, CapturedInv, Asks, At, LockAuth, StateType, AuthFree
<1>13. RefreshInv(c)'
  BY <1>1, <1>3, <1>5, <1>6
     DEF DataInv, PathInv, RefreshInv, Asks, At, LockAuth, StateType, AuthFree
<1>14. /\ UNCHANGED <<Stored, Catalog>> /\ ~At(c, "saved") /\ ~Publishing(c)
      /\ (~Publishing(c) /\ (At(c, "saved") => Asks(c) # "logout"))'
  BY <1>1, <1>3, <1>5, <1>6
     DEF Stored, Catalog, catalog, At, Publishing, Asks, PathInv, LockAuth, AuthFree
<1> QED
  BY <1>6, <1>7, <1>8, <1>9, <1>10, <1>11, <1>12, <1>13, <1>14, QuietStep DEF OwnInv, DataInv

\* A credential that expires soon is refreshed with the lock held; otherwise the
\* call goes on without.
LEMMA CheckExpiryKeeps ==
  ASSUME CredentialInv, NEW c \in Calls, CheckExpiry(c)
  PROVE  CredentialInv'
<1> USE NoneIsNoCall, IdleIsACall
<1>1. StateType /\ PathInv(c) /\ GuardInv(c) /\ DataInv(c)
  BY DEF CredentialInv, DataInv
<1>2. CASE Continue(c)
  BY <1>2, LeavingStep DEF CheckExpiry, At, Publishing, Stored, Catalog, locks, catalog
<1>3. CASE ~(Continue(c))
  <2> DEFINE s == [calls[c] EXCEPT !.at = "load"]
  <2>1. calls' = [calls EXCEPT ![c] = s]
    BY <1>1, <1>3 DEF CheckExpiry, Go, StateType
  <2>2. calls[c].at # "saved" /\ calls[c].at # "idle" /\ calls[c].p \in Providers
    BY <1>1, <1>3 DEF PathInv, CheckExpiry, At
  <2>3. s \in CallType
    <3>1. calls[c] \in CallType
      BY <1>1 DEF StateType
    <3> QED
      BY <3>1 DEF CallType
  <2>4. /\ s.kind = calls[c].kind
        /\ s.p = calls[c].p
        /\ s.at = "load"
        /\ s.expiring = calls[c].expiring
        /\ s.aborted = calls[c].aborted
        /\ s.tok = calls[c].tok
        /\ s.epoch = calls[c].epoch
        /\ s.new = calls[c].new
        /\ s.doc = calls[c].doc
        /\ s.write = calls[c].write
    BY <1>1, <1>3, <2>2 DEF StateType, CallType
  <2> HIDE DEF s
  <2>5. Moved(c) /\ calls'[c] = s
    BY <1>1, <1>3, <2>2, <2>1, <2>3 DEF StateType, Moved
  <2>6. GuardsKept(c)
    BY <1>1, <1>3, <2>2 DEF GuardsKept, StateType, CheckExpiry, locks
  <2>7. StateType'
    BY <1>1, <1>3, <2>2, <2>5 DEF StateType, Moved, CheckExpiry, locks, catalog
  <2>8. PathInv(c)'
    BY <1>1, <1>3, <2>2, <2>4, <2>5 DEF PathInv, Asks, At, CheckExpiry, StateType
  <2>9. GuardInv(c)'
    BY <1>1, <1>3, <2>2, <2>4, <2>5 DEF PathInv, GuardInv, Asks, At, CheckExpiry, locks, StateType
  <2>10. DocumentInv(c)'
    BY <1>1, <1>3, <2>2, <2>4, <2>5
       DEF DataInv, PathInv, DocumentInv, Asks, At, CheckExpiry, StateType
  <2>11. CapturedInv(c)'
    BY <1>1, <1>3, <2>2, <2>4, <2>5, UnrecordedKept
       DEF DataInv, PathInv, CapturedInv, Asks, At, CheckExpiry, StateType
  <2>12. RefreshInv(c)'
    BY <1>1, <1>3, <2>2, <2>4, <2>5
       DEF DataInv, PathInv, RefreshInv, Asks, At, CheckExpiry, StateType
  <2>13. /\ UNCHANGED <<Stored, Catalog>> /\ ~At(c, "saved") /\ ~Publishing(c)
        /\ (~Publishing(c) /\ (At(c, "saved") => Asks(c) # "logout"))'
    BY <1>1, <1>3, <2>2, <2>4, <2>5
       DEF Stored, Catalog, catalog, At, Publishing, Asks, PathInv, CheckExpiry
  <2> QED
    BY <2>5, <2>6, <2>7, <2>8, <2>9, <2>10, <2>11, <2>12, <2>13, QuietStep DEF OwnInv, DataInv
<1> QED
  BY <1>2, <1>3

\* The epoch a call captures is the record's, and it is captured before the
\* credential is read.
LEMMA CaptureKeeps ==
  ASSUME CredentialInv, NEW c \in Calls, Capture(c)
  PROVE  CredentialInv'
<1> USE NoneIsNoCall, IdleIsACall
<1>1. StateType /\ PathInv(c) /\ GuardInv(c) /\ DataInv(c)
  BY DEF CredentialInv, DataInv
<1>2. CASE Return(c)
  BY <1>2, LeavingStep DEF Capture, At, Publishing, Stored, Catalog, locks, catalog
<1>3. CASE ~(Return(c))
  <2> DEFINE s == [calls[c] EXCEPT !.at = "load", !.epoch = record[calls[c].p].epoch]
  <2>1. calls' = [calls EXCEPT ![c] = s]
    BY <1>1, <1>3 DEF Capture, Go, StateType
  <2>2. calls[c].at # "saved" /\ calls[c].at # "idle" /\ calls[c].p \in Providers
    BY <1>1, <1>3 DEF PathInv, Capture, At
  <2>3. s \in CallType
    <3>1. calls[c] \in CallType /\ record[calls[c].p].epoch \in Nat
      BY <1>1, <2>2 DEF StateType
    <3> QED
      BY <3>1 DEF CallType
  <2>4. /\ s.kind = calls[c].kind
        /\ s.p = calls[c].p
        /\ s.at = "load"
        /\ s.expiring = calls[c].expiring
        /\ s.aborted = calls[c].aborted
        /\ s.tok = calls[c].tok
        /\ s.epoch = record[calls[c].p].epoch
        /\ s.new = calls[c].new
        /\ s.doc = calls[c].doc
        /\ s.write = calls[c].write
    BY <1>1, <1>3, <2>2 DEF StateType, CallType
  <2> HIDE DEF s
  <2>5. Moved(c) /\ calls'[c] = s
    BY <1>1, <1>3, <2>2, <2>1, <2>3 DEF StateType, Moved
  <2>6. GuardsKept(c)
    BY <1>1, <1>3, <2>2 DEF GuardsKept, StateType, Capture, locks
  <2>7. StateType'
    BY <1>1, <1>3, <2>2, <2>5 DEF StateType, Moved, Capture, locks, catalog
  <2>8. PathInv(c)'
    BY <1>1, <1>3, <2>2, <2>4, <2>5 DEF PathInv, Asks, At, Capture, StateType
  <2>9. GuardInv(c)'
    BY <1>1, <1>3, <2>2, <2>4, <2>5 DEF PathInv, GuardInv, Asks, At, Capture, locks, StateType
  <2>10. DocumentInv(c)'
    BY <1>1, <1>3, <2>2, <2>4, <2>5 DEF DataInv, PathInv, DocumentInv, Asks, At, Capture, StateType
  <2>11. CapturedInv(c)'
    BY <1>1, <1>3, <2>2, <2>4, <2>5, UnrecordedKept
       DEF DataInv, PathInv, CapturedInv, Asks, At, Capture, StateType
  <2>12. RefreshInv(c)'
    BY <1>1, <1>3, <2>2, <2>4, <2>5 DEF DataInv, PathInv, RefreshInv, Asks, At, Capture, StateType
  <2>13. /\ UNCHANGED <<Stored, Catalog>> /\ ~At(c, "saved") /\ ~Publishing(c)
        /\ (~Publishing(c) /\ (At(c, "saved") => Asks(c) # "logout"))'
    BY <1>1, <1>3, <2>2, <2>4, <2>5
       DEF Stored, Catalog, catalog, At, Publishing, Asks, PathInv, Capture
  <2> QED
    BY <2>5, <2>6, <2>7, <2>8, <2>9, <2>10, <2>11, <2>12, <2>13, QuietStep DEF OwnInv, DataInv
<1> QED
  BY <1>2, <1>3

\* The credential that travels with the request is the stored one.
LEMMA LoadCredentialsKeeps ==
  ASSUME CredentialInv, NEW c \in Calls, LoadCredentials(c)
  PROVE  CredentialInv'
<1> USE NoneIsNoCall, IdleIsACall
<1>1. StateType /\ PathInv(c) /\ GuardInv(c) /\ DataInv(c)
  BY DEF CredentialInv, DataInv
<1> DEFINE s == [calls[c] EXCEPT !.at = "sending", !.tok = file[calls[c].p]]
<1>2. calls' = [calls EXCEPT ![c] = s]
  BY <1>1 DEF LoadCredentials, Go, StateType
<1>3. calls[c].at # "saved" /\ calls[c].at # "idle" /\ calls[c].p \in Providers
  BY <1>1 DEF PathInv, LoadCredentials, At
<1>4. s \in CallType
  <2>1. calls[c] \in CallType /\ file[calls[c].p] \in Tokens
    BY <1>1, <1>3 DEF StateType
  <2> QED
    BY <2>1, TokenUpdated
<1>5. /\ s.kind = calls[c].kind
      /\ s.p = calls[c].p
      /\ s.at = "sending"
      /\ s.expiring = calls[c].expiring
      /\ s.aborted = calls[c].aborted
      /\ s.tok = file[calls[c].p]
      /\ s.epoch = calls[c].epoch
      /\ s.new = calls[c].new
      /\ s.doc = calls[c].doc
      /\ s.write = calls[c].write
  BY <1>1, <1>3 DEF StateType, CallType
<1> HIDE DEF s
<1>6. Moved(c) /\ calls'[c] = s
  BY <1>1, <1>3, <1>2, <1>4 DEF StateType, Moved
<1>7. GuardsKept(c)
  BY <1>1, <1>3 DEF GuardsKept, StateType, LoadCredentials, locks
<1>8. StateType'
  BY <1>1, <1>3, <1>6 DEF StateType, Moved, LoadCredentials, locks, catalog
<1>9. PathInv(c)'
  BY <1>1, <1>3, <1>5, <1>6 DEF PathInv, Asks, At, LoadCredentials, StateType
<1>10. GuardInv(c)'
  BY <1>1, <1>3, <1>5, <1>6 DEF PathInv, GuardInv, Asks, At, LoadCredentials, locks, StateType
<1>11. DocumentInv(c)'
  BY <1>1, <1>3, <1>5, <1>6 DEF DataInv, PathInv, DocumentInv, Asks, At, LoadCredentials, StateType
<1>12. CapturedInv(c)'
  BY <1>1, <1>3, <1>5, <1>6, UnrecordedKept
     DEF DataInv, PathInv, CapturedInv, Asks, At, LoadCredentials, StateType
<1>13. RefreshInv(c)'
  BY <1>1, <1>3, <1>5, <1>6 DEF DataInv, PathInv, RefreshInv, Asks, At, LoadCredentials, StateType
<1>14. /\ UNCHANGED <<Stored, Catalog>> /\ ~At(c, "saved") /\ ~Publishing(c)
      /\ (~Publishing(c) /\ (At(c, "saved") => Asks(c) # "logout"))'
  BY <1>1, <1>3, <1>5, <1>6
     DEF Stored, Catalog, catalog, At, Publishing, Asks, PathInv, LoadCredentials
<1> QED
  BY <1>6, <1>7, <1>8, <1>9, <1>10, <1>11, <1>12, <1>13, <1>14, QuietStep DEF OwnInv, DataInv

\* The request is written, and changes nothing of it.
LEMMA SendRequestKeeps ==
  ASSUME CredentialInv, NEW c \in Calls, SendRequest(c)
  PROVE  CredentialInv'
<1> USE NoneIsNoCall, IdleIsACall
<1>1. StateType /\ PathInv(c) /\ GuardInv(c) /\ DataInv(c)
  BY DEF CredentialInv, DataInv
<1> DEFINE s == [calls[c] EXCEPT !.at = "asked"]
<1>2. calls' = [calls EXCEPT ![c] = s]
  BY <1>1 DEF SendRequest, Go, StateType
<1>3. calls[c].at # "saved" /\ calls[c].at # "idle" /\ calls[c].p \in Providers
  BY <1>1 DEF PathInv, SendRequest, At
<1>4. s \in CallType
  BY <1>1 DEF StateType, CallType
<1>5. /\ s.kind = calls[c].kind
      /\ s.p = calls[c].p
      /\ s.at = "asked"
      /\ s.expiring = calls[c].expiring
      /\ s.aborted = calls[c].aborted
      /\ s.tok = calls[c].tok
      /\ s.epoch = calls[c].epoch
      /\ s.new = calls[c].new
      /\ s.doc = calls[c].doc
      /\ s.write = calls[c].write
  BY <1>1, <1>3 DEF StateType, CallType
<1> HIDE DEF s
<1>6. Moved(c) /\ calls'[c] = s
  BY <1>1, <1>3, <1>2, <1>4 DEF StateType, Moved
<1>7. GuardsKept(c)
  BY <1>1, <1>3 DEF GuardsKept, StateType, SendRequest, locks
<1>8. StateType'
  BY <1>1, <1>3, <1>6 DEF StateType, Moved, SendRequest, locks, catalog
<1>9. PathInv(c)'
  BY <1>1, <1>3, <1>5, <1>6 DEF PathInv, Asks, At, SendRequest, StateType
<1>10. GuardInv(c)'
  BY <1>1, <1>3, <1>5, <1>6 DEF PathInv, GuardInv, Asks, At, SendRequest, locks, StateType
<1>11. DocumentInv(c)'
  BY <1>1, <1>3, <1>5, <1>6 DEF DataInv, PathInv, DocumentInv, Asks, At, SendRequest, StateType
<1>12. CapturedInv(c)'
  BY <1>1, <1>3, <1>5, <1>6, UnrecordedKept
     DEF DataInv, PathInv, CapturedInv, Asks, At, SendRequest, StateType
<1>13. RefreshInv(c)'
  BY <1>1, <1>3, <1>5, <1>6 DEF DataInv, PathInv, RefreshInv, Asks, At, SendRequest, StateType
<1>14. /\ UNCHANGED <<Stored, Catalog>> /\ ~At(c, "saved") /\ ~Publishing(c)
      /\ (~Publishing(c) /\ (At(c, "saved") => Asks(c) # "logout"))'
  BY <1>1, <1>3, <1>5, <1>6
     DEF Stored, Catalog, catalog, At, Publishing, Asks, PathInv, SendRequest
<1> QED
  BY <1>6, <1>7, <1>8, <1>9, <1>10, <1>11, <1>12, <1>13, <1>14, QuietStep DEF OwnInv, DataInv

\* A provider rotates only the credential it was asked with.
LEMMA ServeKeeps ==
  ASSUME CredentialInv, NEW c \in Calls, Serve(c)
  PROVE  CredentialInv'
<1> USE NoneIsNoCall, IdleIsACall
<1>1. StateType /\ PathInv(c) /\ GuardInv(c) /\ DataInv(c)
  BY DEF CredentialInv, DataInv
<1>2. PICK n \in Tokens :
       /\ calls' = [calls EXCEPT ![c] = [calls[c] EXCEPT !.at = "answered", !.new = n]]
       /\ \/ n = calls[c].new
          \/ n # None /\ Asks(c) \in {"complete", "refresh", "usage", "chat"}
             /\ (Asks(c) \in {"refresh", "usage", "chat"} => calls[c].tok # None)
  <2>1. CASE Go(c, "answered")
    <3>1. [calls[c] EXCEPT !.at = "answered"]
          = [calls[c] EXCEPT !.at = "answered", !.new = calls[c].new]
      BY <1>1 DEF StateType, CallType
    <3>2. calls[c].new \in Tokens
      BY <1>1 DEF StateType, CallType
    <3> QED
      BY <2>1, <3>1, <3>2 DEF Go
  <2>2. CASE /\ calls' = [calls EXCEPT ![c].at = "answered", ![c].new = issued[calls[c].p] + 1]
             /\ \/ Asks(c) = "complete" /\ Issue(calls[c].p, None)
                \/ /\ Asks(c) \in {"refresh", "usage", "chat"} /\ calls[c].tok # None
                   /\ Issue(calls[c].p, calls[c].tok)
    <3>1. calls[c].p \in Providers
      BY <1>1 DEF PathInv, Serve, At
    <3>2. issued[calls[c].p] + 1 \in Tokens /\ issued[calls[c].p] + 1 # None
      BY <1>1, <2>2, <3>1, CredentialAssumption DEF StateType, Issue, Tokens
    <3> QED
      BY <2>2, <3>2
  <2> QED
    BY <2>1, <2>2 DEF Serve
<1> DEFINE s == [calls[c] EXCEPT !.at = "answered", !.new = n]
<1>3. calls' = [calls EXCEPT ![c] = s]
  BY <1>1, <1>2 DEF Serve, Go, StateType, Issue
<1>4. calls[c].at # "saved" /\ calls[c].at # "idle" /\ calls[c].p \in Providers
  BY <1>1, <1>2 DEF PathInv, Serve, At
<1>5. s \in CallType
  <2>1. calls[c] \in CallType
    BY <1>1 DEF StateType
  <2> QED
    BY <1>2, <2>1, TokenUpdated
<1>6. /\ s.kind = calls[c].kind
      /\ s.p = calls[c].p
      /\ s.at = "answered"
      /\ s.expiring = calls[c].expiring
      /\ s.aborted = calls[c].aborted
      /\ s.tok = calls[c].tok
      /\ s.epoch = calls[c].epoch
      /\ s.new = n
      /\ s.doc = calls[c].doc
      /\ s.write = calls[c].write
  BY <1>1, <1>2, <1>4 DEF StateType, CallType
<1> HIDE DEF s
<1>7. Moved(c) /\ calls'[c] = s
  BY <1>1, <1>2, <1>4, <1>3, <1>5 DEF StateType, Moved
<1>8. GuardsKept(c)
  BY <1>1, <1>2, <1>4 DEF GuardsKept, StateType, Serve, locks, Issue
<1>9. StateType'
  BY <1>1, <1>2, <1>4, CredentialAssumption, <1>7 DEF StateType, Moved, Serve, locks, catalog, Issue
<1>10. PathInv(c)'
  BY <1>1, <1>2, <1>4, <1>6, <1>7 DEF PathInv, Asks, At, Serve, StateType, Issue
<1>11. GuardInv(c)'
  BY <1>1, <1>2, <1>4, <1>6, <1>7 DEF PathInv, GuardInv, Asks, At, Serve, locks, StateType, Issue
<1>12. DocumentInv(c)'
  BY <1>1, <1>2, <1>4, <1>6, <1>7
     DEF DataInv, PathInv, DocumentInv, Asks, At, Serve, StateType, Issue
<1>13. CapturedInv(c)'
  BY <1>1, <1>2, <1>4, <1>6, <1>7, UnrecordedKept
     DEF DataInv, PathInv, CapturedInv, Asks, At, Serve, StateType, Issue
<1>14. RefreshInv(c)'
  BY <1>1, <1>2, <1>4, <1>6, <1>7
     DEF DataInv, PathInv, RefreshInv, Asks, At, Serve, StateType, Issue
<1>15. /\ UNCHANGED <<Stored, Catalog>> /\ ~At(c, "saved") /\ ~Publishing(c)
      /\ (~Publishing(c) /\ (At(c, "saved") => Asks(c) # "logout"))'
  BY <1>1, <1>2, <1>4, <1>6, <1>7
     DEF Stored, Catalog, catalog, At, Publishing, Asks, PathInv, Serve, Issue
<1> QED
  BY <1>7, <1>8, <1>9, <1>10, <1>11, <1>12, <1>13, <1>14, <1>15, QuietStep DEF OwnInv, DataInv

\* The document is read with the mutation lock held, unless the login was aborted.
LEMMA ReadDocumentKeeps ==
  ASSUME CredentialInv, NEW c \in Calls, ReadDocument(c)
  PROVE  CredentialInv'
<1> USE NoneIsNoCall, IdleIsACall
<1>1. StateType /\ PathInv(c) /\ GuardInv(c) /\ DataInv(c)
  BY DEF CredentialInv, DataInv
<1> DEFINE s == [calls[c] EXCEPT !.at = "write", !.doc = file]
<1>2. calls' = [calls EXCEPT ![c] = s]
  BY <1>1 DEF ReadDocument, Go, StateType
<1>3. calls[c].at # "saved" /\ calls[c].at # "idle" /\ calls[c].p \in Providers
  BY <1>1 DEF PathInv, ReadDocument, At
<1>4. s \in CallType
  <2>1. calls[c] \in CallType /\ file \in [Providers -> Tokens]
    BY <1>1 DEF StateType
  <2> QED
    BY <2>1 DEF CallType
<1>5. /\ s.kind = calls[c].kind
      /\ s.p = calls[c].p
      /\ s.at = "write"
      /\ s.expiring = calls[c].expiring
      /\ s.aborted = calls[c].aborted
      /\ s.tok = calls[c].tok
      /\ s.epoch = calls[c].epoch
      /\ s.new = calls[c].new
      /\ s.doc = file
      /\ s.write = calls[c].write
  BY <1>1, <1>3 DEF StateType, CallType
<1> HIDE DEF s
<1>6. Moved(c) /\ calls'[c] = s
  BY <1>1, <1>3, <1>2, <1>4 DEF StateType, Moved
<1>7. GuardsKept(c)
  BY <1>1, <1>3 DEF GuardsKept, StateType, ReadDocument, locks
<1>8. StateType'
  BY <1>1, <1>3, <1>6 DEF StateType, Moved, ReadDocument, locks, catalog
<1>9. PathInv(c)'
  BY <1>1, <1>3, <1>5, <1>6 DEF PathInv, Asks, At, ReadDocument, StateType
<1>10. GuardInv(c)'
  BY <1>1, <1>3, <1>5, <1>6 DEF PathInv, GuardInv, Asks, At, ReadDocument, locks, StateType
<1>11. DocumentInv(c)'
  BY <1>1, <1>3, <1>5, <1>6 DEF DataInv, PathInv, DocumentInv, Asks, At, ReadDocument, StateType
<1>12. CapturedInv(c)'
  BY <1>1, <1>3, <1>5, <1>6, UnrecordedKept
     DEF DataInv, PathInv, CapturedInv, Asks, At, ReadDocument, StateType
<1>13. RefreshInv(c)'
  BY <1>1, <1>3, <1>5, <1>6 DEF DataInv, PathInv, RefreshInv, Asks, At, ReadDocument, StateType
<1>14. /\ UNCHANGED <<Stored, Catalog>> /\ ~At(c, "saved") /\ ~Publishing(c)
      /\ (~Publishing(c) /\ (At(c, "saved") => Asks(c) # "logout"))'
  BY <1>1, <1>3, <1>5, <1>6
     DEF Stored, Catalog, catalog, At, Publishing, Asks, PathInv, ReadDocument
<1> QED
  BY <1>6, <1>7, <1>8, <1>9, <1>10, <1>11, <1>12, <1>13, <1>14, QuietStep DEF OwnInv, DataInv

\* A call at its beginning or its end has nothing to keep.
LEMMA EmptyStep ==
  ASSUME CredentialInv, NEW c \in Calls, NEW s \in CallType, calls' = [calls EXCEPT ![c] = s],
         s.at \in {"idle", "lock", "single", "begin", "load"},
         s.at = "load" => s.kind = "none" /\ ~s.expiring,
         s.at \in {"single", "begin"} => s.kind \in {"list", "search"} /\ ~s.expiring,
         s.at = "idle" => s.kind = "idle",
         PathInv(c)', GuardsKept(c), StateType',
         UNCHANGED <<Stored, Catalog>>, ~At(c, "saved"), ~Publishing(c)
  PROVE  CredentialInv'
<1>1. Moved(c) /\ calls'[c] = s
  BY DEF CredentialInv, StateType, Moved
<1>2. GuardInv(c)'
  BY <1>1, NoneIsNoCall DEF GuardInv, Asks
<1>3. DataInv(c)'
  BY <1>1 DEF DataInv, DocumentInv, CapturedInv, RefreshInv, Asks, At
<1>4. (~Publishing(c) /\ ~At(c, "saved"))'
  BY <1>1 DEF Publishing, At
<1> QED
  BY <1>1, <1>2, <1>3, <1>4, QuietStep DEF OwnInv

\* A call begins in a slot nobody uses, at the first place of its kind.
LEMMA BeginKeeps ==
  ASSUME CredentialInv, NEW c \in Calls, NEW p \in Providers, NEW kind \in Kinds, Begin(c, p, kind)
  PROVE  CredentialInv'
<1> USE NoneIsNoCall, IdleIsACall
<1> DEFINE s == [Idle EXCEPT !.kind = kind, !.p = p, !.expiring = kind \in {"usage", "chat"},
                    !.at = CASE kind = "list"   -> "begin"
                             [] kind = "search" -> "single"
                             [] kind = "none"   -> "load"
                             [] OTHER           -> "lock"]
<1>1. StateType /\ PathInv(c)
  BY DEF CredentialInv
<1>2. calls' = [calls EXCEPT ![c] = s] /\ calls[c].at = "idle"
  BY <1>1 DEF Begin, PathInv
<1>3. /\ s.kind = kind /\ s.p = p /\ s.expiring = (kind \in {"usage", "chat"}) /\ s.aborted = FALSE
      /\ s.new = None
      /\ s.at = (CASE kind = "list"   -> "begin"
                   [] kind = "search" -> "single"
                   [] kind = "none"   -> "load"
                   [] OTHER           -> "lock")
  BY DEF Idle
<1>4. s \in CallType
  <2> DEFINE place == CASE kind = "list"   -> "begin"
                        [] kind = "search" -> "single"
                        [] kind = "none"   -> "load"
                        [] OTHER           -> "lock"
             expiring == kind \in {"usage", "chat"}
  <2>1. place \in {"begin", "single", "load", "lock"} /\ expiring \in BOOLEAN
    OBVIOUS
  <2> HIDE DEF place, expiring
  <2>2. [Idle EXCEPT !.kind = kind, !.p = p, !.expiring = expiring, !.at = place] \in CallType
    BY <2>1 DEF CallType, Idle, Tokens
  <2> QED
    BY <2>2 DEF place, expiring
<1> HIDE DEF s
<1>5. calls'[c] = s
  BY <1>1, <1>2 DEF StateType
<1>6. PathInv(c)'
  BY <1>3, <1>5 DEF PathInv, Asks, Kinds
<1>7. StateType' /\ GuardsKept(c)
  BY <1>1, <1>2, <1>4 DEF StateType, Begin, locks, catalog, GuardsKept
<1>8. UNCHANGED <<Stored, Catalog>> /\ ~At(c, "saved") /\ ~Publishing(c)
  BY <1>2 DEF Begin, Stored, Catalog, catalog, At, Publishing
<1>9. /\ s.at \in {"idle", "lock", "single", "begin", "load"}
      /\ s.at = "load" => s.kind = "none" /\ ~s.expiring
      /\ s.at \in {"single", "begin"} => s.kind \in {"list", "search"} /\ ~s.expiring
      /\ s.at = "idle" => s.kind = "idle"
  BY <1>3 DEF Kinds
<1> QED
  BY <1>2, <1>4, <1>6, <1>7, <1>8, <1>9, EmptyStep

\* A listing waits for the one before it, and may find nothing left to do.
LEMMA LockRefreshKeeps ==
  ASSUME CredentialInv, NEW c \in Calls, LockRefresh(c)
  PROVE  CredentialInv'
<1> USE NoneIsNoCall, IdleIsACall
<1>1. StateType /\ PathInv(c)
  BY DEF CredentialInv
<1>2. /\ calls[c].at = "single" /\ calls[c].kind = "search" /\ calls[c].expiring = FALSE
      /\ calls[c].p \in Providers /\ calls[c].new = None /\ calls[c].aborted = FALSE
  BY <1>1 DEF LockRefresh, At, PathInv, StateType, CallType
<1>3. UNCHANGED <<Stored, Catalog>> /\ ~At(c, "saved") /\ ~Publishing(c) /\ GuardsKept(c)
  BY <1>2 DEF LockRefresh, Stored, Catalog, catalog, At, Publishing, GuardsKept
<1>4. ASSUME NEW s \in CallType, calls' = [calls EXCEPT ![c] = s]  PROVE StateType'
  BY <1>1, <1>4 DEF StateType, LockRefresh, catalog
<1>5. CASE calls' = [calls EXCEPT ![c] = Idle]
  <2>1. PathInv(c)' /\ Idle.at = "idle" /\ Idle.kind = "idle"
    BY <1>1, <1>5 DEF StateType, PathInv, Asks, Idle
  <2> QED
    BY <1>3, <1>4, <1>5, <2>1, EmptyStep
<1>6. CASE calls' = [calls EXCEPT ![c].at = "begin"]
  <2> DEFINE s == [calls[c] EXCEPT !.at = "begin"]
  <2>1. s \in CallType
    <3>1. calls[c] \in CallType
      BY <1>1 DEF StateType
    <3> QED
      BY <3>1 DEF CallType
  <2>2. /\ s.at = "begin" /\ s.kind = "search" /\ s.expiring = FALSE /\ s.aborted = FALSE
        /\ s.p \in Providers /\ s.new = None
    BY <1>1, <1>2 DEF StateType, CallType
  <2>3. calls' = [calls EXCEPT ![c] = s]
    BY <1>6
  <2> HIDE DEF s
  <2>4. PathInv(c)'
    BY <1>1, <2>2, <2>3 DEF StateType, PathInv, Asks
  <2> QED
    BY <1>3, <1>4, <2>1, <2>2, <2>3, <2>4, EmptyStep
<1> QED
  BY <1>5, <1>6 DEF LockRefresh, Go

\* A call that fails returns, and one that has stored what it had goes on.
LEMMA EndKeeps ==
  ASSUME CredentialInv, NEW c \in Calls, Fail(c) \/ StoreFails(c) \/ FinishStore(c)
  PROVE  CredentialInv'
<1>1. calls[c].at \in {"sending", "asked", "read", "write", "done"}
  BY DEF Fail, StoreFails, FinishStore, At
<1>2. Return(c) \/ Continue(c)
  BY DEF Fail, StoreFails, FinishStore
<1>3. UNCHANGED <<issued, Stored, Catalog>>
  BY DEF Fail, StoreFails, FinishStore, Stored, Catalog, catalog
<1> QED
  BY <1>1, <1>2, <1>3, LeavingStep DEF At, Publishing

----------------------------------------------------------------------------
(***************************************************************************)
(* The steps that record and store                                         *)
(***************************************************************************)

\* Only one call at a time is between the mutation lock and the end of its save,
\* aborted logins excepted.
LEMMA OneStores ==
  ASSUME CredentialInv, NEW c \in Calls, NEW d \in Calls, ~calls[c].aborted, ~calls[d].aborted,
         calls[c].at \in {"read", "write", "saved", "persist", "compare", "done"},
         calls[d].at \in {"read", "write", "saved", "persist", "compare", "done"}
  PROVE  c = d
<1>1. GuardInv(c) /\ GuardInv(d)
  BY DEF CredentialInv
<1> QED
  BY <1>1 DEF GuardInv

\* A record that is made moves the epoch on, which outdates what was captured.  It
\* says the truth about the credential stored.
LEMMA RecordedKeeps ==
  ASSUME CredentialInv, NEW c \in Calls, Moved(c), GuardsKept(c), OwnInv(c)', DataInv(c)',
         NEW p \in Providers, NEW present \in BOOLEAN, record' = Recorded(p, present),
         UNCHANGED <<file, torn>>, ~At(c, "saved")', At(c, "saved") => calls[c].p = p,
         ~present => At(c, "saved") /\ Asks(c) = "logout"
  PROVE  /\ \A d \in Calls : (OwnInv(d) /\ DataInv(d))'
         /\ \A q \in Providers : RecordInv(q)'
         /\ \A q \in Providers \ {p} : record'[q] = record[q] /\ (Unrecorded(q) => Unrecorded(q)')
         /\ record'[p].epoch = record[p].epoch + 1
<1>1. StateType
  BY DEF CredentialInv
<1>2. /\ record'[p].epoch = record[p].epoch + 1 /\ record'[p].present = present
      /\ record[p].epoch \in Nat
      /\ \A q \in Providers \ {p} : record'[q] = record[q]
  BY <1>1 DEF StateType, Recorded
<1>3. \A d \in Calls \ {c} : calls'[d] = calls[d] /\ (At(d, "saved"))' = At(d, "saved")
                             /\ Asks(d)' = Asks(d)
  BY DEF Moved, At, Asks
<1>4. ASSUME NEW q \in Providers \ {p}, Unrecorded(q)  PROVE Unrecorded(q)'
  BY <1>3, <1>4 DEF Unrecorded
<1>5. ASSUME NEW d \in Calls  PROVE OwnInv(d)'
  BY OthersKeep
<1>6. ASSUME NEW d \in Calls \ {c}  PROVE DataInv(d)'
  <2>1. DocumentInv(d) /\ CapturedInv(d) /\ RefreshInv(d) /\ PathInv(d)
    BY DEF CredentialInv
  <2>2. Asks(d) \in {"chat", "list", "search"} => calls[d].p \in Providers
    BY <2>1 DEF PathInv, Asks, Kinds
  <2>3. DocumentInv(d)' /\ RefreshInv(d)'
    BY <1>3, <2>1 DEF DocumentInv, RefreshInv, At
  <2>4. CapturedInv(d)'
    <3>1. CASE calls[d].p = p
      BY <1>2, <1>3, <2>1, <3>1 DEF CapturedInv
    <3>2. CASE calls[d].p # p
      BY <1>2, <1>3, <1>4, <2>1, <2>2, <3>2 DEF CapturedInv
    <3> QED
      BY <3>1, <3>2
  <2> QED
    BY <2>3, <2>4 DEF DataInv
<1>7. ASSUME NEW q \in Providers  PROVE RecordInv(q)'
  <2>1. RecordInv(q)
    BY DEF CredentialInv
  <2>2. CASE q # p
    BY <1>2, <1>3, <2>1, <2>2 DEF RecordInv
  <2>3. CASE q = p
    BY <1>2, <1>3, <2>1, <2>3 DEF RecordInv
  <2> QED
    BY <2>2, <2>3
<1> QED
  BY <1>2, <1>4, <1>5, <1>6, <1>7

\* A login without a credential is recorded at once.
LEMMA NoneFlowKeeps ==
  ASSUME CredentialInv, NEW c \in Calls, Answer(c), Asks(c) = "none", NEW p, p = calls[c].p
  PROVE  CredentialInv'
<1> USE NoneIsNoCall, IdleIsACall
<1>1. StateType /\ PathInv(c)
  BY DEF CredentialInv
<1>2. /\ record' = Recorded(p, TRUE) /\ calls' = [calls EXCEPT ![c] = Idle] /\ ReleaseAll(c)
      /\ calls[c].at = "answered" /\ p \in Providers /\ UNCHANGED <<file, torn, Catalog, issued>>
  BY <1>1 DEF Answer, Return, At, PathInv, Catalog, catalog
<1>3. Moved(c) /\ calls'[c] = Idle /\ GuardsKept(c)
  BY <1>1, <1>2 DEF StateType, Moved, GuardsKept, ReleaseAll, Dropped
<1>4. StateType'
  BY <1>1, <1>2, <1>3 DEF StateType, Moved, ReleaseAll, Dropped, Recorded, Catalog
<1>5. OwnInv(c)' /\ DataInv(c)' /\ ~At(c, "saved") /\ ~At(c, "saved")' /\ ~Publishing(c) /\ ~Publishing(c)'
  <2>1. (calls[c].at = "idle" /\ calls[c].kind = "idle" /\ calls[c].new = None
         /\ calls[c].aborted = FALSE /\ calls[c].expiring = FALSE)'
    BY <1>3 DEF Idle
  <2>2. OwnInv(c)'
    BY <2>1 DEF OwnInv, PathInv, GuardInv, Asks
  <2>3. DataInv(c)'
    BY <2>1 DEF DataInv, DocumentInv, CapturedInv, RefreshInv, At, Asks
  <2> QED
    BY <1>2, <2>1, <2>2, <2>3 DEF At, Publishing
<1>6. /\ \A d \in Calls : (OwnInv(d) /\ DataInv(d))'
      /\ \A q \in Providers : RecordInv(q)'
      /\ \A q \in Providers \ {p} : record'[q] = record[q] /\ (Unrecorded(q) => Unrecorded(q)')
      /\ record'[p].epoch = record[p].epoch + 1
  BY <1>2, <1>3, <1>5, RecordedKeeps
<1>7. (\A d \in Calls : SnapshotInv(d)') /\ BehindInv'
  BY <1>2, <1>3, <1>5, CatalogStep
<1>8. Unrecorded(p) => Unrecorded(p)'
  BY <1>3, <1>5, UnrecordedKept
<1>9. ASSUME NEW q \in Providers  PROVE CatalogInv(q)'
  <2>1. CatalogInv(q) /\ UNCHANGED <<file, torn, cache, epochs>>
    BY <1>2 DEF CredentialInv, Catalog
  <2>2. Unrecorded(q) => Unrecorded(q)'
    BY <1>6, <1>8
  <2>3. record[q].epoch \in Nat /\ (epochs[q] # None => epochs[q] \in Nat)
    BY <1>1 DEF StateType
  <2>4. record'[q].epoch = record[q].epoch \/ record'[q].epoch = record[q].epoch + 1
    BY <1>6
  <2>5. epochs[q] # None => epochs[q] <= record[q].epoch
    BY <2>1 DEF CatalogInv
  <2>6. epochs[q] # None => epochs[q] <= record'[q].epoch
    BY <2>3, <2>4, <2>5
  <2> QED
    BY <2>1, <2>2, <2>6 DEF CatalogInv
<1> QED
  BY <1>4, <1>6, <1>7, <1>9 DEF CredentialInv, OwnInv, DataInv

\* An answer that brings something to store goes on with it; the others change
\* nothing.
LEMMA AnswerKeeps ==
  ASSUME CredentialInv, NEW c \in Calls, Asks(c) # "none", Answer(c)
  PROVE  CredentialInv'
<1> USE NoneIsNoCall, IdleIsACall
<1>1. StateType /\ PathInv(c) /\ GuardInv(c) /\ DataInv(c)
  BY DEF CredentialInv, DataInv
<1>2. CASE Return(c) /\ UNCHANGED record
  BY <1>2, LeavingStep DEF Answer, At, Publishing, Stored, Catalog, locks, catalog
<1>3. CASE ~(Return(c) /\ UNCHANGED record)
  <2> DEFINE s == [calls[c] EXCEPT !.at = "store"]
  <2>1. calls' = [calls EXCEPT ![c] = s]
    BY <1>1, <1>3 DEF Answer, Go, StateType
  <2>2. calls[c].at # "saved" /\ calls[c].at # "idle" /\ calls[c].p \in Providers
    BY <1>1, <1>3 DEF PathInv, Answer, At
  <2>3. s \in CallType
    <3>1. calls[c] \in CallType
      BY <1>1 DEF StateType
    <3> QED
      BY <3>1 DEF CallType
  <2>4. /\ s.kind = calls[c].kind
        /\ s.p = calls[c].p
        /\ s.at = "store"
        /\ s.expiring = calls[c].expiring
        /\ s.aborted = calls[c].aborted
        /\ s.tok = calls[c].tok
        /\ s.epoch = calls[c].epoch
        /\ s.new = calls[c].new
        /\ s.doc = calls[c].doc
        /\ s.write = calls[c].write
    BY <1>1, <1>3, <2>2 DEF StateType, CallType
  <2> HIDE DEF s
  <2>5. Moved(c) /\ calls'[c] = s
    BY <1>1, <1>3, <2>2, <2>1, <2>3 DEF StateType, Moved
  <2>6. GuardsKept(c)
    BY <1>1, <1>3, <2>2 DEF GuardsKept, StateType, Answer, locks
  <2>7. StateType'
    BY <1>1, <1>3, <2>2, <2>5 DEF StateType, Moved, Answer, locks, catalog
  <2>8. PathInv(c)'
    BY <1>1, <1>3, <2>2, <2>4, <2>5 DEF PathInv, Asks, At, Answer, StateType
  <2>9. GuardInv(c)'
    BY <1>1, <1>3, <2>2, <2>4, <2>5 DEF PathInv, GuardInv, Asks, At, Answer, locks, StateType
  <2>10. DocumentInv(c)'
    BY <1>1, <1>3, <2>2, <2>4, <2>5 DEF DataInv, PathInv, DocumentInv, Asks, At, Answer, StateType
  <2>11. CapturedInv(c)'
    BY <1>1, <1>3, <2>2, <2>4, <2>5, UnrecordedKept
       DEF DataInv, PathInv, CapturedInv, Asks, At, Answer, StateType
  <2>12. RefreshInv(c)'
    BY <1>1, <1>3, <2>2, <2>4, <2>5 DEF DataInv, PathInv, RefreshInv, Asks, At, Answer, StateType
  <2>13. /\ UNCHANGED <<Stored, Catalog>> /\ ~At(c, "saved") /\ ~Publishing(c)
        /\ (~Publishing(c) /\ (At(c, "saved") => Asks(c) # "logout"))'
    BY <1>1, <1>3, <2>2, <2>4, <2>5
       DEF Stored, Catalog, catalog, At, Publishing, Asks, PathInv, Answer
  <2> QED
    BY <2>5, <2>6, <2>7, <2>8, <2>9, <2>10, <2>11, <2>12, <2>13, QuietStep DEF OwnInv, DataInv
<1> QED
  BY <1>2, <1>3

\* While the mutation lock is free, every change of a credential is recorded.
LEMMA AllIsRecorded ==
  ASSUME CredentialInv, MutationFree
  PROVE  \A p : ~Unrecorded(p)
<1>1. ASSUME NEW c \in Calls, At(c, "saved")  PROVE FALSE
  <2>1. PathInv(c) /\ GuardInv(c)
    BY DEF CredentialInv
  <2>2. calls[c].at = "saved"
    BY <1>1 DEF At
  <2>3. ~calls[c].aborted
    BY <2>1, <2>2 DEF PathInv
  <2> QED
    BY <2>1, <2>2, <2>3, NoneIsNoCall DEF GuardInv, MutationFree
<1> QED
  BY <1>1 DEF Unrecorded

\* A credential is stored under the mutation lock, and a rotation by a chat only over
\* the credential the chat was sent with.
LEMMA LockFileKeeps ==
  ASSUME CredentialInv, NEW c \in Calls, Asks(c) \notin {"list", "search"}, LockStore(c)
  PROVE  CredentialInv'
<1> USE NoneIsNoCall, IdleIsACall
<1>1. StateType /\ PathInv(c) /\ GuardInv(c) /\ DataInv(c)
  BY DEF CredentialInv, DataInv
<1>2. CASE Outdated(c)
  BY <1>2, LeavingStep
     DEF LockStore, At, Publishing, Stored, Catalog, locks, catalog, MutationFree, Outdated
<1>3. CASE ~(Outdated(c))
  <2>1. PICK place \in {"saved", "read"} :
         /\ calls' = [calls EXCEPT ![c] = [calls[c] EXCEPT !.at = place]]
         /\ (place = "saved") = (calls[c].new = None /\ Asks(c) # "logout")
    BY <1>1, <1>3 DEF LockStore, Go, At, StateType, Tokens, CallType, Asks, MutationFree, Outdated
  <2> DEFINE s == [calls[c] EXCEPT !.at = place]
  <2>2. calls' = [calls EXCEPT ![c] = s]
    BY <1>1, <1>3, <2>1 DEF LockStore, Go, StateType, MutationFree, Outdated
  <2>3. calls[c].at # "saved" /\ calls[c].at # "idle" /\ calls[c].p \in Providers
    BY <1>1, <1>3, <2>1 DEF PathInv, LockStore, At
  <2>4. place \in {"saved", "read"} /\ calls[c] \in CallType
    BY <1>1, <2>1 DEF StateType
  <2>5. s \in CallType
    BY <2>4 DEF CallType
  <2>6. /\ s.kind = calls[c].kind
        /\ s.p = calls[c].p
        /\ s.at = place
        /\ s.expiring = calls[c].expiring
        /\ s.aborted = calls[c].aborted
        /\ s.tok = calls[c].tok
        /\ s.epoch = calls[c].epoch
        /\ s.new = calls[c].new
        /\ s.doc = calls[c].doc
        /\ s.write = calls[c].write
    BY <1>1, <1>3, <2>1, <2>3 DEF StateType, CallType
  <2> HIDE DEF s
  <2>7. Moved(c) /\ calls'[c] = s
    BY <1>1, <1>3, <2>1, <2>3, <2>2, <2>5 DEF StateType, Moved
  <2>8. GuardsKept(c)
    BY <1>1, <1>3, <2>1, <2>3 DEF GuardsKept, StateType, LockStore, locks, MutationFree, Outdated
  <2>9. StateType'
    BY <1>1, <1>3, <2>1, <2>3, <2>7
       DEF StateType, Moved, LockStore, locks, catalog, MutationFree, Outdated
  <2>10. PathInv(c)'
    BY <1>1, <1>3, <2>1, <2>3, <2>6, <2>7
       DEF PathInv, Asks, At, LockStore, StateType, MutationFree, Outdated
  <2>11. GuardInv(c)'
    BY <1>1, <1>3, <2>1, <2>3, <2>6, <2>7
       DEF PathInv, GuardInv, Asks, At, LockStore, locks, StateType, MutationFree, Outdated
  <2>12. DocumentInv(c)'
    BY <1>1, <1>3, <2>1, <2>3, <2>6, <2>7
       DEF DataInv, PathInv, DocumentInv, Asks, At, LockStore, StateType, MutationFree, Outdated
  <2>13. CapturedInv(c)'
    BY <1>1, <1>3, <2>1, <2>3, <2>6, <2>7, UnrecordedKept, AllIsRecorded
       DEF DataInv, PathInv, CapturedInv, Asks, At, LockStore, StateType, MutationFree, Outdated
  <2>14. RefreshInv(c)'
    BY <1>1, <1>3, <2>1, <2>3, <2>6, <2>7
       DEF DataInv, PathInv, RefreshInv, Asks, At, LockStore, StateType, MutationFree, Outdated
  <2>15. /\ UNCHANGED <<Stored, Catalog>> /\ ~At(c, "saved") /\ ~Publishing(c)
        /\ (~Publishing(c) /\ (At(c, "saved") => Asks(c) # "logout"))'
    BY <1>1, <1>3, <2>1, <2>3, <2>6, <2>7
       DEF Stored, Catalog, catalog, At, Publishing, Asks, PathInv, LockStore, MutationFree,
           Outdated
  <2> QED
    BY <2>7, <2>8, <2>9, <2>10, <2>11, <2>12, <2>13, <2>14, <2>15, QuietStep DEF OwnInv, DataInv
<1> QED
  BY <1>2, <1>3

\* What is on its way to the file is older than what is staged now.
LEMMA NewerGeneration ==
  ASSUME NEW d, SnapshotInv(d), calls'[d] = calls[d], generation \in Nat,
         generation' = generation + 1
  PROVE  SnapshotInv(d)' /\ (Publishing(d) => calls[d].write.generation # generation')
<1>1. Publishing(d) => calls[d].write.generation \in Nat /\ calls[d].write.generation <= generation
                       /\ calls[d].write \in Snapshots
  BY DEF SnapshotInv, Snapshots, Publishing
<1>2. Publishing(d) => calls[d].write.generation <= generation + 1
                       /\ calls[d].write.generation # generation + 1
  BY <1>1
<1> QED
  BY <1>1, <1>2 DEF SnapshotInv, Publishing

\* A listing is staged under the mutation lock, if the credential it was asked with
\* is the stored one still.
LEMMA StageKeeps ==
  ASSUME CredentialInv, NEW c \in Calls, LockStore(c), Asks(c) \in {"list", "search"},
         NEW p, p = calls[c].p
  PROVE  CredentialInv'
<1> USE NoneIsNoCall, IdleIsACall
<1>1. StateType /\ PathInv(c) /\ GuardInv(c) /\ DataInv(c)
  BY DEF CredentialInv, DataInv
<1>2. CASE Outdated(c)
  BY <1>2, LeavingStep DEF LockStore, At, Publishing, Stored, Catalog, locks, catalog
<1>3. CASE ~Outdated(c)
  <2>1. /\ calls[c].at = "store" /\ MutationFree /\ p \in Providers
        /\ credential_operations' = c /\ UNCHANGED <<auth_operations, issued, models_file, unsaved>>
        /\ UNCHANGED Stored
    BY <1>1, <1>3 DEF LockStore, At, PathInv, Stored
  <2>2. StageSave(c)
    BY <1>3 DEF LockStore
  <2>3. PICK fresh \in BOOLEAN :
          LET now == [cache EXCEPT ![p] = [tok |-> IF calls[c].tok = None THEN 0 ELSE calls[c].tok,
                                           fresh |-> fresh]] IN
          /\ cache' = now
          /\ epochs' = [epochs EXCEPT ![p] = calls[c].epoch]
          /\ generation' = generation + 1
          /\ calls' = [calls EXCEPT ![c].at = "persist",
                                    ![c].write = [generation |-> generation + 1, file |-> now]]
    BY <2>2 DEF StageSave
  <2>4. /\ calls[c].epoch = record[p].epoch /\ record[p].epoch \in Nat /\ generation \in Nat
        /\ p \notin torn => calls[c].tok = file[p]
    BY <1>1, <1>3, <2>1, AllIsRecorded DEF Outdated, DataInv, CapturedInv, StateType
  <2>5. cache' \in CatalogFiles /\ cache'[p].tok = (IF calls[c].tok = None THEN 0 ELSE calls[c].tok)
    <3>1. calls[c].tok = None \/ calls[c].tok \in 1..MaxTokens
      BY <1>1 DEF StateType, CallType, Tokens
    <3>2. [tok |-> IF calls[c].tok = None THEN 0 ELSE calls[c].tok, fresh |-> fresh] \in Catalogs
      BY <3>1, CredentialAssumption DEF Catalogs
    <3>3. cache \in [Providers -> Catalogs \cup {None}]
      BY <1>1 DEF StateType, CatalogFiles
    <3> QED
      BY <2>1, <2>3, <3>2, <3>3 DEF CatalogFiles
  <2> DEFINE s == [calls[c] EXCEPT !.at = "persist",
                                   !.write = [generation |-> generation + 1, file |-> cache']]
  <2>6. calls' = [calls EXCEPT ![c] = s]
    BY <2>3
  <2>7. s \in CallType
    <3>1. [generation |-> generation + 1, file |-> cache'] \in Snapshots
      BY <2>4, <2>5 DEF Snapshots
    <3>2. calls[c] \in CallType
      BY <1>1 DEF StateType
    <3> QED
      BY <3>1, <3>2 DEF CallType
  <2>8. /\ s.at = "persist" /\ s.kind = calls[c].kind /\ s.p = p /\ s.expiring = calls[c].expiring
        /\ s.aborted = calls[c].aborted /\ s.new = calls[c].new /\ s.tok = calls[c].tok
        /\ s.write = [generation |-> generation + 1, file |-> cache']
    BY <1>1 DEF StateType, CallType
  <2> HIDE DEF s
  <2>9. Moved(c) /\ calls'[c] = s /\ GuardsKept(c)
    BY <1>1, <2>1, <2>6, <2>7 DEF StateType, Moved, GuardsKept, MutationFree
  <2>10. StateType'
    BY <1>1, <2>1, <2>3, <2>4, <2>5, <2>9 DEF StateType, Moved, Stored
  <2>11. OwnInv(c)' /\ DataInv(c)'
    BY <1>1, <2>1, <2>8, <2>9
       DEF OwnInv, PathInv, GuardInv, Asks, DataInv, DocumentInv, CapturedInv,
                                  RefreshInv, At
  <2>12. ~At(c, "saved") /\ ~At(c, "saved")' /\ At(c, "persist")'
    BY <2>1, <2>8, <2>9 DEF At
  <2>13. /\ \A d \in Calls : (OwnInv(d) /\ DataInv(d))'
         /\ \A q \in Providers : RecordInv(q)' /\ (Unrecorded(q) => Unrecorded(q)')
    BY <2>1, <2>9, <2>11, <2>12, StoredStep
  <2>14. ASSUME NEW q \in Providers  PROVE CatalogInv(q)'
    <3>1. CatalogInv(q) /\ UNCHANGED <<file, record, torn>>
      BY <2>1 DEF CredentialInv, Stored
    <3>2. CASE q = p
      <4>1. cache'[p] # None
        <5>1. cache'[p] = [tok |-> IF calls[c].tok = None THEN 0 ELSE calls[c].tok, fresh |-> fresh]
          BY <1>1, <2>1, <2>3 DEF CatalogFiles, StateType
        <5>2. calls[c].tok = None \/ calls[c].tok \in Nat
          BY <1>1, CredentialAssumption DEF StateType, CallType, Tokens
        <5>3. cache'[p] \in [tok : Nat, fresh : BOOLEAN]
          BY <5>1, <5>2
        <5> QED
          BY <5>3, CredentialAssumption
      <4>2. epochs'[p] = record[p].epoch
        BY <1>1, <2>1, <2>3, <2>4 DEF StateType
      <4> QED
        BY <2>4, <2>5, <3>1, <3>2, <4>1, <4>2 DEF CatalogInv
    <3>3. CASE q # p
      <4>1. cache'[q] = cache[q] /\ epochs'[q] = epochs[q]
        BY <1>1, <2>3, <3>3 DEF StateType, CatalogFiles
      <4> QED
        BY <2>13, <3>1, <4>1 DEF CatalogInv
    <3> QED
      BY <3>2, <3>3
  <2>15. ASSUME NEW d \in Calls  PROVE SnapshotInv(d)'
    <3>1. CASE d = c
      <4>1. (calls[c].write = [generation |-> generation, file |-> cache])'
        BY <2>3, <2>8, <2>9
      <4>2. (calls[c].write \in Snapshots /\ calls[c].write.generation = generation
             /\ calls[c].write.file = cache)'
        <5>1. generation' \in Nat
          BY <2>3, <2>4
        <5> QED
          BY <2>5, <4>1, <5>1 DEF Snapshots
      <4> QED
        BY <2>3, <2>4, <3>1, <4>2 DEF SnapshotInv, Written
    <3>2. CASE d # c
      <4>1. SnapshotInv(d) /\ calls'[d] = calls[d]
        BY <2>9, <3>2 DEF CredentialInv, Moved
      <4> QED
        BY <2>3, <2>4, <4>1, NewerGeneration
    <3> QED
      BY <3>1, <3>2
  <2>16. BehindInv'
    BY <2>12 DEF BehindInv
  <2> QED
    BY <2>10, <2>13, <2>14, <2>15, <2>16 DEF CredentialInv, OwnInv, DataInv
<1> QED
  BY <1>2, <1>3

\* A record of what was stored takes the old catalog away.
LEMMA RecordStoredKeeps ==
  ASSUME CredentialInv, NEW c \in Calls, RecordStored(c), NEW p, p = calls[c].p
  PROVE  CredentialInv'
<1> USE NoneIsNoCall
<1>1. StateType /\ PathInv(c) /\ GuardInv(c)
  BY DEF CredentialInv
<1>2. /\ calls[c].at = "saved" /\ p \in Providers
      /\ record' = Recorded(p, Asks(c) # "logout") /\ StageRemove(c, record[p].epoch + 1)
      /\ UNCHANGED <<file, torn, issued, auth_operations, credential_operations, models_file, unsaved>>
  BY <1>1 DEF RecordStored, At, PathInv, locks
<1> DEFINE now == [cache EXCEPT ![p] = None]
           kept == cache[p] = None \/ (epochs[p] # None /\ epochs[p] > record[p].epoch + 1)
<1>3. kept => Go(c, "done") /\ UNCHANGED catalog
  BY <1>2 DEF StageRemove
<1>4. ~kept =>
        /\ cache' = now
        /\ epochs' = [epochs EXCEPT ![p] = None]
        /\ generation' = generation + 1
        /\ calls' = [calls EXCEPT ![c].at = "persist",
                                  ![c].write = [generation |-> generation + 1, file |-> now]]
  BY <1>2 DEF StageRemove
<1>5. generation \in Nat /\ [generation |-> generation + 1, file |-> now] \in Snapshots
  <2>1. generation \in Nat /\ generation + 1 \in Nat /\ cache \in CatalogFiles
    BY <1>1 DEF StateType
  <2>2. now \in CatalogFiles
    BY <2>1 DEF CatalogFiles
  <2> QED
    BY <2>1, <2>2 DEF Snapshots
<1>6. PICK s \in CallType :
        /\ calls' = [calls EXCEPT ![c] = s]
        /\ s.kind = calls[c].kind /\ s.p = p /\ s.expiring = calls[c].expiring
        /\ s.aborted = calls[c].aborted /\ s.new = calls[c].new /\ s.tok = calls[c].tok
        /\ IF kept THEN s.at = "done"
           ELSE s.at = "persist" /\ s.write = [generation |-> generation + 1, file |-> now]
  <2>1. calls[c] \in CallType
    BY <1>1 DEF StateType
  <2>2. CASE kept
    <3> DEFINE s == [calls[c] EXCEPT !.at = "done"]
    <3>1. s \in CallType
      BY <2>1 DEF CallType
    <3>2. /\ s.kind = calls[c].kind /\ s.p = p /\ s.expiring = calls[c].expiring
          /\ s.aborted = calls[c].aborted /\ s.new = calls[c].new /\ s.tok = calls[c].tok
          /\ s.at = "done"
      BY <1>1 DEF StateType, CallType
    <3>3. calls' = [calls EXCEPT ![c] = s]
      BY <1>3, <2>2 DEF Go
    <3> QED
      BY <2>2, <3>1, <3>2, <3>3
  <2>3. CASE ~kept
    <3> DEFINE snapshot == [generation |-> generation + 1, file |-> now]
    <3>1. calls' = [calls EXCEPT ![c].at = "persist", ![c].write = snapshot]
      BY <1>4, <2>3
    <3>2. snapshot \in Snapshots
      BY <1>5
    <3> HIDE DEF snapshot
    <3> DEFINE s == [calls[c] EXCEPT !.at = "persist", !.write = snapshot]
    <3>3. s \in CallType
      BY <2>1, <3>2 DEF CallType
    <3>4. /\ s.kind = calls[c].kind /\ s.p = p /\ s.expiring = calls[c].expiring
          /\ s.aborted = calls[c].aborted /\ s.new = calls[c].new /\ s.tok = calls[c].tok
          /\ s.at = "persist" /\ s.write = snapshot
      BY <1>1 DEF StateType, CallType
    <3>5. calls' = [calls EXCEPT ![c] = s]
      BY <3>1
    <3> HIDE DEF s
    <3> QED
      BY <2>3, <3>3, <3>4, <3>5 DEF snapshot
  <2> QED
    BY <2>2, <2>3
<1> HIDE DEF now, kept
<1>7. Moved(c) /\ calls'[c] = s /\ GuardsKept(c)
  BY <1>1, <1>2, <1>6 DEF StateType, Moved, GuardsKept
<1>8. /\ cache' \in CatalogFiles /\ epochs' \in [Providers -> Nat \cup {None}] /\ generation' \in Nat
      /\ ~kept => cache'[p] = None /\ epochs'[p] = None
      /\ \A q \in Providers \ {p} : cache'[q] = cache[q] /\ epochs'[q] = epochs[q]
  <2>1. cache \in [Providers -> Catalogs \cup {None}] /\ epochs \in [Providers -> Nat \cup {None}]
    BY <1>1 DEF StateType, CatalogFiles
  <2>2. CASE kept
    BY <1>3, <1>5, <2>1, <2>2 DEF catalog, CatalogFiles
  <2>3. CASE ~kept
    BY <1>2, <1>4, <1>5, <2>1, <2>3 DEF CatalogFiles, now
  <2> QED
    BY <2>2, <2>3
<1>9. record' \in [Providers -> [present : BOOLEAN, epoch : Nat]]
  BY <1>1, <1>2 DEF StateType, Recorded
<1>10. StateType'
  BY <1>1, <1>2, <1>7, <1>8, <1>9 DEF StateType, Moved
<1>11. s.at \in {"done", "persist"}
  BY <1>6
<1>12. OwnInv(c)' /\ DataInv(c)' /\ ~At(c, "saved")' /\ At(c, "saved")
  <2>1. PathInv(c)' /\ GuardInv(c)'
    BY <1>1, <1>2, <1>6, <1>7, <1>11, SMTT(40) DEF PathInv, GuardInv, Asks, At
  <2>2. DocumentInv(c)' /\ CapturedInv(c)' /\ RefreshInv(c)'
    BY <1>1, <1>2, <1>6, <1>7, <1>11, SMTT(40)
       DEF PathInv, Asks, DataInv, DocumentInv, CapturedInv, RefreshInv, At
  <2> QED
    BY <1>2, <1>7, <1>11, <2>1, <2>2 DEF OwnInv, DataInv, At
<1>13. /\ \A d \in Calls : (OwnInv(d) /\ DataInv(d))'
       /\ \A q \in Providers : RecordInv(q)'
       /\ \A q \in Providers \ {p} : record'[q] = record[q] /\ (Unrecorded(q) => Unrecorded(q)')
       /\ record'[p].epoch = record[p].epoch + 1
  BY <1>2, <1>7, <1>12, RecordedKeeps
<1>14. ASSUME NEW q \in Providers  PROVE CatalogInv(q)'
  <2>1. CatalogInv(q)
    BY DEF CredentialInv
  <2>2. CASE q # p
    BY <1>2, <1>8, <1>13, <2>1, <2>2 DEF CatalogInv
  <2>3. CASE q = p
    <3>1. record[p].epoch \in Nat /\ (epochs[p] # None => epochs[p] \in Nat)
      BY <1>1, <1>2 DEF StateType
    <3>2. kept => epochs[p] = None
      BY <2>1, <2>3, <3>1 DEF CatalogInv, kept
    <3>3. epochs'[p] = None
      BY <1>3, <1>8, <3>2 DEF catalog
    <3> QED
      BY <2>3, <3>3 DEF CatalogInv
  <2> QED
    BY <2>2, <2>3
<1>15. CASE kept
  <2>1. UNCHANGED Catalog /\ ~Publishing(c) /\ ~Publishing(c)'
    BY <1>2, <1>3, <1>6, <1>7, <1>15 DEF Catalog, catalog, Publishing
  <2>2. (\A d \in Calls : SnapshotInv(d)') /\ BehindInv'
    BY <1>7, <2>1, CatalogStep
  <2> QED
    BY <1>10, <1>13, <1>14, <2>2 DEF CredentialInv, OwnInv, DataInv
<1>16. CASE ~kept
  <2>1. ASSUME NEW d \in Calls  PROVE SnapshotInv(d)'
    <3>1. CASE d = c
      <4>1. (calls[c].write = [generation |-> generation, file |-> cache])'
        BY <1>4, <1>6, <1>7, <1>16
      <4> QED
        BY <1>8, <3>1, <4>1 DEF SnapshotInv, Written, Snapshots
    <3>2. CASE d # c
      <4>1. SnapshotInv(d) /\ calls'[d] = calls[d]
        BY <1>7, <3>2 DEF CredentialInv, Moved
      <4> QED
        BY <1>4, <1>5, <1>16, <4>1, NewerGeneration
    <3> QED
      BY <3>1, <3>2
  <2>2. BehindInv'
    BY <1>6, <1>7, <1>16 DEF BehindInv, At
  <2> QED
    BY <1>10, <1>13, <1>14, <2>1, <2>2 DEF CredentialInv, OwnInv, DataInv
<1> QED
  BY <1>15, <1>16

\* What an aborted login's job writes is torn; another call writes its own provider's
\* credential, and nothing else that is not torn.
LEMMA WriteEffect ==
  ASSUME NEW c \in Calls, StateType, PathInv(c), DocumentInv(c), WriteDocument(c), NEW p, p = calls[c].p
  PROVE  /\ p \in Providers /\ file' \in [Providers -> Tokens] /\ torn' \subseteq Providers
         /\ \A q \in Providers \ torn' :
              IF q = p /\ ~calls[c].aborted THEN file'[q] = calls[c].new
              ELSE q \notin torn /\ file'[q] = file[q]
<1>1. /\ calls[c].at = "write" /\ calls[c] \in CallType /\ file \in [Providers -> Tokens]
      /\ torn \subseteq Providers
  BY DEF WriteDocument, At, StateType
<1>2. calls[c].new \in Tokens
  BY <1>1 DEF CallType
<1>3. p \in Providers /\ calls[c].doc \in [Providers -> Tokens]
  BY <1>1 DEF PathInv
<1>4. file' = [calls[c].doc EXCEPT ![p] = calls[c].new]
  BY DEF WriteDocument
<1>5. file' \in [Providers -> Tokens]
  BY <1>2, <1>3, <1>4
<1>6. CASE calls[c].aborted
  BY <1>1, <1>3, <1>5, <1>6 DEF WriteDocument
<1>7. CASE ~calls[c].aborted
  <2>1. torn' = torn \ {p}
    BY <1>7 DEF WriteDocument
  <2>2. \A q \in Providers \ {p} : q \in torn \/ calls[c].doc[q] = file[q]
    BY <1>1, <1>7 DEF DocumentInv, At
  <2> QED
    BY <1>1, <1>3, <1>4, <1>5, <1>7, <2>1, <2>2
<1> QED
  BY <1>6, <1>7

\* A save keeps the other calls' captures, unless it is somebody's credential that
\* changed; then the record is still to come.
LEMMA WriteKeeps ==
  ASSUME CredentialInv, NEW c \in Calls, WriteDocument(c), NEW p, p = calls[c].p
  PROVE  CredentialInv'
<1> USE NoneIsNoCall, IdleIsACall
<1>1. StateType /\ PathInv(c) /\ GuardInv(c) /\ DocumentInv(c)
  BY DEF CredentialInv
<1>2. calls[c].at = "write" /\ calls[c] \in CallType
  BY <1>1 DEF WriteDocument, At, StateType
<1>3. /\ p \in Providers /\ file' \in [Providers -> Tokens] /\ torn' \subseteq Providers
      /\ \A q \in Providers \ torn' :
           IF q = p /\ ~calls[c].aborted THEN file'[q] = calls[c].new
           ELSE q \notin torn /\ file'[q] = file[q]
  BY <1>1, WriteEffect
<1>4. UNCHANGED <<record, issued, auth_operations, credential_operations, Catalog>>
  BY DEF WriteDocument, locks, catalog, Catalog
<1>5. PICK s \in CallType :
        /\ calls' = [calls EXCEPT ![c] = s]
        /\ IF calls[c].aborted THEN s = Idle
           ELSE /\ s.at = "saved" /\ s.kind = calls[c].kind /\ s.p = p /\ s.expiring = calls[c].expiring
                /\ s.aborted = calls[c].aborted /\ s.new = calls[c].new /\ s.tok = calls[c].tok
  <2>1. CASE calls[c].aborted
    BY <2>1 DEF WriteDocument
  <2>2. CASE ~calls[c].aborted
    <3> DEFINE s == [calls[c] EXCEPT !.at = "saved"]
    <3>1. s \in CallType
      BY <1>2 DEF CallType
    <3>2. /\ s.at = "saved" /\ s.kind = calls[c].kind /\ s.p = p /\ s.expiring = calls[c].expiring
          /\ s.aborted = calls[c].aborted /\ s.new = calls[c].new /\ s.tok = calls[c].tok
      BY <1>2 DEF CallType
    <3>3. calls' = [calls EXCEPT ![c] = s]
      BY <2>2 DEF WriteDocument, Go
    <3> HIDE DEF s
    <3> QED
      BY <2>2, <3>1, <3>2, <3>3
  <2> QED
    BY <2>1, <2>2
<1>6. Moved(c) /\ calls'[c] = s /\ GuardsKept(c) /\ StateType'
  BY <1>1, <1>3, <1>4, <1>5 DEF StateType, Moved, GuardsKept, Catalog
<1>7. IF calls[c].aborted
      THEN (calls[c].at = "idle" /\ calls[c].kind = "idle" /\ calls[c].new = None
            /\ calls[c].aborted = FALSE /\ calls[c].expiring = FALSE)'
      ELSE (calls[c].at = "saved")' /\ Asks(c)' = Asks(c) /\ calls'[c].p = p /\ calls'[c].aborted = FALSE
           /\ calls'[c].new = calls[c].new
  BY <1>2, <1>5, <1>6 DEF Asks, Idle, CallType
<1>8. OwnInv(c)' /\ DataInv(c)'
  <2>1. CASE calls[c].aborted
    BY <1>7, <2>1
       DEF OwnInv, PathInv, GuardInv, Asks, DataInv, DocumentInv, CapturedInv, RefreshInv, At
  <2>2. CASE ~calls[c].aborted
    BY <1>1, <1>2, <1>3, <1>4, <1>5, <1>6, <2>2
       DEF OwnInv, PathInv, GuardInv, Asks, DataInv, DocumentInv, CapturedInv, RefreshInv, At
  <2> QED
    BY <2>1, <2>2
<1>9. ASSUME NEW d \in Calls  PROVE OwnInv(d)'
  BY <1>6, <1>8, OthersKeep
<1>10. ~At(c, "saved") /\ ~Publishing(c) /\ ~Publishing(c)'
  BY <1>2, <1>7 DEF At, Publishing
<1>11. (\A d \in Calls : SnapshotInv(d)') /\ BehindInv'
  BY <1>4, <1>6, <1>10, CatalogStep
<1>12. ASSUME NEW q \in Providers, q \notin torn'
       PROVE  (q \notin torn /\ file'[q] = file[q]) \/ Unrecorded(q)'
  BY <1>3, <1>7, <1>12 DEF Unrecorded, At
<1>13. \A q : Unrecorded(q) => Unrecorded(q)'
  BY <1>6, <1>10, UnrecordedKept
<1>14. ASSUME NEW d \in Calls \ {c}  PROVE DataInv(d)'
  <2>1. /\ DocumentInv(d) /\ CapturedInv(d) /\ RefreshInv(d) /\ PathInv(d) /\ GuardInv(d)
        /\ calls'[d] = calls[d]
    BY <1>6 DEF CredentialInv, Moved
  <2>2. calls[d].kind # "idle" => calls[d].p \in Providers
    BY <2>1 DEF PathInv
  <2>3. ~calls[d].aborted /\ calls[d].at \in {"read", "write"} => calls[c].aborted
    BY <1>2, OneStores
  <2>4. calls[c].aborted => \A q \in Providers \ torn' : q \notin torn /\ file'[q] = file[q]
    BY <1>3
  <2>5. DocumentInv(d)'
    BY <2>1, <2>3, <2>4 DEF DocumentInv, At
  <2>6. CapturedInv(d)'
    <3>1. Asks(d) = "chat" => ~calls[d].aborted
      BY <2>1 DEF PathInv, Asks
    <3>2. Asks(d) \in {"chat", "list", "search"} => calls[d].p \in Providers
      BY <2>2 DEF Asks
    <3> QED
      BY <1>4, <1>12, <1>13, <2>1, <2>3, <2>4, <3>1, <3>2 DEF CapturedInv, Asks
  <2>7. RefreshInv(d)'
    <3>1. ASSUME Asks(d) = "refresh", calls[d].at \in {"sending", "asked", "answered", "store", "read", "write"},
                 calls[d].tok # None, calls[d].p \notin torn'
          PROVE  file'[calls[d].p] # None
      <4>1. calls[d].p \in Providers /\ ~calls[d].aborted
        BY <2>1, <2>2, <3>1 DEF PathInv, Asks
      <4>2. CASE calls[d].p \notin torn /\ file'[calls[d].p] = file[calls[d].p]
        BY <2>1, <3>1, <4>2 DEF RefreshInv
      <4>3. CASE calls[d].p = p /\ ~calls[c].aborted /\ file'[calls[d].p] = calls[c].new
        <5>1. calls[c].new = None => Asks(c) = "logout"
          BY <1>1, <1>2 DEF PathInv
        <5>2. Asks(c) = "logout" => auth_operations[p] = c
          BY <1>1, <1>2, <4>3 DEF GuardInv
        <5>3. auth_operations[p] = d
          BY <2>1, <3>1, <4>1, <4>3 DEF GuardInv
        <5> QED
          BY <4>3, <5>1, <5>2, <5>3
      <4> QED
        BY <1>3, <3>1, <4>1, <4>2, <4>3
    <3> QED
      BY <2>1, <3>1 DEF RefreshInv, Asks
  <2> QED
    BY <2>5, <2>6, <2>7 DEF DataInv
<1>15. ASSUME NEW q \in Providers  PROVE RecordInv(q)'
  <2>1. SUFFICES ASSUME q \notin torn'
                 PROVE  /\ file'[q] # None =>
                             record[q].present \/ \E d \in Calls : (At(d, "saved") /\ calls[d].p = q
                                                                     /\ Asks(d) # "logout")'
                        /\ \A d \in Calls : (At(d, "saved") /\ calls[d].p = q /\ Asks(d) = "logout")'
                                            => file'[q] = None
    BY <1>4 DEF RecordInv
  <2>2. RecordInv(q)
    BY DEF CredentialInv
  <2>3. \A d \in Calls \ {c} : calls'[d] = calls[d] /\ (At(d, "saved"))' = At(d, "saved")
                               /\ Asks(d)' = Asks(d)
    BY <1>6 DEF Moved, At, Asks
  <2>4. \A d \in Calls : At(d, "saved") => d # c
    BY <1>10
  <2>5. CASE q = p /\ ~calls[c].aborted /\ file'[q] = calls[c].new
    <3>1. \A d \in Calls : At(d, "saved") => calls[d].aborted
      BY <1>2, <2>4, <2>5, OneStores DEF At
    <3>2. \A d \in Calls : ~At(d, "saved")
      <4>1. \A d \in Calls : PathInv(d)
        BY DEF CredentialInv
      <4> QED
        BY <3>1, <4>1 DEF PathInv, At
    <3>3. calls[c].new # None => Asks(c) # "logout"
      BY <1>1 DEF PathInv
    <3> QED
      BY <1>7, <2>3, <2>5, <3>2, <3>3 DEF At
  <2>6. CASE q \notin torn /\ file'[q] = file[q] /\ ~(q = p /\ ~calls[c].aborted)
    <3>1. ~(At(c, "saved") /\ calls[c].p = q)'
      BY <1>7, <2>6 DEF At
    <3> QED
      BY <2>2, <2>3, <2>4, <2>6, <3>1 DEF RecordInv
  <2> QED
    BY <1>3, <2>1, <2>5, <2>6
<1>16. ASSUME NEW q \in Providers  PROVE CatalogInv(q)'
  <2>1. CatalogInv(q) /\ UNCHANGED <<record, cache, epochs>>
    BY <1>4 DEF CredentialInv, Catalog
  <2> QED
    BY <1>12, <1>13, <2>1 DEF CatalogInv
<1> QED
  BY <1>6, <1>8, <1>9, <1>11, <1>14, <1>15, <1>16 DEF CredentialInv, OwnInv, DataInv

\* A call that publishes the catalogs has stored and recorded what it had to.
LEMMA PublishStep ==
  ASSUME CredentialInv, NEW c \in Calls, Publishing(c), NEW s \in CallType,
         calls' = [calls EXCEPT ![c] = s],
         \/ s = Idle
         \/ /\ s.at \in {"persist", "compare", "done"} /\ (s.at = "done" => s.aborted = FALSE)
            /\ s.kind = calls[c].kind /\ s.p = calls[c].p /\ s.expiring = calls[c].expiring
            /\ s.new = calls[c].new /\ s.tok = calls[c].tok
            /\ \/ s.aborted = calls[c].aborted
               \/ s.aborted = TRUE /\ s.kind \in {"complete", "none"},
         GuardsKept(c), credential_operations' = credential_operations \/ s.aborted = TRUE \/ s = Idle,
         auth_operations' = auth_operations \/ s.aborted = TRUE \/ s = Idle,
         StateType', UNCHANGED <<Stored, cache, epochs>>
  PROVE  /\ \A d \in Calls : (OwnInv(d) /\ DataInv(d))'
         /\ \A p \in Providers : RecordInv(p)' /\ CatalogInv(p)'
         /\ Moved(c) /\ calls'[c] = s
<1>1. StateType /\ PathInv(c) /\ GuardInv(c)
  BY DEF CredentialInv
<1>2. Moved(c) /\ calls'[c] = s
  BY <1>1 DEF StateType, Moved
<1>3. calls[c].at \in {"persist", "compare"} /\ calls[c] \in CallType
  BY <1>1 DEF Publishing, StateType
<1>4. ASSUME s = Idle  PROVE OwnInv(c)' /\ DataInv(c)' /\ ~At(c, "saved")'
  <2>1. (calls[c].at = "idle" /\ calls[c].kind = "idle" /\ calls[c].new = None
         /\ calls[c].aborted = FALSE /\ calls[c].expiring = FALSE)'
    BY <1>2, <1>4 DEF Idle
  <2>2. OwnInv(c)' /\ DataInv(c)' /\ ~At(c, "saved")'
    BY <2>1 DEF OwnInv, PathInv, GuardInv, Asks, DataInv, DocumentInv, CapturedInv, RefreshInv, At
  <2> QED
    BY <2>2
<1>5. ASSUME s # Idle  PROVE OwnInv(c)' /\ DataInv(c)' /\ ~At(c, "saved")'
  <2>1. calls'[c].at \in {"persist", "compare", "done"}
    BY <1>2, <1>5
  <2>2. PathInv(c)'
    BY <1>1, <1>2, <1>3, <1>5 DEF PathInv, Asks
  <2>3. GuardInv(c)'
    BY <1>1, <1>2, <1>3, <1>5 DEF GuardInv, Asks, CallType
  <2>4. DataInv(c)' /\ ~At(c, "saved")'
    BY <2>1 DEF DataInv, DocumentInv, CapturedInv, RefreshInv, At
  <2> QED
    BY <2>2, <2>3, <2>4 DEF OwnInv
<1>6. OwnInv(c)' /\ DataInv(c)' /\ ~At(c, "saved")' /\ ~At(c, "saved")
  BY <1>3, <1>4, <1>5 DEF At
<1>7. /\ \A d \in Calls : (OwnInv(d) /\ DataInv(d))'
      /\ \A p \in Providers : RecordInv(p)' /\ (Unrecorded(p) => Unrecorded(p)')
  BY <1>2, <1>6, StoredStep
<1>8. ASSUME NEW p \in Providers  PROVE CatalogInv(p)'
  <2>1. CatalogInv(p) /\ UNCHANGED <<file, record, torn, cache, epochs>>
    BY DEF CredentialInv, Stored
  <2> QED
    BY <1>7, <2>1 DEF CatalogInv
<1> QED
  BY <1>2, <1>7, <1>8

\* A write of the catalogs that worked has the present ones, or its caller will see
\* that they changed.
LEMMA PersistKeeps ==
  ASSUME CredentialInv, NEW c \in Calls, PersistCatalogs(c)
  PROVE  CredentialInv'
<1>1. StateType /\ PathInv(c) /\ SnapshotInv(c)
  BY DEF CredentialInv
<1>2. calls[c].at = "persist" /\ calls[c] \in CallType /\ Publishing(c)
      /\ UNCHANGED <<file, record, torn, issued, auth_operations, credential_operations,
                     cache, epochs, generation>>
  BY <1>1 DEF PersistCatalogs, At, Publishing, StateType, locks, catalog
<1>3. calls[c].write \in Snapshots /\ Written(c) \in CatalogFiles
  BY <1>1, <1>2 DEF SnapshotInv, Snapshots, Written
<1>4. models_file' \in CatalogFiles /\ unsaved' \in BOOLEAN
  BY <1>1, <1>3 DEF PersistCatalogs, StateType
<1>5. PICK s \in CallType :
        /\ calls' = [calls EXCEPT ![c] = s]
        /\ \/ s = Idle /\ unsaved' = TRUE
           \/ /\ s.kind = calls[c].kind /\ s.p = calls[c].p /\ s.expiring = calls[c].expiring
              /\ s.aborted = calls[c].aborted /\ s.new = calls[c].new /\ s.tok = calls[c].tok
              /\ s.write = calls[c].write
              /\ \/ s.at = "compare" /\ models_file' = Written(c)
                 \/ s.at = "done" /\ s.aborted = FALSE /\ unsaved' = TRUE
  <2>1. ASSUME NEW place \in {"compare", "done"}
        PROVE  LET s == [calls[c] EXCEPT !.at = place] IN
               /\ s \in CallType /\ s.at = place
               /\ s.kind = calls[c].kind /\ s.p = calls[c].p /\ s.expiring = calls[c].expiring
               /\ s.aborted = calls[c].aborted /\ s.new = calls[c].new /\ s.tok = calls[c].tok
               /\ s.write = calls[c].write
    BY <1>2 DEF CallType
  <2>2. calls[c].aborted \in BOOLEAN
    BY <1>2 DEF CallType
  <2>3. CASE models_file' = Written(c) /\ Go(c, "compare")
    BY <2>1, <2>3 DEF Go
  <2>4. CASE unsaved' = TRUE /\ Finished(c) /\ calls[c].aborted
    BY <2>4, IdleIsACall DEF Finished
  <2>5. CASE unsaved' = TRUE /\ Finished(c) /\ ~calls[c].aborted
    BY <2>1, <2>2, <2>5 DEF Finished, Go
  <2> QED
    BY <2>3, <2>4, <2>5 DEF PersistCatalogs
<1>6. StateType' /\ GuardsKept(c)
  BY <1>1, <1>2, <1>4, <1>5 DEF StateType, GuardsKept
<1>7. /\ \A d \in Calls : (OwnInv(d) /\ DataInv(d))'
      /\ \A p \in Providers : RecordInv(p)' /\ CatalogInv(p)'
      /\ Moved(c) /\ calls'[c] = s
  BY <1>2, <1>5, <1>6, PublishStep DEF Stored
<1>8. ASSUME NEW d \in Calls  PROVE SnapshotInv(d)'
  <2>1. CASE d = c
    BY <1>1, <1>2, <1>5, <1>7, <2>1 DEF SnapshotInv, Written, Idle
  <2>2. CASE d # c
    BY <1>2, <1>7, <2>2 DEF CredentialInv, SnapshotInv, Written, Moved
  <2> QED
    BY <2>1, <2>2
<1>9. BehindInv'
  <2>1. CASE unsaved' = TRUE
    BY <2>1 DEF BehindInv
  <2>2. CASE s.at = "compare" /\ models_file' = Written(c) /\ s.write = calls[c].write
    BY <1>1, <1>2, <1>7, <2>2 DEF BehindInv, SnapshotInv, At
  <2> QED
    BY <1>5, <2>1, <2>2
<1> QED
  BY <1>6, <1>7, <1>8, <1>9 DEF CredentialInv, OwnInv, DataInv

\* A call that sees the catalogs changed writes again.
LEMMA CompareKeeps ==
  ASSUME CredentialInv, NEW c \in Calls, CompareGeneration(c)
  PROVE  CredentialInv'
<1>1. StateType /\ PathInv(c) /\ SnapshotInv(c)
  BY DEF CredentialInv
<1>2. calls[c].at = "compare" /\ calls[c] \in CallType /\ Publishing(c)
      /\ UNCHANGED <<file, record, torn, issued, auth_operations, credential_operations,
                     cache, epochs, generation, models_file, unsaved>>
  BY <1>1 DEF CompareGeneration, At, Publishing, StateType, locks, catalog
<1> DEFINE same == calls[c].write.generation = generation
           now == [generation |-> generation, file |-> cache]
<1>3. now \in Snapshots
  BY <1>1 DEF StateType, Snapshots
<1>4. now.generation = generation /\ now.file = cache
  OBVIOUS
<1>5. CASE same
  <2>1. PICK s \in CallType :
          /\ calls' = [calls EXCEPT ![c] = s]
          /\ \/ s = Idle
             \/ /\ s.kind = calls[c].kind /\ s.p = calls[c].p /\ s.expiring = calls[c].expiring
                /\ s.aborted = calls[c].aborted /\ s.new = calls[c].new /\ s.tok = calls[c].tok
                /\ s.at = "done" /\ s.aborted = FALSE
    <3> DEFINE s == [calls[c] EXCEPT !.at = "done"]
    <3>1. s \in CallType
      BY <1>2 DEF CallType
    <3>2. /\ s.kind = calls[c].kind /\ s.p = calls[c].p /\ s.expiring = calls[c].expiring
          /\ s.aborted = calls[c].aborted /\ s.new = calls[c].new /\ s.tok = calls[c].tok
          /\ s.at = "done" /\ s.aborted \in BOOLEAN
      BY <1>2 DEF CallType
    <3>3. Finished(c)
      BY <1>5 DEF CompareGeneration
    <3>4. CASE calls[c].aborted
      BY <3>3, <3>4, IdleIsACall DEF Finished
    <3>5. CASE ~calls[c].aborted
      <4>1. calls' = [calls EXCEPT ![c] = s]
        BY <3>3, <3>5 DEF Finished, Go
      <4> HIDE DEF s
      <4> QED
        BY <3>1, <3>2, <3>5, <4>1
    <3> QED
      BY <3>4, <3>5
  <2>2. StateType' /\ GuardsKept(c)
    BY <1>1, <1>2, <2>1 DEF StateType, GuardsKept
  <2>3. /\ \A d \in Calls : (OwnInv(d) /\ DataInv(d))'
        /\ \A p \in Providers : RecordInv(p)' /\ CatalogInv(p)'
        /\ Moved(c) /\ calls'[c] = s
    BY <1>2, <2>1, <2>2, PublishStep DEF Stored
  <2>4. s.at \in {"idle", "done"}
    BY <2>1 DEF Idle
  <2>5. ASSUME NEW d \in Calls  PROVE SnapshotInv(d)'
    <3>1. CASE d = c
      BY <2>3, <2>4, <3>1 DEF SnapshotInv
    <3>2. CASE d # c
      BY <1>2, <2>3, <3>2 DEF CredentialInv, SnapshotInv, Written, Moved
    <3> QED
      BY <3>1, <3>2
  <2>6. BehindInv'
    <3>1. BehindInv
      BY DEF CredentialInv
    <3>2. \A d \in Calls \ {c} : calls'[d] = calls[d]
      BY <2>3 DEF Moved
    <3> QED
      BY <1>2, <1>5, <3>1, <3>2 DEF BehindInv, At
  <2> QED
    BY <2>2, <2>3, <2>5, <2>6 DEF CredentialInv, OwnInv, DataInv
<1>6. CASE ~same
  <2> HIDE DEF now
  <2> DEFINE s == [calls[c] EXCEPT !.at = "persist", !.write = now]
  <2>1. calls' = [calls EXCEPT ![c] = s]
    BY <1>6 DEF CompareGeneration, now
  <2>2. s \in CallType
    BY <1>2, <1>3 DEF CallType
  <2>3. /\ s.kind = calls[c].kind /\ s.p = calls[c].p /\ s.expiring = calls[c].expiring
        /\ s.aborted = calls[c].aborted /\ s.new = calls[c].new /\ s.tok = calls[c].tok
        /\ s.at = "persist" /\ s.write = now
    BY <1>2 DEF CallType
  <2> HIDE DEF s
  <2>4. StateType' /\ GuardsKept(c)
    BY <1>1, <1>2, <2>1, <2>2 DEF StateType, GuardsKept
  <2>5. /\ \A d \in Calls : (OwnInv(d) /\ DataInv(d))'
        /\ \A p \in Providers : RecordInv(p)' /\ CatalogInv(p)'
        /\ Moved(c) /\ calls'[c] = s
    BY <1>2, <2>1, <2>2, <2>3, <2>4, PublishStep DEF Stored
  <2>6. ASSUME NEW d \in Calls  PROVE SnapshotInv(d)'
    <3>1. CASE d = c
      BY <1>1, <1>2, <1>3, <1>4, <2>3, <2>5, <3>1 DEF SnapshotInv, Written, StateType
    <3>2. CASE d # c
      BY <1>2, <2>5, <3>2 DEF CredentialInv, SnapshotInv, Written, Moved
    <3> QED
      BY <3>1, <3>2
  <2>7. BehindInv'
    BY <2>3, <2>5 DEF BehindInv, At
  <2> QED
    BY <2>4, <2>5, <2>6, <2>7 DEF CredentialInv, OwnInv, DataInv
<1> QED
  BY <1>5, <1>6

\* Whoever drops its guards takes nobody else's.
LEMMA ReleaseEffect ==
  ASSUME StateType, NEW c \in Calls, ReleaseAll(c)
  PROVE  /\ GuardsKept(c) /\ auth_operations' \in [Providers -> Calls \cup {None}]
         /\ credential_operations' \in Calls \cup {None}
BY DEF StateType, ReleaseAll, Dropped, GuardsKept

\* The job an aborted login waited for goes on without its guards.
LEMMA AbortedJobKeeps ==
  ASSUME CredentialInv, NEW c \in Calls, Abort(c), calls[c].at \in {"read", "write", "persist", "compare"}
  PROVE  CredentialInv'
<1>1. StateType /\ PathInv(c) /\ DataInv(c) /\ SnapshotInv(c)
  BY DEF CredentialInv, DataInv
<1>2. /\ calls[c] \in CallType /\ calls[c].kind \in {"complete", "none"}
      /\ ReleaseAll(c) /\ UNCHANGED <<Stored, Catalog, issued>>
  BY <1>1 DEF Abort, StateType, Stored, Catalog, catalog, At
<1> DEFINE s == [calls[c] EXCEPT !.aborted = TRUE]
<1>3. calls' = [calls EXCEPT ![c] = s]
  BY <1>1 DEF Abort, StateType
<1>4. s \in CallType
  BY <1>2 DEF CallType
<1>5. /\ s.kind = calls[c].kind /\ s.p = calls[c].p /\ s.at = calls[c].at /\ s.aborted = TRUE
      /\ s.expiring = calls[c].expiring /\ s.new = calls[c].new /\ s.tok = calls[c].tok
      /\ s.write = calls[c].write /\ s.doc = calls[c].doc
  BY <1>2 DEF CallType
<1> HIDE DEF s
<1>6. Moved(c) /\ calls'[c] = s
  BY <1>1, <1>3, <1>4 DEF StateType, Moved
<1>7. GuardsKept(c) /\ StateType'
  BY <1>1, <1>2, <1>6, ReleaseEffect DEF StateType, Moved, Stored, Catalog
<1>8. OwnInv(c)'
  BY <1>1, <1>2, <1>5, <1>6 DEF OwnInv, PathInv, GuardInv, Asks
<1>9. DataInv(c)'
  BY <1>1, <1>2, <1>5, <1>6 DEF DataInv, DocumentInv, CapturedInv, RefreshInv, PathInv, Asks, At
<1>10. ~At(c, "saved") /\ ~At(c, "saved")'
  BY <1>5, <1>6 DEF At
<1>11. /\ \A d \in Calls : (OwnInv(d) /\ DataInv(d))'
       /\ \A p \in Providers : RecordInv(p)' /\ (Unrecorded(p) => Unrecorded(p)')
  BY <1>2, <1>6, <1>7, <1>8, <1>9, <1>10, StoredStep
<1>12. ASSUME NEW p \in Providers  PROVE CatalogInv(p)'
  <2>1. CatalogInv(p) /\ UNCHANGED <<file, record, torn, cache, epochs>>
    BY <1>2 DEF CredentialInv, Stored, Catalog
  <2> QED
    BY <1>11, <2>1 DEF CatalogInv
<1>13. ASSUME NEW d \in Calls
       PROVE  /\ SnapshotInv(d)'
              /\ calls'[d].at = calls[d].at /\ calls'[d].write = calls[d].write
  <2>1. calls'[d].at = calls[d].at /\ calls'[d].write = calls[d].write
    BY <1>5, <1>6 DEF Moved
  <2> QED
    BY <1>2, <2>1 DEF CredentialInv, SnapshotInv, Written, Catalog
<1>14. BehindInv'
  BY <1>2, <1>13 DEF CredentialInv, BehindInv, At, Catalog
<1> QED
  BY <1>7, <1>11, <1>12, <1>13, <1>14 DEF CredentialInv, OwnInv, DataInv

\* A login that is aborted between its save and the record leaves its credential torn.
LEMMA AbortedSaveKeeps ==
  ASSUME CredentialInv, NEW c \in Calls, Abort(c), At(c, "saved"), NEW p, p = calls[c].p
  PROVE  CredentialInv'
<1> USE IdleIsACall
<1>1. StateType /\ PathInv(c)
  BY DEF CredentialInv
<1>2. /\ ReleaseAll(c) /\ UNCHANGED <<file, record, Catalog, issued>>
      /\ torn' = torn \cup {p} /\ p \in Providers /\ calls[c].at = "saved"
  BY <1>1 DEF Abort, Catalog, catalog, At, PathInv
<1>3. calls' = [calls EXCEPT ![c] = Idle]
  BY <1>1, <1>2 DEF Abort, StateType
<1>4. Moved(c) /\ calls'[c] = Idle
  BY <1>1, <1>3 DEF StateType, Moved
<1>5. GuardsKept(c) /\ StateType'
  BY <1>1, <1>2, <1>4, ReleaseEffect DEF StateType, Moved, Catalog
<1>6. (calls[c].at = "idle" /\ calls[c].kind = "idle" /\ calls[c].new = None
       /\ calls[c].aborted = FALSE /\ calls[c].expiring = FALSE)'
  BY <1>4 DEF Idle
<1>7. OwnInv(c)' /\ DataInv(c)' /\ ~At(c, "saved")'
  BY <1>6 DEF OwnInv, PathInv, GuardInv, Asks, DataInv, DocumentInv, CapturedInv, RefreshInv, At
<1>8. ASSUME NEW d \in Calls  PROVE OwnInv(d)'
  BY <1>4, <1>5, <1>7, OthersKeep
<1>9. \A d \in Calls \ {c} : calls'[d] = calls[d] /\ (At(d, "saved"))' = At(d, "saved") /\ Asks(d)' = Asks(d)
  BY <1>4 DEF Moved, At, Asks
<1>10. ASSUME NEW q, q # p, Unrecorded(q)  PROVE Unrecorded(q)'
  BY <1>9, <1>10 DEF Unrecorded
<1>11. \A q : q \notin torn' => q \notin torn /\ q # p
  BY <1>2
<1>12. ASSUME NEW d \in Calls \ {c}  PROVE DataInv(d)'
  <2>1. DocumentInv(d) /\ CapturedInv(d) /\ RefreshInv(d) /\ calls'[d] = calls[d]
    BY <1>9 DEF CredentialInv
  <2>2. DocumentInv(d)' /\ RefreshInv(d)'
    BY <1>2, <1>9, <1>11, <2>1 DEF DocumentInv, RefreshInv, At
  <2>3. CapturedInv(d)'
    BY <1>2, <1>9, <1>10, <1>11, <2>1 DEF CapturedInv
  <2> QED
    BY <2>2, <2>3 DEF DataInv
<1>13. ASSUME NEW q \in Providers  PROVE RecordInv(q)'
  <2>1. RecordInv(q)
    BY DEF CredentialInv
  <2> QED
    BY <1>2, <1>7, <1>9, <1>11, <2>1 DEF RecordInv
<1>14. ASSUME NEW q \in Providers  PROVE CatalogInv(q)'
  <2>1. CatalogInv(q) /\ UNCHANGED <<file, record, cache, epochs>>
    BY <1>2 DEF CredentialInv, Catalog
  <2> QED
    BY <1>10, <1>11, <2>1 DEF CatalogInv
<1>15. ~Publishing(c) /\ ~Publishing(c)'
  BY <1>2, <1>6 DEF Publishing
<1>16. (\A d \in Calls : SnapshotInv(d)') /\ BehindInv'
  BY <1>2, <1>4, <1>15, CatalogStep
<1> QED
  BY <1>5, <1>7, <1>8, <1>12, <1>13, <1>14, <1>16 DEF CredentialInv, OwnInv, DataInv

\* A login that is aborted anywhere leaves its job, a torn credential, or nothing.
LEMMA AbortKeeps ==
  ASSUME CredentialInv, NEW c \in Calls, Abort(c)
  PROVE  CredentialInv'
<1>1. CASE calls[c].at \in {"read", "write", "persist", "compare"}
  BY <1>1, AbortedJobKeeps
<1>2. CASE At(c, "saved")
  BY <1>2, AbortedSaveKeeps
<1>3. CASE calls[c].at \notin {"read", "write", "persist", "compare", "saved"}
  <2>1. StateType /\ PathInv(c)
    BY DEF CredentialInv
  <2>2. Return(c)
    BY <1>3, <2>1 DEF Abort, Return, StateType
  <2>3. calls[c].at # "idle" /\ UNCHANGED <<issued, Stored, Catalog>>
    BY <1>3, <2>1 DEF Abort, PathInv, At, Stored, Catalog, catalog
  <2> QED
    BY <1>3, <2>2, <2>3, LeavingStep DEF At, Publishing
<1> QED
  BY <1>1, <1>2, <1>3 DEF At

\* After a restart the files are all there is, and they agree with what is read from
\* them.
LEMMA RestartKeeps ==
  ASSUME CredentialInv, Restart
  PROVE  CredentialInv'
<1> USE IdleIsACall
<1>1. StateType
  BY DEF CredentialInv
<1>2. /\ calls' = [c \in Calls |-> Idle] /\ record' = [p \in Providers |-> [present |-> file[p] # None, epoch |-> 0]]
      /\ cache' = models_file /\ epochs' = [p \in Providers |-> None] /\ UNCHANGED <<file, models_file>>
  BY DEF Restart, NoCatalog
<1>3. StateType'
  BY <1>1 DEF Restart, StateType, NoCatalog
<1>4. \A c \in Calls : (calls[c].at = "idle" /\ calls[c].kind = "idle" /\ calls[c].new = None
                        /\ calls[c].aborted = FALSE /\ calls[c].expiring = FALSE)'
  BY <1>2 DEF Idle
<1>5. ASSUME NEW c \in Calls  PROVE (OwnInv(c) /\ DataInv(c) /\ SnapshotInv(c))'
  BY <1>4
     DEF OwnInv, PathInv, GuardInv, Asks, DataInv, DocumentInv, CapturedInv, RefreshInv, At,
         SnapshotInv
<1>6. ASSUME NEW p \in Providers  PROVE (RecordInv(p) /\ CatalogInv(p))'
  BY <1>2, <1>4 DEF RecordInv, CatalogInv, At
<1>7. BehindInv'
  BY <1>2 DEF BehindInv
<1> QED
  BY <1>3, <1>5, <1>6, <1>7 DEF CredentialInv, OwnInv, DataInv

----------------------------------------------------------------------------
(***************************************************************************)
(* The credentials: every step, and what follows                           *)
(***************************************************************************)

\* What the core starts with satisfies the invariant: it has read the files.
LEMMA CredentialInitially ==
  ASSUME CredentialInit
  PROVE  CredentialInv
<1> USE IdleIsACall, CredentialAssumption
<1>1. /\ calls = [c \in Calls |-> Idle] /\ record = [p \in Providers |-> [present |-> file[p] # None, epoch |-> 0]]
      /\ cache = models_file /\ epochs = [p \in Providers |-> None] /\ file \in [Providers -> {None, 1}]
  BY DEF CredentialInit, NoCatalog
<1>2. file \in [Providers -> Tokens]
  BY <1>1 DEF Tokens
<1>3. models_file \in CatalogFiles
  <2>1. ASSUME NEW p \in Providers, file[p] # None  PROVE [tok |-> file[p], fresh |-> FALSE] \in Catalogs
    BY <1>1, <2>1 DEF Catalogs
  <2>2. models_file = [p \in Providers |-> IF file[p] = None THEN None
                                           ELSE [tok |-> file[p], fresh |-> FALSE]]
    BY DEF CredentialInit
  <2> QED
    BY <2>1, <2>2 DEF CatalogFiles
<1>4. StateType
  <2>1. issued \in [Providers -> 1..MaxTokens]
    BY DEF CredentialInit
  <2>2. record \in [Providers -> [present : BOOLEAN, epoch : Nat]]
    BY <1>1
  <2> QED
    <3>1. calls \in [Calls -> CallType]
      BY <1>1
    <3>2. auth_operations \in [Providers -> Calls \cup {None}] /\ epochs \in [Providers -> Nat \cup {None}]
      BY <1>1 DEF CredentialInit
    <3>3. credential_operations = None /\ generation = 0 /\ torn = {} /\ unsaved = FALSE
      BY DEF CredentialInit
    <3> QED
      BY <1>1, <1>2, <1>3, <2>1, <2>2, <3>1, <3>2, <3>3 DEF StateType
<1>5. \A c \in Calls : calls[c].at = "idle" /\ calls[c].kind = "idle" /\ calls[c].new = None
                       /\ calls[c].aborted = FALSE /\ calls[c].expiring = FALSE
  BY <1>1 DEF Idle
<1>6. ASSUME NEW c \in Calls  PROVE OwnInv(c) /\ DataInv(c) /\ SnapshotInv(c)
  BY <1>5
     DEF OwnInv, PathInv, GuardInv, Asks, DataInv, DocumentInv, CapturedInv, RefreshInv, At,
         SnapshotInv
<1>7. ASSUME NEW p \in Providers  PROVE RecordInv(p) /\ CatalogInv(p)
  BY <1>1, <1>5 DEF RecordInv, CatalogInv, At
<1>8. BehindInv
  BY <1>1 DEF BehindInv
<1> QED
  BY <1>4, <1>6, <1>7, <1>8 DEF CredentialInv, OwnInv, DataInv

\* Every step of a call keeps the invariant.
LEMMA CallStepKeeps ==
  ASSUME CredentialInv, NEW c \in Calls, CallStep(c)
  PROVE  CredentialInv'
<1>1. CASE \/ LockAuth(c) \/ CheckExpiry(c) \/ LockRefresh(c) \/ Capture(c)
           \/ LoadCredentials(c) \/ SendRequest(c) \/ Serve(c)
  BY <1>1, LockAuthKeeps, CheckExpiryKeeps, LockRefreshKeeps, CaptureKeeps, LoadCredentialsKeeps,
     SendRequestKeeps, ServeKeeps
<1>2. CASE Fail(c) \/ StoreFails(c) \/ FinishStore(c)
  BY <1>2, EndKeeps
<1>3. CASE Answer(c)
  BY <1>3, NoneFlowKeeps, AnswerKeeps
<1>4. CASE LockStore(c)
  BY <1>4, LockFileKeeps, StageKeeps
<1>5. CASE ReadDocument(c) \/ WriteDocument(c) \/ RecordStored(c)
  BY <1>5, ReadDocumentKeeps, WriteKeeps, RecordStoredKeeps
<1>6. CASE PersistCatalogs(c) \/ CompareGeneration(c)
  BY <1>6, PersistKeeps, CompareKeeps
<1> QED
  BY <1>1, <1>2, <1>3, <1>4, <1>5, <1>6 DEF CallStep

\* Nothing of the invariant is about anything but the variables of the credentials.
LEMMA CredentialStutter ==
  ASSUME CredentialInv, UNCHANGED credentialVars
  PROVE  CredentialInv'
<1>1. UNCHANGED <<file, issued, record, auth_operations, credential_operations, cache, models_file,
                  epochs, generation, calls, torn, unsaved>>
  BY DEF credentialVars, locks, catalog
<1>2. \A c \in Calls : (PathInv(c) /\ GuardInv(c))'
  BY <1>1 DEF CredentialInv, PathInv, GuardInv, Asks
<1>3. \A p : Unrecorded(p)' = Unrecorded(p)
  BY <1>1 DEF Unrecorded, At
<1>4. \A c \in Calls : (DocumentInv(c) /\ CapturedInv(c) /\ RefreshInv(c))'
  BY <1>1, <1>3 DEF CredentialInv, DocumentInv, CapturedInv, RefreshInv, Asks, At
<1>5. \A p \in Providers : (RecordInv(p) /\ CatalogInv(p))'
  BY <1>1, <1>3 DEF CredentialInv, RecordInv, CatalogInv, Asks, At
<1>6. (\A c \in Calls : SnapshotInv(c)') /\ BehindInv'
  BY <1>1 DEF CredentialInv, SnapshotInv, BehindInv, Written, At
<1>7. StateType'
  BY <1>1 DEF CredentialInv, StateType
<1> QED
  BY <1>2, <1>4, <1>5, <1>6, <1>7 DEF CredentialInv

\* Every step, of a call, of its client or of the machine, keeps the invariant.
LEMMA CredentialStep ==
  ASSUME CredentialInv, CredentialNext \/ UNCHANGED credentialVars
  PROVE  CredentialInv'
BY BeginKeeps, CallStepKeeps, AbortKeeps, RestartKeeps, CredentialStutter DEF CredentialNext

\* The invariant says what the run checks: when nobody is on the way to record or to
\* write, what is kept agrees.
LEMMA CredentialsAgree ==
  ASSUME CredentialInv
  PROVE  AccountAgrees
<1>1. StateType
  BY DEF CredentialInv
<1>2. CredentialTypeOK
  BY <1>1 DEF CredentialTypeOK, StateType, CallType, Tokens, CatalogFiles
<1>3. RecordFollowsFile
  <2>1. ASSUME NEW p \in Providers, Running(p) = {}, p \notin torn, file[p] # None
        PROVE  record[p].present
    <3>1. RecordInv(p) /\ \A c \in Calls : PathInv(c)
      BY DEF CredentialInv
    <3>2. \A c \in Calls : At(c, "saved") => calls[c].p # p
      BY <2>1, <3>1 DEF Running, PathInv, At
    <3> QED
      BY <2>1, <3>1, <3>2 DEF RecordInv
  <2> QED
    BY <2>1 DEF RecordFollowsFile
<1>4. CatalogOfThisCredential
  <2>1. ASSUME NEW p \in Providers, MutationFree, epochs[p] # None, NoOrphan
        PROVE  cache[p].tok = (IF file[p] = None THEN 0 ELSE file[p])
    BY <2>1, AllIsRecorded DEF CredentialInv, CatalogInv, NoOrphan
  <2> QED
    BY <2>1 DEF CatalogOfThisCredential, MutationFree
<1>5. CatalogFileSettles
  BY DEF CatalogFileSettles, CredentialInv, BehindInv, At
<1> QED
  BY <1>2, <1>3, <1>4, <1>5 DEF AccountAgrees

\* A save: what it stores and what it leaves alone.
LEMMA SaveStands ==
  ASSUME CredentialInv, NEW c \in Calls, Writes(c), CredentialNext
  PROVE  /\ Asks(c) = "chat" /\ torn = {} => file[calls[c].p] = calls[c].tok
         /\ file[calls[c].p] = None /\ calls[c].new # None
              => Asks(c) \in {"complete", "usage"} \/ calls[c].p \in torn
         /\ NoOrphan => \A q \in Providers \ {calls[c].p} : file'[q] = file[q]
<1>1. StateType /\ PathInv(c) /\ DocumentInv(c) /\ CapturedInv(c) /\ RefreshInv(c)
  BY DEF CredentialInv
<1>2. calls[c].at = "write" /\ calls[c] \in CallType /\ calls[c].p \in Providers
  BY <1>1 DEF Writes, At, StateType, PathInv
<1>3. Asks(c) = "chat" /\ torn = {} => file[calls[c].p] = calls[c].tok
  BY <1>1, <1>2 DEF CapturedInv
<1>4. file[calls[c].p] = None /\ calls[c].new # None /\ calls[c].p \notin torn
        => Asks(c) \in {"complete", "usage"}
  <2>1. SUFFICES ASSUME file[calls[c].p] = None, calls[c].new # None, calls[c].p \notin torn
                 PROVE  Asks(c) \in {"complete", "usage"}
    OBVIOUS
  <2>2. Asks(c) \notin {"list", "search", "none", "logout"}
    BY <1>1, <1>2, <2>1 DEF PathInv
  <2>3. Asks(c) \in {"refresh", "chat"} => calls[c].tok # None
    BY <1>1, <2>1 DEF PathInv
  <2>4. Asks(c) # "refresh"
    BY <1>1, <1>2, <2>1, <2>3 DEF RefreshInv
  <2>5. Asks(c) # "chat"
    BY <1>1, <1>2, <2>1, <2>3 DEF CapturedInv
  <2>6. Asks(c) \in Kinds
    BY <1>1, <1>2 DEF Asks, CallType, PathInv, Kinds
  <2> QED
    BY <2>2, <2>4, <2>5, <2>6 DEF Kinds
<1>5. ASSUME NoOrphan  PROVE \A q \in Providers \ {calls[c].p} : file'[q] = file[q]
  <2>1. \E d \in Calls : WriteDocument(d)
    BY
       DEF Writes, CredentialNext, CallStep, Begin, Abort, Restart, LockAuth, CheckExpiry,
           LockRefresh,
           Capture, LoadCredentials, SendRequest, Serve, Fail, Answer, LockStore, ReadDocument, StoreFails,
           RecordStored, PersistCatalogs, CompareGeneration, FinishStore
  <2>2. PICK d \in Calls : WriteDocument(d)
    BY <2>1
  <2>3. d = c
    <3>1. calls[d].aborted = FALSE /\ calls' = [calls EXCEPT ![d].at = "saved"]
      BY <1>1, <1>5, <2>2 DEF WriteDocument, NoOrphan, Go, StateType, CallType
    <3> QED
      BY <1>1, <1>2, <3>1 DEF Writes, At, StateType
  <2>4. torn' \subseteq {}
    BY <1>5, <2>2, <2>3 DEF NoOrphan, WriteDocument
  <2> QED
    BY <1>1, <1>5, <2>2, <2>3, <2>4, WriteEffect
<1> QED
  BY <1>3, <1>4, <1>5

----------------------------------------------------------------------------
(***************************************************************************)
(* The theorems                                                            *)
(***************************************************************************)

\* What the core keeps of its providers and of the selection satisfies the invariant
\* in every behaviour, for any number of providers, calls, tokens, models and levels.
THEOREM AccountCorrect == AccountSpec => []AccountInv
<1>1. AccountInit => AccountInv
  BY CredentialInitially, SelectionInitially DEF AccountInit, AccountInv
<1>2. AccountInv /\ [Account \/ Select]_accountVars => AccountInv'
  <2> SUFFICES ASSUME AccountInv, [Account \/ Select]_accountVars
               PROVE  AccountInv'
    OBVIOUS
  <2>1. CredentialNext \/ UNCHANGED credentialVars
    BY DEF Account, Select, accountVars
  <2>2. SelectionNext \/ UNCHANGED selectionVars
    BY DEF Account, Select, accountVars
  <2> QED
    BY <2>1, <2>2, CredentialStep, SelectionStep DEF AccountInv
<1> QED
  BY <1>1, <1>2, PTL DEF AccountSpec

\* Once nothing runs for a provider, its credential is known to the core, a catalog
\* listed in this process belongs to it, and models.json holds what is in memory.
THEOREM AccountAgreesAlways == AccountSpec => []AccountAgrees
<1>1. AccountInv => AccountAgrees
  BY CredentialsAgree DEF AccountInv
<1> QED
  BY <1>1, AccountCorrect, PTL

\* Between selections a part of the profile in memory is the one the configuration
\* holds unless a resumed session wrote it later, and unless a level was selected for
\* such a session's model the configured level is one of the configured model.
THEOREM ConfigIsSelectionAlways == AccountSpec => []ConfigIsSelection
<1>1. AccountInv => ConfigIsSelection
  BY SelectionAgrees DEF AccountInv
<1> QED
  BY <1>1, AccountCorrect, PTL

\* A save changes what it was made for, and only while that still stands.
THEOREM SavesStandAlways == AccountSpec => SavesStand
<1>1. AccountInv /\ [Account \/ Select]_accountVars
      => [/\ \A c \in Calls : Writes(c) /\ Asks(c) = "chat" /\ torn = {}
               => file[calls[c].p] = calls[c].tok \/ restarts' # restarts
          /\ \A c \in Calls : Writes(c) /\ file[calls[c].p] = None /\ calls[c].new # None
               => Asks(c) \in {"complete", "usage"} \/ calls[c].p \in torn
          /\ \A c \in Calls : Writes(c) /\ NoOrphan
               => \A q \in Providers \ {calls[c].p} : file'[q] = file[q]]_credentialVars
  <2> SUFFICES ASSUME AccountInv, [Account \/ Select]_accountVars, ~(UNCHANGED credentialVars)
               PROVE  \A c \in Calls : Writes(c) =>
                        /\ Asks(c) = "chat" /\ torn = {} => file[calls[c].p] = calls[c].tok
                        /\ file[calls[c].p] = None /\ calls[c].new # None
                             => Asks(c) \in {"complete", "usage"} \/ calls[c].p \in torn
                        /\ NoOrphan => \A q \in Providers \ {calls[c].p} : file'[q] = file[q]
    OBVIOUS
  <2>1. CredentialNext
    BY DEF Account, Select, accountVars
  <2> QED
    BY <2>1, SaveStands DEF AccountInv
<1> QED
  BY <1>1, AccountCorrect, PTL
     DEF AccountSpec, SavesStand, LateRotationLoses, LogoutStands, SavesAreIndependent

================================================================================
