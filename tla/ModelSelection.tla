----------------------------- MODULE ModelSelection -----------------------------
(***************************************************************************)
(* The selected model and its thinking level: core/model_selection.rs, the *)
(* checks of core/models.rs, ConfigStore of config.rs, the profile a       *)
(* resumed session brings back, and the profile a submission is run with.  *)
(*                                                                         *)
(* A level belongs to the models that list it (Supports).  The catalog a   *)
(* selection fetches is the provider's current one, which may lack the     *)
(* model.                                                                  *)
(***************************************************************************)
EXTENDS Naturals, FiniteSets

CONSTANTS
  Models,
  Levels,        \* thinking levels
  Supports,      \* the levels of each model; none without the capability
  Selectors,     \* API calls that run at the same time
  MaxSelections, \* bound: selections and resumes one behaviour starts
  NoProfile      \* no model, no level

ASSUME SelectionAssumption ==
  /\ Supports \in [Models -> SUBSET Levels]
  /\ MaxSelections \in Nat
  /\ NoProfile \notin Models \cup Levels \cup Selectors

VARIABLES
  config,             \* config.toml: default_model and default_thinking
  selected_model, selected_thinking,   \* CoreState.selected_*
  model_operations,   \* holder of the lock of that name
  selecting,          \* where each call is, and the profile it selects
  restoring,          \* the profile restore_saved_profile is putting in place
  submitting,         \* the model a submission read and was not enqueued with yet
  queued,             \* the model of the submission that waits for the worker
  sent,               \* the profile of the last chat request
  selections,         \* counter of the bound
  borrowed            \* history: what of the profile a resumed session wrote last

selection == <<selected_model, selected_thinking>>
selectionVars == <<config, selection, model_operations, selecting, restoring, submitting, queued, sent,
                   selections, borrowed>>

Profile(m, level) == [model |-> m, thinking |-> level]
NoSelection == [kind |-> "idle", at |-> "idle", model |-> NoProfile, thinking |-> NoProfile]

\* thinking(): the default is one of the declared levels.
DefaultLevel(m) == IF Supports[m] = {} THEN NoProfile ELSE CHOOSE l \in Supports[m] : TRUE
IsSupported(m, level) == level = NoProfile \/ (m \in Models /\ level \in Supports[m])

\* MisyCore::build starts from what ConfigStore.load read.
SelectionInit ==
  /\ config \in {Profile(NoProfile, NoProfile)} \cup {Profile(m, DefaultLevel(m)) : m \in Models}
  /\ selected_model = config.model /\ selected_thinking = config.thinking
  /\ model_operations = NoProfile
  /\ selecting = [c \in Selectors |-> NoSelection]
  /\ restoring = NoProfile /\ submitting = NoProfile /\ queued = NoProfile /\ sent = NoProfile
  /\ selections = 0 /\ borrowed = {}

Stand(c, place) == selecting' = [selecting EXCEPT ![c].at = place]
EndSelection(c) ==
  /\ selecting' = [selecting EXCEPT ![c] = NoSelection]
  /\ model_operations' = IF model_operations = c THEN NoProfile ELSE model_operations

----------------------------------------------------------------------------
(* select_profile, select_default_model, select_thinking                   *)

StartSelection(c, kind, m, level) ==
  /\ selecting[c].kind = "idle" /\ selections < MaxSelections
  /\ selections' = selections + 1
  /\ selecting' = [selecting EXCEPT ![c] = [kind |-> kind, at |-> "lock", model |-> m, thinking |-> level]]
  /\ UNCHANGED <<config, selection, model_operations, restoring, submitting, queued, sent, borrowed>>

\* select_thinking reads the model it is for under the lock.
LockSelection(c) ==
  /\ selecting[c].at = "lock" /\ model_operations = NoProfile
  /\ IF selecting[c].kind = "thinking" /\ selected_model = NoProfile
     THEN EndSelection(c)
     ELSE /\ model_operations' = c
          /\ selecting' = [selecting EXCEPT ![c].at = "fetch",
               ![c].model = IF selecting[c].kind = "thinking" THEN selected_model ELSE @]
  /\ UNCHANGED <<config, selection, restoring, submitting, queued, sent, selections, borrowed>>

\* The level a selection without one gets: the model's own default.
Chosen(s) == IF s.kind = "profile" /\ s.thinking = NoProfile THEN DefaultLevel(s.model) ELSE s.thinking

FetchCatalog(c) ==
  LET s == selecting[c] IN
  /\ s.at = "fetch"
  /\ \/ EndSelection(c)   \* no catalog, or a model or level it does not list
     \/ \E m \in Models :   \* select_catalog_default, then select_profile
          /\ s.kind = "default"
          /\ model_operations' = NoProfile
          /\ selecting' = [selecting EXCEPT ![c] = [kind |-> "profile", at |-> "lock", model |-> m,
                                                   thinking |-> NoProfile]]
     \/ /\ s.kind # "default" /\ IsSupported(s.model, Chosen(s))
        /\ selecting' = [selecting EXCEPT ![c].at = "save", ![c].thinking = Chosen(s)]
        /\ UNCHANGED model_operations
  /\ UNCHANGED <<config, selection, restoring, submitting, queued, sent, selections, borrowed>>

\* persist_*: the fields of the configuration a selection changes.
ChangedModel(s) ==
  IF s.kind = "thinking" THEN [config EXCEPT !.thinking = s.thinking] ELSE [config EXCEPT !.model = s.model]
Changed(s) ==
  IF s.kind = "thinking" THEN [config EXCEPT !.thinking = s.thinking] ELSE Profile(s.model, s.thinking)

\* A blocking job loads the configuration, changes the profile's fields and
\* saves it.  The compaction before a smaller window, or the file, may fail.
SaveConfig(c) ==
  LET s == selecting[c] IN
  /\ s.at = "save"
  /\ \/ EndSelection(c) /\ UNCHANGED config
     \/ /\ config' = Changed(s)
        /\ Stand(c, IF s.kind = "thinking" THEN "level" ELSE "model")
        /\ UNCHANGED model_operations
  /\ UNCHANGED <<selection, restoring, submitting, queued, sent, selections, borrowed>>

SetModel(c) ==
  /\ selecting[c].at = "model"
  /\ selected_model' = selecting[c].model
  /\ borrowed' = borrowed \ {"model"}
  /\ Stand(c, "level")
  /\ UNCHANGED <<config, selected_thinking, model_operations, restoring, submitting, queued, sent, selections>>

\* A level is written only if there is one.

SetThinking(c) ==
  /\ selecting[c].at = "level"
  /\ selected_thinking' = selecting[c].thinking
  /\ borrowed' = borrowed \ {"thinking"}
  /\ EndSelection(c)
  /\ UNCHANGED <<config, selected_model, restoring, submitting, queued, sent, selections>>

----------------------------------------------------------------------------
(* resume_session: the profile of the session, or the provider's default.   *)
(* It holds the submission queue, not the lock of the selections, and saves *)
(* nothing: the configuration stays as it was.                              *)

RestoreModel(m, level) ==
  /\ restoring = NoProfile /\ queued = NoProfile /\ selections < MaxSelections
  /\ selected_model' = m
  /\ restoring' = Profile(m, IF level # NoProfile /\ level \in Supports[m] THEN level ELSE DefaultLevel(m))
  /\ borrowed' = borrowed \cup {"model"}
  /\ selections' = selections + 1
  /\ UNCHANGED <<config, selected_thinking, model_operations, selecting, submitting, queued, sent>>

RestoreThinking ==
  /\ restoring # NoProfile
  /\ selected_thinking' = restoring.thinking
  /\ restoring' = NoProfile
  /\ borrowed' = borrowed \cup {"thinking"}
  /\ UNCHANGED <<config, selected_model, model_operations, selecting, submitting, queued, sent, selections>>

----------------------------------------------------------------------------
(* A submission keeps the model it was accepted with, and reads the level  *)
(* when its turn starts; chat_params sends both.                           *)

Submit ==
  /\ submitting = NoProfile /\ queued = NoProfile /\ selected_model # NoProfile
  /\ submitting' = selected_model
  /\ UNCHANGED <<config, selection, model_operations, selecting, restoring, queued, sent, selections, borrowed>>

\* resume_session holds the submission queue until both are restored.
Enqueue ==
  /\ submitting # NoProfile /\ restoring = NoProfile
  /\ queued' = submitting
  /\ submitting' = NoProfile
  /\ UNCHANGED <<config, selection, model_operations, selecting, restoring, sent, selections, borrowed>>

StartTurn ==
  /\ queued # NoProfile
  /\ sent' = Profile(queued, IF Supports[queued] = {} THEN NoProfile ELSE selected_thinking)
  /\ queued' = NoProfile
  /\ UNCHANGED <<config, selection, model_operations, selecting, restoring, submitting, selections, borrowed>>

SelectionNext ==
  \/ \E c \in Selectors, m \in Models, level \in Levels \cup {NoProfile} :
       \/ StartSelection(c, "profile", m, level)
       \/ StartSelection(c, "thinking", NoProfile, level)
  \/ \E c \in Selectors : StartSelection(c, "default", NoProfile, NoProfile)
  \/ \E c \in Selectors :
       LockSelection(c) \/ FetchCatalog(c) \/ SaveConfig(c) \/ SetModel(c) \/ SetThinking(c)
  \/ \E m \in Models, level \in Levels \cup {NoProfile} : RestoreModel(m, level)
  \/ RestoreThinking
  \/ Submit \/ Enqueue \/ StartTurn

----------------------------------------------------------------------------
(* Properties                                                              *)

\* What no resumed session wrote is what the configuration holds.
ConfigIsProfile ==
  /\ "model" \notin borrowed => config.model = selected_model
  /\ "thinking" \notin borrowed => config.thinking = selected_thinking

SelectionIsSupported ==
  "model" \notin borrowed => IsSupported(config.model, config.thinking)

\* Between selections the configuration and the profile in memory are of the same
\* selection: whatever two clients select at the same time and wherever a session
\* is resumed between their writes, a part of the profile is the one the
\* configuration holds unless a resumed session wrote it later, and the
\* configuration names a level of its own model, never half of two selections,
\* unless a level was selected for the model of a resumed session.
ConfigIsSelection == model_operations = NoProfile => ConfigIsProfile /\ SelectionIsSupported

----------------------------------------------------------------------------
(***************************************************************************)
(* The inductive invariant behind it.                                      *)
(***************************************************************************)
Options(S) == S \cup {NoProfile}

SelectionType ==
  /\ config \in [model : Options(Models), thinking : Options(Levels)]
  /\ selected_model \in Options(Models) /\ selected_thinking \in Options(Levels)
  /\ restoring \in Options([model : Models, thinking : Options(Levels)])
  /\ model_operations \in Options(Selectors)
  /\ selecting \in [Selectors -> [kind : {"idle", "profile", "default", "thinking"},
                                  at : {"idle", "lock", "fetch", "save", "model", "level"},
                                  model : Options(Models), thinking : Options(Levels)]]

\* A call works on the profile under the lock, and for a model.
SelectorInv(c) ==
  LET s == selecting[c] IN
  /\ s.kind = "idle" <=> s.at = "idle"
  /\ s.at \in {"fetch", "save", "model", "level"} <=> model_operations = c
  /\ s.kind = "profile" => s.model \in Models
  /\ s.at \in {"save", "model"} => s.kind # "default" /\ IsSupported(s.model, s.thinking)
  /\ s.kind = "thinking" /\ s.at \in {"fetch", "save"} /\ "model" \notin borrowed =>
       s.model = selected_model /\ selected_model \in Models
  /\ s.at = "model" => s.kind = "profile"

\* What is kept in two places is changed in two steps: the configuration comes
\* first, then the model, then the level.
Agreement ==
  LET s == selecting[model_operations] IN
  /\ IF model_operations # NoProfile /\ s.at = "model"
     THEN config = Profile(s.model, s.thinking)
     ELSE /\ "model" \notin borrowed =>
               config.model = selected_model /\ IsSupported(config.model, config.thinking)
          /\ IF model_operations # NoProfile /\ s.at = "level"
             THEN config.thinking = s.thinking
             ELSE "thinking" \notin borrowed => config.thinking = selected_thinking

SelectionInv ==
  /\ SelectionType
  /\ \A c \in Selectors : SelectorInv(c)
  /\ Agreement
================================================================================
