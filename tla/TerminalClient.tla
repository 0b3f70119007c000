----------------------------- MODULE TerminalClient -----------------------------
(***************************************************************************)
(* The terminal client as a whole: the views and background operations of  *)
(* ClientViews, the projection of turns of TurnProjection, and the parts   *)
(* that take keys by themselves: the question dialog, a picker's list, the *)
(* prompt composer, and the file of prompts it recalls.  handle_key routes *)
(* a key to one of them, and they share no state of the client, so a       *)
(* behaviour is one of the part that has the focus.                        *)
(***************************************************************************)
EXTENDS ClientViews, TurnProjection, QuestionDialog, ListView, Composer, PromptHistory

CONSTANT Requests   \* the question requests a dialog is opened for: multi_select of each question

\* The core rejects a request without a question.
ASSUME RequestsAssumption == Requests \subseteq Seq(BOOLEAN) \ {<<>>}

VARIABLE focus

vars == <<focus, clientVars, turnVars, dialogVars, listVars, composerVars, fileVars>>

Parts == {"views", "turns", "dialog", "list", "composer", "file"}

Init ==
  /\ focus \in Parts
  /\ ClientInit
  /\ TurnInit
  /\ DialogInit(IF focus = "dialog" THEN Requests ELSE {<<FALSE>>})
  /\ ListInit(IF focus = "list" THEN RowLists ELSE {<<>>})
  /\ ComposerInit
  /\ HistoryInit

Views ==
  /\ focus = "views" /\ ClientNext
  /\ UNCHANGED <<focus, turnVars, dialogVars, listVars, composerVars, fileVars>>
Turns ==
  /\ focus = "turns" /\ TurnNext
  /\ UNCHANGED <<focus, clientVars, dialogVars, listVars, composerVars, fileVars>>
Dialog ==
  /\ focus = "dialog" /\ DialogNext
  /\ UNCHANGED <<focus, clientVars, turnVars, listVars, composerVars, fileVars>>
List ==
  /\ focus = "list" /\ ListNext
  /\ UNCHANGED <<focus, clientVars, turnVars, dialogVars, composerVars, fileVars>>
Compose ==
  /\ focus = "composer" /\ ComposerNext
  /\ UNCHANGED <<focus, clientVars, turnVars, dialogVars, listVars, fileVars>>
Remember ==
  /\ focus = "file" /\ HistoryFileNext
  /\ UNCHANGED <<focus, clientVars, turnVars, dialogVars, listVars, composerVars>>

Next == Views \/ Turns \/ Dialog \/ List \/ Compose \/ Remember

Spec == Init /\ [][Next]_vars

--------------------------------------------------------------------------------
(* Properties.                                                             *)

\* Enter acts on what the user sees.  In a list the selected row is always a
\* shown row with a value, it is on the screen after a drawing, and a refresh
\* in the background keeps its value if that is still shown.  Nothing is
\* selected, and Enter does nothing, only when no row can be, or in the model
\* picker from a newer catalog without the selected model to the next key that
\* moves the selection or edits the filter.  In the question
\* dialog the row under the cursor is on the screen for every height of the
\* surface; a finished question with a single choice has exactly one answer, by
\* whatever way the user went back and forth between the options and "Other";
\* and a blank answer, which the core rejects, is sent only for a question with
\* several choices whose "Other" was ticked and never given a text.
EnterActsOnWhatIsShown ==
  /\ SelectionIsChoosable /\ SelectionShown /\ SelectionFollowsValue
  /\ CursorShown /\ SingleHasOneAnswer /\ BlankOnlyByOther
================================================================================
