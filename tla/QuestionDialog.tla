------------------------------ MODULE QuestionDialog ------------------------------
(***************************************************************************)
(* tui/question_dialog.rs: the dialog for one request of one or more       *)
(* questions, driven by keys.  A question has its options and a last row   *)
(* "Other" with a text of its own; a request of several questions ends in  *)
(* a page that submits.                                                    *)
(*                                                                         *)
(* Labels are left out and the text of "Other" is a short sequence of      *)
(* letters "x" and blanks, which is what trim tells apart.                 *)
(***************************************************************************)
EXTENDS Naturals, Sequences, FiniteSets, SequencesExt

CONSTANTS
  Options,     \* options per question
  MaxDraft     \* bound: letters in the text of "Other"

ASSUME DialogAssumption == Options \in Nat \ {0} /\ MaxDraft \in Nat

VARIABLES
  multi,    \* QuestionItem.multi_select of each question
  open,     \* QuestionDialog.active, counted from one
  pages,    \* QuestionDialog.pages
  sent      \* history: the answers the dialog has returned, or none

dialogVars == <<multi, open, pages, sent>>

Other == Options + 1
Rows == 1..Other
Blank(draft) == ~Contains(draft, "x")

NewPage == [cursor |-> 1, selected |-> {}, other_selected |-> FALSE,
            other_draft |-> <<>>, editing_other |-> FALSE, complete |-> FALSE]

DialogInit(requests) ==
  /\ multi \in requests
  /\ open = 1
  /\ pages = [q \in DOMAIN multi |-> NewPage]
  /\ sent = <<>>

HasSubmitPage == Len(pages) > 1
TabCount == Len(pages) + IF HasSubmitPage THEN 1 ELSE 0
OnSubmitPage == open > Len(pages)
OnQuestion == open <= Len(pages)
Page == pages[open]
Editing == OnQuestion /\ Page.editing_other

SetPage(p) == pages' = [pages EXCEPT ![open] = p]

\* answer_for: the chosen rows in order, then the text of "Other".
AnswerFor(page) == [chosen |-> page.selected,
                    other |-> IF page.other_selected THEN <<page.other_draft>> ELSE <<>>]

Respond(ps) == sent' = [q \in DOMAIN ps |-> AnswerFor(ps[q])]
AllComplete(ps) == \A q \in DOMAIN ps : ps[q].complete

--------------------------------------------------------------------------------
(* Keys.                                                                   *)

MoveUp ==
  /\ OnQuestion
  /\ SetPage([Page EXCEPT !.cursor = IF @ = 1 THEN Other ELSE @ - 1])
  /\ UNCHANGED <<multi, open, sent>>

MoveDown ==
  /\ OnQuestion
  /\ SetPage([Page EXCEPT !.cursor = IF @ = Other THEN 1 ELSE @ + 1])
  /\ UNCHANGED <<multi, open, sent>>

TabLeft ==
  /\ open' = IF open = 1 THEN TabCount ELSE open - 1
  /\ UNCHANGED <<multi, pages, sent>>

TabRight ==
  /\ open' = IF open = TabCount THEN 1 ELSE open + 1
  /\ UNCHANGED <<multi, pages, sent>>

\* toggle_current: a changed choice has to be confirmed again.
Unconfirmed(page) == [page EXCEPT !.complete = FALSE]
Toggled(page) ==
  Unconfirmed(IF page.cursor = Other
              THEN [page EXCEPT !.other_selected = ~@,
                                !.editing_other = IF page.other_selected THEN @ ELSE TRUE]
              ELSE [page EXCEPT !.selected = IF page.cursor \in @ THEN @ \ {page.cursor}
                                             ELSE @ \cup {page.cursor}])

\* finish_or_advance, after a page was completed.
Advance(ps) ==
  /\ pages' = ps
  /\ IF ~HasSubmitPage /\ AllComplete(ps)
     THEN Respond(ps) /\ UNCHANGED open
     ELSE open' = open + 1 /\ UNCHANGED sent

\* What a confirmed "Other" leaves selected.
KeptChoices(page) == IF multi[open] THEN page.selected ELSE {}

\* "Other" counts once it has a text.
Typed(page) == ~Blank(page.other_draft)

\* confirm on a question: Enter, or a number on a single choice.
ConfirmTab(page) ==
  LET done(p) == Advance([pages EXCEPT ![open] = [p EXCEPT !.complete = TRUE]]) IN
  /\ UNCHANGED multi
  /\ CASE page.editing_other /\ Typed(page) ->
            done([page EXCEPT !.other_selected = TRUE, !.editing_other = FALSE,
                              !.selected = KeptChoices(page)])
       [] ~page.editing_other /\ page.cursor = Other /\ ~Typed(page) ->
            SetPage([page EXCEPT !.editing_other = TRUE]) /\ UNCHANGED <<open, sent>>
       [] ~page.editing_other /\ page.cursor = Other /\ Typed(page) ->
            done([page EXCEPT !.other_selected = TRUE, !.selected = KeptChoices(page)])
       [] ~page.editing_other /\ page.cursor # Other /\ multi[open] /\
            (page.selected # {} \/ page.other_selected) -> done(page)
       [] ~page.editing_other /\ page.cursor # Other /\ ~multi[open] ->
            done([page EXCEPT !.selected = {page.cursor}, !.other_selected = FALSE])
       [] OTHER -> SetPage(page) /\ UNCHANGED <<open, sent>>

Enter ==
  \/ OnQuestion /\ ConfirmTab(Page)
  \/ /\ OnSubmitPage /\ AllComplete(pages)
     /\ Respond(pages)
     /\ UNCHANGED <<multi, open, pages>>

\* choose_number; a digit is text while "Other" is edited.
ChooseNumber(n) ==
  /\ OnQuestion /\ ~Editing
  /\ IF multi[open]
     THEN SetPage(Toggled([Page EXCEPT !.cursor = n])) /\ UNCHANGED <<multi, open, sent>>
     ELSE ConfirmTab([Page EXCEPT !.cursor = n])

InsertText(letter) ==
  /\ OnQuestion
  /\ \/ /\ Editing /\ Len(Page.other_draft) < MaxDraft  \* bound
        /\ SetPage([Page EXCEPT !.other_draft = Append(@, letter)])
     \/ ~Editing /\ letter = " " /\ multi[open] /\ SetPage(Toggled(Page))
  /\ UNCHANGED <<multi, open, sent>>

EraseText ==
  /\ Editing /\ Page.other_draft # <<>>
  /\ SetPage([Page EXCEPT !.other_draft = Front(@)])
  /\ UNCHANGED <<multi, open, sent>>

\* Escape leaves the editor; elsewhere the request is dismissed.
EscapeEditor ==
  /\ Editing
  /\ SetPage([Page EXCEPT !.editing_other = FALSE])
  /\ UNCHANGED <<multi, open, sent>>

\* The core found the response invalid: the dialog stays as it is.
Rejected == sent # <<>> /\ sent' = <<>> /\ UNCHANGED <<multi, open, pages>>

DialogKey ==
  /\ sent = <<>>
  /\ \/ MoveUp \/ MoveDown \/ TabLeft \/ TabRight \/ Enter \/ EraseText \/ EscapeEditor
     \/ \E n \in Rows : ChooseNumber(n)
     \/ \E letter \in {"x", " "} : InsertText(letter)

DialogNext == DialogKey \/ Rejected

\* inline_presentation: the first of the rows shown in a surface of height h.
Above(cursor, h) == IF cursor > h THEN cursor - h ELSE 0
WindowStart(cursor, h) ==
  LET above == Above(cursor, h)
      fits == IF Other > h THEN Other - h ELSE 0
  IN 1 + IF above < fits THEN above ELSE fits

--------------------------------------------------------------------------------
(* Properties.                                                             *)

SingleHasOneAnswer ==
  \A q \in DOMAIN pages : pages[q].complete /\ ~multi[q] =>
    Cardinality(pages[q].selected) + (IF pages[q].other_selected THEN 1 ELSE 0) = 1

BlankOnlyByOther ==
  \A q \in DOMAIN sent :
    (sent[q].chosen = {} /\ (sent[q].other = <<>> \/ Blank(sent[q].other[1])))
    => multi[q] /\ sent[q].other # <<>>

CursorShown ==
  \A q \in DOMAIN pages, h \in 1..Other :
    WindowStart(pages[q].cursor, h) \in (pages[q].cursor - h + 1)..pages[q].cursor

--------------------------------------------------------------------------------
(* The inductive invariant behind them: why a finished question has an     *)
(* answer, and that the answers sent are those of finished pages.          *)

PageType ==
  [cursor : Rows, selected : SUBSET (1..Options), other_selected : BOOLEAN,
   other_draft : Seq({"x", " "}), editing_other : BOOLEAN, complete : BOOLEAN]

DialogType ==
  /\ multi \in Seq(BOOLEAN) \ {<<>>}
  /\ pages \in [DOMAIN multi -> PageType]
  /\ open \in 1..TabCount

\* A single choice is an option, or a text of "Other" that is not being edited.
OneAnswer(page) ==
  \/ \E option \in 1..Options : page.selected = {option} /\ ~page.other_selected
  \/ page.selected = {} /\ page.other_selected /\ ~page.editing_other /\ Typed(page)

SomeAnswer(page) == page.selected # {} \/ page.other_selected

PageInv(q) ==
  pages[q].complete => IF multi[q] THEN SomeAnswer(pages[q]) ELSE OneAnswer(pages[q])

SentInv ==
  sent # <<>> => AllComplete(pages) /\ sent = [q \in DOMAIN pages |-> AnswerFor(pages[q])]

DialogInv == DialogType /\ (\A q \in DOMAIN pages : PageInv(q)) /\ SentInv
================================================================================
