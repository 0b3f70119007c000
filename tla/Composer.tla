-------------------------------- MODULE Composer --------------------------------
(***************************************************************************)
(* tui/composer.rs and tui/composer_attachment.rs: the prompt editor with  *)
(* its image tokens and its history, and the submission of its draft by    *)
(* client/submission.rs.                                                   *)
(*                                                                         *)
(* The text is a sequence of cells: Letter for typed text, and for an      *)
(* image token its number in each cell of the label and Gap for the blank  *)
(* behind it.  Positions are the code's: 0 is before the first cell.  The  *)
(* slash-command popup is left out, and the worker that submits is one     *)
(* step that accepts or refuses.                                           *)
(***************************************************************************)
EXTENDS Naturals, Sequences, FiniteSets, SequencesExt

CONSTANTS
  Images,          \* images a user pastes
  MaxImages,       \* MAX_SUBMISSION_IMAGES
  MaxLetters,      \* bound: typed cells in the text
  MaxHistory,      \* MAX_HISTORY_ENTRIES of composer.rs
  Nothing          \* no history entry, no saved draft

ASSUME ComposerAssumption ==
  /\ {MaxImages, MaxLetters} \subseteq Nat /\ MaxHistory \in Nat \ {0}
  /\ Nothing \notin Nat

Letter == 0
Gap == MaxImages + 1
Label(i) == <<i, i>>
Token(i) == Append(Label(i), Gap)

VARIABLES
  text, cursor,     \* Composer.text, Composer.cursor
  images,           \* ComposerAttachments.images, in the order of insertion
  history,          \* Composer.history
  history_index,    \* Composer.history_index
  history_draft,    \* Composer.history_draft
  request,          \* the SubmissionRequest the worker has, while pending
  panicked          \* the client panicked

editor == <<text, cursor, images>>
recall == <<history, history_index, history_draft>>
composerVars == <<editor, recall, request, panicked>>

Snapshot == [text |-> text, cursor |-> cursor, images |-> images]
Empty == [text |-> <<>>, cursor |-> 0, images |-> <<>>]
Restore(s) == text' = s.text /\ cursor' = s.cursor /\ images' = s.images

\* detach_history: an edit ends the browsing.
Detach == history_index' = Nothing /\ history_draft' = Nothing

ComposerInit ==
  /\ text = <<>> /\ cursor = 0 /\ images = <<>>
  /\ history = <<>> /\ history_index = Nothing /\ history_draft = Nothing
  /\ request = Nothing /\ panicked = FALSE

--------------------------------------------------------------------------------
(* Cells and tokens.                                                       *)

InsertCells(t, at, cells) == SubSeq(t, 1, at) \o cells \o SubSeq(t, at + 1, Len(t))
RemoveCells(t, start, end) == SubSeq(t, 1, start) \o SubSeq(t, end + 1, Len(t))
Letters(t) == Cardinality({p \in DOMAIN t : t[p] = Letter})

\* shift_for_insert.  Mutant: a token that starts at the cursor stays.
MovesBehind(start, at) == start > at
Moves(start, at) == start >= at
ShiftForInsert(ims, at, n) ==
  [i \in DOMAIN ims |-> IF Moves(ims[i].start, at)
                        THEN [ims[i] EXCEPT !.start = @ + n, !.end = @ + n] ELSE ims[i]]

ShiftForRemove(ims, start, end) ==
  [i \in DOMAIN ims |-> IF ims[i].start >= end
                        THEN [ims[i] EXCEPT !.start = @ - (end - start), !.end = @ - (end - start)]
                        ELSE ims[i]]

\* renumber: every token is labelled with its place among the images.
Renumbered(t, ims) ==
  [p \in DOMAIN t |->
     IF \E i \in DOMAIN ims : p > ims[i].start /\ p < ims[i].end
     THEN CHOOSE i \in DOMAIN ims : p > ims[i].start /\ p < ims[i].end
     ELSE t[p]]

\* text_without_tokens takes the tokens out from the last image to the first
\* and never moves a range: ok is FALSE where String::replace_range panics.
WithoutTokens(t, ims) ==
  FoldRight(LAMBDA im, r : IF r.ok /\ im.end <= Len(r.text)
                           THEN [ok |-> TRUE, text |-> RemoveCells(r.text, im.start, im.end)]
                           ELSE [ok |-> FALSE, text |-> <<>>],
            ims, [ok |-> TRUE, text |-> t])

Draft(s) == [plain |-> WithoutTokens(s.text, s.images),
             images |-> [i \in DOMAIN s.images |-> s.images[i].image]]
HistoryText(s) == WithoutTokens(s.text, s.images)

--------------------------------------------------------------------------------
(* Editing, refused while a submission is pending.                         *)

Editable == request = Nothing

InsertLetter ==
  /\ Editable /\ Letters(text) < MaxLetters  \* bound
  /\ text' = InsertCells(text, cursor, <<Letter>>)
  /\ images' = ShiftForInsert(images, cursor, 1)
  /\ cursor' = cursor + 1
  /\ Detach /\ UNCHANGED <<history, request>>

InsertImage(image) ==
  LET token == Token(Len(images) + 1) IN
  /\ Editable /\ Len(images) < MaxImages
  /\ text' = InsertCells(text, cursor, token)
  /\ images' = Append(ShiftForInsert(images, cursor, Len(token)),
                      [image |-> image, start |-> cursor, end |-> cursor + Len(token)])
  /\ cursor' = cursor + Len(token)
  /\ Detach /\ UNCHANGED <<history, request>>

\* remove_token.
RemoveToken(i) ==
  LET im == images[i]
      rest == ShiftForRemove(RemoveAt(images, i), im.start, im.end)
  IN /\ images' = rest
     /\ text' = Renumbered(RemoveCells(text, im.start, im.end), rest)
     /\ cursor' = im.start

\* backspace and delete take a token as a whole.
Before(im) == im.start < cursor /\ cursor <= im.end
ImageAt(im) == im.start <= cursor /\ cursor < im.end

Backspace ==
  LET hit == {i \in DOMAIN images : Before(images[i])} IN
  /\ Editable /\ cursor # 0
  /\ IF hit # {} THEN RemoveToken(CHOOSE i \in hit : \A j \in hit : i <= j)
     ELSE /\ text' = RemoveCells(text, cursor - 1, cursor)
          /\ images' = ShiftForRemove(images, cursor - 1, cursor)
          /\ cursor' = cursor - 1
  /\ Detach /\ UNCHANGED <<history, request>>

Delete ==
  LET hit == {i \in DOMAIN images : ImageAt(images[i])} IN
  /\ Editable /\ cursor # Len(text)
  /\ IF hit # {} THEN RemoveToken(CHOOSE i \in hit : \A j \in hit : i <= j)
     ELSE /\ text' = RemoveCells(text, cursor, cursor + 1)
          /\ images' = ShiftForRemove(images, cursor, cursor + 1)
          /\ UNCHANGED cursor
  /\ Detach /\ UNCHANGED <<history, request>>

\* previous_cursor, next_cursor, Home and End: over a token in one move.
MoveCursor ==
  /\ \/ /\ cursor # 0
        /\ LET ends == {i \in DOMAIN images : images[i].end = cursor}
           IN cursor' = IF ends = {} THEN cursor - 1 ELSE images[CHOOSE i \in ends : TRUE].start
     \/ /\ cursor # Len(text)
        /\ LET starts == {i \in DOMAIN images : images[i].start = cursor}
           IN cursor' = IF starts = {} THEN cursor + 1 ELSE images[CHOOSE i \in starts : TRUE].end
     \/ cursor' \in {0, Len(text)}
  /\ UNCHANGED <<text, images, recall, request>>

\* snap_cursor: a click inside a token lands at its nearer end.
Snapped(p) ==
  LET inside == {i \in DOMAIN images : images[i].start < p /\ p < images[i].end} IN
  IF inside = {} THEN p
  ELSE LET im == images[CHOOSE i \in inside : TRUE]
       IN IF p <= im.start + (im.end - im.start) \div 2 THEN im.start ELSE im.end

PositionCursor(p) ==
  /\ p \in 0..Len(text)
  /\ cursor' = Snapped(p)
  /\ Detach /\ UNCHANGED <<text, images, history, request>>

--------------------------------------------------------------------------------
(* History.                                                                *)

HistoryPrevious ==
  /\ Editable /\ cursor \in {0, Len(text)} /\ history # <<>>
  /\ IF history_index = Nothing
     THEN /\ history_draft' = Snapshot
          /\ history_index' = Len(history)
     ELSE /\ history_index' = IF history_index = 1 THEN 1 ELSE history_index - 1
          /\ UNCHANGED history_draft
  /\ Restore(history[history_index'])
  /\ UNCHANGED <<history, request>>

HistoryNext ==
  /\ Editable /\ cursor = Len(text) /\ history_index # Nothing
  /\ IF history_index < Len(history)
     THEN /\ history_index' = history_index + 1
          /\ Restore(history[history_index + 1])
          /\ UNCHANGED history_draft
     ELSE /\ Restore(history_draft)
          /\ history_index' = Nothing /\ history_draft' = Nothing
  /\ UNCHANGED <<history, request>>

\* record_submitted_snapshot: a repetition is not recorded, and only the newest
\* entry that has images keeps them.
Stripped(entry) ==
  LET plain == HistoryText(entry).text
  IN [text |-> plain, cursor |-> Len(plain), images |-> <<>>]

Recorded(s) ==
  LET same == history # <<>> /\ Last(history).text = s.text /\ Last(history).images = s.images
      older == IF s.images = <<>> THEN history ELSE [i \in DOMAIN history |-> Stripped(history[i])]
      all == Append(older, s)
  IN IF same THEN history
     ELSE IF Len(all) > MaxHistory THEN Tail(all) ELSE all

--------------------------------------------------------------------------------
(* submit_composer and apply_submit_result.                                *)

\* Taking the tokens out of the text may panic, before anything is sent.
Submit ==
  /\ request = Nothing /\ text # <<>>
  /\ IF Draft(Snapshot).plain.ok
     THEN /\ request' = [draft |-> Draft(Snapshot), snapshot |-> Snapshot]
          /\ UNCHANGED panicked
     ELSE panicked' = TRUE /\ UNCHANGED request
  /\ UNCHANGED <<editor, recall>>

Accepted ==
  /\ request # Nothing
  /\ request' = Nothing
  /\ IF Draft(Snapshot) = request.draft
     THEN Restore(Empty)
     ELSE UNCHANGED editor
  /\ history' = Recorded(request.snapshot)
  /\ IF history' # history \/ Draft(Snapshot) = request.draft
     THEN Detach ELSE UNCHANGED <<history_index, history_draft>>

Refused == request # Nothing /\ request' = Nothing /\ UNCHANGED <<editor, recall>>

Edit ==
  \/ InsertLetter \/ Backspace \/ Delete \/ MoveCursor
  \/ \E image \in Images : InsertImage(image)
  \/ \E p \in 0..Len(text) : PositionCursor(p)
  \/ HistoryPrevious \/ HistoryNext

ComposerNext ==
  /\ ~panicked
  /\ \/ (Edit \/ Accepted \/ Refused) /\ UNCHANGED panicked
     \/ Submit

--------------------------------------------------------------------------------
(* Properties.                                                             *)

Marked(t, ims) ==
  \A i \in DOMAIN ims : ims[i].end <= Len(t) /\ SubSeq(t, ims[i].start + 1, ims[i].end) = Token(i)

TokensMarkImages ==
  \A s \in {Snapshot} \cup ToSet(history) :
    /\ Marked(s.text, s.images)
    /\ Len(s.text) = Letters(s.text) + Len(s.images) * Len(Token(1))

CursorOutsideTokens ==
  /\ cursor \in 0..Len(text)
  /\ \A i \in DOMAIN images : cursor <= images[i].start \/ cursor >= images[i].end

PendingDraftIsShown == request # Nothing => Draft(Snapshot) = request.draft

BrowsedEntryIsShown ==
  history_index # Nothing =>
    /\ history_draft # Nothing
    /\ history_index \in DOMAIN history
    /\ text = history[history_index].text /\ images = history[history_index].images

OneEntryWithImages == Cardinality({i \in DOMAIN history : history[i].images # <<>>}) <= 1

\* The order the images were pasted in is the order of their tokens.
InOrder(ims) == \A i, j \in DOMAIN ims : i < j => ims[i].end <= ims[j].start
TypedText(s) == [ok |-> TRUE, text |-> SelectSeq(s.text, LAMBDA cell : cell = Letter)]

\* For every order of tokens in the text, every image has its token, whole and
\* with its number, and no edit starts inside one.  As long as each image was
\* pasted behind the ones before it, the draft that is submitted is the typed
\* text; a submission panics only when one was pasted in front of another.  A
\* draft is not lost either: the answer to a submission finds the draft it was
\* made of, and browsing the history shows the entry it points to and keeps
\* what was there before; images are kept for one entry at most.
DraftIsTypedText ==
  /\ TokensMarkImages /\ CursorOutsideTokens
  /\ InOrder(images) => WithoutTokens(text, images) = TypedText(Snapshot) /\ ~panicked
  /\ PendingDraftIsShown /\ BrowsedEntryIsShown /\ OneEntryWithImages
================================================================================
