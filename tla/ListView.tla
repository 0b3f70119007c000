-------------------------------- MODULE ListView --------------------------------
(***************************************************************************)
(* tui/list.rs: the list behind every picker, with its filter, its         *)
(* selection and its scroll position, and the surfaces that draw it.       *)
(*                                                                         *)
(* A row has a value or is informational (None), and "hit" says whether    *)
(* the text of the filter occurs in it; the filter is on or off.           *)
(***************************************************************************)
EXTENDS Naturals, Sequences, FiniteSets, SequencesExt, FiniteSetsExt

CONSTANTS
  Values,    \* values a row may carry
  MaxRows,   \* bound: rows in a list
  NoValue    \* an informational row, no selection

ASSUME ListAssumption == MaxRows \in Nat /\ NoValue \notin Values /\ NoValue \notin Nat

VARIABLES
  rows,        \* ListView.rows
  query,       \* whether a filter text is entered
  selected,    \* ListView.selected: an index in the filtered rows
  scroll_top,  \* ListView.scroll_top, counted from one
  height,      \* rows the last drawing had room for, 0 before it
  rebuilt,     \* the list is the model picker's, which builds a new one
  followed     \* history: the value a replacement of the rows had to keep

listVars == <<rows, query, selected, scroll_top, height, rebuilt, followed>>

Row == [value : Values \cup {NoValue}, hit : BOOLEAN]

\* Lists a client builds: a value occurs in one row.
RowLists ==
  {r \in SeqOf(Row, MaxRows) :
     \A i, j \in DOMAIN r : i # j /\ r[i].value = r[j].value => r[i].value = NoValue}

\* apply_filter: the rows that stay, in their order; without recursion, so that
\* the selection can be proved right for lists of any length.
Staying(r, q) == {i \in DOMAIN r : q => r[i].hit}
Filtered(r, q) ==
  LET nth(n) == CHOOSE i \in Staying(r, q) : Cardinality({j \in Staying(r, q) : j <= i}) = n
  IN [n \in 1..Cardinality(Staying(r, q)) |-> r[nth(n)]]
Selectable(f) == {i \in DOMAIN f : f[i].value # NoValue}
FirstSelectable(f) == IF Selectable(f) = {} THEN NoValue ELSE Min(Selectable(f))
Shown == Filtered(rows, query)

SelectedValue == IF selected = NoValue THEN NoValue ELSE Shown[selected].value

ListInit(lists) ==
  /\ rows \in lists
  /\ query = FALSE
  /\ selected = FirstSelectable(Shown)
  /\ scroll_top = 1
  /\ height = 0
  /\ rebuilt \in BOOLEAN
  /\ followed = NoValue

--------------------------------------------------------------------------------

\* insert_filter, backspace_filter, set_filter: an edit of the filter text.
EditFilter(q) ==
  /\ query' = q
  /\ selected' = FirstSelectable(Filtered(rows, q))
  /\ scroll_top' = 1 /\ height' = 0
  /\ followed' = NoValue
  /\ UNCHANGED <<rows, rebuilt>>

\* replace_rows: the selection stays with its value, or starts again.
\* Mutant: it stays with its number.
SelectionAfterByNumber(f, v) ==
  IF selected \in DOMAIN f /\ f[selected].value # NoValue THEN selected ELSE FirstSelectable(f)
SelectionAfter(f, v) ==
  LET at == {i \in DOMAIN f : f[i].value = v}
  IN IF v = NoValue \/ at = {} THEN FirstSelectable(f) ELSE Min(at)

ReplaceRows(r) ==
  /\ ~rebuilt
  /\ rows' = r
  /\ selected' = SelectionAfter(Filtered(r, query), SelectedValue)
  /\ scroll_top' = 1 /\ height' = 0
  /\ followed' = SelectedValue
  /\ UNCHANGED <<query, rebuilt>>

\* rebuild_list of the model picker, with the value that was selected when a
\* newer catalog came, or with none when the tab changes.  A value that is gone
\* leaves nothing selected.
SelectionIn(f, v) ==
  LET at == {i \in DOMAIN f : f[i].value = v}
  IN IF v = NoValue THEN FirstSelectable(f) ELSE IF at = {} THEN NoValue ELSE Min(at)

RebuildList(r, v) ==
  /\ rebuilt
  /\ rows' = r
  /\ selected' = SelectionIn(Filtered(r, query), v)
  /\ scroll_top' = 1 /\ height' = 0
  /\ followed' = v
  /\ UNCHANGED <<query, rebuilt>>

\* move_selection: the next row with a value, round the end.
Step(i, direction, n) == 1 + ((i - 1 + direction + n) % n)
Reachable(f) == Selectable(f)

MoveSelection(up) ==
  LET n == Len(Shown)
      start == IF selected = NoValue THEN 1 ELSE selected
      distance(j) == LET d == IF up THEN (start + n - j) % n ELSE (j + n - start) % n
                     IN IF d = 0 THEN n ELSE d
      targets == Reachable(Shown)
  IN /\ selected' = IF n = 0 THEN NoValue
                    ELSE IF targets = {} THEN selected
                    ELSE CHOOSE j \in targets : \A k \in targets : distance(j) <= distance(k)
     /\ followed' = NoValue
     /\ height' = 0
     /\ UNCHANGED <<rows, query, scroll_top, rebuilt>>

SelectNumber(n) ==
  /\ n \in Selectable(Shown)
  /\ selected' = n
  /\ followed' = NoValue
  /\ height' = 0
  /\ UNCHANGED <<rows, query, scroll_top, rebuilt>>

\* visible_scroll_top, when the list is drawn in h rows.
TopFor(h) ==
  IF selected = NoValue THEN 1
  ELSE IF selected < scroll_top THEN selected
  ELSE IF selected >= scroll_top + h THEN selected + 1 - h
  ELSE scroll_top

Draw(h) ==
  /\ height' = h
  /\ scroll_top' = TopFor(h)
  /\ UNCHANGED <<rows, query, selected, rebuilt, followed>>

ListNext ==
  \/ \E q \in BOOLEAN : EditFilter(q)
  \/ \E r \in RowLists : ReplaceRows(r) \/ RebuildList(r, SelectedValue) \/ RebuildList(r, NoValue)
  \/ \E up \in BOOLEAN : MoveSelection(up)
  \/ \E n \in 1..MaxRows : SelectNumber(n)
  \/ \E h \in 1..MaxRows : Draw(h)

--------------------------------------------------------------------------------
(* Properties.                                                             *)

\* The value to keep is not in the list any more.
Vanished == followed # NoValue /\ \A i \in DOMAIN Shown : Shown[i].value # followed

SelectionIsChoosable ==
  IF selected = NoValue THEN Selectable(Shown) = {} \/ (rebuilt /\ Vanished)
  ELSE selected \in Selectable(Shown)

SelectionFollowsValue ==
  (followed # NoValue /\ \E i \in DOMAIN Shown : Shown[i].value = followed) => SelectedValue = followed

SelectionShown ==
  height > 0 /\ selected # NoValue => scroll_top <= selected /\ selected < scroll_top + height

--------------------------------------------------------------------------------
(* The three are inductive together: the selection is a row that can be    *)
(* chosen, so a drawing finds it, and a replacement its value.             *)

ListInv ==
  /\ rows \in Seq(Row) /\ query \in BOOLEAN /\ rebuilt \in BOOLEAN
  /\ scroll_top \in Nat \ {0} /\ height \in Nat
  /\ SelectionIsChoosable /\ SelectionShown /\ SelectionFollowsValue
================================================================================
