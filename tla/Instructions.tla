---------------------------- MODULE Instructions ----------------------------
(***************************************************************************)
(* The AGENTS.md files that apply to a conversation.  A session (one for   *)
(* the main agent, one for each child) caches the nested files it has come *)
(* across and remembers which of them are active in the submission at      *)
(* hand; all sessions of a conversation draw on one budget of sources and  *)
(* bytes.  Rendering gives the deepest files their room first.  Paths are  *)
(* directories under the project root; a file is its kind and its size.    *)
(***************************************************************************)
EXTENDS Integers, SequencesExt, FiniteSetsExt

CONSTANTS DirOrder,      \* the directories, in the order of their paths
          Above,           \* [directory -> itself and the nested directories it lies in]
          BaseSize,        \* the size of the project root's file
          MaxSlots, MaxBytes,      \* the budget of one conversation
          ChainLimit, Header, Separator, Marker   \* sizes in the rendered prompt

Dirs == ToSet(DirOrder)
MissingFile == [kind |-> "missing", size |-> 0]
Files == {MissingFile} \cup [kind : {"source"}, size : 1..MaxBytes]
            \cup {[kind |-> "blocked", size |-> 0]}

BaseBudget == [slots |-> 1, bytes |-> BaseSize]

NewSession == [nested |-> [d \in {} |-> MissingFile], active |-> {}, live |-> TRUE,
               reserved |-> [slots |-> 0, bytes |-> 0]]

\* Begin, finish and restart of a submission leave the cache and forget what was active.
Inactive(session) == [session EXCEPT !.active = {}]

\* A source is charged to the conversation, or kept as blocked when the budget is spent.
ReserveNested(st, d, file) ==
  LET fits == /\ st.budget.slots + 1 <= MaxSlots
              /\ st.budget.bytes + file.size <= MaxBytes
      charged(b) == [slots |-> b.slots + 1, bytes |-> b.bytes + file.size]
      cached(f) == d :> f @@ st.session.nested
  IN IF fits
       THEN [st EXCEPT !.budget = charged(@), !.session.reserved = charged(@), !.session.nested = cached(file)]
       ELSE [st EXCEPT !.session.nested = cached([kind |-> "blocked", size |-> 0])]

Load(st, d, file) ==
  IF d \in DOMAIN st.session.nested THEN st
  ELSE IF file.kind = "missing" THEN [st EXCEPT !.session.nested = d :> MissingFile @@ @]
  ELSE ReserveNested(st, d, file)

Activate(st, d) ==
  LET kind == st.session.nested[d].kind
  IN IF kind = "missing" THEN st
     ELSE [st EXCEPT !.activated = @ \/ d \notin st.session.active,
                     !.error = @ \/ kind = "blocked",
                     !.session.active = @ \cup {d}]

\* What a batch of calls with these target directories finds on its way.
Discover(session, budget, disk, targets) ==
  LET candidates == UNION {Above[d] : d \in targets}
      visit(d, st) == IF d \in candidates THEN Activate(Load(st, d, disk[d]), d) ELSE st
  IN FoldLeft(LAMBDA st, d : visit(d, st),
              [session |-> session, budget |-> budget, activated |-> FALSE, error |-> FALSE], DirOrder)

\* A session that goes away gives back what it had reserved.
Dropped(session) == [session EXCEPT !.live = FALSE]
Released(budget, session) == [slots |-> budget.slots - session.reserved.slots,
                              bytes |-> budget.bytes - session.reserved.bytes]

-----------------------------------------------------------------------------
(***************************************************************************)
(* Rendering of the project chain: the root's file and the active ones,    *)
(* parents first in the prompt, room given from the deepest upwards.       *)
(***************************************************************************)
ProjectChain(session) ==
  <<BaseSize>> \o [i \in 1..Len(SelectSeq(DirOrder, LAMBDA d : d \in session.active)) |->
                     session.nested[SelectSeq(DirOrder, LAMBDA d : d \in session.active)[i]].size]

TruncatedBody(available) ==
  [body |-> available, kept |-> IF Marker >= available THEN 0 ELSE available - Marker, truncated |-> TRUE]

\* One source on the way up: st.shown holds what the deeper ones got.
RenderSource(size, st) ==
  LET overhead == Header + (IF st.deeper THEN Separator ELSE 0)
      available == st.remaining - overhead
      section == IF size > available THEN TruncatedBody(available)
                 ELSE [body |-> size, kept |-> size, truncated |-> FALSE]
      nothing == [body |-> 0, kept |-> 0, truncated |-> size > 0]
  IN IF size = 0 \/ overhead >= st.remaining
       THEN [st EXCEPT !.shown = <<nothing>> \o @]
       ELSE [remaining |-> available - section.body, deeper |-> TRUE, shown |-> <<section>> \o st.shown]

RenderProjectChain(sizes) ==
  FoldRight(RenderSource, sizes, [remaining |-> ChainLimit, deeper |-> FALSE, shown |-> <<>>])

=============================================================================
