----------------------------- MODULE OutputCapture -----------------------------
(***************************************************************************)
(* The bounded, ordered capture of a command's output and its projections: *)
(* tools/activity/output.rs.  A byte is its position in the output and its *)
(* stream; text is left out.  Half of the budget keeps the first bytes,    *)
(* the other half the last ones.                                           *)
(***************************************************************************)
EXTENDS Naturals, SequencesExt

CONSTANTS
  HALF_BUDGET, FRAGMENT_OVERHEAD, MAX_FRAGMENTS_PER_HALF,
  ChunkSizes,   \* how much one read captures
  TokenBudgets, \* bytes a model asks for
  MaxTotal      \* bound: bytes of one behaviour

Streams == {"stdout", "stderr"}

VARIABLES
  head, tail,            \* fragments: the stream, the first position and the length
  head_cost, tail_cost,
  totals,                \* bytes captured of each stream
  cursor,                \* DeliveryCursor: the position and the totals it stands for
  bytes,                 \* history: the stream of every byte
  delivered              \* history: the last projection a model was given, and since where

captureVars == <<head, tail, head_cost, tail_cost, totals, cursor, bytes, delivered>>

Nothing == [stream \in Streams |-> 0]

CaptureInit ==
  /\ head = <<>> /\ tail = <<>> /\ head_cost = 0 /\ tail_cost = 0
  /\ totals = Nothing
  /\ cursor = [position |-> 0, totals |-> Nothing]
  /\ bytes = <<>>
  /\ delivered = [since |-> 0, until |-> 0, fragments |-> <<>>, omitted |-> Nothing]

Total == totals["stdout"] + totals["stderr"]
Least(a, b) == IF a < b THEN a ELSE b
Less(a, b) == IF a < b THEN 0 ELSE a - b        \* saturating_sub
Fragment(stream, start, len) == [stream |-> stream, start |-> start, len |-> len]
FragmentEnd(f) == f.start + f.len

Continues(fragments, stream, start) ==
  fragments # <<>> /\ Last(fragments).stream = stream /\ FragmentEnd(Last(fragments)) = start
Grown(fragments, len) == [fragments EXCEPT ![Len(fragments)].len = @ + len]

\* append_head keeps what fits.
HeadKept(stream, start, len) ==
  LET same == Continues(head, stream, start) IN
  IF ~same /\ Len(head) = MAX_FRAGMENTS_PER_HALF THEN 0
  ELSE Least(Less(Less(HALF_BUDGET, head_cost), IF same THEN 0 ELSE FRAGMENT_OVERHEAD), len)

\* trim_tail drops bytes of the oldest fragment, or all of it.
RECURSIVE Trimmed(_, _)
Trimmed(fragments, cost) ==
  LET excess == IF cost > HALF_BUDGET THEN cost - HALF_BUDGET ELSE 1
      front == Head(fragments) IN
  IF fragments = <<>> \/ (cost <= HALF_BUDGET /\ Len(fragments) <= MAX_FRAGMENTS_PER_HALF)
  THEN [fragments |-> fragments, cost |-> cost]
  ELSE IF Len(fragments) <= MAX_FRAGMENTS_PER_HALF /\ excess < front.len
  THEN Trimmed(<<Fragment(front.stream, front.start + excess, front.len - excess)>> \o Tail(fragments),
               cost - excess)
  ELSE Trimmed(Tail(fragments), Less(cost, front.len + FRAGMENT_OVERHEAD))

AppendTail(stream, start, len) ==
  LET same == Continues(tail, stream, start)
      trimmed == Trimmed(IF same THEN Grown(tail, len) ELSE Append(tail, Fragment(stream, start, len)),
                         tail_cost + len + (IF same THEN 0 ELSE FRAGMENT_OVERHEAD)) IN
  IF len = 0 THEN UNCHANGED <<tail, tail_cost>>
  ELSE tail' = trimmed.fragments /\ tail_cost' = trimmed.cost

Capture(stream, len) ==
  LET kept == HeadKept(stream, Total, len)
      same == Continues(head, stream, Total) IN
  /\ Total + len <= MaxTotal
  /\ totals' = [totals EXCEPT ![stream] = @ + len]
  /\ bytes' = bytes \o [i \in 1..len |-> stream]
  /\ IF kept = 0 THEN UNCHANGED <<head, head_cost>>
     ELSE /\ head' = IF same THEN Grown(head, kept) ELSE Append(head, Fragment(stream, Total, kept))
          /\ head_cost' = head_cost + kept + (IF same THEN 0 ELSE FRAGMENT_OVERHEAD)
  /\ AppendTail(stream, Total + kept, len - kept)
  /\ UNCHANGED <<cursor, delivered>>

----------------------------------------------------------------------------
(* Projections                                                             *)

SumLen(fragments) == FoldSeq(LAMBDA f, n : n + f.len, 0, fragments)

\* fragments_after
After(position) ==
  LET later == SelectSeq(head \o tail, LAMBDA f : FragmentEnd(f) > position)
      slice(f) == LET offset == Less(position, f.start) IN Fragment(f.stream, f.start + offset, f.len - offset)
  IN [i \in 1..Len(later) |-> slice(later[i])]

RECURSIVE TakeHead(_, _)
TakeHead(fragments, budget) ==
  IF budget = 0 \/ fragments = <<>> THEN <<>>
  ELSE LET f == Head(fragments)
           len == Least(budget, f.len) IN
       <<Fragment(f.stream, f.start, len)>> \o TakeHead(Tail(fragments), budget - len)

RECURSIVE TakeTail(_, _)
TakeTail(fragments, budget) ==
  IF budget = 0 \/ fragments = <<>> THEN <<>>
  ELSE LET f == Last(fragments)
           len == Least(budget, f.len) IN
       Append(TakeTail(Front(fragments), budget - len), Fragment(f.stream, f.start + f.len - len, len))

\* select_head_tail
Selected(fragments, budget) ==
  IF SumLen(fragments) <= budget THEN <<fragments, <<>> >>
  ELSE <<TakeHead(fragments, budget \div 2), TakeTail(fragments, budget - budget \div 2)>>

StreamBytes(fragments, stream) == SumLen(SelectSeq(fragments, LAMBDA f : f.stream = stream))

\* What is shown and how much of each stream is omitted.
Project(from, budget) ==
  LET parts == Selected(After(from.position), budget)
      kept(stream) == StreamBytes(parts[1] \o parts[2], stream)
      omitted == [stream \in Streams |-> Less(Less(totals[stream], from.totals[stream]), kept(stream))] IN
  [since |-> from.position, until |-> Total, fragments |-> parts[1] \o parts[2], omitted |-> omitted]

DeliverKeepingTotals(budget) ==
  /\ delivered' = Project(cursor, budget)
  /\ cursor' = [cursor EXCEPT !.position = Total]
  /\ UNCHANGED <<head, tail, head_cost, tail_cost, totals, bytes>>

\* deliver: the next projection starts where this one ends.
Deliver(budget) ==
  /\ delivered' = Project(cursor, budget)
  /\ cursor' = [position |-> Total, totals |-> totals]
  /\ UNCHANGED <<head, tail, head_cost, tail_cost, totals, bytes>>

CaptureNext ==
  \/ \E stream \in Streams, len \in ChunkSizes : Capture(stream, len)
  \/ \E budget \in TokenBudgets : Deliver(budget)

----------------------------------------------------------------------------
(* Properties                                                              *)

\* Every retained fragment is what was bytes there.
Faithful(fragments) ==
  \A i \in DOMAIN fragments :
    /\ fragments[i].len > 0 /\ FragmentEnd(fragments[i]) <= Len(bytes)
    /\ \A b \in 1..fragments[i].len : bytes[fragments[i].start + b] = fragments[i].stream

Adjacent(fragments) ==
  \A i \in 1..(Len(fragments) - 1) : FragmentEnd(fragments[i]) = fragments[i + 1].start

HeadIsPrefix == Faithful(head) /\ Adjacent(head) /\ (head # <<>> => head[1].start = 0)
TailIsSuffix ==
  /\ Faithful(tail) /\ Adjacent(tail)
  /\ tail # <<>> => /\ FragmentEnd(Last(tail)) = Len(bytes)
                    /\ tail[1].start >= SumLen(head)

BudgetHolds ==
  /\ head_cost = SumLen(head) + FRAGMENT_OVERHEAD * Len(head)
  /\ tail_cost = SumLen(tail) + FRAGMENT_OVERHEAD * Len(tail)
  /\ head_cost <= HALF_BUDGET /\ tail_cost <= HALF_BUDGET
  /\ Len(head) <= MAX_FRAGMENTS_PER_HALF /\ Len(tail) <= MAX_FRAGMENTS_PER_HALF

DeliveryAddsUp ==
  LET f == delivered.fragments
      new(stream) == Cardinality({b \in (delivered.since + 1)..delivered.until : bytes[b] = stream}) IN
  /\ Faithful(f)
  /\ \A i \in DOMAIN f : f[i].start >= delivered.since
  /\ \A i \in 1..(Len(f) - 1) : FragmentEnd(f[i]) <= f[i + 1].start
  /\ \A stream \in Streams : StreamBytes(f, stream) + delivered.omitted[stream] = new(stream)

\* Whatever a command writes, its output keeps the first bytes without a gap and
\* the last ones up to the newest, so what is omitted is one stretch between the
\* two, within the budget of data and metadata (architecture.md:95).  And what a
\* model is given is new, in order and exact: the bytes it is shown and the ones
\* it is told are omitted are all that came since its last delivery.
DeliveryIsExact == HeadIsPrefix /\ TailIsSuffix /\ BudgetHolds /\ DeliveryAddsUp
================================================================================
