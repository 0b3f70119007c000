------------------------------ MODULE EventFanout ------------------------------
(***************************************************************************)
(* The delivery of core events to bounded and unbounded subscribers:       *)
(* fanout.rs.  Any task may emit; an emission is one critical section over *)
(* the bounded subscribers and then one over the others.                   *)
(***************************************************************************)
EXTENDS Naturals, SequencesExt, FiniteSets

CONSTANTS
  Emitters,
  MaxEmits,  \* bound: events of one behaviour
  Bounded, Unbounded, \* subscribers of subscribe and of subscribe_lossless
  Capacity, Snapshot  \* the events replayed to a new subscriber

Subscribers == Bounded \cup Unbounded
NoEvent == [by |-> "none", nr |-> 0]

VARIABLES
  lossy, lossless,   \* the subscribers registered
  emitting, sent,    \* the event of an emitter between its two sections; how many it sent
  closed,            \* receivers that are gone
  came,              \* the events a subscriber's channel was given
  unread,            \* how many of them wait in a bounded channel
  order,             \* history: the order of the bounded and of the unbounded sections
  since              \* history: where in that order a subscriber came, 0 for never

fanoutVars == <<lossy, lossless, emitting, sent, closed, came, unread, order, since>>

FanoutInit ==
  /\ lossy = {} /\ lossless = {} /\ closed = {}
  /\ emitting = [e \in Emitters |-> NoEvent] /\ sent = [e \in Emitters |-> 0]
  /\ came = [s \in Subscribers |-> <<>>] /\ unread = [s \in Bounded |-> 0]
  /\ order = [lossy |-> <<>>, lossless |-> <<>>]
  /\ since = [s \in Subscribers |-> 0]

\* The snapshot is in the channel, as far as it fits, before the subscriber is in
\* the list.
Subscribe(s) ==
  LET fits == IF Len(Snapshot) < Capacity THEN Len(Snapshot) ELSE Capacity IN
  /\ since[s] = 0
  /\ came' = [came EXCEPT ![s] = SubSeq(Snapshot, 1, fits)]
  /\ unread' = [unread EXCEPT ![s] = fits]
  /\ lossy' = lossy \cup {s}
  /\ since' = [since EXCEPT ![s] = Len(order.lossy) + 1]
  /\ UNCHANGED <<lossless, emitting, sent, closed, order>>

SubscribeLossless(s) ==
  /\ since[s] = 0
  /\ came' = [came EXCEPT ![s] = Snapshot]
  /\ lossless' = lossless \cup {s}
  /\ since' = [since EXCEPT ![s] = Len(order.lossless) + 1]
  /\ UNCHANGED <<lossy, emitting, sent, closed, unread, order>>

\* try_send drops what a full channel cannot take; a closed one is pruned.
EmitLossy(e) ==
  LET event == [by |-> e, nr |-> sent[e] + 1]
      takes == {s \in lossy \ closed : unread[s] < Capacity} IN
  /\ emitting[e] = NoEvent /\ Len(order.lossy) < MaxEmits
  /\ emitting' = [emitting EXCEPT ![e] = event]
  /\ sent' = [sent EXCEPT ![e] = @ + 1]
  /\ lossy' = lossy \ closed
  /\ came' = [s \in Subscribers |-> IF s \in takes THEN Append(came[s], event) ELSE came[s]]
  /\ unread' = [s \in Bounded |-> IF s \in takes THEN unread[s] + 1 ELSE unread[s]]
  /\ order' = [order EXCEPT !.lossy = Append(@, event)]
  /\ UNCHANGED <<lossless, closed, since>>

EmitLossless(e) ==
  /\ emitting[e] # NoEvent
  /\ emitting' = [emitting EXCEPT ![e] = NoEvent]
  /\ lossless' = lossless \ closed
  /\ came' = [s \in Subscribers |->
       IF s \in lossless \ closed THEN Append(came[s], emitting[e]) ELSE came[s]]
  /\ order' = [order EXCEPT !.lossless = Append(@, emitting[e])]
  /\ UNCHANGED <<lossy, sent, closed, unread, since>>

\* Only a bounded channel shows an emitter whether it is read.
Receive(s) ==
  /\ s \notin closed /\ unread[s] > 0
  /\ unread' = [unread EXCEPT ![s] = @ - 1]
  /\ UNCHANGED <<lossy, lossless, emitting, sent, closed, came, order, since>>

Close(s) ==
  /\ since[s] > 0 /\ s \notin closed
  /\ closed' = closed \cup {s}
  /\ UNCHANGED <<lossy, lossless, emitting, sent, came, unread, order, since>>

FanoutNext ==
  \/ \E e \in Emitters : EmitLossy(e) \/ EmitLossless(e)
  \/ \E s \in Bounded : Subscribe(s) \/ Receive(s)
  \/ \E s \in Unbounded : SubscribeLossless(s)
  \/ \E s \in Subscribers : Close(s)

----------------------------------------------------------------------------
(* Properties                                                              *)

DueTo(s) == LET o == IF s \in Bounded THEN order.lossy ELSE order.lossless IN SubSeq(o, since[s], Len(o))
IsSubsequence(part, whole) ==
  \E picked \in SUBSET DOMAIN whole : part = [i \in 1..Cardinality(picked) |-> whole[SetToSortSeq(picked, <)[i]]]
OfEmitter(e, events) == SelectSeq(events, LAMBDA event : event.by = e)

\* An unbounded subscriber gets the snapshot and then every event from its
\* registration on, each once and in one order for all of them;
\* a bounded one gets the same with gaps, and only where its channel was full; and
\* the events of one emitter stay in order, although the two kinds of subscribers
\* may see the events of two emitters in different orders.
SubscribersAgree ==
  /\ \A s \in Unbounded \ closed : since[s] > 0 => came[s] = Snapshot \o DueTo(s)
  /\ \A s \in Bounded \ closed : since[s] > 0 =>
       /\ IsSubsequence(came[s], Snapshot \o DueTo(s))
       /\ came[s] # Snapshot \o DueTo(s) => Len(Snapshot \o DueTo(s)) > Capacity
  /\ \A e \in Emitters : IsPrefix(OfEmitter(e, order.lossless), OfEmitter(e, order.lossy))
================================================================================
