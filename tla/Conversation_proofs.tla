-------------------------- MODULE Conversation_proofs --------------------------
(***************************************************************************)
(* Proofs about Conversation and SessionFile: the file, the transcript and *)
(* the active history agree, for any number of submissions, entries,       *)
(* turns, calls, clients, failed writes and crashes, each until the        *)
(* accident that undoes it; and about ContextBudget, for every window and  *)
(* every configuration that validate_config lets in.                       *)
(*                                                                         *)
(* The sequence lemmas come first: FlattenSeq, what a history says and     *)
(* what is read from the lines of a file.  Each part of ConversationInv    *)
(* then has a lemma that every step keeps it; the theorems come behind the *)
(* last part they need.                                                    *)
(***************************************************************************)
EXTENDS Conversation, ContextBudget, FiniteSetTheorems, SequenceTheorems, TLAPS


(***************************************************************************)
(* The budget.                                                             *)
(***************************************************************************)
\* Multiplying by a larger factor.
LEMMA Monotone == ASSUME NEW w \in Nat, NEW a \in Nat, NEW b \in Nat, a <= b
                  PROVE  w * a <= w * b
<1>1. PICK c \in Nat : b = a + c  BY SMT
<1>2. w * b = w * a + w * c  BY <1>1, SMT
<1>3. w * c \in Nat  BY SMT
<1> QED  BY <1>2, <1>3, SMT

\* The quotient of a product by its second factor, at least and at most.
LEMMA QuotientAtLeast == ASSUME NEW p \in Nat, NEW d \in Nat \ {0}, NEW q \in Nat, q * d <= p
                         PROVE  q <= p \div d
<1>1. p \div d \in Nat /\ p < (p \div d) * d + d  BY SMT
<1>2. SUFFICES ASSUME q > p \div d PROVE FALSE  BY <1>1, SMT
<1>3. (p \div d) + 1 <= q  BY <1>1, <1>2, SMT
<1>4. d * ((p \div d) + 1) <= d * q  BY <1>1, <1>3, Monotone, SMT
<1> QED  BY <1>1, <1>4, SMT

\* The reserve is a number of tokens, at most half the window.
LEMMA ReserveFits == ASSUME NEW config \in Configs, NEW window \in Nat
                     PROVE  Reserve(config, window) \in 0 .. (window \div 2)
<1>1. config.reserve_tokens = Derived \/ config.reserve_tokens \in Nat  BY BudgetAssumption DEF Configs
<1>2. window \div 5 \in Nat /\ window \div 2 \in Nat  BY SMT
<1>3. Requested(config, window) \in Nat
  BY <1>1, <1>2, BudgetAssumption DEF Requested, Clamp
<1> QED  BY <1>2, <1>3 DEF Reserve, Smaller

\* The trigger ratio is one half at least.
LEMMA TriggeredFromHalf == ASSUME NEW config \in Configs, NEW window \in Nat
                           PROVE  Triggered(config, window) \in Nat /\ window \div 2 <= Triggered(config, window)
<1> DEFINE n == config.trigger_ratio.num
           d == config.trigger_ratio.den
           h == window \div 2
<1>1. n \in Nat /\ d \in Nat \ {0} /\ d <= 2 * n  BY DEF Configs, Ratios
<1>2. h \in Nat /\ 2 * h <= window  BY SMT
<1>3. h * d <= h * (2 * n)  BY <1>1, <1>2, Monotone, SMT
<1>4. n * (2 * h) <= n * window  BY <1>1, <1>2, Monotone, SMT
<1>5. h * (2 * n) = n * (2 * h) /\ n * window = window * n  BY <1>1, <1>2, SMT
<1>6. window * n \in Nat /\ h * d \in Nat  BY <1>1, <1>2, SMT
<1>7. h * d <= window * n  BY <1>3, <1>4, <1>5, <1>6, <1>1, <1>2, SMT
<1>8. h <= (window * n) \div d  BY <1>1, <1>2, <1>6, <1>7, QuotientAtLeast
<1>9. (window * n) \div d \in Nat  BY <1>1, <1>6, SMTT(40)
<1> QED  BY <1>8, <1>9 DEF Triggered

\* compaction_threshold and reserve_tokens: what a request may reach before it
\* is compacted and what is kept for the answer fit the window together, and
\* the threshold is never in the lower half of the window, so that a compaction
\* that halves a conversation is not due again at once.
THEOREM ThresholdLeavesReserve ==
  ASSUME NEW config \in Configs, NEW window \in Nat
  PROVE  /\ Threshold(config, window) + Reserve(config, window) <= window
         /\ window \div 2 <= Threshold(config, window)
<1>1. Reserve(config, window) \in Nat /\ Reserve(config, window) <= window \div 2
  BY ReserveFits, SMT
<1>2. Triggered(config, window) \in Nat /\ window \div 2 <= Triggered(config, window)
  BY TriggeredFromHalf
<1>3. window \div 2 \in Nat /\ 2 * (window \div 2) <= window  BY SMT
<1> QED  BY <1>1, <1>2, <1>3 DEF Threshold, Smaller, SaturatingSub

\* should_compact: a request that is sent without a compaction leaves the
\* reserve free, whatever the configuration; and an empty request is not
\* compacted when the window is at least two tokens.
THEOREM UncompactedFits ==
  ASSUME NEW config \in Configs, NEW window \in Nat \ {0}, NEW projected \in Nat,
         ~ShouldCompact(config, window, projected)
  PROVE  projected + Reserve(config, window) < window
<1>1. Reserve(config, window) \in Nat  BY ReserveFits, SMT
<1>2. Triggered(config, window) \in Nat  BY TriggeredFromHalf
<1>3. Threshold(config, window) + Reserve(config, window) <= window
  BY ThresholdLeavesReserve
<1>4. Threshold(config, window) \in Nat
  BY <1>1, <1>2 DEF Threshold, Smaller, SaturatingSub
<1>5. projected < Threshold(config, window)  BY <1>4 DEF ShouldCompact
<1> QED  BY <1>1, <1>3, <1>4, <1>5

\* summary_output_tokens: a summary's output fits the reserve as soon as the
\* reserve is as large as the smallest output, and the window as soon as that
\* is four times that; for smaller windows the code asks for more than there is.
THEOREM SummaryFits ==
  ASSUME NEW config \in Configs, NEW window \in Nat
  PROVE  /\ MIN_SUMMARY_OUTPUT_TOKENS <= Reserve(config, window)
              => SummaryOutput(config, window) <= Reserve(config, window)
         /\ window < MIN_SUMMARY_OUTPUT_TOKENS => SummaryOutput(config, window) > window
<1>1. Reserve(config, window) \in Nat /\ Reserve(config, window) <= window \div 2
  BY ReserveFits, SMT
<1>2. window \div 2 <= window  BY SMT
<1>3. Reserve(config, window) \div 2 \in Nat /\ Reserve(config, window) \div 2 <= Reserve(config, window)
  BY <1>1, SMT
<1> QED  BY <1>1, <1>2, <1>3, BudgetAssumption DEF SummaryOutput, Clamp

LEMMA EstimatedIsNat == ASSUME NEW texts \in Texts PROVE Estimated(texts) \in Nat
  BY DEF Texts, Estimated, SaturatingSub

\* context_popup: a context the popup warns of is shown with 100% or more, and
\* one it shows with more than 100% is warned of.  (100% without a warning is
\* the last hundredth of the window, which the percentage rounds up.)  It warns
\* exactly when the report of the core, which computes it apart, has no free space.
THEOREM WarningAgrees ==
  ASSUME NEW texts \in Texts, NEW window \in Nat \ {0}
  PROVE  /\ Warned(texts, window) => Percent(texts, window) >= 100
         /\ Percent(texts, window) > 100 => Warned(texts, window)
         /\ Warned(texts, window) <=> Free(texts, window) = 0
<1> DEFINE e == Estimated(texts)
           p == e * 100 + (window - 1)
<1>1. e \in Nat /\ p \in Nat  BY EstimatedIsNat, SMT
<1> HIDE DEF e
<1>2. ASSUME e >= window PROVE p \div window >= 100
  <2>1. 100 * window <= p  BY <1>1, <1>2, SMT
  <2> QED  BY <1>1, <2>1, QuotientAtLeast, SMT
<1>3. ASSUME p \div window > 100, e < window PROVE FALSE
  <2>1. p < 101 * window  BY <1>1, <1>3, SMT
  <2>2. (p \div window) * window <= p /\ p \div window \in Nat  BY <1>1, SMT
  <2>3. window * 101 <= window * (p \div window)  BY <1>3, <2>2, Monotone, SMT
  <2> QED  BY <1>1, <2>1, <2>2, <2>3, SMT
<1>4. Warned(texts, window) <=> Free(texts, window) = 0
  BY EstimatedIsNat, SMT DEF Warned, Free, SaturatingSub
<1> QED  BY <1>1, <1>2, <1>3, <1>4 DEF Warned, Percent, e

(***************************************************************************)
(* Sequences, what a history says, and what is read from a file.           *)
(***************************************************************************)

\* A set of natural numbers has a least element: the intervals below its
\* elements are finite sets, which strict inclusion orders well.
LEMMA LeastNatural ==
  ASSUME NEW T \in SUBSET Nat, T # {}
  PROVE  \E n \in T : \A m \in T : n <= m
<1> DEFINE Below(n) == 0..n
           family == {Below(n) : n \in T}
           order == StrictSubsetOrdering(Nat)
           subsets == FiniteSubsetsOf(Nat)
<1>1. IsWellFoundedOn(order, subsets)
  BY FS_StrictSubsetOrderingWellFounded
<1>2. \A n \in T : Below(n) \in subsets
  <2> TAKE n \in T
  <2>1. IsFiniteSet(0..n)
    BY FS_Interval
  <2> QED BY <2>1 DEF FiniteSubsetsOf
<1>3. family \subseteq subsets /\ family # {}
  <2> HIDE DEF Below, subsets
  <2> QED BY <1>2
<1>4. PICK least \in family : \A other \in family : ~(<<other, least>> \in order)
  <2> HIDE DEF family, order, subsets
  <2> QED BY <1>1, <1>3, WFMin
<1>5. PICK n \in T : least = Below(n)
  BY <1>4
<1>6. ASSUME NEW m \in T, ~(n <= m) PROVE FALSE
  <2>1. Below(m) \subseteq Below(n) /\ n \in Below(n) /\ n \notin Below(m)
    BY <1>6
  <2>2. <<Below(m), Below(n)>> \in order
    BY <2>1 DEF StrictSubsetOrdering
  <2> QED BY <1>4, <1>5, <2>2
<1> QED BY <1>6


(***************************************************************************)
(* Lists of lists, one after the other.                                    *)
(***************************************************************************)
IsFlat(f, seqs, n) == f = [i \in 1..n |-> IF i = 1 THEN seqs[i] ELSE f[i-1] \o seqs[i]]

\* The first lists are joined in one way only.
LEMMA FlatAgree ==
  ASSUME NEW s, NEW t, NEW f, NEW g, NEW n \in Nat, NEW m \in Nat, n <= m,
         IsFlat(f, s, n), IsFlat(g, t, m), \A i \in 1..n : s[i] = t[i]
  PROVE  \A i \in 1..n : f[i] = g[i]
<1> DEFINE T == {i \in 1..n : f[i] # g[i]}
<1>1. SUFFICES ASSUME T # {} PROVE FALSE
  OBVIOUS
<1>2. PICK k \in T : \A j \in T : k <= j
  <2>1. T \in SUBSET Nat
    BY SMT
  <2> QED BY <1>1, <2>1, LeastNatural
<1>3. k \in 1..n /\ k \in 1..m /\ f[k] # g[k]
  BY <1>2, SMT
<1>4. f[k] = (IF k = 1 THEN s[k] ELSE f[k-1] \o s[k]) /\ g[k] = (IF k = 1 THEN t[k] ELSE g[k-1] \o t[k])
  BY <1>3 DEF IsFlat
<1>5. k # 1 => k - 1 \in 1..n /\ k - 1 \notin T
  BY <1>2, <1>3, SMT
<1>6. k # 1 => f[k-1] = g[k-1]
  BY <1>5
<1> QED BY <1>3, <1>4, <1>6

\* They are joined.
LEMMA FlatExists ==
  ASSUME NEW S, NEW s \in Seq(Seq(S)), NEW n \in 1..Len(s)
  PROVE  \E f : IsFlat(f, s, n) /\ f \in [1..n -> Seq(S)]
<1> DEFINE Has(k) == \E f : IsFlat(f, s, k) /\ f \in [1..k -> Seq(S)]
           T == {k \in 1..Len(s) : ~Has(k)}
<1>1. SUFFICES ASSUME T # {} PROVE FALSE
  OBVIOUS
<1>2. PICK k \in T : \A j \in T : k <= j
  <2>1. T \in SUBSET Nat
    BY SMT
  <2> QED BY <1>1, <2>1, LeastNatural
<1>3. k \in 1..Len(s) /\ ~Has(k)
  BY <1>2
<1>4. s[k] \in Seq(S)
  BY <1>3
<1>5. CASE k = 1
  <2> DEFINE f == [i \in 1..1 |-> s[i]]
  <2>1. f = [i \in 1..1 |-> IF i = 1 THEN s[i] ELSE f[i-1] \o s[i]]
    BY SMT
  <2>2. f \in [1..1 -> Seq(S)]
    BY <1>4, <1>5, SMT
  <2>3. IsFlat(f, s, 1)
    BY <2>1 DEF IsFlat
  <2> HIDE DEF f
  <2> QED BY <1>3, <1>5, <2>2, <2>3
<1>6. CASE k # 1
  <2>1. k - 1 \in 1..Len(s) /\ k - 1 \notin T /\ k \in Nat /\ k > 1
    <3> HIDE DEF T
    <3>1. k \in 1..Len(s)
      BY <1>3
    <3>2. k - 1 \in 1..Len(s) /\ k \in Nat /\ k > 1 /\ ~(k <= k - 1)
      BY <1>6, <3>1, SMT
    <3> QED BY <1>2, <3>2
  <2>2. PICK g : IsFlat(g, s, k - 1) /\ g \in [1..(k-1) -> Seq(S)]
    BY <2>1
  <2> DEFINE f == [i \in 1..k |-> IF i = k THEN g[k-1] \o s[k] ELSE g[i]]
  <2>3. f \in [1..k -> Seq(S)]
    <3>1. g[k-1] \in Seq(S)
      BY <2>1, <2>2, SMT
    <3>2. g[k-1] \o s[k] \in Seq(S)
      BY <1>4, <3>1
    <3>3. \A i \in 1..k : i # k => g[i] \in Seq(S)
      BY <2>1, <2>2, SMT
    <3> QED BY <3>2, <3>3
  <2>4. ASSUME NEW i \in 1..k PROVE f[i] = IF i = 1 THEN s[i] ELSE f[i-1] \o s[i]
    <3>1. CASE i = k
      <4>1. k - 1 \in 1..k /\ k - 1 # k
        BY <2>1, SMT
      <4> QED BY <1>6, <3>1, <4>1
    <3>2. CASE i # k
      <4>1. i \in 1..(k-1) /\ (i # 1 => i - 1 \in 1..k /\ i - 1 # k)
        BY <2>1, <3>2, SMT
      <4>2. g[i] = IF i = 1 THEN s[i] ELSE g[i-1] \o s[i]
        BY <2>2, <4>1 DEF IsFlat
      <4> QED BY <3>2, <4>1, <4>2
    <3> QED BY <3>1, <3>2
  <2>5. IsFlat(f, s, k)
    <3>1. f = [i \in 1..k |-> f[i]]
      BY <2>3
    <3> HIDE DEF f
    <3> QED BY <2>4, <3>1 DEF IsFlat
  <2> HIDE DEF f
  <2> QED BY <1>3, <2>3, <2>5
<1> QED BY <1>5, <1>6

\* What FlattenSeq returns.
LEMMA FlattenIsFlat ==
  ASSUME NEW S, NEW s \in Seq(Seq(S)), Len(s) # 0
  PROVE  \E f : IsFlat(f, s, Len(s)) /\ f \in [1..Len(s) -> Seq(S)] /\ FlattenSeq(s) = f[Len(s)]
<1>1. Len(s) \in 1..Len(s)
  BY SMT
<1>2. \E f : IsFlat(f, s, Len(s))
  BY <1>1, FlatExists
<1> DEFINE g == CHOOSE f : f = [i \in 1..Len(s) |-> IF i = 1 THEN s[i] ELSE f[i-1] \o s[i]]
<1>3. IsFlat(g, s, Len(s))
  BY <1>2 DEF IsFlat
<1>4. FlattenSeq(s) = g[Len(s)]
  BY DEF FlattenSeq
<1>5. PICK f : IsFlat(f, s, Len(s)) /\ f \in [1..Len(s) -> Seq(S)]
  BY <1>1, FlatExists
<1>6. g = f
  <2> HIDE DEF g
  <2>1. \A i \in 1..Len(s) : g[i] = f[i]
    BY <1>3, <1>5, FlatAgree
  <2>2. g = [i \in 1..Len(s) |-> g[i]]
    BY <1>3 DEF IsFlat
  <2> QED BY <1>5, <2>1, <2>2
<1> QED BY <1>4, <1>5, <1>6

\* FlattenSeq joins lists, and one more list behind them.
LEMMA FlattenPush ==
  ASSUME NEW S, NEW s \in Seq(Seq(S)), NEW x \in Seq(S)
  PROVE  FlattenSeq(s) \in Seq(S) /\ FlattenSeq(Append(s, x)) = FlattenSeq(s) \o x
<1> DEFINE n == Len(s)
           t == Append(s, x)
<1>1. t \in Seq(Seq(S)) /\ Len(t) = n + 1 /\ n \in Nat /\ t[n + 1] = x /\ \A i \in 1..n : t[i] = s[i]
  OBVIOUS
<1>2. PICK g : IsFlat(g, t, Len(t)) /\ FlattenSeq(t) = g[Len(t)]
  <2>1. Len(t) # 0
    BY <1>1, SMT
  <2> HIDE DEF t
  <2> QED BY <1>1, <2>1, FlattenIsFlat
<1>3. g[n + 1] = IF n + 1 = 1 THEN x ELSE g[n] \o x
  <2>1. n + 1 \in 1..(n + 1) /\ (n + 1) - 1 = n
    BY <1>1, SMT
  <2>2. IsFlat(g, t, n + 1)
    BY <1>1, <1>2
  <2> HIDE DEF t, n
  <2> QED BY <1>1, <2>1, <2>2 DEF IsFlat
<1>4. CASE n = 0
  <2>1. s = <<>> /\ FlattenSeq(s) = s
    BY <1>4 DEF FlattenSeq
  <2>2. <<>> \o x = x /\ <<>> \in Seq(S)
    OBVIOUS
  <2>3. n + 1 = 1
    BY <1>4, SMT
  <2>4. FlattenSeq(t) = x
    <3> HIDE DEF t, n
    <3> QED BY <1>1, <1>2, <1>3, <2>3
  <2> HIDE DEF n
  <2> QED BY <2>1, <2>2, <2>4
<1>5. CASE n # 0
  <2>1. PICK f : IsFlat(f, s, n) /\ f \in [1..n -> Seq(S)] /\ FlattenSeq(s) = f[n]
    BY <1>5, FlattenIsFlat
  <2>2. n \in 1..n /\ n <= n + 1
    BY <1>1, <1>5, SMT
  <2>3. \A i \in 1..n : f[i] = g[i]
    <3>1. IsFlat(g, t, n + 1)
      BY <1>1, <1>2
    <3>2. n \in Nat /\ n + 1 \in Nat /\ \A i \in 1..n : s[i] = t[i]
      BY <1>1, SMT
    <3>3. IsFlat(f, s, n)
      BY <2>1
    <3> HIDE DEF t, n
    <3> QED BY <2>2, <3>1, <3>2, <3>3, FlatAgree
  <2>4. n + 1 # 1
    BY <1>1, <1>5, SMT
  <2>5. FlattenSeq(t) = g[n + 1]
    BY <1>1, <1>2
  <2>6. f[n] = g[n] /\ f[n] \in Seq(S)
    BY <2>1, <2>2, <2>3
  <2>7. FlattenSeq(t) = FlattenSeq(s) \o x
    <3> HIDE DEF t, n
    <3> QED BY <1>3, <2>1, <2>4, <2>5, <2>6
  <2> QED BY <2>1, <2>6, <2>7
<1> QED BY <1>4, <1>5

(***************************************************************************)
(* What a history says.                                                    *)
(***************************************************************************)
LEMMA EntryFields ==
  ASSUME NEW e \in Entries
  PROVE  e.role \in {"user", "assistant", "tool"} /\ e.says \in Seq(Nat)
BY DEF Entries

\* A history with one more entry says what the entry says behind the rest.
LEMMA SaidPush ==
  ASSUME NEW s \in Seq(Entries), NEW e \in Entries
  PROVE  Said(s) \in Seq(Nat) /\ Said(Append(s, e)) = Said(s) \o e.says
<1> DEFINE f == [i \in DOMAIN s |-> s[i].says]
           t == Append(s, e)
           g == [i \in DOMAIN t |-> t[i].says]
<1>1. e.says \in Seq(Nat) /\ \A i \in 1..Len(s) : s[i].says \in Seq(Nat)
  BY EntryFields
<1>2. Len(s) \in Nat /\ DOMAIN s = 1..Len(s)
  OBVIOUS
<1>3. f \in Seq(Seq(Nat)) /\ Len(f) = Len(s)
  BY <1>1, <1>2, SMT
<1>4. t \in Seq(Entries) /\ Len(t) = Len(s) + 1 /\ DOMAIN t = 1..(Len(s) + 1) /\ t[Len(s) + 1] = e /\ \A i \in 1..Len(s) : t[i] = s[i]
  OBVIOUS
<1>5. g = Append(f, e.says)
  <2> HIDE DEF t
  <2>1. g = [i \in 1..(Len(s) + 1) |-> t[i].says]
    BY <1>4
  <2>2. Append(f, e.says) = [i \in 1..(Len(s) + 1) |-> IF i = Len(s) + 1 THEN e.says ELSE s[i].says]
    BY <1>1, <1>2, <1>3, SMT
  <2>3. \A i \in 1..(Len(s) + 1) : t[i].says = IF i = Len(s) + 1 THEN e.says ELSE s[i].says
    BY <1>2, <1>4, SMT
  <2> HIDE DEF f, g
  <2> QED BY <2>1, <2>2, <2>3
<1>6. Said(s) = FlattenSeq(f) /\ Said(t) = FlattenSeq(g)
  BY DEF Said
<1> HIDE DEF f, g
<1>7. FlattenSeq(f) \in Seq(Nat) /\ FlattenSeq(Append(f, e.says)) = FlattenSeq(f) \o e.says
  BY <1>1, <1>3, FlattenPush
<1> QED BY <1>5, <1>6, <1>7

LEMMA SaidType ==
  ASSUME NEW s \in Seq(Entries)
  PROVE  Said(s) \in Seq(Nat)
<1>1. PICK e : e = [role |-> "user", says |-> <<>>]
  OBVIOUS
<1>2. e \in Entries
  BY <1>1 DEF Entries
<1> QED BY <1>2, SaidPush

LEMMA SaidNothing == Said(<<>>) = <<>>
<1> DEFINE f == [i \in DOMAIN (<<>>) |-> (<<>>)[i].says]
<1>1. f = <<>> /\ Len(f) = 0
  BY SMT
<1>2. Said(<<>>) = FlattenSeq(f)
  BY DEF Said
<1> HIDE DEF f
<1> QED BY <1>1, <1>2 DEF FlattenSeq

LEMMA JoinedInAnyOrder ==
  \A a, b, c \in Seq(Nat) : (a \o b) \o c = a \o (b \o c)
BY ConcatAssociative, SMTT(40)

LEMMA PushedBehind ==
  \A a, b \in Seq(Entries), e \in Entries : a \o Append(b, e) = Append(a \o b, e)
<1> TAKE a, b \in Seq(Entries), e \in Entries
<1> QED OBVIOUS

\* Two histories, one behind the other.
LEMMA SaidConcat ==
  ASSUME NEW s \in Seq(Entries), NEW t \in Seq(Entries)
  PROVE  Said(s \o t) = Said(s) \o Said(t)
<1> DEFINE Joined(u) == Said(s \o u) = Said(s) \o Said(u)
           T == {n \in Nat : \E u \in Seq(Entries) : Len(u) = n /\ ~Joined(u)}
<1>1. SUFFICES ASSUME T # {} PROVE FALSE
  <2>1. Len(t) \in Nat
    OBVIOUS
  <2> QED BY <1>1, <2>1
<1>2. PICK n \in T : \A m \in T : n <= m
  <2>1. T \in SUBSET Nat
    OBVIOUS
  <2> HIDE DEF T
  <2> QED BY <1>1, <2>1, LeastNatural
<1>3. PICK u \in Seq(Entries) : Len(u) = n /\ ~Joined(u)
  BY <1>2
<1>4. n \in Nat
  BY <1>2
<1>5. CASE n = 0
  <2>1. u = <<>> /\ s \o u = s
    BY <1>3, <1>5
  <2>2. Said(s) \in Seq(Nat)
    BY SaidType
  <2>3. Said(s) \o <<>> = Said(s)
    BY <2>2
  <2> QED BY <1>3, <2>1, <2>3, SaidNothing
<1>6. CASE n # 0
  <2>1. PICK v \in Seq(Entries), e \in Entries : u = Append(v, e)
    <3>1. SubSeq(u, 1, n - 1) \in Seq(Entries) /\ u[n] \in Entries /\ u = Append(SubSeq(u, 1, n - 1), u[n])
      BY <1>3, <1>4, <1>6
    <3> QED BY <3>1
  <2>2. Len(v) = n - 1 /\ n - 1 \in Nat /\ ~(n <= n - 1)
    BY <1>3, <1>4, <1>6, <2>1
  <2>3. Joined(v)
    <3> HIDE DEF Joined
    <3> QED BY <1>2, <2>2
  <2>4. s \o u = Append(s \o v, e) /\ s \o v \in Seq(Entries)
    BY <2>1
  <2>5. Said(s \o u) = Said(s \o v) \o e.says /\ Said(u) = Said(v) \o e.says
    BY <2>1, <2>4, SaidPush
  <2>6. Said(s) \in Seq(Nat) /\ Said(v) \in Seq(Nat) /\ e.says \in Seq(Nat)
    BY <2>1, SaidPush, EntryFields
  <2>7. (Said(s) \o Said(v)) \o e.says = Said(s) \o (Said(v) \o e.says)
    BY <2>6, JoinedInAnyOrder
  <2> QED BY <1>3, <2>3, <2>5, <2>7
<1> QED BY <1>5, <1>6

(***************************************************************************)
(* What is read from a file with one more line.                            *)
(***************************************************************************)
LEMMA LineFields ==
  ASSUME NEW line \in Lines
  PROVE  /\ line.kind \in {"entry", "todos", "checkpoint"}
         /\ line.kind = "entry" => line.entry \in Entries
         /\ line.kind = "todos" => line.todos \in {0} \cup TodoLists
         /\ line.kind = "checkpoint" => line.summary \in Entries /\ line.first_kept \in Nat
BY DEF Lines

LEMMA EntriesOfPush ==
  ASSUME NEW lines \in Seq(Lines), NEW line \in Lines
  PROVE  /\ EntriesOf(lines) \in Seq(Entries)
         /\ EntriesOf(Append(lines, line)) = IF line.kind = "entry" THEN Append(EntriesOf(lines), line.entry)
                                             ELSE EntriesOf(lines)
<1> DEFINE Read(l) == IF l.kind = "entry" THEN <<l.entry>> ELSE <<>>
           f == [i \in DOMAIN lines |-> Read(lines[i])]
           t == Append(lines, line)
           g == [i \in DOMAIN t |-> Read(t[i])]
<1>1. \A l \in Lines : Read(l) \in Seq(Entries)
  BY LineFields
<1>2. Len(lines) \in Nat /\ DOMAIN lines = 1..Len(lines) /\ \A i \in 1..Len(lines) : lines[i] \in Lines
  OBVIOUS
<1>3. t \in Seq(Lines) /\ Len(t) = Len(lines) + 1 /\ DOMAIN t = 1..(Len(lines) + 1) /\ t[Len(lines) + 1] = line
      /\ \A i \in 1..Len(lines) : t[i] = lines[i]
  OBVIOUS
<1>4. EntriesOf(lines) = FlattenSeq(f) /\ EntriesOf(t) = FlattenSeq(g)
  BY DEF EntriesOf
<1>5. PICK x : x = Read(line)
  OBVIOUS
<1>6. x = IF line.kind = "entry" THEN <<line.entry>> ELSE <<>>
  BY <1>5
<1>7. x \in Seq(Entries)
  BY <1>1, <1>5
<1> HIDE DEF Read, t
<1>8. f \in Seq(Seq(Entries)) /\ Len(f) = Len(lines)
  BY <1>1, <1>2
<1>9. g = Append(f, x)
  <2>1. g = [i \in 1..(Len(lines) + 1) |-> Read(t[i])]
    BY <1>3
  <2>2. Append(f, x) = [i \in 1..(Len(lines) + 1) |-> IF i = Len(lines) + 1 THEN x ELSE Read(lines[i])]
    BY <1>2, <1>7, <1>8, SMT
  <2>3. \A i \in 1..(Len(lines) + 1) : Read(t[i]) = IF i = Len(lines) + 1 THEN x ELSE Read(lines[i])
    BY <1>2, <1>3, <1>5, SMT
  <2> HIDE DEF f, g
  <2> QED BY <2>1, <2>2, <2>3
<1> HIDE DEF f, g
<1>10. FlattenSeq(f) \in Seq(Entries) /\ FlattenSeq(g) = FlattenSeq(f) \o x
  BY <1>7, <1>8, <1>9, FlattenPush
<1>11. FlattenSeq(f) \o x = IF line.kind = "entry" THEN Append(FlattenSeq(f), line.entry) ELSE FlattenSeq(f)
  <2>1. CASE line.kind = "entry"
    <3>1. line.entry \in Entries
      BY <2>1, LineFields
    <3> QED BY <1>6, <1>10, <2>1, <3>1
  <2>2. CASE line.kind # "entry"
    BY <1>6, <1>10, <2>2
  <2> QED BY <2>1, <2>2
<1> USE DEF t
<1> QED BY <1>4, <1>10, <1>11

LEMMA NoEntriesOf == EntriesOf(<<>>) = <<>>
<1> DEFINE f == [i \in DOMAIN (<<>>) |-> IF (<<>>)[i].kind = "entry" THEN <<(<<>>)[i].entry>> ELSE <<>>]
<1>1. f = <<>> /\ Len(f) = 0
  BY SMT
<1>2. EntriesOf(<<>>) = FlattenSeq(f)
  BY DEF EntriesOf
<1> HIDE DEF f
<1> QED BY <1>1, <1>2 DEF FlattenSeq

\* The last line of a kind.
LEMMA LastPlaceIn ==
  ASSUME NEW lines \in Seq(Lines), NEW kind, LastPlace(lines, kind) # 0
  PROVE  LastPlace(lines, kind) \in 1..Len(lines) /\ lines[LastPlace(lines, kind)].kind = kind
<1> DEFINE P == Places(lines, kind)
           n == Len(lines)
           B == {n - i : i \in P}
<1>1. P # {} /\ LastPlace(lines, kind) = Max(P)
  BY DEF LastPlace
<1>2. n \in Nat /\ P \subseteq 1..n
  BY DEF Places
<1> HIDE DEF P, n
<1>3. B \in SUBSET Nat /\ B # {}
  <2>1. \A i \in P : n - i \in Nat
    BY <1>2, SMT
  <2>2. B \subseteq Nat
    BY <2>1
  <2>3. PICK i : i \in P
    BY <1>1
  <2>4. n - i \in B
    BY <2>3
  <2> QED BY <2>2, <2>4
<1>4. PICK b \in B : \A c \in B : b <= c
  <2> HIDE DEF B
  <2> QED BY <1>3, LeastNatural
<1>5. PICK i \in P : b = n - i
  BY <1>4
<1>6. \A j \in P : i >= j
  <2> TAKE j \in P
  <2>1. n - j \in B
    OBVIOUS
  <2>2. n - i <= n - j
    BY <1>4, <1>5, <2>1
  <2> QED BY <1>2, <2>2, SMT
<1>7. Max(P) \in P
  BY <1>6 DEF Max
<1> USE DEF P, n
<1> QED BY <1>1, <1>2, <1>7 DEF Places

LEMMA LastPlacePush ==
  ASSUME NEW lines \in Seq(Lines), NEW line \in Lines, NEW kind
  PROVE  LastPlace(Append(lines, line), kind) = IF line.kind = kind THEN Len(lines) + 1 ELSE LastPlace(lines, kind)
<1> DEFINE P == Places(lines, kind)
           t == Append(lines, line)
           n == Len(lines)
<1>1. n \in Nat /\ DOMAIN lines = 1..n /\ DOMAIN t = 1..(n + 1) /\ t[n + 1] = line /\ \A i \in 1..n : t[i] = lines[i]
  OBVIOUS
<1> HIDE DEF t, n
<1>2. CASE line.kind = kind
  <2>1. Places(t, kind) \subseteq 1..(n + 1) /\ n + 1 \in Places(t, kind)
    BY <1>1, <1>2 DEF Places
  <2>2. Max(Places(t, kind)) = n + 1
    <3>1. \A j \in Places(t, kind) : j \in Int /\ n + 1 >= j
      BY <1>1, <2>1, SMT
    <3>2. \A j \in Places(t, kind) : j >= n + 1 => j = n + 1
      BY <1>1, <2>1, SMT
    <3> QED BY <2>1, <3>1, <3>2 DEF Max
  <2>3. LastPlace(t, kind) = n + 1
    BY <2>1, <2>2 DEF LastPlace
  <2> USE DEF t, n
  <2> QED BY <1>2, <2>3
<1>3. CASE line.kind # kind
  <2>1. Places(t, kind) = Places(lines, kind)
    <3>1. \A i : i \in 1..(n + 1) <=> i \in 1..n \/ i = n + 1
      BY <1>1, SMT
    <3> QED BY <1>1, <1>3, <3>1 DEF Places
  <2>2. LastPlace(t, kind) = LastPlace(lines, kind)
    BY <2>1 DEF LastPlace
  <2> USE DEF t
  <2> QED BY <1>3, <2>2
<1> QED BY <1>2, <1>3

\* Whole files are read to the end.
LEMMA ReadWhole ==
  ASSUME NEW file \in Files
  PROVE  file.lines \in Seq(Lines) /\ file.unended = FALSE /\ Readable(file) = file.lines
<1>1. file.lines \in Seq(Lines) /\ file.unended = FALSE
  BY DEF Files
<1>2. Places(file.lines, "cut") = {}
  <2>1. \A i \in DOMAIN file.lines : file.lines[i] \in Lines
    BY <1>1
  <2> QED BY <2>1, LineFields DEF Places
<1> QED BY <1>1, <1>2 DEF Readable

\* A checkpoint is read as a history.
LEMMA ProjectedType ==
  ASSUME NEW h \in Seq(Entries), NEW line, line.summary \in Entries, line.first_kept \in Nat
  PROVE  Projected(h, line) \in Seq(Entries)
<1>1. SubSeq(h, line.first_kept + 1, Len(h)) \in Seq(Entries)
  BY SMT
<1>2. <<line.summary>> \in Seq(Entries)
  OBVIOUS
<1> QED BY <1>1, <1>2 DEF Projected

\* What is read from a file has its type.
LEMMA LoadedType ==
  ASSUME NEW file \in Files
  PROVE  /\ LoadedHistory(file) \in Seq(Entries) /\ LoadedActive(file) \in Seq(Entries)
         /\ LoadedTodos(file) \in {0} \cup TodoLists
<1> DEFINE lines == file.lines
           n == Len(lines)
           p == LastPlace(lines, "checkpoint")
           q == LastPlace(lines, "todos")
<1>1. lines \in Seq(Lines) /\ Readable(file) = lines /\ n \in Nat
  <2>1. file.lines \in Seq(Lines) /\ file.unended = FALSE /\ Readable(file) = file.lines
    BY ReadWhole
  <2>2. Len(file.lines) \in Nat
    BY <2>1
  <2> QED BY <2>1, <2>2
<1> HIDE DEF lines
<1>2. LoadedHistory(file) \in Seq(Entries)
  <2>1. PICK l \in Lines : l = TodosLine(0)
    BY DEF Lines, TodosLine
  <2> QED BY <1>1, EntriesOfPush DEF LoadedHistory
<1>3. \A k, m \in Nat : EntriesOf(SubSeq(lines, k, m)) \in Seq(Entries) \/ m > n \/ k = 0
  <2> TAKE k, m \in Nat
  <2>1. CASE m <= n /\ k # 0
    <3>1. SubSeq(lines, k, m) \in Seq(Lines)
      BY <1>1, <2>1, SMT
    <3>2. PICK l \in Lines : l = TodosLine(0)
      BY DEF Lines, TodosLine
    <3> QED BY <3>1, <3>2, EntriesOfPush
  <2> QED BY <1>1, <2>1
<1>4. LoadedActive(file) \in Seq(Entries)
  <2>1. CASE p = 0
    BY <1>1, <1>2, <2>1 DEF LoadedActive, LoadedHistory
  <2>2. CASE p # 0
    <3>1. p \in 1..n /\ lines[p].kind = "checkpoint"
      BY <1>1, <2>2, LastPlaceIn
    <3>2. lines[p] \in Lines
      BY <1>1, <3>1
    <3>3. lines[p].summary \in Entries /\ lines[p].first_kept \in Nat
      BY <3>1, <3>2, LineFields
    <3>4. EntriesOf(SubSeq(lines, 1, p)) \in Seq(Entries)
      <4>1. p \in Nat /\ 1 \in Nat /\ ~(p > n) /\ 1 # 0
        BY <1>1, <3>1, SMT
      <4> HIDE DEF p, n
      <4> QED BY <1>3, <4>1
    <3>5. EntriesOf(SubSeq(lines, p + 1, n)) \in Seq(Entries)
      <4>1. p + 1 \in Nat /\ n \in Nat /\ ~(n > n) /\ p + 1 # 0
        BY <1>1, <3>1, SMT
      <4> HIDE DEF p, n
      <4> QED BY <1>3, <4>1
    <3>6. LoadedActive(file) = Projected(EntriesOf(SubSeq(lines, 1, p)), lines[p]) \o EntriesOf(SubSeq(lines, p + 1, n))
      BY <1>1, <2>2 DEF LoadedActive
    <3>7. Projected(EntriesOf(SubSeq(lines, 1, p)), lines[p]) \in Seq(Entries)
      BY <3>3, <3>4, ProjectedType
    <3> HIDE DEF p, n
    <3> QED BY <3>5, <3>6, <3>7
  <2> QED BY <2>1, <2>2
<1>5. LoadedTodos(file) \in {0} \cup TodoLists
  <2>1. CASE q = 0
    BY <1>1, <2>1 DEF LoadedTodos
  <2>2. CASE q # 0
    <3>1. q \in 1..n /\ lines[q].kind = "todos"
      BY <1>1, <2>2, LastPlaceIn
    <3>2. lines[q] \in Lines
      BY <1>1, <3>1
    <3>3. LoadedTodos(file) = lines[q].todos
      BY <1>1, <2>2 DEF LoadedTodos
    <3> HIDE DEF q
    <3> QED BY <3>1, <3>2, <3>3, LineFields
  <2> QED BY <2>1, <2>2
<1> QED BY <1>2, <1>4, <1>5

\* What is read after one more line: an entry is the last of the transcript and of
\* the active history, a todo list replaces the one before, and a checkpoint replaces
\* the active history by its summary and what it kept of the transcript.
LEMMA LoadedPush ==
  ASSUME NEW file \in Files, NEW line \in Lines
  PROVE  /\ AppendLine(file, line) \in Files
         /\ LoadedHistory(AppendLine(file, line)) =
              IF line.kind = "entry" THEN Append(LoadedHistory(file), line.entry) ELSE LoadedHistory(file)
         /\ LoadedTodos(AppendLine(file, line)) = IF line.kind = "todos" THEN line.todos ELSE LoadedTodos(file)
         /\ LoadedActive(AppendLine(file, line)) =
              IF line.kind = "entry" THEN Append(LoadedActive(file), line.entry)
              ELSE IF line.kind = "todos" THEN LoadedActive(file)
              ELSE Projected(LoadedHistory(file), line)
<1> DEFINE lines == file.lines
           n == Len(lines)
           t == Append(lines, line)
           p == LastPlace(lines, "checkpoint")
           q == LastPlace(lines, "todos")
           new == AppendLine(file, line)
<1>1. lines \in Seq(Lines) /\ file.unended = FALSE /\ Readable(file) = lines /\ n \in Nat
  <2>1. file.lines \in Seq(Lines) /\ file.unended = FALSE /\ Readable(file) = file.lines
    BY ReadWhole
  <2>2. Len(file.lines) \in Nat
    BY <2>1
  <2> QED BY <2>1, <2>2
<1>2. t \in Seq(Lines) /\ Len(t) = n + 1 /\ t[n + 1] = line /\ \A i \in 1..n : t[i] = lines[i]
  BY <1>1
<1>3. new = [lines |-> t, unended |-> FALSE]
  BY <1>1 DEF AppendLine
<1>4. new \in Files
  BY <1>2, <1>3 DEF Files
<1>5. Readable(new) = t
  BY <1>3, <1>4, ReadWhole
<1>6. line.kind \in {"entry", "todos", "checkpoint"}
  BY LineFields
<1>7. EntriesOf(t) = IF line.kind = "entry" THEN Append(EntriesOf(lines), line.entry) ELSE EntriesOf(lines)
  BY <1>1, EntriesOfPush
<1>8. LastPlace(t, "checkpoint") = (IF line.kind = "checkpoint" THEN n + 1 ELSE p)
      /\ LastPlace(t, "todos") = (IF line.kind = "todos" THEN n + 1 ELSE q)
  BY <1>1, LastPlacePush
<1> HIDE DEF t, lines, new
<1>9. LoadedHistory(new) = IF line.kind = "entry" THEN Append(LoadedHistory(file), line.entry) ELSE LoadedHistory(file)
  BY <1>1, <1>5, <1>7 DEF LoadedHistory
<1>10. LoadedTodos(new) = IF line.kind = "todos" THEN line.todos ELSE LoadedTodos(file)
  <2>1. q # 0 => q \in 1..n
    BY <1>1, LastPlaceIn
  <2>2. n + 1 # 0
    BY <1>1, SMT
  <2> HIDE DEF q, n
  <2>3. LoadedTodos(new) = IF LastPlace(t, "todos") = 0 THEN 0 ELSE t[LastPlace(t, "todos")].todos
    BY <1>5 DEF LoadedTodos
  <2>4. LoadedTodos(file) = IF q = 0 THEN 0 ELSE lines[q].todos
    BY <1>1 DEF LoadedTodos, q
  <2> QED BY <1>2, <1>8, <2>1, <2>2, <2>3, <2>4
<1>11. CASE line.kind = "checkpoint"
  <2>1. LastPlace(t, "checkpoint") = n + 1 /\ n + 1 # 0
    BY <1>1, <1>8, <1>11, SMT
  <2>2. LoadedActive(new) = Projected(EntriesOf(SubSeq(t, 1, n + 1)), t[n + 1]) \o EntriesOf(SubSeq(t, n + 2, n + 1))
    <3>1. LoadedActive(new) = Projected(EntriesOf(SubSeq(t, 1, n + 1)), t[n + 1]) \o EntriesOf(SubSeq(t, (n + 1) + 1, Len(t)))
      BY <1>5, <2>1 DEF LoadedActive
    <3>2. (n + 1) + 1 = n + 2
      BY <1>1, SMT
    <3> QED BY <1>2, <3>1, <3>2
  <2>3. SubSeq(t, 1, n + 1) = t /\ SubSeq(t, n + 2, n + 1) = <<>>
    <3> HIDE DEF n
    <3> QED BY <1>1, <1>2, SMT
  <2>4. EntriesOf(t) = LoadedHistory(file)
    BY <1>1, <1>7, <1>11 DEF LoadedHistory
  <2>5. Projected(LoadedHistory(file), line) \in Seq(Entries)
    <3>1. LoadedHistory(file) \in Seq(Entries)
      BY LoadedType
    <3> QED BY <1>11, <3>1, LineFields, ProjectedType
  <2>6. Projected(LoadedHistory(file), line) \o <<>> = Projected(LoadedHistory(file), line)
    BY <2>5
  <2>7. LoadedActive(new) = Projected(LoadedHistory(file), line)
    <3> HIDE DEF n
    <3> QED BY <1>2, <2>2, <2>3, <2>4, <2>6, NoEntriesOf
  <2> USE DEF new
  <2> QED BY <1>4, <1>9, <1>10, <1>11, <2>7
<1>12. CASE line.kind # "checkpoint"
  <2>1. LastPlace(t, "checkpoint") = p
    BY <1>8, <1>12
  <2>2. LoadedActive(new) = IF line.kind = "entry" THEN Append(LoadedActive(file), line.entry) ELSE LoadedActive(file)
    <3>1. CASE p = 0
      BY <1>1, <1>5, <1>7, <2>1, <3>1 DEF LoadedActive
    <3>2. CASE p # 0
      <4>1. p \in 1..n /\ lines[p].kind = "checkpoint"
        BY <1>1, <3>2, LastPlaceIn
      <4>2. SubSeq(t, 1, p) = SubSeq(lines, 1, p) /\ SubSeq(t, p + 1, n + 1) = Append(SubSeq(lines, p + 1, n), line)
            /\ SubSeq(lines, p + 1, n) \in Seq(Lines) /\ t[p] = lines[p]
        <5>1. PICK k \in 1..n : k = p
          BY <4>1
        <5>2. SubSeq(lines, k + 1, n) \in Seq(Lines) /\ t[k] = lines[k]
          BY <1>1, <1>2, SMT
        <5>3. SubSeq(t, 1, k) = SubSeq(lines, 1, k)
          BY <1>1, <1>2, SMT
        <5>4. SubSeq(t, k + 1, n + 1) = Append(SubSeq(lines, k + 1, n), line)
          <6> HIDE DEF n
          <6> QED BY <1>1, <1>2, SMT
        <5> QED BY <5>1, <5>2, <5>3, <5>4
      <4> DEFINE tail == SubSeq(lines, p + 1, n)
                 head == Projected(EntriesOf(SubSeq(lines, 1, p)), lines[p])
      <4>3. LoadedActive(file) = head \o EntriesOf(tail)
        BY <1>1, <3>2 DEF LoadedActive
      <4>4. LoadedActive(new) = head \o EntriesOf(Append(tail, line))
        BY <1>2, <1>5, <2>1, <3>2, <4>2 DEF LoadedActive
      <4>5. head \in Seq(Entries)
        <5>1. lines[p] \in Lines
          BY <1>1, <4>1
        <5>2. SubSeq(lines, 1, p) \in Seq(Lines)
          <6>1. PICK k \in 1..n : k = p
            BY <4>1
          <6>2. SubSeq(lines, 1, k) \in Seq(Lines)
            BY <1>1, SMT
          <6> QED BY <6>1, <6>2
        <5>3. EntriesOf(SubSeq(lines, 1, p)) \in Seq(Entries)
          BY <5>2, EntriesOfPush
        <5> HIDE DEF p
        <5> QED BY <4>1, <5>1, <5>3, LineFields, ProjectedType
      <4>6. EntriesOf(tail) \in Seq(Entries)
            /\ EntriesOf(Append(tail, line)) = IF line.kind = "entry" THEN Append(EntriesOf(tail), line.entry) ELSE EntriesOf(tail)
        <5>1. tail \in Seq(Lines)
          BY <4>2
        <5> HIDE DEF tail
        <5> QED BY <5>1, EntriesOfPush
      <4> HIDE DEF head, tail, p
      <4>7. CASE line.kind = "entry"
        <5>1. line.entry \in Entries
          BY <4>7, LineFields
        <5>2. head \o Append(EntriesOf(tail), line.entry) = Append(head \o EntriesOf(tail), line.entry)
          BY <4>5, <4>6, <5>1, PushedBehind
        <5> QED BY <4>3, <4>4, <4>6, <4>7, <5>2
      <4>8. CASE line.kind # "entry"
        BY <4>3, <4>4, <4>6, <4>8
      <4> QED BY <4>7, <4>8
    <3> QED BY <3>1, <3>2
  <2>3. line.kind # "entry" => line.kind = "todos"
    BY <1>6, <1>12
  <2> USE DEF new
  <2> QED BY <1>4, <1>9, <1>10, <2>2, <2>3
<1> QED BY <1>11, <1>12

\* A new file is empty.
LEMMA LoadedNothing ==
  NewFile \in Files /\ LoadedHistory(NewFile) = <<>> /\ LoadedActive(NewFile) = <<>> /\ LoadedTodos(NewFile) = 0
<1>1. NewFile \in Files
  BY DEF NewFile, Files
<1>2. Readable(NewFile) = <<>>
  BY <1>1, ReadWhole DEF NewFile
<1>3. \A kind : Places(<<>>, kind) = {}
  BY DEF Places
<1>4. \A kind : LastPlace(<<>>, kind) = 0
  BY <1>3 DEF LastPlace
<1> QED BY <1>1, <1>2, <1>4, NoEntriesOf DEF LoadedHistory, LoadedActive, LoadedTodos

(***************************************************************************)
(* What a compaction makes of a history.                                   *)
(***************************************************************************)

\* A set of positions has a greatest one.
LEMMA Greatest ==
  ASSUME NEW n \in Nat, NEW P \in SUBSET (1..n), P # {}
  PROVE  \E i \in P : \A j \in P : j <= i
<1> DEFINE B == {n - i : i \in P}
<1>1. B \in SUBSET Nat /\ B # {}
  <2>1. \A i \in P : n - i \in Nat
    BY SMT
  <2>2. B \subseteq Nat
    BY <2>1
  <2>3. PICK i : i \in P
    OBVIOUS
  <2>4. n - i \in B
    BY <2>3
  <2> QED BY <2>2, <2>4
<1>2. PICK b \in B : \A c \in B : b <= c
  <2> HIDE DEF B
  <2> QED BY <1>1, LeastNatural
<1>3. PICK i \in P : b = n - i
  BY <1>2
<1>4. \A j \in P : j <= i
  <2> TAKE j \in P
  <2>1. n - j \in B
    OBVIOUS
  <2>2. n - i <= n - j
    BY <1>2, <1>3, <2>1
  <2> HIDE DEF B
  <2> QED BY <2>2, SMT
<1> QED BY <1>4

\* The tail that is kept begins with a user entry, and another one follows.
LEMMA TailHasTwo ==
  ASSUME NEW a \in Seq(Entries)
  PROVE  /\ TailStart(a) \in Nat
         /\ TailStart(a) > 0 =>
              /\ TailStart(a) \in 1..(Len(a) - 1) /\ IsUser(a[TailStart(a) + 1])
              /\ \E q \in 1..Len(a) : TailStart(a) + 1 < q /\ IsUser(a[q])
<1> DEFINE users == {i \in DOMAIN a : IsUser(a[i])}
           older == users \ {i \in users : \A j \in users : j <= i}
           m == CHOOSE i \in older : \A j \in older : j <= i
           n == Len(a)
<1>1. n \in Nat /\ users \subseteq 1..n /\ older \subseteq 1..n
  OBVIOUS
<1>2. TailStart(a) = IF older = {} THEN 0 ELSE m - 1
  BY DEF TailStart
<1>3. CASE older = {}
  BY <1>2, <1>3, SMT
<1>4. CASE older # {}
  <2>1. m \in older
    <3>1. \E i \in older : \A j \in older : j <= i
      <4> HIDE DEF older, n
      <4> QED BY <1>1, <1>4, Greatest
    <3> HIDE DEF older
    <3> QED BY <3>1
  <2>2. PICK k : k = m
    OBVIOUS
  <2>3. k \in older /\ TailStart(a) = k - 1
    BY <1>2, <1>4, <2>1, <2>2
  <2>4. k \in 1..n /\ IsUser(a[k])
    BY <2>3
  <2>5. PICK q \in users : ~(q <= k)
    BY <2>3
  <2>6. q \in 1..n /\ IsUser(a[q])
    BY <2>5
  <2> HIDE DEF m, older, users
  <2>7. k - 1 \in Nat /\ k < q /\ (k - 1) + 1 = k /\ (k - 1 > 0 => k - 1 \in 1..(n - 1))
    BY <1>1, <2>4, <2>5, <2>6, SMT
  <2> QED BY <2>3, <2>4, <2>6, <2>7
<1> QED BY <1>3, <1>4

\* An entry that is pushed to both leaves an active history that stands for the
\* transcript.
LEMMA StandsPush ==
  ASSUME NEW h \in Seq(Entries), NEW a \in Seq(Entries), NEW e \in Entries, Stands(h, a)
  PROVE  Stands(Append(h, e), Append(a, e))
<1> DEFINE g == Append(h, e)
           b == Append(a, e)
           n == Len(h)
           m == Len(a)
<1>1. n \in Nat /\ m \in Nat /\ g \in Seq(Entries) /\ b \in Seq(Entries)
      /\ Len(g) = n + 1 /\ Len(b) = m + 1 /\ g[n + 1] = e /\ b[m + 1] = e
      /\ (\A i \in 1..n : g[i] = h[i]) /\ (\A i \in 1..m : b[i] = a[i])
  OBVIOUS
<1>2. CASE a = h
  BY <1>2 DEF Stands
<1>3. CASE a # h
  <2>1. /\ m # 0 /\ m - 1 <= n
        /\ \A i \in 0..(m - 2) : a[m - i] = h[n - i]
        /\ \A i \in Recent(h) : IsUser(h[i]) => i > n - (m - 1)
        /\ Said(a) = Said(h)
    BY <1>3 DEF Stands
  <2>2. Said(g) = Said(b)
    BY <2>1, SaidPush
  <2> HIDE DEF g, b
  <2>3. b # <<>> /\ Len(b) - 1 <= Len(g)
    BY <1>1, <2>1, SMT
  <2>4. ASSUME NEW i \in 0..(Len(b) - 2) PROVE b[Len(b) - i] = g[Len(g) - i]
    <3>1. CASE i = 0
      BY <1>1, <3>1, SMT
    <3>2. CASE i # 0
      <4>1. i - 1 \in 0..(m - 2) /\ Len(b) - i = m - (i - 1) /\ Len(g) - i = n - (i - 1)
            /\ m - (i - 1) \in 1..m /\ n - (i - 1) \in 1..n
        <5> HIDE DEF m, n
        <5> QED BY <1>1, <2>1, <3>2, SMT
      <4>2. a[m - (i - 1)] = h[n - (i - 1)]
        BY <2>1, <4>1
      <4> QED BY <1>1, <4>1, <4>2
    <3> QED BY <3>1, <3>2
  <2>5. ASSUME NEW i \in Recent(g), IsUser(g[i]) PROVE i > Len(g) - (Len(b) - 1)
    <3>1. i \in 1..(n + 1) /\ DOMAIN h = 1..n /\ DOMAIN g = 1..(n + 1)
      BY <1>1, <2>5 DEF Recent
    <3>2. CASE i = n + 1
      <4> HIDE DEF m, n
      <4> QED BY <1>1, <2>1, <3>2, SMTT(40)
    <3>3. CASE i # n + 1
      <4>1. i \in 1..n
        BY <1>1, <3>1, <3>3, SMT
      <4>2. \A j \in 1..n : j \in 1..(n + 1)
        BY <1>1, SMT
      <4>3. i \in Recent(h)
        <5>1. ~\E j, k \in DOMAIN g : i < j /\ j < k /\ IsUser(g[j]) /\ IsUser(g[k])
          BY <2>5 DEF Recent
        <5>2. \A j \in 1..n : j \in DOMAIN g /\ g[j] = h[j]
          BY <1>1, <3>1, <4>2
        <5> QED BY <3>1, <4>1, <5>1, <5>2 DEF Recent
      <4>4. i > n - (m - 1)
        BY <1>1, <2>1, <2>5, <4>1, <4>3
      <4> HIDE DEF m, n
      <4> QED BY <1>1, <4>1, <4>4, SMT
    <3> QED BY <3>2, <3>3
  <2>6. Stands(g, b)
    BY <2>2, <2>3, <2>4, <2>5 DEF Stands
  <2> USE DEF g, b
  <2> QED BY <2>6
<1> QED BY <1>2, <1>3

\* A compaction of an active history that stands for a transcript leaves one that
\* does, and its checkpoint is read as the same.
LEMMA CompactionStands ==
  ASSUME NEW h \in Seq(Entries), NEW a \in Seq(Entries), Stands(h, a), TailStart(a) > 0
  PROVE  /\ Compacted(a) \in Seq(Entries) /\ Stands(h, Compacted(a))
         /\ PlanFor(h, a) \in Lines /\ PlanFor(h, a).kind = "checkpoint"
         /\ Projected(h, PlanFor(h, a)) = Compacted(a)
         /\ Compacted(a) = <<PlanFor(h, a).summary>> \o SubSeq(a, TailStart(a) + 1, Len(a))
<1> DEFINE n == Len(h)
           m == Len(a)
<1>1. PICK k \in Nat : k = TailStart(a)
  BY TailHasTwo
<1>2. k \in 1..(m - 1) /\ IsUser(a[k + 1]) /\ \E q \in 1..m : k + 1 < q /\ IsUser(a[q])
  BY <1>1, TailHasTwo
<1>3. n \in Nat /\ m \in Nat
  OBVIOUS
<1> DEFINE front == SubSeq(a, 1, k)
           tail == SubSeq(a, k + 1, m)
<1>4. /\ front \in Seq(Entries) /\ tail \in Seq(Entries) /\ a = front \o tail /\ Len(tail) = m - k
      /\ \A i \in 1..(m - k) : tail[i] = a[k + i]
  <2>1. \A x \in 1..Len(a) : SubSeq(a, 1, x) \in Seq(Entries) /\ SubSeq(a, x + 1, Len(a)) \in Seq(Entries)
    OBVIOUS
  <2>2. \A x \in 1..Len(a) : Len(SubSeq(a, x + 1, Len(a))) = Len(a) - x
    OBVIOUS
  <2>3. \A x \in 1..Len(a) : \A i \in 1..(Len(a) - x) : SubSeq(a, x + 1, Len(a))[i] = a[x + i]
    OBVIOUS
  <2>4. \A x \in 1..Len(a) : a = SubSeq(a, 1, x) \o SubSeq(a, x + 1, Len(a))
    OBVIOUS
  <2>5. k \in 1..Len(a)
    BY <1>2, <1>3, SMT
  <2> QED BY <2>1, <2>2, <2>3, <2>4, <2>5
<1>5. m - 1 <= n \/ a = h
  BY DEF Stands
<1>6. m - k <= n /\ m - k \in 1..m
  <2> HIDE DEF m, n
  <2>1. a = h => m = n
    BY DEF m, n
  <2> QED BY <1>2, <1>3, <1>5, <2>1, SMT
\* The tail is the end of the transcript.
<1>7. \A i \in 1..(m - k) : tail[i] = h[(n - (m - k)) + i]
  <2>1. CASE a = h
    <3>1. m = n
      BY <2>1
    <3> HIDE DEF m, n, tail
    <3>2. \A i \in 1..(m - k) : (n - (m - k)) + i = k + i
      BY <1>1, <1>3, <3>1, SMT
    <3> QED BY <1>4, <2>1, <3>2
  <2>2. CASE a # h
    <3>1. \A i \in 0..(m - 2) : a[m - i] = h[n - i]
      BY <2>2 DEF Stands
    <3> HIDE DEF m, n, tail
    <3> TAKE i \in 1..(m - k)
    <3>2. m - (k + i) \in 0..(m - 2) /\ m - (m - (k + i)) = k + i /\ n - (m - (k + i)) = (n - (m - k)) + i
      <4>1. k \in Nat /\ k >= 1 /\ i \in Nat /\ i >= 1 /\ i <= m - k
        BY <1>2, <1>3, SMT
      <4>2. m - (k + i) \in 0..(m - 2)
        BY <1>3, <4>1, SMT
      <4>3. m - (m - (k + i)) = k + i /\ n - (m - (k + i)) = (n - (m - k)) + i
        BY <1>3, <4>1, SMT
      <4> QED BY <4>2, <4>3
    <3>3. a[k + i] = h[(n - (m - k)) + i]
      BY <3>1, <3>2
    <3> QED BY <1>4, <3>3
  <2> QED BY <2>1, <2>2
<1>8. SubSeq(h, (n - (m - k)) + 1, n) = tail
  <2>1. PICK d \in Nat : d = n - (m - k)
    <3> HIDE DEF m, n
    <3> QED BY <1>3, <1>6, SMT
  <2>2. d <= n /\ n - d = m - k
    <3> HIDE DEF m, n
    <3> QED BY <1>3, <1>6, <2>1, SMT
  <2>3. SubSeq(h, d + 1, n) \in Seq(Entries) /\ Len(SubSeq(h, d + 1, n)) = n - d
        /\ \A i \in 1..(n - d) : SubSeq(h, d + 1, n)[i] = h[d + i]
    <3>1. d + 1 >= 1 /\ n <= Len(h) /\ d + 1 \in Nat
      BY <1>3, <2>1, SMT
    <3>2. SubSeq(h, d + 1, n) \in Seq(Entries)
      BY <1>3, <2>2, <3>1, SMT
    <3>3. Len(SubSeq(h, d + 1, n)) = n - d
      BY <1>3, <2>2, <3>1, SMT
    <3>4. \A i \in 1..(n - d) : SubSeq(h, d + 1, n)[i] = h[d + i]
      BY <1>3, <2>2, <3>1, SMT
    <3> QED BY <3>2, <3>3, <3>4
  <2>4. \A i \in 1..(m - k) : tail[i] = h[d + i]
    BY <1>7, <2>1
  <2>5. PICK u : u = SubSeq(h, d + 1, n)
    OBVIOUS
  <2>6. u \in Seq(Entries) /\ Len(u) = m - k /\ \A i \in 1..(m - k) : u[i] = h[d + i]
    BY <2>2, <2>3, <2>5
  <2>7. u = tail
    <3> HIDE DEF tail, m, n
    <3> QED BY <1>4, <2>4, <2>6, SeqEqual
  <2> QED BY <2>1, <2>5, <2>7
<1> DEFINE s == Summary(front)
           c == <<s>> \o tail
<1>9. s \in Entries /\ s.says = Said(front)
  BY <1>4, <1>2, SaidType DEF Summary, Entries
<1>10. PlanFor(h, a) = CheckpointLine(s, n - (m - k)) /\ Compacted(a) = c /\ n - (m - k) \in Nat
  <2>1. ~(m - k > n) /\ n - (m - k) \in Nat
    <3> HIDE DEF m, n
    <3> QED BY <1>3, <1>6, SMT
  <2>2. FirstKept(h, a, k) = n - (m - k)
    BY <2>1 DEF FirstKept
  <2> QED BY <1>1, <2>1, <2>2 DEF PlanFor, Compacted
<1> HIDE DEF s
<1>11. PlanFor(h, a).kind = "checkpoint" /\ PlanFor(h, a).summary = s /\ PlanFor(h, a).first_kept = n - (m - k)
  <2> HIDE DEF m, n
  <2> QED BY <1>10 DEF CheckpointLine
<1>12. PlanFor(h, a) \in Lines
  <2>1. CheckpointLine(s, n - (m - k)) \in [kind : {"checkpoint"}, summary : Entries, first_kept : Nat]
    <3> HIDE DEF m, n
    <3> QED BY <1>9, <1>10 DEF CheckpointLine
  <2> QED BY <1>10, <2>1 DEF Lines
<1>13. Projected(h, PlanFor(h, a)) = c
  BY <1>8, <1>11 DEF Projected
<1>14. c \in Seq(Entries)
  <2> HIDE DEF tail
  <2> QED BY <1>4, <1>9
<1>15. Said(c) = Said(h)
  <2>1. Said(<<s>>) = Said(front)
    <3>1. <<s>> = Append(<<>>, s) /\ <<>> \in Seq(Entries)
      OBVIOUS
    <3>2. Said(<<s>>) = <<>> \o Said(front)
      BY <1>9, <3>1, SaidPush, SaidNothing
    <3>3. Said(front) \in Seq(Nat)
      BY <1>4, SaidType
    <3> QED BY <3>2, <3>3
  <2>2. Said(c) = Said(<<s>>) \o Said(tail)
    <3>1. <<s>> \in Seq(Entries)
      BY <1>9
    <3> HIDE DEF tail
    <3> QED BY <1>4, <3>1, SaidConcat
  <2>3. Said(a) = Said(front) \o Said(tail)
    <3> HIDE DEF front, tail
    <3> QED BY <1>4, SaidConcat
  <2>4. Said(a) = Said(h)
    BY DEF Stands
  <2> HIDE DEF c, front, tail
  <2> QED BY <2>1, <2>2, <2>3, <2>4
<1>16. Stands(h, c)
  <2>1. c # <<>> /\ Len(c) = (m - k) + 1 /\ \A i \in 1..(m - k) : c[i + 1] = tail[i]
    <3> HIDE DEF tail, m
    <3> QED BY <1>4, <1>6, <1>9, SMT
  <2> HIDE DEF c, tail
  <2>2. Len(c) - 1 <= Len(h) /\ Len(c) - 1 = m - k
    <3> HIDE DEF m
    <3> QED BY <1>3, <1>6, <2>1, SMT
  <2>3. ASSUME NEW i \in 0..(Len(c) - 2) PROVE c[Len(c) - i] = h[Len(h) - i]
    <3>1. PICK j \in 1..(m - k) : j = (m - k) - i /\ Len(c) - i = j + 1 /\ Len(h) - i = (n - (m - k)) + j
      <4>1. Len(c) - 2 = (m - k) - 1
        <5> HIDE DEF m
        <5> QED BY <1>3, <1>6, <2>1, SMT
      <4> HIDE DEF m
      <4> QED BY <1>3, <1>6, <2>1, <2>3, <4>1, SMT
    <3> QED BY <1>7, <2>1, <3>1, ZenonT(60)
  <2>4. ASSUME NEW i \in Recent(h), IsUser(h[i]) PROVE i > Len(h) - (Len(c) - 1)
    <3>1. PICK q \in 1..m : k + 1 < q /\ IsUser(a[q])
      BY <1>2
    <3>2. PICK d \in Nat : d = n - (m - k)
      BY <1>10
    <3>3. 1 \in 1..(m - k) /\ q - k \in 1..(m - k) /\ k + (q - k) = q
      <4> HIDE DEF m
      <4> QED BY <1>2, <1>3, <3>1, SMT
    <3>4. IsUser(h[d + 1]) /\ IsUser(h[d + (q - k)])
      <4>1. tail[1] = a[k + 1] /\ tail[q - k] = a[q]
        BY <1>4, <3>3
      <4>2. tail[1] = h[d + 1] /\ tail[q - k] = h[d + (q - k)]
        BY <1>7, <3>2, <3>3
      <4> QED BY <1>2, <3>1, <4>1, <4>2
    <3>5. d + 1 \in 1..n /\ d + (q - k) \in 1..n /\ d + 1 < d + (q - k)
      <4> HIDE DEF m, n
      <4> QED BY <1>2, <1>3, <1>6, <3>1, <3>2, <3>3, SMT
    <3>6. ~(i < d + 1) /\ i \in 1..n
      BY <2>4, <3>4, <3>5 DEF Recent
    <3> QED BY <1>3, <2>2, <3>2, <3>6, SMT
  <2>5. Said(c) = Said(h)
    BY <1>15
  <2> QED BY <2>1, <2>2, <2>3, <2>4, <2>5 DEF Stands
<1>17. Compacted(a) = <<PlanFor(h, a).summary>> \o SubSeq(a, TailStart(a) + 1, Len(a))
  BY <1>1, <1>10, <1>11
<1> QED BY <1>10, <1>11, <1>12, <1>13, <1>14, <1>16, <1>17

(***************************************************************************)
(* The threads and the run.                                                *)
(***************************************************************************)
LEMMA InitPlace == Init => PlaceInv /\ RunInv
<1> SUFFICES ASSUME Init PROVE PlaceInv /\ RunInv
  OBVIOUS
<1>1. PlaceInv
  BY ConversationAssumption DEF Init, PlaceInv, Threads, Positions
<1>2. RunInv
  <2>1. Resting \in Runs
    BY ConversationAssumption DEF Resting, Runs
  <2>2. pc[Worker] = "idle" /\ run = Resting
    BY DEF Init, Threads
  <2>3. Resting.entry = NoEntry /\ ~Resting.halted /\ Resting.ephemeral = 0 /\ NoEntry.role = "none"
    BY DEF Resting, NoEntry
  <2> QED BY <2>1, <2>2, <2>3, ConversationAssumption DEF Init, RunInv, IsUser, Compacting
<1> QED BY <1>1, <1>2

\* A thread goes on within its own places, and not to where a compaction holds the
\* slot; another one is not moved.
LEMMA Moved ==
  ASSUME PlaceInv, NEW t \in Threads, NEW next, Goto(t, next), next \in Positions,
         next \notin {"summary", "checkpoint", "install"},
         t = Worker => next # "resume",
         t # Worker => next \in Compacting \cup {"idle", "resume"},
         slot' = slot \ {t}
  PROVE  PlaceInv'
<1>1. pc \in [Threads -> Positions] /\ pc' \in [Threads -> Positions] /\ pc'[t] = next /\ \A u \in Threads : u # t => pc'[u] = pc[u]
  BY DEF PlaceInv, Goto
<1>2. Worker \in Threads /\ \A c \in Clients : c \in Threads /\ c # Worker
  BY ConversationAssumption DEF Threads
<1>3. slot' = {u \in Threads : pc'[u] \in {"summary", "checkpoint", "install"}}
  <2>1. \A u \in Threads : pc'[u] \in {"summary", "checkpoint", "install"} <=> (u # t /\ pc[u] \in {"summary", "checkpoint", "install"})
    BY <1>1
  <2>2. slot = {u \in Threads : pc[u] \in {"summary", "checkpoint", "install"}}
    BY DEF PlaceInv
  <2> QED BY <2>1, <2>2
<1>4. pc'[Worker] # "resume"
  BY <1>1, <1>2 DEF PlaceInv
<1>5. \A c \in Clients : pc'[c] \in Compacting \cup {"idle", "resume"}
  BY <1>1, <1>2 DEF PlaceInv
<1>6. \A u, v \in slot' : u = v
  BY DEF PlaceInv
<1> QED BY <1>1, <1>3, <1>4, <1>5, <1>6 DEF PlaceInv

\* A thread within a compaction holds the slot, or goes on without it.
LEMMA Holds ==
  ASSUME PlaceInv, NEW t \in Threads
  PROVE  /\ pc[t] \in {"summary", "checkpoint", "install"} => slot = {t} /\ slot \ {t} = {}
         /\ pc[t] \notin {"summary", "checkpoint", "install"} => slot \ {t} = slot
         /\ AfterCompaction(t, "nothing") \in {"idle", "turn", "finish", "history"}
BY DEF PlaceInv, AfterCompaction

LEMMA AfterwardsMoved ==
  ASSUME NEW t \in Threads, NEW result
  PROVE  /\ t = Worker => AfterCompaction(t, result) \in {"turn", "finish", "history"}
         /\ t # Worker => AfterCompaction(t, result) = "idle"
BY DEF AfterCompaction

LEMMA PlaceStep ==
  ASSUME PlaceInv, RunInv, [Next]_vars
  PROVE  PlaceInv'
<1> USE DEF Positions, Compacting
<1>0. Worker \in Threads /\ \A c \in Clients : c \in Threads /\ c # Worker
  BY ConversationAssumption DEF Threads
<1>1. CASE WorkerPop
  BY <1>0, <1>1, Moved, Holds DEF WorkerPop, compactVars
<1>2. CASE RunBegin
  BY <1>0, <1>2, Moved, Holds DEF RunBegin, compactVars
<1>3. CASE PushHistory
  BY <1>0, <1>3, Moved, Holds DEF PushHistory, compactVars
<1>a. run.entry \in Entries /\ pc[Worker] \in {"active", "persist"} => AfterPush \in {"turn", "finish", "tools"}
  BY DEF AfterPush, Entries
<1>4. CASE PushActive
  BY <1>0, <1>4, <1>a, Moved, Holds DEF PushActive, compactVars, RunInv
<1>5. CASE PushPersist
  BY <1>0, <1>5, <1>a, Moved, Holds DEF PushPersist, compactVars, RunInv
<1>6. CASE ModelTurn
  BY <1>0, <1>6, Moved, Holds DEF ModelTurn, compactVars
<1>7. CASE DispatchTools
  BY <1>0, <1>7, Moved, Holds DEF DispatchTools, compactVars
<1>8. CASE PersistTodos
  BY <1>0, <1>8, Moved, Holds DEF PersistTodos, compactVars
<1>9. CASE ToolResults
  BY <1>0, <1>9, Moved, Holds DEF ToolResults, compactVars
<1>10. CASE RunFinish
  BY <1>0, <1>10, Moved, Holds DEF RunFinish, compactVars
<1>11. ASSUME NEW t \in Threads, Compact(t) PROVE PlaceInv'
  <2>1. CASE CompactClone(t)
    BY <1>0, <2>1, Moved, Holds, AfterwardsMoved DEF CompactClone
  <2>2. CASE CompactStart(t)
    <3>1. CASE slot = {}
      <4>1. slot' = {t} /\ Goto(t, "summary")
        BY <2>2, <3>1 DEF CompactStart
      <4>2. pc \in [Threads -> Positions] /\ pc' \in [Threads -> Positions] /\ pc'[t] = "summary" /\ \A u \in Threads : u # t => pc'[u] = pc[u]
        BY <4>1 DEF PlaceInv, Goto
      <4>3. slot' = {u \in Threads : pc'[u] \in {"summary", "checkpoint", "install"}}
        <5>1. \A u \in Threads : u # t => pc'[u] \notin {"summary", "checkpoint", "install"}
          BY <3>1, <4>2 DEF PlaceInv
        <5> QED BY <4>1, <4>2, <5>1
      <4> QED BY <1>0, <4>1, <4>2, <4>3 DEF PlaceInv
    <3>2. CASE slot # {}
      BY <1>0, <2>2, <3>2, Moved, Holds, AfterwardsMoved DEF CompactStart
    <3> QED BY <3>1, <3>2
  <2>a. ASSUME CompactFails(t), pc[t] \in {"summary", "checkpoint"} PROVE PlaceInv'
    BY <1>0, <2>a, Moved, Holds, AfterwardsMoved DEF CompactFails
  <2>b. ASSUME NEW next, Goto(t, next), next \in {"checkpoint", "install"}, pc[t] \in {"summary", "checkpoint"}, slot' = slot
        PROVE  PlaceInv'
    <3>1. pc \in [Threads -> Positions] /\ pc' \in [Threads -> Positions] /\ pc'[t] = next /\ \A u \in Threads : u # t => pc'[u] = pc[u]
      BY <2>b DEF PlaceInv, Goto
    <3>2. slot' = {u \in Threads : pc'[u] \in {"summary", "checkpoint", "install"}}
      <4>1. \A u \in Threads : pc'[u] \in {"summary", "checkpoint", "install"} <=> pc[u] \in {"summary", "checkpoint", "install"}
        BY <2>b, <3>1
      <4> QED BY <2>b, <4>1 DEF PlaceInv
    <3> QED BY <1>0, <2>b, <3>1, <3>2 DEF PlaceInv
  <2>3. CASE CompactPlan(t)
    BY <2>3, <2>a, <2>b DEF CompactPlan
  <2>4. CASE CompactPersist(t)
    BY <2>4, <2>a, <2>b DEF CompactPersist, compactVars
  <2>5. CASE CompactInstall(t)
    BY <1>0, <2>5, Moved, Holds, AfterwardsMoved DEF CompactInstall
  <2> QED BY <1>11, <2>1, <2>2, <2>3, <2>4, <2>5 DEF Compact
<1>12. ASSUME NEW c \in Clients, ClientStep(c) \/ ResumeAttach(c) PROVE PlaceInv'
  <2>1. CASE Submit(c)
    BY <2>1 DEF Submit, PlaceInv, compactVars
  <2>2. CASE CancelCurrent(c)
    BY <2>2 DEF CancelCurrent, PlaceInv, compactVars
  <2>3. CASE NewSession(c)
    BY <2>3 DEF NewSession, PlaceInv, compactVars
  <2>4. CASE ResumeLoad(c)
    BY <1>0, <2>4, Moved, Holds DEF ResumeLoad, Offered, compactVars
  <2>5. CASE StartManual(c)
    BY <1>0, <2>5, Moved, Holds DEF StartManual, Offered, compactVars
  <2>6. CASE ResumeAttach(c)
    BY <1>0, <2>6, Moved, Holds DEF ResumeAttach, compactVars
  <2> QED BY <1>12, <2>1, <2>2, <2>3, <2>4, <2>5, <2>6 DEF ClientStep
<1>13. CASE Restart
  BY <1>0, <1>13 DEF Restart, PlaceInv
<1>14. CASE UNCHANGED vars
  BY <1>14 DEF vars, compactVars, PlaceInv
<1> QED BY <1>1, <1>2, <1>3, <1>4, <1>5, <1>6, <1>7, <1>8, <1>9, <1>10, <1>11, <1>12, <1>13, <1>14 DEF Next, Run

LEMMA WorkerAt ==
  ASSUME PlaceInv
  PROVE  /\ Worker \in Threads /\ \A c \in Clients : c \in Threads /\ c # Worker
         /\ \A next : \A t \in Threads : Goto(t, next) => pc'[t] = next /\ \A u \in Threads : u # t => pc'[u] = pc[u]
BY ConversationAssumption DEF PlaceInv, Goto, Threads

\* The fields of a run, and of one that is changed in some.
LEMMA RunFields ==
  ASSUME NEW r \in Runs
  PROVE  /\ r.entry \in Entries \cup {NoEntry} /\ r.final \in BOOLEAN /\ r.halted \in BOOLEAN
         /\ r.ephemeral \in {0, 2} /\ r.turns \in 0..MaxTurns /\ r.retried \in BOOLEAN
         /\ r.cancelled \in BOOLEAN /\ r.conversation \in Nat
         /\ r = [entry |-> r.entry, final |-> r.final, halted |-> r.halted, ephemeral |-> r.ephemeral, turns |-> r.turns,
                 retried |-> r.retried, cancelled |-> r.cancelled, conversation |-> r.conversation]
BY DEF Runs

LEMMA RunMade ==
  ASSUME NEW e \in Entries \cup {NoEntry}, NEW f \in BOOLEAN, NEW h \in BOOLEAN, NEW p \in {0, 2}, NEW n \in 0..MaxTurns,
         NEW y \in BOOLEAN, NEW k \in BOOLEAN, NEW v \in Nat
  PROVE  [entry |-> e, final |-> f, halted |-> h, ephemeral |-> p, turns |-> n, retried |-> y, cancelled |-> k, conversation |-> v] \in Runs
BY DEF Runs

LEMMA RestingRun ==
  /\ Resting \in Runs /\ Resting.entry = NoEntry /\ ~Resting.halted /\ Resting.ephemeral = 0 /\ ~Resting.retried
  /\ ~Resting.cancelled /\ ~IsUser(NoEntry)
<1>1. Resting \in Runs
  BY ConversationAssumption DEF Resting, Runs
<1> QED BY <1>1 DEF Resting, NoEntry, IsUser

LEMMA EntryMade ==
  ASSUME NEW role \in {"user", "assistant", "tool"}, NEW n \in Nat
  PROVE  Entry(role, n) \in Entries /\ Entry(role, n).role = role
<1>1. <<n>> \in Seq(Nat)
  OBVIOUS
<1> QED BY <1>1 DEF Entry, Entries

\* What the steps do to the run of the worker.
LEMMA PopMakes ==
  ASSUME PlaceInv, RunInv, WorkerPop
  PROVE  /\ run' \in Runs /\ run'.entry = Entry("user", pushed + 1) /\ IsUser(run'.entry) /\ run'.entry \in Entries
         /\ ~run'.halted /\ run'.ephemeral = 0 /\ ~run'.cancelled /\ run'.conversation = conversation /\ ~run'.retried
<1>1. run' = [Resting EXCEPT !.entry = Entry("user", pushed + 1), !.turns = MaxTurns, !.conversation = conversation]
  BY DEF WorkerPop
<1>2. run' = [entry |-> Entry("user", pushed + 1), final |-> FALSE, halted |-> FALSE, ephemeral |-> 0, turns |-> MaxTurns,
              retried |-> FALSE, cancelled |-> FALSE, conversation |-> conversation]
  BY <1>1 DEF Resting
<1>3. Entry("user", pushed + 1) \in Entries /\ Entry("user", pushed + 1).role = "user"
  <2>1. pushed + 1 \in Nat
    BY DEF RunInv
  <2> QED BY <2>1, EntryMade
<1>4. run' \in Runs
  <2>1. MaxTurns \in 0..MaxTurns /\ conversation \in Nat
    BY ConversationAssumption DEF RunInv
  <2>2. [entry |-> Entry("user", pushed + 1), final |-> FALSE, halted |-> FALSE, ephemeral |-> 0, turns |-> MaxTurns,
              retried |-> FALSE, cancelled |-> FALSE, conversation |-> conversation] \in Runs
    BY <1>3, <2>1, RunMade
  <2> QED BY <1>2, <2>2
<1> QED BY <1>2, <1>3, <1>4 DEF IsUser

LEMMA TurnMakes ==
  ASSUME PlaceInv, RunInv, ModelTurn
  PROVE  /\ run' \in Runs /\ run'.ephemeral = 0 /\ run'.cancelled = run.cancelled /\ run'.conversation = run.conversation
         /\ pushed' \in Nat
         /\ \/ pc'[Worker] = "finish" /\ run'.entry = run.entry /\ run'.halted = run.halted /\ run'.final = run.final
            \/ pc'[Worker] = "clone" /\ run'.entry = run.entry /\ run'.halted = run.halted /\ run'.final = run.final /\ run'.retried
            \/ pc'[Worker] = "active" /\ run'.entry \in Entries /\ run'.entry.role = "assistant" /\ (run'.halted => ~run'.final)
<1>1. run \in Runs /\ pushed \in Nat /\ pushed + 1 \in Nat
  BY DEF RunInv
<1>2. \A next : Goto(Worker, next) => pc'[Worker] = next
  BY WorkerAt
<1>3. run = [entry |-> run.entry, final |-> run.final, halted |-> run.halted, ephemeral |-> run.ephemeral, turns |-> run.turns,
             retried |-> run.retried, cancelled |-> run.cancelled, conversation |-> run.conversation]
  BY <1>1, RunFields
<1>4. /\ run.entry \in Entries \cup {NoEntry} /\ run.final \in BOOLEAN /\ run.halted \in BOOLEAN
      /\ run.ephemeral \in {0, 2} /\ run.turns \in 0..MaxTurns /\ run.retried \in BOOLEAN
      /\ run.cancelled \in BOOLEAN /\ run.conversation \in Nat
  BY <1>1, RunFields
<1>5. CASE Goto(Worker, "finish") /\ run' = [run EXCEPT !.ephemeral = 0] /\ UNCHANGED pushed
  <2>1. run' = [entry |-> run.entry, final |-> run.final, halted |-> run.halted, ephemeral |-> 0, turns |-> run.turns,
             retried |-> run.retried, cancelled |-> run.cancelled, conversation |-> run.conversation]
    BY <1>3, <1>5
  <2>2. run' \in Runs
    BY <1>4, <2>1, RunMade
  <2> QED BY <1>1, <1>2, <1>5, <2>1, <2>2
<1>6. CASE Goto(Worker, "clone") /\ run' = Retrying /\ UNCHANGED pushed
  <2>1. run' = [entry |-> run.entry, final |-> run.final, halted |-> run.halted, ephemeral |-> 0, turns |-> MaxTurns,
             retried |-> TRUE, cancelled |-> run.cancelled, conversation |-> run.conversation]
    BY <1>3, <1>6 DEF Retrying
  <2>2. MaxTurns \in 0..MaxTurns
    BY ConversationAssumption
  <2>3. run' \in Runs
    BY <1>4, <2>1, <2>2, RunMade, ZenonT(60)
  <2> QED BY <1>1, <1>2, <1>6, <2>1, <2>3
<1>7. ASSUME run.turns > 0, pushed' = pushed + 1, Goto(Worker, "active"), NEW final \in BOOLEAN, NEW halted \in BOOLEAN, ~(final /\ halted),
             run' = [run EXCEPT !.entry = Entry("assistant", pushed'), !.turns = @ - 1,
                                !.final = final, !.halted = halted, !.ephemeral = 0]
      PROVE  /\ run' \in Runs /\ run'.ephemeral = 0 /\ run'.cancelled = run.cancelled /\ run'.conversation = run.conversation
             /\ pushed' \in Nat
             /\ pc'[Worker] = "active" /\ run'.entry \in Entries /\ run'.entry.role = "assistant" /\ (run'.halted => ~run'.final)
  <2>1. PICK e : e = Entry("assistant", pushed')
    OBVIOUS
  <2>2. e \in Entries /\ e.role = "assistant"
    <3>1. PICK n \in Nat : n = pushed'
      BY <1>1, <1>7
    <3> QED BY <2>1, <3>1, EntryMade
  <2>3. run' = [entry |-> e, final |-> final, halted |-> halted, ephemeral |-> 0, turns |-> run.turns - 1,
             retried |-> run.retried, cancelled |-> run.cancelled, conversation |-> run.conversation]
    BY <1>3, <1>7, <2>1
  <2>4. PICK n \in 0..MaxTurns : n = run.turns - 1
    BY <1>4, <1>7, ConversationAssumption
  <2>5. run' = [entry |-> e, final |-> final, halted |-> halted, ephemeral |-> 0, turns |-> n,
             retried |-> run.retried, cancelled |-> run.cancelled, conversation |-> run.conversation]
    BY <2>3, <2>4
  <2>6. run' \in Runs
    <3>1. 0 \in {0, 2} /\ e \in Entries \cup {NoEntry}
      BY <2>2
    <3>2. PICK v \in Nat, k \in BOOLEAN, y \in BOOLEAN : v = run.conversation /\ k = run.cancelled /\ y = run.retried
      BY <1>4
    <3>3. [entry |-> e, final |-> final, halted |-> halted, ephemeral |-> 0, turns |-> n,
           retried |-> y, cancelled |-> k, conversation |-> v] \in Runs
      BY <3>1, RunMade
    <3> QED BY <2>5, <3>2, <3>3
  <2>7. run'.ephemeral = 0 /\ run'.cancelled = run.cancelled /\ run'.conversation = run.conversation
        /\ run'.entry = e /\ run'.halted = halted /\ run'.final = final
    BY <2>5
  <2>8. pushed' \in Nat /\ pc'[Worker] = "active"
    BY <1>1, <1>2, <1>7
  <2> QED BY <1>7, <2>2, <2>6, <2>7, <2>8
<1> QED BY <1>5, <1>6, <1>7 DEF ModelTurn

LEMMA PushActiveMakes ==
  ASSUME PlaceInv, RunInv, PushActive
  PROVE  /\ run' \in Runs /\ run'.entry = run.entry /\ run'.final = run.final /\ run'.halted = run.halted /\ run'.retried = run.retried
         /\ run'.cancelled = run.cancelled /\ run'.conversation = run.conversation
         /\ run'.ephemeral = IF run.halted /\ run.entry.role = "tool" THEN 2 ELSE run.ephemeral
<1>1. run \in Runs
  BY DEF RunInv
<1>2. run' = [run EXCEPT !.ephemeral = IF run.halted /\ run.entry.role = "tool" THEN 2 ELSE @]
  BY DEF PushActive
<1>3. run' \in Runs
  BY <1>1, <1>2, RunFields DEF Runs
<1> QED BY <1>1, <1>2, <1>3 DEF Runs

LEMMA ResultsMake ==
  ASSUME PlaceInv, RunInv, ToolResults
  PROVE  /\ run' \in Runs /\ run'.entry \in Entries /\ run'.entry.role = "tool" /\ run'.final = run.final /\ run'.halted = run.halted
         /\ run'.retried = run.retried /\ run'.cancelled = run.cancelled /\ run'.conversation = run.conversation
         /\ run'.ephemeral = run.ephemeral /\ pushed' \in Nat
<1>1. run \in Runs /\ pushed' \in Nat
  BY DEF RunInv, ToolResults
<1>2. PICK e : e = Entry("tool", pushed')
  OBVIOUS
<1>3. e \in Entries /\ e.role = "tool"
  <2>1. PICK n \in Nat : n = pushed'
    BY <1>1
  <2> QED BY <1>2, <2>1, EntryMade
<1>4. run' = [run EXCEPT !.entry = e]
  BY <1>2 DEF ToolResults
<1>5. run' \in Runs
  BY <1>1, <1>3, <1>4 DEF Runs
<1> QED BY <1>1, <1>3, <1>4, <1>5 DEF Runs

LEMMA CancelMakes ==
  ASSUME RunInv, NEW c \in Clients, CancelCurrent(c)
  PROVE  /\ run' \in Runs /\ run'.entry = run.entry /\ run'.final = run.final /\ run'.halted = run.halted /\ run'.retried = run.retried
         /\ run'.cancelled /\ run'.conversation = run.conversation /\ run'.ephemeral = run.ephemeral
<1>1. run \in Runs
  BY DEF RunInv
<1>2. run' = [run EXCEPT !.cancelled = TRUE]
  BY DEF CancelCurrent
<1>3. run' \in Runs
  BY <1>1, <1>2 DEF Runs
<1> QED BY <1>1, <1>2, <1>3 DEF Runs

\* A step of another thread leaves the run.
LEMMA RunKept ==
  ASSUME RunInv, UNCHANGED <<run, pushed, submitted, pending>>, conversation' \in Nat, pc'[Worker] = pc[Worker]
  PROVE  RunInv'
BY DEF RunInv

LEMMA RunStep ==
  ASSUME PlaceInv, RunInv, [Next]_vars
  PROVE  RunInv'
<1> USE DEF Compacting
<1>0. Worker \in Threads /\ \A c \in Clients : c \in Threads /\ c # Worker
  BY WorkerAt
<1>x. \A next : \A t \in Threads : Goto(t, next) => pc'[t] = next /\ \A u \in Threads : u # t => pc'[u] = pc[u]
  BY WorkerAt
<1>y. \A next : Goto(Worker, next) => pc'[Worker] = next
  BY <1>0, <1>x
<1>z. pushed \in Nat /\ conversation \in Nat /\ submitted \in 0..MaxSubmissions /\ pending \in 0..submitted
  BY DEF RunInv
<1>1. CASE WorkerPop
  <2>1. pending' \in 0..submitted /\ submitted' = submitted /\ pushed' \in Nat /\ conversation' = conversation
    BY <1>z, <1>1 DEF WorkerPop
  <2>2. pc'[Worker] = "begin"
    BY <1>1, <1>y DEF WorkerPop
  <2> QED BY <1>z, <1>1, <2>1, <2>2, PopMakes DEF RunInv
<1>2. CASE RunBegin
  BY <1>2, <1>y DEF RunBegin, RunInv, boundVars
<1>3. CASE PushHistory
  BY <1>3, <1>y DEF PushHistory, RunInv, boundVars
<1>a. ASSUME pc[Worker] # "idle"
      PROVE  run.entry \in Entries /\ run.entry.role \in {"user", "assistant", "tool"}
  BY <1>a DEF Entries, RunInv
<1>4. CASE PushActive
  <2>1. /\ run' \in Runs /\ run'.entry = run.entry /\ run'.final = run.final /\ run'.halted = run.halted /\ run'.retried = run.retried
        /\ run'.ephemeral = IF run.halted /\ run.entry.role = "tool" THEN 2 ELSE run.ephemeral
    BY <1>4, PushActiveMakes
  <2>2. UNCHANGED <<pushed, submitted, pending, conversation>> /\ pc[Worker] = "active"
        /\ pc'[Worker] = (IF IsUser(run.entry) THEN "persist" ELSE IF run.halted THEN AfterPush ELSE "history")
    BY <1>4, <1>y DEF PushActive, boundVars
  <2>3. run.entry \in Entries /\ run.entry.role \in {"user", "assistant", "tool"}
    BY <1>a, <2>2
  <2>4. run.ephemeral = 0
    BY <2>2, RunFields DEF RunInv
  <2>5. run.halted => ~run.final
    BY DEF RunInv
  <2>6. run.halted => pc'[Worker] \in {"tools", "turn"} /\ (run.entry.role = "tool" => pc'[Worker] = "turn")
    BY <2>2, <2>3, <2>5 DEF AfterPush, RunInv, IsUser
  <2>7. ~run.halted => pc'[Worker] \in {"persist", "history"}
    BY <2>2
  <2> QED BY <2>1, <2>2, <2>3, <2>4, <2>5, <2>6, <2>7 DEF RunInv
<1>5. CASE PushPersist
  <2>1. UNCHANGED <<run, pushed, submitted, pending, conversation>> /\ pc[Worker] = "persist" /\ pc'[Worker] = AfterPush
    BY <1>5, <1>y DEF PushPersist
  <2>2. AfterPush \in {"turn", "finish", "tools"}
    BY <1>a, <2>1 DEF AfterPush
  <2> QED BY <2>1, <2>2 DEF RunInv
<1>6. CASE ModelTurn
  <2>1. UNCHANGED <<submitted, pending, conversation>> /\ pc[Worker] = "turn"
    BY <1>6 DEF ModelTurn
  <2>2. run.entry \in Entries
    BY <1>a, <2>1
  <2>3. pc'[Worker] # "begin"
    BY <1>6, <1>y DEF ModelTurn
  <2> QED BY <1>6, <1>z, <2>1, <2>2, <2>3, TurnMakes DEF RunInv, IsUser
<1>7. CASE DispatchTools
  BY <1>7, <1>y DEF DispatchTools, RunInv, boundVars
<1>8. CASE PersistTodos
  BY <1>8, <1>y DEF PersistTodos, RunInv
<1>9. CASE ToolResults
  <2>1. UNCHANGED <<submitted, pending, conversation>> /\ pc[Worker] = "results" /\ pc'[Worker] = "active"
    BY <1>9, <1>y DEF ToolResults
  <2> QED BY <1>9, <1>z, <2>1, ResultsMake DEF RunInv, IsUser
<1>10. CASE RunFinish
  <2>1. UNCHANGED <<pushed, submitted, pending, conversation>> /\ pc'[Worker] = "idle" /\ run' = Resting
    BY <1>0, <1>10, <1>x DEF RunFinish, boundVars
  <2> QED BY <1>z, <2>1, RestingRun DEF RunInv
<1>b. ASSUME NEW t \in Threads, NEW result \in {"nothing", "failed", "done"}, Goto(t, AfterCompaction(t, result)), pc[t] \in Compacting,
             UNCHANGED <<run, pushed, submitted, pending, conversation>>
      PROVE  RunInv'
  <2>1. CASE t = Worker
    <3>1. pc'[Worker] = AfterCompaction(Worker, result)
      BY <1>b, <1>y, <2>1
    <3>2. pc'[Worker] \in {"turn", "finish", "history"} /\ (run.retried => pc'[Worker] # "history")
      BY <3>1 DEF AfterCompaction
    <3>3. ~run.retried => IsUser(run.entry) /\ ~run.halted
      BY <1>b, <2>1 DEF RunInv
    <3>4. pc[Worker] \notin {"idle", "turn"}
      BY <1>b, <2>1
    <3> QED BY <1>b, <3>2, <3>3, <3>4 DEF RunInv
  <2>2. CASE t # Worker
    BY <1>0, <1>b, <1>x, <1>z, <2>2, RunKept
  <2> QED BY <2>1, <2>2
<1>c. ASSUME NEW t \in Threads, NEW next \in Compacting, Goto(t, next), pc[t] \in Compacting,
             UNCHANGED <<run, pushed, submitted, pending, conversation>>
      PROVE  RunInv'
  <2>1. CASE t = Worker
    BY <1>c, <1>y, <2>1 DEF RunInv
  <2>2. CASE t # Worker
    BY <1>0, <1>c, <1>x, <1>z, <2>2, RunKept
  <2> QED BY <2>1, <2>2
<1>11. ASSUME NEW t \in Threads, Compact(t) PROVE RunInv'
  <2>1. CASE CompactClone(t)
    BY <2>1, <1>b, <1>c DEF CompactClone, boundVars
  <2>2. CASE CompactStart(t)
    BY <2>2, <1>b, <1>c DEF CompactStart, boundVars
  <2>3. CASE CompactPlan(t)
    BY <2>3, <1>b, <1>c DEF CompactPlan, CompactFails, boundVars
  <2>4. CASE CompactPersist(t)
    BY <2>4, <1>b, <1>c DEF CompactPersist, CompactFails
  <2>5. CASE CompactInstall(t)
    BY <2>5, <1>b DEF CompactInstall, boundVars
  <2> QED BY <1>11, <2>1, <2>2, <2>3, <2>4, <2>5 DEF Compact
<1>12. ASSUME NEW c \in Clients, ClientStep(c) \/ ResumeAttach(c) PROVE RunInv'
  <2>1. CASE Submit(c)
    <3>1. UNCHANGED <<run, pushed, conversation, pc>> /\ pending' = pending + 1 /\ submitted' = submitted + 1 /\ submitted < MaxSubmissions
      BY <2>1 DEF Submit
    <3>2. submitted' \in 0..MaxSubmissions /\ pending' \in 0..submitted'
      BY <1>z, <3>1, ConversationAssumption
    <3> QED BY <3>1, <3>2 DEF RunInv
  <2>2. CASE CancelCurrent(c)
    <3>1. UNCHANGED <<pushed, submitted, pending, conversation>> /\ pc[Worker] # "idle" /\ pc'[Worker] = pc[Worker]
      BY <1>0, <1>x, <2>2 DEF CancelCurrent
    <3> QED BY <2>2, <3>1, CancelMakes DEF RunInv
  <2>3. CASE NewSession(c)
    BY <1>z, <2>3, RunKept DEF NewSession
  <2>4. CASE ResumeLoad(c)
    BY <1>0, <1>x, <1>z, <2>4, RunKept DEF ResumeLoad
  <2>5. CASE StartManual(c)
    BY <1>0, <1>x, <1>z, <2>5, RunKept DEF StartManual
  <2>6. CASE ResumeAttach(c)
    BY <1>0, <1>x, <1>z, <2>6, RunKept DEF ResumeAttach, boundVars
  <2> QED BY <1>12, <2>1, <2>2, <2>3, <2>4, <2>5, <2>6 DEF ClientStep
<1>13. CASE Restart
  <2>1. pc'[Worker] = "idle" /\ run' = Resting /\ pending' = 0 /\ UNCHANGED <<conversation, submitted, pushed>>
    BY <1>0, <1>13 DEF Restart
  <2> QED BY <1>z, <2>1, RestingRun DEF RunInv
<1>14. CASE UNCHANGED vars
  BY <1>14, <1>z, RunKept DEF vars, boundVars
<1> QED BY <1>1, <1>2, <1>3, <1>4, <1>5, <1>6, <1>7, <1>8, <1>9, <1>10, <1>11, <1>12, <1>13, <1>14 DEF Next, Run

(***************************************************************************)
(* Accidents.                                                              *)
(***************************************************************************)
LEMMA AllWatched == Next => Watched
<1> SUFFICES ASSUME Next PROVE Watched
  OBVIOUS
<1>1. Run => Watched
  BY DEF Run, RunBegin, PushHistory, PushActive, PushPersist, ModelTurn, DispatchTools, PersistTodos, ToolResults, RunFinish
<1>2. \A t \in Threads : Compact(t) => Watched
  BY DEF Compact, CompactClone, CompactStart, CompactPlan, CompactPersist, CompactInstall
<1>3. \A c \in Clients : ClientStep(c) \/ ResumeAttach(c) => Watched
  BY DEF ClientStep, Submit, CancelCurrent, NewSession, ResumeLoad, StartManual, ResumeAttach
<1>4. WorkerPop \/ Restart => Watched
  BY DEF WorkerPop, Restart
<1> QED BY <1>1, <1>2, <1>3, <1>4 DEF Next

\* An accident is remembered, and what has not been noted has not happened.
LEMMA Noted ==
  ASSUME Watched, accidents \subseteq Accidents
  PROVE  /\ accidents \subseteq accidents' /\ accidents' \subseteq Accidents
         /\ "torn" \notin accidents' => ~Torn'
         /\ "mixed" \notin accidents' => ~Mixed
         /\ "overlap" \notin accidents' => ~Overlap
<1>1. accidents' = accidents \cup Met /\ Met \subseteq Accidents
  BY DEF Watched, Met
<1>2. Torn' => "torn" \in Met
  BY DEF Met, Accidents
<1>3. Mixed => "mixed" \in Met
  BY DEF Met, Accidents
<1>4. Overlap => "overlap" \in Met
  BY DEF Met, Accidents
<1> QED BY <1>1, <1>2, <1>3, <1>4

LEMMA Calm ==
  ASSUME accidents \subseteq Accidents, [Next]_vars
  PROVE  /\ accidents \subseteq accidents' /\ accidents' \subseteq Accidents
         /\ "torn" \notin accidents' /\ StoreType => ~Torn'
         /\ "mixed" \notin accidents' => ~Mixed
         /\ "overlap" \notin accidents' /\ ReplayInv => ~Overlap
<1>1. CASE Next
  BY <1>1, AllWatched, Noted
<1>2. CASE UNCHANGED vars
  <2>1. UNCHANGED <<files, current, pc, conversation, accidents>>
    BY <1>2 DEF vars, sessionVars
  <2>2. StoreType => ~Torn'
    <3>1. StoreType => \A s \in DOMAIN files : files[s] \in Files
      BY DEF StoreType
    <3> QED BY <2>1, <3>1 DEF Torn, Files
  <2>3. ~Mixed
    BY <2>1 DEF Mixed
  <2>4. ReplayInv => ~Overlap
    BY <2>1 DEF Overlap, ReplayInv, Beside
  <2> QED BY <2>1, <2>2, <2>3, <2>4
<1> QED BY <1>1, <1>2

(***************************************************************************)
(* What is stored.                                                         *)
(***************************************************************************)
LEMMA LinesMade ==
  /\ \A e \in Entries : EntryLine(e) \in Lines /\ EntryLine(e).kind = "entry" /\ EntryLine(e).entry = e
  /\ \A l \in {0} \cup TodoLists : TodosLine(l) \in Lines /\ TodosLine(l).kind = "todos" /\ TodosLine(l).todos = l
  /\ \A s \in Entries, k \in Nat : CheckpointLine(s, k) \in Lines /\ CheckpointLine(s, k).kind = "checkpoint"
<1>1. \A e \in Entries : EntryLine(e) \in Lines /\ EntryLine(e).kind = "entry" /\ EntryLine(e).entry = e
  BY DEF EntryLine, Lines
<1>2. \A l \in {0} \cup TodoLists : TodosLine(l) \in Lines /\ TodosLine(l).kind = "todos" /\ TodosLine(l).todos = l
  BY DEF TodosLine, Lines
<1>3. \A s \in Entries, k \in Nat : CheckpointLine(s, k) \in Lines /\ CheckpointLine(s, k).kind = "checkpoint"
  BY DEF CheckpointLine, Lines
<1> QED BY <1>1, <1>2, <1>3

\* A line is written to the attached file or to a new one, or not at all, and then
\* nothing more is written.
LEMMA WrittenWhole ==
  ASSUME ~Torn', files \in Seq(Files), current \in 0..Len(files), poisoned \in BOOLEAN,
         NEW line \in Lines, NEW ok \in BOOLEAN, Written(line, ok)
  PROVE  /\ files' \in Seq(Files) /\ current' \in 0..Len(files') /\ poisoned' \in BOOLEAN /\ Len(files) <= Len(files')
         /\ Saved \in Files /\ Saved' \in Files
         /\ \A s \in DOMAIN files' : s # current' => s \in DOMAIN files /\ files'[s] = files[s]
         /\ \/ files' = files /\ current' = current /\ poisoned' /\ (ok => poisoned)
            \/ ok /\ ~poisoned /\ ~poisoned' /\ current' # NoSession /\ Saved' = AppendLine(Saved, line)
<1>1. Saved \in Files
  BY LoadedNothing DEF Saved, NoSession
<1>2. AppendLine(Saved, line) \in Files
  BY <1>1, LoadedPush
<1>a. PICK n \in Nat : n = Len(files)
  OBVIOUS
<1>3. CASE poisoned /\ ok /\ UNCHANGED <<sessionVars, faults>>
  <2>1. files' = files /\ current' = current /\ poisoned' = poisoned
    BY <1>3 DEF sessionVars
  <2>2. Saved' = Saved
    BY <2>1 DEF Saved
  <2>3. \A s \in DOMAIN files : s \in DOMAIN files
    OBVIOUS
  <2> QED BY <1>1, <1>3, <1>a, <2>1, <2>2, <2>3, SMT
<1>4. CASE ~poisoned /\ ok /\ current = NoSession /\ files' = Append(files, AppendLine(NewFile, line)) /\ current' = Len(files') /\ poisoned' = poisoned
  <2>1. Saved = NewFile
    BY <1>4 DEF Saved
  <2>2. PICK f \in Files : f = AppendLine(Saved, line)
    BY <1>2
  <2>3. files' = Append(files, f)
    BY <1>4, <2>1, <2>2
  <2>4. files' \in Seq(Files) /\ Len(files') = n + 1 /\ files'[n + 1] = f /\ \A s \in 1..n : files'[s] = files[s]
    BY <1>a, <2>3
  <2>5. current' = n + 1
    BY <1>4, <2>4
  <2>6. \A s \in DOMAIN files' : s # current' => s \in DOMAIN files /\ files'[s] = files[s]
    <3>1. DOMAIN files' = 1..(n + 1) /\ DOMAIN files = 1..n
      BY <1>a, <2>4
    <3>2. \A s \in 1..(n + 1) : s # n + 1 => s \in 1..n
      BY SMT
    <3> QED BY <2>4, <2>5, <3>1, <3>2
  <2>7. current' # NoSession /\ current' \in 0..Len(files') /\ Len(files) <= Len(files')
    BY <1>a, <2>4, <2>5, SMT DEF NoSession
  <2>8. Saved' = f
    BY <2>4, <2>5, <2>7 DEF Saved
  <2> QED BY <1>1, <1>4, <2>2, <2>4, <2>6, <2>7, <2>8
<1>5. CASE ~poisoned /\ ok /\ current # NoSession /\ files' = [files EXCEPT ![current] = AppendLine(@, line)] /\ UNCHANGED <<current, poisoned>>
  <2>1. current \in 1..n
    BY <1>5, <1>a, SMT DEF NoSession
  <2>2. Saved = files[current]
    BY <1>5 DEF Saved
  <2>3. PICK f \in Files : f = AppendLine(Saved, line)
    BY <1>2
  <2>4. files' = [files EXCEPT ![current] = f]
    BY <1>5, <2>2, <2>3
  <2>5. files' \in Seq(Files) /\ Len(files') = n /\ files'[current] = f /\ DOMAIN files' = DOMAIN files
        /\ \A s \in DOMAIN files : s # current => files'[s] = files[s]
    BY <1>a, <2>1, <2>4
  <2>6. Saved' = f
    BY <1>5, <2>5 DEF Saved
  <2>7. Len(files) <= Len(files') /\ current' \in 0..Len(files')
    BY <1>5, <1>a, <2>5, SMT
  <2> QED BY <1>1, <1>5, <2>3, <2>5, <2>6, <2>7
<1>6. CASE ~poisoned /\ ~ok /\ poisoned' = TRUE /\ UNCHANGED files /\ UNCHANGED current
  <2>1. Saved' = Saved
    BY <1>6 DEF Saved
  <2> QED BY <1>1, <1>6, <1>a, <2>1, SMT
<1>7. ASSUME ~poisoned, current # NoSession, NEW file \in TornAppend(files[current], line), files' = [files EXCEPT ![current] = file]
      PROVE  FALSE
  <2>1. current \in DOMAIN files
    BY <1>7, <1>a, SMT DEF NoSession
  <2>2. current \in DOMAIN files' /\ files'[current] = file
    BY <1>7, <2>1
  <2>3. file.unended = TRUE
    BY <1>7 DEF TornAppend
  <2> QED BY <2>2, <2>3 DEF Torn
<1>8. \/ poisoned /\ ok /\ UNCHANGED <<sessionVars, faults>>
      \/ ~poisoned /\ ok /\ current = NoSession /\ files' = Append(files, AppendLine(NewFile, line)) /\ current' = Len(files') /\ poisoned' = poisoned
      \/ ~poisoned /\ ok /\ current # NoSession /\ files' = [files EXCEPT ![current] = AppendLine(@, line)] /\ UNCHANGED <<current, poisoned>>
      \/ ~poisoned /\ ~ok /\ poisoned' = TRUE /\ UNCHANGED files /\ UNCHANGED current
  BY <1>7 DEF Written
<1> QED BY <1>3, <1>4, <1>5, <1>6, <1>8

\* So does a restart, where no record is torn.
LEMMA RestartKeeps ==
  ASSUME ~Torn', Restart, files \in Seq(Files), current \in 0..Len(files)
  PROVE  files' = files
<1>1. ASSUME current # NoSession, NEW t \in Threads, NEW file \in TornAppend(files[current], LineWritten(t)),
             files' = [files EXCEPT ![current] = file]
      PROVE  FALSE
  <2>1. current \in DOMAIN files
    BY <1>1, SMT DEF NoSession
  <2>2. current \in DOMAIN files' /\ files'[current] = file
    BY <1>1, <2>1
  <2>3. file.unended = TRUE
    BY <1>1 DEF TornAppend
  <2> QED BY <2>2, <2>3 DEF Torn
<1> QED BY <1>1 DEF Restart

LEMMA StoreKept ==
  ASSUME PlaceInv, StoreType, history' \in Seq(Entries), active' \in Seq(Entries), todos' \in {0} \cup TodoLists,
         files' \in Seq(Files), current' \in 0..Len(files'), poisoned' \in BOOLEAN, Len(files) <= Len(files'),
         UNCHANGED <<snapshot, plan, loaded>>,
         \A t \in Threads : pc'[t] \in {"checkpoint", "install"} => pc[t] \in {"checkpoint", "install"},
         \A c \in Clients : pc'[c] = "resume" => pc[c] = "resume"
  PROVE  StoreType'
<1>1. Len(files) \in Nat /\ Len(files') \in Nat
  BY DEF StoreType
<1>2. \A i \in 0..Len(files) : i \in 0..Len(files')
  BY <1>1, SMT
<1>3. loaded' \in [Clients -> 0..Len(files')]
  BY <1>2 DEF StoreType
<1> QED BY <1>3 DEF StoreType

\* The same where nothing is written.
LEMMA StoreSame ==
  ASSUME PlaceInv, StoreType, history' \in Seq(Entries), active' \in Seq(Entries), todos' \in {0} \cup TodoLists,
         files' = files, current' \in {current, NoSession}, poisoned' \in BOOLEAN,
         UNCHANGED <<snapshot, plan, loaded>>,
         \A t \in Threads : pc'[t] \in {"checkpoint", "install"} => pc[t] \in {"checkpoint", "install"},
         \A c \in Clients : pc'[c] = "resume" => pc[c] = "resume"
  PROVE  StoreType'
<1>1. Len(files) \in Nat /\ files \in Seq(Files) /\ current \in 0..Len(files)
  BY DEF StoreType
<1>2. Len(files) <= Len(files) /\ current' \in 0..Len(files)
  BY <1>1, SMT DEF NoSession
<1>3. files' \in Seq(Files) /\ current' \in 0..Len(files') /\ Len(files) <= Len(files')
  BY <1>1, <1>2
<1> QED BY <1>3, StoreKept

\* The worker moves without a compaction.
LEMMA WorkerMoves ==
  ASSUME PlaceInv, NEW next, Goto(Worker, next), next \notin {"checkpoint", "install"}
  PROVE  /\ \A t \in Threads : pc'[t] \in {"checkpoint", "install"} => pc[t] \in {"checkpoint", "install"}
         /\ \A c \in Clients : pc'[c] = "resume" => pc[c] = "resume"
BY WorkerAt

\* What a compaction plans.
LEMMA PlanMade ==
  ASSUME NEW h \in Seq(Entries), NEW a \in Seq(Entries)
  PROVE  LET kept == TailStart(a)
             line == CheckpointLine(Summary(SubSeq(a, 1, kept)), FirstKept(h, a, kept))
         IN  line \in Lines /\ line.kind = "checkpoint"
<1>1. PICK k \in Nat : k = TailStart(a)
  BY TailHasTwo
<1>2. Len(a) \in Nat /\ Len(h) \in Nat
  OBVIOUS
<1>3. k = 0 \/ k \in 1..(Len(a) - 1)
  BY <1>1, TailHasTwo
<1>4. k <= Len(a) /\ Len(a) - k \in Nat
  BY <1>2, <1>3, SMT
<1>5. SubSeq(a, 1, k) \in Seq(Entries)
  BY <1>4, SMT
<1>6. Summary(SubSeq(a, 1, k)) \in Entries
  BY <1>5, SaidType DEF Summary, Entries
<1>7. FirstKept(h, a, k) \in Nat
  BY <1>2, <1>4, SMT DEF FirstKept
<1> QED BY <1>1, <1>6, <1>7, LinesMade

LEMMA StoreStep ==
  ASSUME ~Torn', PlaceInv, RunInv, StoreType, [Next]_vars
  PROVE  StoreType'
<1>0. Worker \in Threads /\ \A c \in Clients : c \in Threads /\ c # Worker
  BY WorkerAt
<1>x. \A next : \A t \in Threads : Goto(t, next) => pc'[t] = next /\ \A u \in Threads : u # t => pc'[u] = pc[u]
  BY WorkerAt
<1>t. /\ history \in Seq(Entries) /\ active \in Seq(Entries) /\ todos \in {0} \cup TodoLists
      /\ files \in Seq(Files) /\ current \in 0..Len(files) /\ poisoned \in BOOLEAN
      /\ snapshot \in [Threads -> Seq(Entries)] /\ plan \in [Threads -> Lines \cup {NoPlan}]
  BY DEF StoreType
<1>e. pc[Worker] # "idle" => run.entry \in Entries /\ run.entry.role \in {"user", "assistant", "tool"}
  BY DEF RunInv, Entries
<1>p. pc[Worker] # "idle" => AfterPush \in {"turn", "finish", "tools"}
  BY <1>e DEF AfterPush
<1>1. CASE WorkerPop
  BY <1>1, <1>t, StoreSame, WorkerMoves DEF WorkerPop, sessionVars, compactVars
<1>2. CASE RunBegin
  BY <1>2, <1>t, StoreSame, WorkerMoves DEF RunBegin, sessionVars, compactVars
<1>3. CASE PushHistory
  <2>1. history' \in Seq(Entries)
    BY <1>3, <1>e, <1>t DEF PushHistory
  <2> QED BY <1>3, <1>t, <2>1, StoreSame, WorkerMoves DEF PushHistory, sessionVars, compactVars
<1>4. CASE PushActive
  <2>1. active' \in Seq(Entries)
    BY <1>4, <1>e, <1>t DEF PushActive
  <2> QED BY <1>4, <1>p, <1>t, <2>1, StoreSame, WorkerMoves DEF PushActive, sessionVars, compactVars
<1>5. CASE PushPersist
  <2>1. PICK ok \in BOOLEAN : Written(EntryLine(run.entry), ok)
    BY <1>5 DEF PushPersist, Persisted
  <2>2. EntryLine(run.entry) \in Lines
    BY <1>5, <1>e, LinesMade DEF PushPersist
  <2>3. files' \in Seq(Files) /\ current' \in 0..Len(files') /\ poisoned' \in BOOLEAN /\ Len(files) <= Len(files')
    BY <1>t, <2>1, <2>2, WrittenWhole
  <2> QED BY <1>5, <1>p, <1>t, <2>3, StoreKept, WorkerMoves DEF PushPersist, compactVars
<1>6. CASE ModelTurn
  <2>1. active' \in Seq(Entries)
    <3>1. run.ephemeral \in {0, 2} /\ Len(active) \in Nat
      BY <1>t, RunFields DEF RunInv
    <3>2. \A k \in Nat : k <= Len(active) => SubSeq(active, 1, k) \in Seq(Entries)
      BY <1>t, SMT
    <3>3. PICK k : k = IF run.ephemeral > Len(active) THEN 0 ELSE Len(active) - run.ephemeral
      OBVIOUS
    <3>4. k \in Nat /\ k <= Len(active)
      BY <3>1, <3>3, SMT
    <3>5. active' = SubSeq(active, 1, k)
      BY <1>6, <3>3 DEF ModelTurn, WithoutEphemeral
    <3> QED BY <3>2, <3>4, <3>5
  <2> QED BY <1>6, <1>t, <2>1, StoreSame, WorkerMoves DEF ModelTurn, sessionVars, compactVars
<1>7. CASE DispatchTools
  <2>1. todos' \in {0} \cup TodoLists
    BY <1>7, <1>t DEF DispatchTools
  <2> QED BY <1>7, <1>t, <2>1, StoreSame, WorkerMoves DEF DispatchTools, sessionVars, compactVars
<1>8. CASE PersistTodos
  <2>1. PICK ok \in BOOLEAN : Written(TodosLine(todos), ok)
    BY <1>8 DEF PersistTodos, Persisted
  <2>2. TodosLine(todos) \in Lines
    BY <1>t, LinesMade
  <2>3. files' \in Seq(Files) /\ current' \in 0..Len(files') /\ poisoned' \in BOOLEAN /\ Len(files) <= Len(files')
    BY <1>t, <2>1, <2>2, WrittenWhole
  <2> QED BY <1>8, <1>t, <2>3, StoreKept, WorkerMoves DEF PersistTodos, compactVars
<1>9. CASE ToolResults
  BY <1>9, <1>t, StoreSame, WorkerMoves DEF ToolResults, sessionVars, compactVars
<1>10. CASE RunFinish
  BY <1>10, <1>t, StoreSame, WorkerMoves DEF RunFinish, sessionVars, compactVars
<1>11. ASSUME NEW t \in Threads, Compact(t) PROVE StoreType'
  <2>0. \A next : Goto(t, next) => pc'[t] = next /\ \A u \in Threads : u # t => pc'[u] = pc[u]
    BY <1>x
  <2>1. PICK next : Goto(t, next) /\ next # "resume"
    <3>1. \A result : AfterCompaction(t, result) # "resume"
      BY AfterwardsMoved
    <3>2. CASE CompactClone(t)
      BY <3>1, <3>2 DEF CompactClone
    <3>3. CASE CompactStart(t)
      BY <3>1, <3>3 DEF CompactStart
    <3>4. CASE CompactPlan(t)
      BY <3>1, <3>4 DEF CompactPlan, CompactFails
    <3>5. CASE CompactPersist(t)
      <4>1. Goto(t, "install") \/ CompactFails(t)
        BY <3>5 DEF CompactPersist
      <4>2. CASE Goto(t, "install")
        BY <4>2
      <4>3. CASE CompactFails(t)
        BY <3>1, <4>3 DEF CompactFails
      <4> QED BY <4>1, <4>2, <4>3
    <3>6. CASE CompactInstall(t)
      BY <3>1, <3>6 DEF CompactInstall
    <3> QED BY <1>11, <3>2, <3>3, <3>4, <3>5, <3>6 DEF Compact
  <2>2. pc'[t] = next /\ (\A u \in Threads : u # t => pc'[u] = pc[u]) /\ \A c \in Clients : pc'[c] = "resume" => pc[c] = "resume"
    BY <1>0, <2>0, <2>1
  <2>3. loaded' = loaded /\ history' = history /\ todos' = todos
    BY <1>11 DEF Compact, CompactClone, CompactStart, CompactPlan, CompactPersist, CompactInstall
  \* Either its plan is made now, or it was.
  <2>4. ASSUME NEW a \in Seq(Entries), active' = a,
               files' \in Seq(Files), current' \in 0..Len(files'), poisoned' \in BOOLEAN, Len(files) <= Len(files'),
               NEW s \in Seq(Entries), snapshot' = [snapshot EXCEPT ![t] = s],
               NEW l \in Lines \cup {NoPlan}, plan' = [plan EXCEPT ![t] = l],
               next \in {"checkpoint", "install"} => l \in Lines /\ l.kind = "checkpoint"
        PROVE  StoreType'
    <3>1. snapshot' \in [Threads -> Seq(Entries)] /\ plan' \in [Threads -> Lines \cup {NoPlan}]
      BY <1>t, <2>4
    <3>2. plan'[t] = l /\ \A u \in Threads : u # t => plan'[u] = plan[u]
      BY <1>t, <2>4
    <3>3. \A u \in Threads : pc'[u] \in {"checkpoint", "install"} => plan'[u] \in Lines /\ plan'[u].kind = "checkpoint"
      BY <2>2, <2>4, <3>2 DEF StoreType
    <3>4. loaded' \in [Clients -> 0..Len(files')]
      <4>1. Len(files) \in Nat /\ Len(files') \in Nat
        BY <1>t, <2>4
      <4>2. \A i \in 0..Len(files) : i \in 0..Len(files')
        BY <2>4, <4>1, SMT
      <4> QED BY <2>3, <4>2 DEF StoreType
    <3> QED BY <1>t, <2>2, <2>3, <2>4, <3>1, <3>3, <3>4 DEF StoreType
  <2>5. files' = files /\ UNCHANGED <<current, poisoned>> => files' \in Seq(Files) /\ current' \in 0..Len(files') /\ poisoned' \in BOOLEAN /\ Len(files) <= Len(files')
    <3>1. Len(files) \in Nat
      BY <1>t
    <3> QED BY <1>t, <3>1, SMT
  <2>6. snapshot[t] \in Seq(Entries) /\ plan[t] \in Lines \cup {NoPlan} /\ <<>> \in Seq(Entries)
        /\ snapshot = [snapshot EXCEPT ![t] = snapshot[t]] /\ plan = [plan EXCEPT ![t] = plan[t]]
    BY <1>t
  <2>7. CASE CompactClone(t)
    <3>1. active' = active /\ UNCHANGED <<files, current, poisoned, plan>> /\ next \notin {"checkpoint", "install"}
      BY <2>0, <2>2, <2>7, AfterwardsMoved DEF CompactClone, sessionVars
    <3>2. snapshot' = snapshot \/ snapshot' = [snapshot EXCEPT ![t] = active]
      BY <2>7 DEF CompactClone
    <3> QED BY <1>t, <2>4, <2>5, <2>6, <3>1, <3>2
  <2>8. CASE CompactStart(t)
    <3>1. active' = active /\ UNCHANGED <<files, current, poisoned, plan>> /\ next \notin {"checkpoint", "install"}
      BY <2>0, <2>2, <2>8, AfterwardsMoved DEF CompactStart, sessionVars
    <3>2. snapshot' = snapshot \/ snapshot' = [snapshot EXCEPT ![t] = <<>>]
      BY <2>8 DEF CompactStart
    <3> QED BY <1>t, <2>4, <2>5, <2>6, <3>1, <3>2
  <2>9. CASE CompactPlan(t)
    <3>1. active' = active /\ UNCHANGED <<files, current, poisoned>>
      BY <2>9 DEF CompactPlan, sessionVars
    <3>2. CASE CompactFails(t)
      <4>1. next \notin {"checkpoint", "install"} /\ snapshot' = [snapshot EXCEPT ![t] = <<>>] /\ plan' = [plan EXCEPT ![t] = NoPlan]
        BY <2>0, <2>2, <3>2, AfterwardsMoved DEF CompactFails
      <4> QED BY <1>t, <2>4, <2>5, <2>6, <3>1, <4>1
    <3>3. CASE ~CompactFails(t)
      <4>1. PICK l : l = CheckpointLine(Summary(SubSeq(snapshot[t], 1, TailStart(snapshot[t]))),
                                        FirstKept(history, snapshot[t], TailStart(snapshot[t])))
        OBVIOUS
      <4>2. plan' = [plan EXCEPT ![t] = l] /\ snapshot' = snapshot
        BY <2>9, <3>3, <4>1 DEF CompactPlan
      <4>3. l \in Lines /\ l.kind = "checkpoint"
        BY <1>t, <2>6, <4>1, PlanMade
      <4> QED BY <1>t, <2>4, <2>5, <2>6, <3>1, <4>2, <4>3
    <3> QED BY <3>2, <3>3
  <2>10. CASE CompactPersist(t)
    <3>1. plan[t] \in Lines /\ plan[t].kind = "checkpoint"
      BY <2>10 DEF CompactPersist, StoreType
    <3>2. files' \in Seq(Files) /\ current' \in 0..Len(files') /\ poisoned' \in BOOLEAN /\ Len(files) <= Len(files')
      BY <1>t, <2>10, <3>1, WrittenWhole DEF CompactPersist
    <3>3. active' = active
      BY <2>10 DEF CompactPersist
    <3>4. CASE CompactFails(t)
      <4>1. next \notin {"checkpoint", "install"} /\ snapshot' = [snapshot EXCEPT ![t] = <<>>] /\ plan' = [plan EXCEPT ![t] = NoPlan]
        BY <2>0, <2>2, <3>4, AfterwardsMoved DEF CompactFails
      <4> QED BY <1>t, <2>4, <2>6, <3>2, <3>3, <4>1
    <3>5. CASE ~CompactFails(t)
      <4>1. snapshot' = snapshot /\ plan' = plan
        BY <2>10, <3>5 DEF CompactPersist, compactVars
      <4> QED BY <1>t, <2>4, <2>6, <3>1, <3>2, <3>3, <4>1
    <3> QED BY <3>4, <3>5
  <2>11. CASE CompactInstall(t)
    <3>1. plan[t].summary \in Entries
      <4>1. plan[t] \in Lines /\ plan[t].kind = "checkpoint"
        BY <2>11 DEF CompactInstall, StoreType
      <4> QED BY <4>1, LineFields
    <3>2. PICK k \in Nat : k = TailStart(snapshot[t])
      BY <2>6, TailHasTwo
    <3>3. SubSeq(snapshot[t], k + 1, Len(snapshot[t])) \in Seq(Entries)
      <4>1. PICK s \in Seq(Entries) : s = snapshot[t]
        BY <2>6
      <4>2. SubSeq(s, k + 1, Len(s)) \in Seq(Entries)
        BY SMT
      <4> QED BY <4>1, <4>2
    <3>4. PICK tail \in Seq(Entries) : tail = SubSeq(snapshot[t], k + 1, Len(snapshot[t]))
      BY <3>3
    <3>5. active' = <<plan[t].summary>> \o tail
      BY <2>11, <3>2, <3>4 DEF CompactInstall
    <3>6. PICK e \in Entries : e = plan[t].summary
      BY <3>1
    <3>7. active' \in Seq(Entries)
      <4>1. <<e>> \o tail \in Seq(Entries)
        OBVIOUS
      <4> QED BY <3>5, <3>6, <4>1
    <3>8. UNCHANGED <<files, current, poisoned>> /\ next \notin {"checkpoint", "install"}
          /\ snapshot' = [snapshot EXCEPT ![t] = <<>>] /\ plan' = [plan EXCEPT ![t] = NoPlan]
      BY <2>0, <2>2, <2>11, AfterwardsMoved DEF CompactInstall, sessionVars
    <3> QED BY <1>t, <2>4, <2>5, <2>6, <3>7, <3>8
  <2> QED BY <1>11, <2>7, <2>8, <2>9, <2>10, <2>11 DEF Compact
<1>12. ASSUME NEW c \in Clients, ClientStep(c) \/ ResumeAttach(c) PROVE StoreType'
  <2>0. \A next : Goto(c, next) => pc'[c] = next /\ pc'[Worker] = pc[Worker] /\ \A d \in Threads : d # c => pc'[d] = pc[d]
    BY <1>0, <1>x
  <2>1. CASE Submit(c)
    BY <1>t, <2>1, StoreSame DEF Submit, sessionVars, compactVars
  <2>2. CASE CancelCurrent(c)
    BY <1>t, <2>2, StoreSame DEF CancelCurrent, sessionVars, compactVars
  <2>3. CASE NewSession(c)
    <3>1. history' \in Seq(Entries) /\ active' \in Seq(Entries) /\ todos' \in {0} \cup TodoLists
      BY <2>3 DEF NewSession
    <3>2. current' = NoSession /\ poisoned' = FALSE /\ UNCHANGED <<files, pc, snapshot, plan, loaded>>
      BY <2>3 DEF NewSession, Detached, compactVars
    <3> QED BY <3>1, <3>2, StoreSame
  <2>4. CASE ResumeLoad(c)
    <3>1. pc'[c] = "resume" /\ \A d \in Threads : d # c => pc'[d] = pc[d]
      BY <2>0, <2>4 DEF ResumeLoad
    <3>2. PICK s \in DOMAIN files : loaded' = [loaded EXCEPT ![c] = s]
      BY <2>4 DEF ResumeLoad
    <3>3. s \in 0..Len(files) /\ s # NoSession
      BY <1>t, SMT DEF NoSession
    <3>4. loaded' \in [Clients -> 0..Len(files)] /\ loaded'[c] = s /\ \A d \in Clients : d # c => loaded'[d] = loaded[d]
      BY <3>2, <3>3 DEF StoreType
    <3>5. UNCHANGED <<history, active, todos, files, current, poisoned, snapshot, plan>>
      BY <2>4 DEF ResumeLoad, sessionVars, compactVars
    <3>6. \A d \in Clients : pc'[d] = "resume" => loaded'[d] # NoSession
      BY <1>0, <3>1, <3>3, <3>4 DEF StoreType
    <3>7. \A u \in Threads : pc'[u] \in {"checkpoint", "install"} => plan'[u] \in Lines /\ plan'[u].kind = "checkpoint"
      BY <3>1, <3>5 DEF StoreType
    <3> QED BY <1>t, <3>4, <3>5, <3>6, <3>7 DEF StoreType
  <2>5. CASE StartManual(c)
    <3>1. \A d \in Threads : pc'[d] \in {pc[d], "clone"}
      BY <2>0, <2>5 DEF StartManual
    <3> QED BY <1>0, <1>t, <2>5, <3>1, StoreSame DEF StartManual, sessionVars, compactVars
  <2>6. CASE ResumeAttach(c)
    <3>1. pc'[c] = "idle" /\ \A d \in Threads : d # c => pc'[d] = pc[d]
      BY <2>0, <2>6 DEF ResumeAttach
    <3>2. pc[c] = "resume" /\ loaded[c] \in 1..Len(files)
      <4>1. pc[c] = "resume" /\ loaded[c] \in 0..Len(files) /\ loaded[c] # 0
        BY <2>6 DEF ResumeAttach, StoreType, NoSession
      <4> QED BY <1>t, <4>1, SMT
    <3>3. files[loaded[c]] \in Files
      BY <1>t, <3>2
    <3>4. history' \in Seq(Entries) /\ active' \in Seq(Entries) /\ todos' \in {0} \cup TodoLists
      BY <2>6, <3>3, LoadedType DEF ResumeAttach
    <3>5. current' = loaded[c] /\ poisoned' = FALSE /\ loaded' = [loaded EXCEPT ![c] = NoSession]
          /\ UNCHANGED <<files, snapshot, plan>>
      BY <2>6 DEF ResumeAttach, compactVars
    <3>6. 0 \in 0..Len(files) /\ loaded[c] \in 0..Len(files)
      BY <1>t, <3>2, SMT
    <3>7. loaded' \in [Clients -> 0..Len(files)] /\ \A d \in Clients : d # c => loaded'[d] = loaded[d]
      BY <3>5, <3>6 DEF StoreType, NoSession
    <3>8. \A d \in Clients : pc'[d] = "resume" => loaded'[d] # NoSession
      BY <1>0, <3>1, <3>7 DEF StoreType
    <3>9. \A u \in Threads : pc'[u] \in {"checkpoint", "install"} => plan'[u] \in Lines /\ plan'[u].kind = "checkpoint"
      BY <3>1, <3>5 DEF StoreType
    <3> QED BY <1>t, <3>4, <3>5, <3>6, <3>7, <3>8, <3>9 DEF StoreType
  <2> QED BY <1>12, <2>1, <2>2, <2>3, <2>4, <2>5, <2>6 DEF ClientStep
<1>13. CASE Restart
  <2>a. files' = files
    BY <1>13, <1>t, RestartKeeps
  <2>1. files' = files /\ history' = <<>> /\ active' = <<>> /\ todos' = 0 /\ current' = NoSession /\ poisoned' = FALSE
        /\ snapshot' = [t \in Threads |-> <<>>] /\ plan' = [t \in Threads |-> NoPlan] /\ loaded' = [c \in Clients |-> NoSession]
        /\ pc' = [t \in Threads |-> "idle"]
    BY <1>13, <2>a DEF Restart
  <2>2. <<>> \in Seq(Entries) /\ NoSession \in 0..Len(files)
    BY <1>t, SMT DEF NoSession
  <2>3. \A t \in Threads : pc'[t] = "idle"
    BY <2>1
  <2> QED BY <1>0, <1>t, <2>1, <2>2, <2>3 DEF StoreType
<1>14. CASE UNCHANGED vars
  BY <1>14, <1>t, StoreSame DEF vars, sessionVars, compactVars
<1> QED BY <1>1, <1>2, <1>3, <1>4, <1>5, <1>6, <1>7, <1>8, <1>9, <1>10, <1>11, <1>12, <1>13, <1>14 DEF Next, Run

LEMMA InitStore == Init => StoreType
<1> SUFFICES ASSUME Init PROVE StoreType
  OBVIOUS
<1>1. <<>> \in Seq(Entries) /\ <<>> \in Seq(Files) /\ Len(<<>>) = 0 /\ 0 \in 0..0
  BY SMT
<1>2. \A t \in Threads : pc[t] = "idle"
  BY DEF Init
<1>3. \A c \in Clients : c \in Threads
  BY DEF Threads
<1> QED BY <1>1, <1>2, <1>3 DEF Init, StoreType, NoSession

(***************************************************************************)
(* The file and the transcript.                                            *)
(***************************************************************************)
\* Prefixes of a transcript.
LEMMA PrefixSelf ==
  ASSUME NEW h \in Seq(Entries) PROVE IsPrefix(h, h)
BY DEF IsPrefix

LEMMA PrefixPush ==
  ASSUME NEW h \in Seq(Entries), NEW s \in Seq(Entries), NEW e \in Entries, IsPrefix(s, h)
  PROVE  IsPrefix(s, Append(h, e))
<1>1. Len(s) \in Nat /\ Len(h) \in Nat /\ Len(s) <= Len(h) /\ SubSeq(s, 1, Len(s)) = SubSeq(h, 1, Len(s))
  BY DEF IsPrefix
<1>2. \A k \in 0..Len(h) : SubSeq(Append(h, e), 1, k) = SubSeq(h, 1, k)
  BY SMT
<1>3. Len(s) \in 0..Len(h) /\ Len(s) <= Len(Append(h, e))
  BY <1>1, SMT
<1> QED BY <1>1, <1>2, <1>3 DEF IsPrefix

LEMMA PrefixFront ==
  ASSUME NEW h \in Seq(Entries), h # <<>>
  PROVE  LET g == SubSeq(h, 1, Len(h) - 1)
         IN  g \in Seq(Entries) /\ IsPrefix(g, h) /\ Append(g, h[Len(h)]) = h
<1>1. PICK n \in Nat : n = Len(h) - 1
  OBVIOUS
<1>2. PICK g \in Seq(Entries) : g = SubSeq(h, 1, n)
  <2>1. n <= Len(h)
    BY <1>1, SMT
  <2>2. \A k \in Nat : k <= Len(h) => SubSeq(h, 1, k) \in Seq(Entries)
    BY SMT
  <2> QED BY <2>1, <2>2
<1>3. Len(h) = n + 1 /\ Len(g) = n /\ \A i \in 1..n : g[i] = h[i]
  BY <1>1, <1>2, SMT
<1>4. Append(g, h[n + 1]) = h
  <2>1. h[n + 1] \in Entries
    BY <1>3
  <2>2. Append(g, h[n + 1]) \in Seq(Entries) /\ Len(Append(g, h[n + 1])) = n + 1
        /\ \A i \in 1..(n + 1) : Append(g, h[n + 1])[i] = h[i]
    BY <1>3, <2>1
  <2> QED BY <1>3, <2>2, SeqEqual
<1>5. IsPrefix(g, h)
  <2>1. n <= Len(h) /\ SubSeq(g, 1, n) = g
    BY <1>3, SMT
  <2> QED BY <1>2, <1>3, <2>1 DEF IsPrefix
<1> QED BY <1>1, <1>2, <1>3, <1>4, <1>5

LEMMA FileKept ==
  ASSUME FileInv, UNCHANGED <<history, todos, files, current, poisoned>>, OnItsWay' <=> OnItsWay,
         OnItsWay' => run'.entry = run.entry, pc'[Worker] # "todos" => pc[Worker] # "todos" \/ poisoned
  PROVE  FileInv'
<1>1. Saved' = Saved
  BY DEF Saved
<1>2. BaseHistory' = BaseHistory
  BY DEF BaseHistory
<1> QED BY <1>1, <1>2 DEF FileInv

\* A line that is no entry leaves the transcript in the file.
LEMMA FileWritten ==
  ASSUME ~Torn', StoreType, FileInv, UNCHANGED <<history, todos>>, NEW line \in Lines, NEW ok \in BOOLEAN, Written(line, ok),
         line.kind # "entry", OnItsWay' <=> OnItsWay, OnItsWay' => run'.entry = run.entry,
         line.kind = "todos" => line.todos = todos,
         line.kind # "todos" => (pc'[Worker] # "todos" => pc[Worker] # "todos")
  PROVE  FileInv'
<1>1. /\ files \in Seq(Files) /\ current \in 0..Len(files) /\ poisoned \in BOOLEAN /\ history \in Seq(Entries)
  BY DEF StoreType
<1>2. BaseHistory' = BaseHistory
  BY DEF BaseHistory
<1>3. IsPrefix(BaseHistory, history)
  <2>1. CASE OnItsWay
    BY <1>1, <2>1, PrefixFront DEF BaseHistory, FileInv
  <2>2. CASE ~OnItsWay
    BY <1>1, <2>2, PrefixSelf DEF BaseHistory
  <2> QED BY <2>1, <2>2
<1>4. /\ Saved \in Files
      /\ \/ files' = files /\ current' = current /\ poisoned' /\ (ok => poisoned)
         \/ ok /\ ~poisoned /\ ~poisoned' /\ current' # NoSession /\ Saved' = AppendLine(Saved, line)
  BY <1>1, WrittenWhole
<1>5. CASE files' = files /\ current' = current /\ poisoned'
  <2>1. Saved' = Saved
    BY <1>5 DEF Saved
  <2>2. IsPrefix(LoadedHistory(Saved), history)
    BY <1>3 DEF FileInv
  <2> QED BY <1>5, <2>1, <2>2 DEF FileInv
<1>6. CASE ~poisoned /\ ~poisoned' /\ Saved' = AppendLine(Saved, line)
  <2>1. LoadedHistory(Saved') = LoadedHistory(Saved) /\ LoadedTodos(Saved') = IF line.kind = "todos" THEN line.todos ELSE LoadedTodos(Saved)
    BY <1>4, <1>6, LoadedPush
  <2> QED BY <1>2, <1>6, <2>1 DEF FileInv
<1> QED BY <1>4, <1>5, <1>6

\* A switch that is no accident finds the worker idle.
LEMMA Switches ==
  ASSUME RunInv, ~Mixed, NEW c \in Clients, NewSession(c) \/ ResumeAttach(c)
  PROVE  pc[Worker] = "idle" /\ conversation' # conversation
<1>1. conversation \in Nat /\ conversation' = conversation + 1
  BY DEF RunInv, NewSession, ResumeAttach
<1>2. conversation' # conversation
  BY <1>1, SMT
<1> QED BY <1>2 DEF Mixed

LEMMA FileStep ==
  ASSUME ~Torn', ~Mixed, PlaceInv, RunInv, StoreType, FileInv, [Next]_vars
  PROVE  FileInv'
<1>0. Worker \in Threads /\ \A c \in Clients : c \in Threads /\ c # Worker
  BY WorkerAt
<1>x. \A next : \A t \in Threads : Goto(t, next) => pc'[t] = next /\ \A u \in Threads : u # t => pc'[u] = pc[u]
  BY WorkerAt
<1>y. \A next : Goto(Worker, next) => pc'[Worker] = next
  BY <1>0, <1>x
<1>t. /\ files \in Seq(Files) /\ current \in 0..Len(files) /\ poisoned \in BOOLEAN /\ history \in Seq(Entries)
      /\ todos \in {0} \cup TodoLists
  BY DEF StoreType
<1>e. pc[Worker] # "idle" => run.entry \in Entries /\ run.entry.role \in {"user", "assistant", "tool"}
  BY DEF RunInv, Entries
<1>p. pc[Worker] # "idle" => AfterPush \in {"turn", "finish", "tools"}
  BY <1>e DEF AfterPush
\* The steps between two others.
<1>a. ASSUME UNCHANGED <<history, todos, sessionVars>>, pc[Worker] \notin {"active", "persist", "todos"},
             pc'[Worker] \notin {"active", "persist"}
      PROVE  FileInv'
  BY <1>a, FileKept DEF OnItsWay, sessionVars
\* The steps of another thread.
<1>b. ASSUME UNCHANGED <<history, todos, sessionVars>>, pc'[Worker] = pc[Worker], run'.entry = run.entry
      PROVE  FileInv'
  BY <1>b, FileKept DEF OnItsWay, sessionVars
<1>1. CASE WorkerPop
  BY <1>1, <1>a, <1>y DEF WorkerPop
<1>2. CASE RunBegin
  BY <1>2, <1>a, <1>y DEF RunBegin
<1>3. CASE PushHistory
  <2>1. history' = Append(history, run.entry) /\ run' = run /\ UNCHANGED <<todos, files, current, poisoned>>
        /\ pc[Worker] = "history" /\ pc'[Worker] = (IF IsUser(run.entry) THEN "active" ELSE "persist")
    BY <1>3, <1>y DEF PushHistory, sessionVars
  <2>2. ~OnItsWay /\ OnItsWay'
    BY <2>1 DEF OnItsWay
  <2>3. PICK e \in Entries : e = run.entry
    BY <1>e, <2>1
  <2>4. history' # <<>> /\ history'[Len(history')] = e /\ SubSeq(history', 1, Len(history') - 1) = history
    <3>1. PICK g : g = Append(history, e)
      OBVIOUS
    <3>2. g # <<>> /\ g[Len(g)] = e
      BY <1>t, <3>1
    <3>3. SubSeq(g, 1, Len(g) - 1) = history
      BY <1>t, <3>1, SMT
    <3> QED BY <2>1, <2>3, <3>1, <3>2, <3>3
  <2>5. BaseHistory' = history /\ BaseHistory = history
    BY <2>2, <2>4 DEF BaseHistory
  <2>6. Saved' = Saved
    BY <2>1 DEF Saved
  <2>7. LoadedHistory(Saved) \in Seq(Entries)
    <3>1. Saved \in Files
      BY <1>t, LoadedNothing DEF Saved, NoSession
    <3> QED BY <3>1, LoadedType
  <2>8. IsPrefix(LoadedHistory(Saved), history) => IsPrefix(LoadedHistory(Saved), history')
    BY <1>t, <2>1, <2>3, <2>7, PrefixPush
  <2> QED BY <2>1, <2>2, <2>3, <2>4, <2>5, <2>6, <2>8 DEF FileInv
<1>4. CASE PushActive
  <2>1. UNCHANGED <<history, todos, files, current, poisoned>> /\ run'.entry = run.entry /\ pc[Worker] = "active"
        /\ pc'[Worker] = (IF IsUser(run.entry) THEN "persist" ELSE IF run.halted THEN AfterPush ELSE "history")
    BY <1>4, <1>y, PushActiveMakes DEF PushActive, sessionVars
  <2>2. OnItsWay' <=> OnItsWay
    BY <1>p, <2>1 DEF OnItsWay
  <2> QED BY <2>1, <2>2, FileKept
<1>5. CASE PushPersist
  <2>1. PICK ok \in BOOLEAN : Written(EntryLine(run.entry), ok)
    BY <1>5 DEF PushPersist, Persisted
  <2>2. pc[Worker] = "persist" /\ pc'[Worker] = AfterPush /\ UNCHANGED <<history, todos, run>>
    BY <1>5, <1>y DEF PushPersist
  <2>3. PICK line \in Lines : line = EntryLine(run.entry) /\ line.kind = "entry" /\ line.entry = run.entry
    BY <1>e, <2>2, LinesMade
  <2>4. OnItsWay /\ ~OnItsWay' /\ pc'[Worker] # "todos"
    BY <1>p, <2>2 DEF OnItsWay
  <2>5. /\ Saved \in Files
        /\ \/ files' = files /\ current' = current /\ poisoned' /\ (ok => poisoned)
           \/ ok /\ ~poisoned /\ ~poisoned' /\ current' # NoSession /\ Saved' = AppendLine(Saved, line)
    BY <1>t, <2>1, <2>3, WrittenWhole
  <2>6. history # <<>> /\ history[Len(history)] = run.entry /\ BaseHistory = SubSeq(history, 1, Len(history) - 1) /\ BaseHistory' = history
    BY <2>2, <2>4 DEF FileInv, BaseHistory
  <2>7. IsPrefix(BaseHistory, history) /\ Append(BaseHistory, run.entry) = history
    BY <1>t, <2>6, PrefixFront
  <2>8. CASE files' = files /\ current' = current /\ poisoned'
    <3>1. Saved' = Saved
      BY <2>8 DEF Saved
    <3>2. IsPrefix(LoadedHistory(Saved), history)
      BY <2>7 DEF FileInv
    <3> QED BY <2>2, <2>4, <2>8, <3>1, <3>2 DEF FileInv
  <2>9. CASE ~poisoned /\ ~poisoned' /\ Saved' = AppendLine(Saved, line)
    <3>1. LoadedHistory(Saved') = Append(LoadedHistory(Saved), line.entry) /\ LoadedTodos(Saved') = LoadedTodos(Saved)
      BY <2>3, <2>5, <2>9, LoadedPush
    <3>2. LoadedHistory(Saved) = BaseHistory /\ LoadedTodos(Saved) = todos
      BY <2>2, <2>9 DEF FileInv
    <3> QED BY <2>2, <2>3, <2>4, <2>6, <2>7, <2>9, <3>1, <3>2 DEF FileInv
  <2> QED BY <2>5, <2>8, <2>9
<1>6. CASE ModelTurn
  <2>1. UNCHANGED <<history, todos, files, current, poisoned>> /\ pc[Worker] = "turn"
    BY <1>6 DEF ModelTurn, sessionVars
  <2>2. ~OnItsWay /\ ~OnItsWay'
    BY <1>6, <2>1, TurnMakes DEF OnItsWay, IsUser
  <2> QED BY <2>1, <2>2, FileKept
<1>7. CASE DispatchTools
  <2>1. UNCHANGED <<history, files, current, poisoned>> /\ pc[Worker] = "tools"
        /\ (pc'[Worker] = "todos" \/ (pc'[Worker] = "results" /\ todos' = todos))
    BY <1>7, <1>y DEF DispatchTools, sessionVars
  <2>2. ~OnItsWay /\ ~OnItsWay'
    BY <2>1 DEF OnItsWay
  <2>3. Saved' = Saved /\ BaseHistory = history /\ BaseHistory' = history
    BY <2>1, <2>2 DEF Saved, BaseHistory
  <2> QED BY <2>1, <2>2, <2>3 DEF FileInv
<1>8. CASE PersistTodos
  <2>1. PICK ok \in BOOLEAN : Written(TodosLine(todos), ok)
    BY <1>8 DEF PersistTodos, Persisted
  <2>2. pc[Worker] = "todos" /\ pc'[Worker] = "results" /\ UNCHANGED <<history, todos, run>>
    BY <1>8, <1>y DEF PersistTodos
  <2>3. PICK line \in Lines : line = TodosLine(todos) /\ line.kind = "todos" /\ line.todos = todos
    BY <1>t, LinesMade
  <2>4. ~OnItsWay /\ ~OnItsWay'
    BY <2>2 DEF OnItsWay
  <2> QED BY <2>1, <2>2, <2>3, <2>4, FileWritten
<1>9. CASE ToolResults
  <2>1. UNCHANGED <<history, todos, files, current, poisoned>> /\ pc[Worker] = "results" /\ pc'[Worker] = "active"
    BY <1>9, <1>y DEF ToolResults, sessionVars
  <2>2. ~OnItsWay /\ ~OnItsWay'
    BY <1>9, <2>1, ResultsMake DEF OnItsWay, IsUser
  <2> QED BY <2>1, <2>2, FileKept
<1>10. CASE RunFinish
  <2>1. pc'[Worker] = "idle" /\ pc[Worker] = "finish"
    BY <1>10, <1>y DEF RunFinish
  <2> QED BY <1>10, <1>a, <2>1 DEF RunFinish
<1>11. ASSUME NEW t \in Threads, Compact(t) PROVE FileInv'
  <2>0. pc[t] \in Compacting /\ UNCHANGED <<history, todos, run>>
    BY <1>11 DEF Compact, CompactClone, CompactStart, CompactPlan, CompactPersist, CompactInstall, Compacting
  <2>1. pc'[Worker] = pc[Worker] \/ (pc[Worker] \in Compacting /\ pc'[Worker] \in Compacting \cup {"turn", "finish", "history"})
    <3>1. CASE t = Worker
      <4>1. \A result : AfterCompaction(Worker, result) \in {"turn", "finish", "history"}
        BY AfterwardsMoved, <1>0
      <4>2. pc'[Worker] \in Compacting \cup {"turn", "finish", "history"}
        <5>1. CASE CompactClone(Worker)
          BY <1>y, <4>1, <5>1 DEF CompactClone, Compacting
        <5>2. CASE CompactStart(Worker)
          BY <1>y, <4>1, <5>2 DEF CompactStart, Compacting
        <5>3. CASE CompactPlan(Worker)
          BY <1>y, <4>1, <5>3 DEF CompactPlan, CompactFails, Compacting
        <5>4. CASE CompactPersist(Worker)
          <6>1. Goto(Worker, "install") \/ CompactFails(Worker)
            BY <5>4 DEF CompactPersist
          <6>2. CASE Goto(Worker, "install")
            BY <1>y, <6>2 DEF Compacting
          <6>3. CASE CompactFails(Worker)
            BY <1>y, <4>1, <6>3 DEF CompactFails
          <6> QED BY <6>1, <6>2, <6>3
        <5>5. CASE CompactInstall(Worker)
          BY <1>y, <4>1, <5>5 DEF CompactInstall
        <5> QED BY <1>11, <3>1, <5>1, <5>2, <5>3, <5>4, <5>5 DEF Compact
      <4> QED BY <2>0, <3>1, <4>2
    <3>2. CASE t # Worker
      <4>1. \A next : Goto(t, next) => pc'[Worker] = pc[Worker]
        BY <1>0, <1>x, <3>2
      <4> QED BY <1>11, <4>1 DEF Compact, CompactClone, CompactStart, CompactPlan, CompactPersist, CompactInstall, CompactFails
    <3> QED BY <3>1, <3>2
  <2>2. (OnItsWay' <=> OnItsWay) /\ run'.entry = run.entry
    BY <2>0, <2>1 DEF OnItsWay, Compacting
  <2>3. pc'[Worker] # "todos" => pc[Worker] # "todos"
    BY <2>1 DEF Compacting
  <2>4. CASE CompactPersist(t)
    <3>1. plan[t] \in Lines /\ plan[t].kind = "checkpoint"
      BY <2>4 DEF CompactPersist, StoreType
    <3>2. PICK ok \in BOOLEAN : Written(plan[t], ok)
      BY <2>4 DEF CompactPersist
    <3> QED BY <2>0, <2>2, <2>3, <3>1, <3>2, FileWritten
  <2>5. CASE ~CompactPersist(t)
    <3>1. UNCHANGED sessionVars
      BY <1>11, <2>5 DEF Compact, CompactClone, CompactStart, CompactPlan, CompactInstall
    <3> QED BY <2>0, <2>2, <2>3, <3>1, FileKept DEF sessionVars
  <2> QED BY <2>4, <2>5
<1>12. ASSUME NEW c \in Clients, ClientStep(c) \/ ResumeAttach(c) PROVE FileInv'
  <2>0. \A next : Goto(c, next) => pc'[Worker] = pc[Worker]
    BY <1>0, <1>x
  <2>1. CASE Submit(c)
    BY <1>b, <2>1 DEF Submit
  <2>2. CASE CancelCurrent(c)
    <3>1. UNCHANGED <<history, todos, sessionVars>> /\ pc'[Worker] = pc[Worker]
      BY <2>2 DEF CancelCurrent
    <3> QED BY <1>b, <2>2, <3>1, CancelMakes
  <2>3. CASE NewSession(c)
    <3>1. pc[Worker] = "idle" /\ pc' = pc
      BY <2>3, Switches DEF NewSession
    <3>2. history' = <<>> /\ todos' = 0 /\ current' = NoSession /\ poisoned' = FALSE
      BY <2>3 DEF NewSession, Detached
    <3>3. ~OnItsWay' /\ BaseHistory' = <<>> /\ Saved' = NewFile
      BY <3>1, <3>2 DEF OnItsWay, BaseHistory, Saved
    <3> QED BY <3>1, <3>2, <3>3, LoadedNothing DEF FileInv
  <2>4. CASE ResumeLoad(c)
    BY <1>b, <2>0, <2>4 DEF ResumeLoad
  <2>5. CASE StartManual(c)
    BY <1>b, <2>0, <2>5 DEF StartManual
  <2>6. CASE ResumeAttach(c)
    <3>1. pc[Worker] = "idle" /\ pc'[Worker] = "idle"
      BY <2>0, <2>6, Switches DEF ResumeAttach
    <3>2. PICK s : s = loaded[c]
      OBVIOUS
    <3>3. s # NoSession
      BY <2>6, <3>2 DEF ResumeAttach, StoreType
    <3>4. history' = LoadedHistory(files[s]) /\ todos' = LoadedTodos(files[s]) /\ current' = s /\ poisoned' = FALSE /\ files' = files
      BY <2>6, <3>2 DEF ResumeAttach
    <3>5. ~OnItsWay' /\ Saved' = files[s] /\ BaseHistory' = history'
      BY <3>1, <3>3, <3>4 DEF OnItsWay, BaseHistory, Saved
    <3> QED BY <3>4, <3>5 DEF FileInv
  <2> QED BY <1>12, <2>1, <2>2, <2>3, <2>4, <2>5, <2>6 DEF ClientStep
<1>13. CASE Restart
  <2>1. history' = <<>> /\ todos' = 0 /\ current' = NoSession /\ poisoned' = FALSE /\ pc'[Worker] = "idle"
    BY <1>0, <1>13 DEF Restart
  <2>2. ~OnItsWay' /\ BaseHistory' = <<>> /\ Saved' = NewFile
    BY <2>1 DEF OnItsWay, BaseHistory, Saved
  <2> QED BY <2>1, <2>2, LoadedNothing DEF FileInv
<1>14. CASE UNCHANGED vars
  BY <1>14, <1>b DEF vars
<1> QED BY <1>1, <1>2, <1>3, <1>4, <1>5, <1>6, <1>7, <1>8, <1>9, <1>10, <1>11, <1>12, <1>13, <1>14 DEF Next, Run

LEMMA InitFile == Init => FileInv
<1> SUFFICES ASSUME Init PROVE FileInv
  OBVIOUS
<1>1. history = <<>> /\ todos = 0 /\ current = NoSession /\ poisoned = FALSE /\ pc[Worker] = "idle"
  BY DEF Init, Threads
<1>2. ~OnItsWay /\ BaseHistory = <<>> /\ Saved = NewFile
  BY <1>1 DEF OnItsWay, BaseHistory, Saved
<1> QED BY <1>1, <1>2, LoadedNothing DEF FileInv

LEMMA FileInvMatches ==
  ASSUME StoreType, FileInv
  PROVE  FileMatchesHistory
<1>1. history \in Seq(Entries) /\ poisoned \in BOOLEAN
  BY DEF StoreType
<1>2. (IF current = NoSession THEN <<>> ELSE LoadedHistory(files[current])) = LoadedHistory(Saved)
      /\ (IF current = NoSession THEN 0 ELSE LoadedTodos(files[current])) = LoadedTodos(Saved)
  BY LoadedNothing DEF Saved
<1>3. OnItsWay => Front(history) = BaseHistory
  BY DEF Front, BaseHistory
<1> QED BY <1>1, <1>2, <1>3 DEF FileMatchesHistory, FileInv, BaseHistory

(***************************************************************************)
(* The active history.                                                     *)
(***************************************************************************)
LEMMA StandsNothing == Stands(<<>>, <<>>)
BY DEF Stands

\* The bases are histories.
LEMMA BaseTypes ==
  ASSUME StoreType, ReplayInv, FileInv, RunInv
  PROVE  /\ BaseHistory \in Seq(Entries) /\ BaseActive \in Seq(Entries) /\ Extra \in Nat /\ Extra <= Len(active)
         /\ Extra = 0 => BaseActive = active
<1>1. history \in Seq(Entries) /\ active \in Seq(Entries) /\ Len(active) \in Nat
  BY DEF StoreType
<1>2. run.ephemeral \in {0, 2}
  BY RunFields DEF RunInv
<1>3. Extra \in Nat /\ Extra <= Len(active)
  BY <1>2 DEF Extra, EphemeralNow, ReplayInv
<1>4. BaseHistory \in Seq(Entries)
  BY <1>1, PrefixFront DEF BaseHistory, FileInv
<1>5. \A x \in Nat : x <= Len(active) => SubSeq(active, 1, Len(active) - x) \in Seq(Entries) /\ SubSeq(active, 1, Len(active) - 0) = active
  BY <1>1, SMT
<1>6. SubSeq(active, 1, Len(active) - 0) = active
  BY <1>1, SMT
<1>7. PICK x \in Nat : x = Extra
  BY <1>3
<1>8. BaseActive = SubSeq(active, 1, Len(active) - x)
  BY <1>7 DEF BaseActive
<1> QED BY <1>3, <1>4, <1>5, <1>6, <1>7, <1>8

\* Steps that leave the histories and the file, and what is pushed.
LEMMA ReplayKept ==
  ASSUME ReplayInv, UNCHANGED <<history, active, files, current, poisoned, snapshot, plan>>,
         Extra' = Extra, OnItsWay' <=> OnItsWay, PushedToActive' => PushedToActive /\ run'.entry = run.entry,
         ~Beside',
         \A t \in Threads : pc'[t] \in {"start", "summary", "checkpoint", "install"} => pc'[t] = pc[t],
         \A t \in Threads : pc[t] = "install" => pc'[t] = pc[t]
  PROVE  ReplayInv'
<1>1. Saved' = Saved
  BY DEF Saved
<1>2. BaseHistory' = BaseHistory
  BY DEF BaseHistory
<1>3. BaseActive' = BaseActive
  BY DEF BaseActive
<1>4. (\E t \in Threads : pc[t] = "install") <=> \E t \in Threads : pc'[t] = "install"
  OBVIOUS
<1>5. \A t \in Threads :
       /\ pc'[t] \in {"start", "summary", "checkpoint", "install"} => snapshot'[t] = active' /\ TailStart(active') > 0
       /\ pc'[t] \in {"checkpoint", "install"} => plan'[t] = PlanFor(history', active')
  BY DEF ReplayInv
<1>6. ~poisoned' => LoadedActive(Saved') = IF \E t \in Threads : pc'[t] = "install" THEN Compacted(active') ELSE BaseActive'
  <2>1. ~poisoned => LoadedActive(Saved) = IF \E t \in Threads : pc[t] = "install" THEN Compacted(active) ELSE BaseActive
    BY DEF ReplayInv
  <2> QED BY <1>1, <1>3, <1>4, <2>1
<1>7. Extra' <= Len(active') /\ (PushedToActive' => active'[Len(active')] = run'.entry)
  BY DEF ReplayInv
<1>8. \A s \in DOMAIN files' : Stands(LoadedHistory(files'[s]), LoadedActive(files'[s]))
  BY DEF ReplayInv
<1>9. Stands(BaseHistory', BaseActive')
  BY <1>2, <1>3 DEF ReplayInv
<1> QED BY <1>5, <1>6, <1>7, <1>8, <1>9 DEF ReplayInv

\* Where a thread compacts, the other ones do not, and nothing is being pushed.
LEMMA OnlyOne ==
  ASSUME PlaceInv, RunInv, StoreType, ReplayInv, NEW t \in Threads, pc[t] \in Compacting
  PROVE  /\ \A u \in Threads : u # t => pc[u] \notin Compacting
         /\ Extra = 0 /\ BaseActive = active /\ BaseHistory = history
<1>1. Worker \in Threads /\ \A u \in Threads : u = Worker \/ u \in Clients
  BY DEF Threads
<1>2. t \in Clients => \A u \in Threads : u # t => pc[u] = "idle"
  BY DEF ReplayInv, Beside
<1>3. \A c \in Clients : c # t => pc[c] \notin Compacting
  BY DEF ReplayInv, Beside, Compacting
<1>5. \A u \in Threads : u # t => pc[u] \notin Compacting
  BY <1>1, <1>2, <1>3 DEF Compacting
<1>6. pc[Worker] \in Compacting \cup {"idle"}
  BY <1>1, <1>2
<1>7. run.ephemeral = 0
  BY <1>6, RunFields DEF RunInv, Compacting
<1>8. Extra = 0 /\ ~OnItsWay
  BY <1>6, <1>7 DEF Extra, PushedToActive, EphemeralNow, OnItsWay, Compacting
<1>9. active \in Seq(Entries)
  BY DEF StoreType
<1>10. SubSeq(active, 1, Len(active) - 0) = active
  BY <1>9, SMT
<1> QED BY <1>5, <1>8, <1>10 DEF BaseActive, BaseHistory

\* While the worker is busy the clients do not compact.
LEMMA WorkerAlone ==
  ASSUME ReplayInv, pc[Worker] # "idle"
  PROVE  \A c \in Clients : pc[c] \notin Compacting
BY ConversationAssumption DEF ReplayInv, Beside, Threads

\* A line that is written leaves the files replayable.
LEMMA FilesReplay ==
  ASSUME ~Torn', StoreType, ReplayInv, NEW line \in Lines, NEW ok \in BOOLEAN, Written(line, ok),
         Saved' = AppendLine(Saved, line) => Stands(LoadedHistory(Saved'), LoadedActive(Saved'))
  PROVE  \A s \in DOMAIN files' : Stands(LoadedHistory(files'[s]), LoadedActive(files'[s]))
<1>1. files \in Seq(Files) /\ current \in 0..Len(files) /\ poisoned \in BOOLEAN
  BY DEF StoreType
<1>2. /\ \A s \in DOMAIN files' : s # current' => s \in DOMAIN files /\ files'[s] = files[s]
      /\ \/ files' = files /\ current' = current /\ poisoned' /\ (ok => poisoned)
         \/ ok /\ ~poisoned /\ ~poisoned' /\ current' # NoSession /\ Saved' = AppendLine(Saved, line)
  BY <1>1, WrittenWhole
<1>3. \A s \in DOMAIN files : Stands(LoadedHistory(files[s]), LoadedActive(files[s]))
  BY DEF ReplayInv
<1>4. CASE files' = files
  BY <1>3, <1>4
<1>5. CASE current' # NoSession /\ Saved' = AppendLine(Saved, line)
  <2>1. Saved' = files'[current']
    BY <1>5 DEF Saved
  <2> QED BY <1>2, <1>3, <1>5, <2>1
<1> QED BY <1>2, <1>4, <1>5

\* The attached file is replayable, or it is new.
LEMMA SavedStands ==
  ASSUME StoreType, ReplayInv
  PROVE  Stands(LoadedHistory(Saved), LoadedActive(Saved))
<1>1. CASE current = NoSession
  BY <1>1, LoadedNothing, StandsNothing DEF Saved
<1>2. CASE current # NoSession
  <2>1. current \in DOMAIN files
    <3>1. files \in Seq(Files) /\ current \in 0..Len(files)
      BY DEF StoreType
    <3> QED BY <1>2, <3>1, SMT DEF NoSession
  <2> QED BY <1>2, <2>1 DEF Saved, ReplayInv
<1> QED BY <1>1, <1>2

\* The worker's steps between two pushes.
LEMMA WorkerReplayKept ==
  ASSUME PlaceInv, ReplayInv, UNCHANGED <<history, active, files, current, poisoned, snapshot, plan>>,
         pc[Worker] # "idle", NEW next, Goto(Worker, next), pc[Worker] # "install",
         next \notin {"start", "summary", "checkpoint", "install"},
         Extra' = Extra, OnItsWay' <=> OnItsWay, PushedToActive' => PushedToActive /\ run'.entry = run.entry
  PROVE  ReplayInv'
<1>1. Worker \in Threads /\ \A c \in Clients : c \in Threads /\ c # Worker
  BY WorkerAt
<1>2. pc'[Worker] = next /\ \A u \in Threads : u # Worker => pc'[u] = pc[u]
  BY <1>1, WorkerAt
<1>3. \A c \in Clients : pc[c] \notin Compacting
  BY WorkerAlone
<1>4. \A c \in Clients : pc'[c] \notin Compacting
  BY <1>1, <1>2, <1>3
<1>5. \A t \in Threads : pc'[t] \in {"start", "summary", "checkpoint", "install"} => pc'[t] = pc[t]
  BY <1>2
<1>6. \A t \in Threads : pc[t] = "install" => pc'[t] = pc[t]
  BY <1>2
<1>7. ~Beside'
  BY <1>4 DEF Beside
<1> QED BY <1>5, <1>6, <1>7, ReplayKept

\* Where nobody compacts: the conditions on the compactions hold.
LEMMA ReplayAgain ==
  ASSUME \A t \in Threads : pc'[t] \notin {"start", "summary", "checkpoint", "install"},
         \A c \in Clients : pc'[c] \notin Compacting,
         Extra' <= Len(active'), PushedToActive' => active'[Len(active')] = run'.entry,
         Stands(BaseHistory', BaseActive'),
         \A s \in DOMAIN files' : Stands(LoadedHistory(files'[s]), LoadedActive(files'[s])),
         ~poisoned' => LoadedActive(Saved') = BaseActive'
  PROVE  ReplayInv'
<1>1. ~\E t \in Threads : pc'[t] = "install"
  OBVIOUS
<1>2. ~Beside'
  BY DEF Beside
<1> QED BY <1>1, <1>2 DEF ReplayInv

LEMMA PushStep ==
  ASSUME ~Torn', PlaceInv, RunInv, StoreType, FileInv, ReplayInv, PushHistory \/ PushActive \/ PushPersist \/ ModelTurn
  PROVE  ReplayInv'
<1>0. Worker \in Threads /\ \A c \in Clients : c \in Threads /\ c # Worker
  BY WorkerAt
<1>y. \A next : Goto(Worker, next) => pc'[Worker] = next /\ \A t \in Threads : t # Worker => pc'[t] = pc[t]
  BY <1>0, WorkerAt
<1>t. /\ files \in Seq(Files) /\ current \in 0..Len(files) /\ poisoned \in BOOLEAN /\ history \in Seq(Entries)
      /\ active \in Seq(Entries) /\ Len(active) \in Nat
  BY DEF StoreType
<1>b. /\ BaseHistory \in Seq(Entries) /\ BaseActive \in Seq(Entries) /\ Extra \in Nat /\ Extra <= Len(active)
      /\ Extra = 0 => BaseActive = active
  BY BaseTypes
<1>w. pc[Worker] \in {"history", "active", "persist", "turn"}
  BY DEF PushHistory, PushActive, PushPersist, ModelTurn
<1>e. run.entry \in Entries /\ run.entry.role \in {"user", "assistant", "tool"}
  BY <1>w DEF RunInv, Entries
<1>p. AfterPush \in {"turn", "finish", "tools"}
  BY <1>e DEF AfterPush
<1>r. run.ephemeral \in {0, 2} /\ (pc[Worker] # "turn" => run.ephemeral = 0)
  BY RunFields DEF RunInv
<1>c. \A c \in Clients : pc[c] \notin Compacting
  BY <1>w, WorkerAlone
\* Nobody compacts.
<1>n. ASSUME NEW next, Goto(Worker, next), next \notin {"start", "summary", "checkpoint", "install"}
      PROVE  (\A t \in Threads : pc'[t] \notin {"start", "summary", "checkpoint", "install"}) /\ \A c \in Clients : pc'[c] \notin Compacting
  BY <1>0, <1>c, <1>n, <1>y DEF Threads, Compacting
<1>i. ~\E t \in Threads : pc[t] = "install"
  BY <1>c, <1>w DEF Threads, Compacting
<1>s. Stands(BaseHistory, BaseActive) /\ (~poisoned => LoadedActive(Saved) = BaseActive)
      /\ \A s \in DOMAIN files : Stands(LoadedHistory(files[s]), LoadedActive(files[s]))
  BY <1>i DEF ReplayInv
<1>1. CASE PushHistory
  <2>1. history' = Append(history, run.entry) /\ UNCHANGED <<run, active, files, current, poisoned>>
        /\ pc[Worker] = "history" /\ pc'[Worker] = (IF IsUser(run.entry) THEN "active" ELSE "persist")
    BY <1>1, <1>y DEF PushHistory, sessionVars
  <2>2. OnItsWay' /\ ~OnItsWay
    BY <2>1 DEF OnItsWay
  <2>3. BaseHistory' = BaseHistory
    <3>1. PICK e \in Entries : e = run.entry
      BY <1>e
    <3>2. PICK g : g = Append(history, e)
      OBVIOUS
    <3>3. SubSeq(g, 1, Len(g) - 1) = history
      BY <1>t, <3>2, SMT
    <3> QED BY <2>1, <2>2, <3>1, <3>2, <3>3 DEF BaseHistory
  <2>4. Extra' = Extra /\ (PushedToActive' <=> PushedToActive)
    BY <2>1 DEF Extra, PushedToActive, EphemeralNow, IsUser, RunInv
  <2>5. BaseActive' = BaseActive /\ Saved' = Saved
    BY <2>1, <2>4 DEF BaseActive, Saved
  <2>6. Extra' <= Len(active') /\ (PushedToActive' => active'[Len(active')] = run'.entry)
    BY <2>1, <2>4 DEF ReplayInv
  <2>7. (\A t \in Threads : pc'[t] \notin {"start", "summary", "checkpoint", "install"}) /\ \A c \in Clients : pc'[c] \notin Compacting
    BY <1>1, <1>n DEF PushHistory
  <2> QED BY <1>s, <2>1, <2>3, <2>5, <2>6, <2>7, ReplayAgain
<1>2. CASE PushActive
  <2>1. active' = Append(active, run.entry) /\ UNCHANGED <<history, files, current, poisoned>>
        /\ pc[Worker] = "active" /\ pc'[Worker] = (IF IsUser(run.entry) THEN "persist" ELSE IF run.halted THEN AfterPush ELSE "history")
    BY <1>2, <1>y DEF PushActive, sessionVars
  <2>2. run'.entry = run.entry /\ run'.halted = run.halted /\ run'.ephemeral = IF run.halted /\ run.entry.role = "tool" THEN 2 ELSE run.ephemeral
    BY <1>2, PushActiveMakes
  <2>3. Saved' = Saved /\ (OnItsWay' <=> OnItsWay)
    BY <1>p, <2>1, <2>2 DEF Saved, OnItsWay
  <2>4. BaseHistory' = BaseHistory
    BY <2>1, <2>3 DEF BaseHistory
  <2>5. run.halted /\ run.entry.role = "assistant" => pc'[Worker] = "tools"
    BY <2>1 DEF AfterPush, IsUser, RunInv
  <2>6. run.halted /\ run.entry.role = "tool" => pc'[Worker] = "turn"
    BY <2>1 DEF AfterPush, IsUser
  <2>7. run.halted => ~IsUser(run.entry)
    BY DEF RunInv
  <2>8. Extra' = Extra + 1 /\ Extra \in {0, 1}
    <3>1. CASE ~run.halted
      <4>1. pc'[Worker] \in {"persist", "history"} /\ (pc'[Worker] = "history" => ~IsUser(run.entry))
        BY <2>1, <3>1
      <4>2. PushedToActive' /\ ~PushedToActive
        BY <2>1, <2>2, <4>1 DEF PushedToActive
      <4> QED BY <1>r, <2>1, <3>1, <4>2 DEF Extra, EphemeralNow
    <3>2. CASE run.halted /\ run.entry.role = "assistant"
      BY <1>r, <2>1, <2>2, <2>5, <2>7, <3>2 DEF Extra, PushedToActive, EphemeralNow, IsUser
    <3>3. CASE run.halted /\ run.entry.role = "tool"
      BY <1>r, <2>1, <2>2, <2>6, <2>7, <3>3 DEF Extra, PushedToActive, EphemeralNow, IsUser
    <3> QED BY <1>e, <2>7, <3>1, <3>2, <3>3 DEF IsUser
  <2>9. PICK e \in Entries, a \in Seq(Entries), n \in Nat, x \in {0, 1} : e = run.entry /\ a = active /\ n = Len(active) /\ x = Extra
    BY <1>e, <1>t, <2>8
  <2>10. x <= n /\ Len(Append(a, e)) = n + 1 /\ Append(a, e)[n + 1] = e
    BY <1>b, <2>9
  <2>11. SubSeq(Append(a, e), 1, (n + 1) - (x + 1)) = SubSeq(a, 1, n - x)
    <3>1. (n + 1) - (x + 1) = n - x /\ n - x \in 0..n
      BY <2>10, SMT
    <3>2. \A k \in 0..n : SubSeq(Append(a, e), 1, k) = SubSeq(a, 1, k)
      BY <2>9, SMT
    <3> QED BY <3>1, <3>2
  <2>12. BaseActive' = BaseActive
    BY <2>1, <2>8, <2>9, <2>10, <2>11 DEF BaseActive
  <2>13. Extra' <= Len(active') /\ active'[Len(active')] = run'.entry
    <3>1. Extra' = x + 1 /\ Len(active') = n + 1 /\ x + 1 <= n + 1
      BY <2>1, <2>8, <2>9, <2>10
    <3> QED BY <2>1, <2>2, <2>9, <2>10, <3>1
  <2>14. (\A t \in Threads : pc'[t] \notin {"start", "summary", "checkpoint", "install"}) /\ \A c \in Clients : pc'[c] \notin Compacting
    BY <1>2, <1>n, <1>p DEF PushActive
  <2> QED BY <1>s, <2>1, <2>3, <2>4, <2>12, <2>13, <2>14, ReplayAgain
<1>3. CASE PushPersist
  <2>1. PICK ok \in BOOLEAN : Written(EntryLine(run.entry), ok)
    BY <1>3 DEF PushPersist, Persisted
  <2>2. pc[Worker] = "persist" /\ pc'[Worker] = AfterPush /\ UNCHANGED <<history, active, run>>
    BY <1>3, <1>y DEF PushPersist
  <2>3. PICK line \in Lines : line = EntryLine(run.entry) /\ line.kind = "entry" /\ line.entry = run.entry
    BY <1>e, LinesMade
  <2>4. ~run.halted /\ run.ephemeral = 0
    BY <1>r, <2>2 DEF RunInv
  <2>5. Extra = 1 /\ PushedToActive /\ Extra' = 0 /\ ~PushedToActive' /\ OnItsWay /\ ~OnItsWay'
    BY <1>p, <2>2, <2>4 DEF Extra, PushedToActive, EphemeralNow, OnItsWay
  <2>6. history # <<>> /\ history[Len(history)] = run.entry /\ BaseHistory = SubSeq(history, 1, Len(history) - 1)
    BY <2>5 DEF FileInv, BaseHistory
  <2>7. active # <<>> /\ active[Len(active)] = run.entry /\ BaseActive = SubSeq(active, 1, Len(active) - 1)
    BY <1>b, <1>t, <2>5 DEF ReplayInv, BaseActive
  <2>8. history = Append(BaseHistory, run.entry) /\ active = Append(BaseActive, run.entry)
    BY <1>t, <2>6, <2>7, PrefixFront
  <2>9. BaseHistory' = history /\ BaseActive' = active
    <3>1. SubSeq(active, 1, Len(active) - 0) = active
      BY <1>t, SMT
    <3> QED BY <2>2, <2>5, <3>1 DEF BaseHistory, BaseActive
  <2>10. Stands(BaseHistory', BaseActive')
    BY <1>b, <1>e, <1>s, <2>8, <2>9, StandsPush
  <2>11. /\ Saved \in Files
         /\ \/ files' = files /\ current' = current /\ poisoned' /\ (ok => poisoned)
            \/ ok /\ ~poisoned /\ ~poisoned' /\ current' # NoSession /\ Saved' = AppendLine(Saved, line)
    BY <1>t, <2>1, <2>3, WrittenWhole
  <2>12. Saved' = AppendLine(Saved, line) => LoadedHistory(Saved') = Append(LoadedHistory(Saved), run.entry)
                                            /\ LoadedActive(Saved') = Append(LoadedActive(Saved), run.entry)
    BY <2>3, <2>11, LoadedPush
  <2>13. Saved' = AppendLine(Saved, line) => Stands(LoadedHistory(Saved'), LoadedActive(Saved'))
    <3>1. LoadedHistory(Saved) \in Seq(Entries) /\ LoadedActive(Saved) \in Seq(Entries)
      BY <2>11, LoadedType
    <3> QED BY <1>e, <2>12, <3>1, SavedStands, StandsPush
  <2>14. \A s \in DOMAIN files' : Stands(LoadedHistory(files'[s]), LoadedActive(files'[s]))
    BY <2>1, <2>3, <2>13, FilesReplay
  <2>15. ~poisoned' => LoadedActive(Saved') = BaseActive'
    BY <1>s, <2>8, <2>9, <2>11, <2>12
  <2>16. (\A t \in Threads : pc'[t] \notin {"start", "summary", "checkpoint", "install"}) /\ \A c \in Clients : pc'[c] \notin Compacting
    BY <1>3, <1>n, <1>p DEF PushPersist
  <2>17. Extra' <= Len(active')
    BY <1>t, <2>2, <2>5
  <2> QED BY <2>5, <2>10, <2>14, <2>15, <2>16, <2>17, ReplayAgain
<1>4. CASE ModelTurn
  <2>1. UNCHANGED <<history, files, current, poisoned>> /\ pc[Worker] = "turn" /\ active' = WithoutEphemeral(active)
    BY <1>4 DEF ModelTurn, sessionVars
  <2>2. /\ run'.ephemeral = 0
        /\ \/ pc'[Worker] \in {"finish", "clone"}
           \/ pc'[Worker] = "active" /\ run'.entry.role = "assistant"
    BY <1>4, TurnMakes
  <2>3. Extra = run.ephemeral /\ ~PushedToActive /\ ~OnItsWay
    BY <2>1 DEF Extra, PushedToActive, EphemeralNow, OnItsWay
  <2>4. Extra' = 0 /\ ~PushedToActive' /\ ~OnItsWay'
    BY <2>2 DEF Extra, PushedToActive, EphemeralNow, OnItsWay, IsUser
  <2>5. active' = BaseActive
    <3>1. PICK x \in Nat : x = Extra
      BY <1>b
    <3>2. ~(x > Len(active))
      BY <1>b, <1>t, <3>1, SMT
    <3> QED BY <2>1, <2>3, <3>1, <3>2 DEF WithoutEphemeral, BaseActive
  <2>6. BaseActive' = BaseActive
    <3>1. PICK a \in Seq(Entries) : a = BaseActive
      BY <1>b
    <3>2. SubSeq(a, 1, Len(a) - 0) = a
      BY SMT
    <3> QED BY <2>4, <2>5, <3>1, <3>2 DEF BaseActive
  <2>7. BaseHistory' = BaseHistory /\ Saved' = Saved
    BY <2>1, <2>3, <2>4 DEF BaseHistory, Saved
  <2>8. (\A t \in Threads : pc'[t] \notin {"start", "summary", "checkpoint", "install"}) /\ \A c \in Clients : pc'[c] \notin Compacting
    BY <1>4, <1>n DEF ModelTurn
  <2>9. Extra' <= Len(active')
    BY <1>b, <2>4, <2>5
  <2> QED BY <1>s, <2>1, <2>4, <2>6, <2>7, <2>8, <2>9, ReplayAgain
<1> QED BY <1>1, <1>2, <1>3, <1>4

\* The places of a compaction after which nothing is pushed before the next turn.
LEMMA CompactMoves ==
  ASSUME PlaceInv, RunInv, StoreType, NEW t \in Threads, Compact(t)
  PROVE  /\ pc[t] \in Compacting /\ run' = run /\ history' = history /\ pending' = pending
         /\ \A u \in Threads : u # t => pc'[u] = pc[u]
         /\ t = Worker => ~OnItsWay' /\ Extra' = 0 /\ ~PushedToActive'
<1>0. Worker \in Threads /\ \A c \in Clients : c \in Threads /\ c # Worker
  BY WorkerAt
<1>x. \A next : Goto(t, next) => pc'[t] = next /\ \A u \in Threads : u # t => pc'[u] = pc[u]
  BY WorkerAt
<1>1. pc[t] \in Compacting /\ run' = run /\ history' = history /\ pending' = pending
  BY DEF Compact, CompactClone, CompactStart, CompactPlan, CompactPersist, CompactInstall, Compacting
<1>2. \/ \E result \in {"nothing", "failed", "done"} : Goto(t, AfterCompaction(t, result))
      \/ \E next \in {"start", "summary", "checkpoint", "install"} : Goto(t, next)
  <2>1. CASE CompactClone(t)
    BY <2>1 DEF CompactClone
  <2>2. CASE CompactStart(t)
    BY <2>2 DEF CompactStart
  <2>3. CASE CompactPlan(t)
    BY <2>3 DEF CompactPlan, CompactFails
  <2>4. CASE CompactPersist(t)
    <3>1. Goto(t, "install") \/ CompactFails(t)
      BY <2>4 DEF CompactPersist
    <3>2. CASE Goto(t, "install")
      BY <3>2
    <3>3. CASE CompactFails(t)
      BY <3>3 DEF CompactFails
    <3> QED BY <3>1, <3>2, <3>3
  <2>5. CASE CompactInstall(t)
    BY <2>5 DEF CompactInstall
  <2> QED BY <2>1, <2>2, <2>3, <2>4, <2>5 DEF Compact
<1>3. \A u \in Threads : u # t => pc'[u] = pc[u]
  BY <1>2, <1>x
<1>4. ASSUME t = Worker PROVE ~OnItsWay' /\ Extra' = 0 /\ ~PushedToActive'
  <2>1. pc'[Worker] \in {"start", "summary", "checkpoint", "install", "turn", "finish", "history"}
    BY <1>0, <1>2, <1>4, <1>x, AfterwardsMoved
  <2>2. pc'[Worker] = "history" => ~run.retried
    BY <1>2, <1>4, <1>x DEF AfterCompaction
  <2>3. pc'[Worker] = "history" => IsUser(run.entry)
    BY <1>1, <1>4, <2>2 DEF RunInv
  <2>4. run.ephemeral = 0
    BY <1>1, <1>4, RunFields DEF RunInv, Compacting
  <2>5. ~PushedToActive'
    BY <1>1, <2>1, <2>3 DEF PushedToActive, IsUser
  <2> QED BY <1>1, <2>1, <2>4, <2>5 DEF OnItsWay, Extra, EphemeralNow
<1> QED BY <1>1, <1>3, <1>4

LEMMA CompactReplay ==
  ASSUME ~Torn', ~Overlap, PlaceInv, RunInv, StoreType, FileInv, ReplayInv, NEW t \in Threads, Compact(t)
  PROVE  ReplayInv'
<1>0. Worker \in Threads /\ \A c \in Clients : c \in Threads /\ c # Worker
  BY WorkerAt
<1>x. \A next : Goto(t, next) => pc'[t] = next
  BY WorkerAt
<1>t. /\ files \in Seq(Files) /\ current \in 0..Len(files) /\ poisoned \in BOOLEAN /\ history \in Seq(Entries)
      /\ active \in Seq(Entries) /\ Len(active) \in Nat
      /\ snapshot \in [Threads -> Seq(Entries)] /\ plan \in [Threads -> Lines \cup {NoPlan}]
  BY DEF StoreType
<1>1. /\ pc[t] \in Compacting /\ run' = run /\ history' = history /\ pending' = pending
      /\ \A u \in Threads : u # t => pc'[u] = pc[u]
      /\ t = Worker => ~OnItsWay' /\ Extra' = 0 /\ ~PushedToActive'
  BY CompactMoves
<1>2. /\ \A u \in Threads : u # t => pc[u] \notin Compacting
      /\ Extra = 0 /\ BaseActive = active /\ BaseHistory = history
  BY <1>1, OnlyOne
<1>3. \A u \in Threads : u # t => pc'[u] \notin Compacting
  BY <1>1, <1>2
\* The worker pushes nothing, and where a client compacts it is idle.
<1>4. ~OnItsWay' /\ Extra' = 0 /\ ~PushedToActive'
  <2>1. CASE t # Worker
    <3>1. pc[Worker] = "idle" /\ pc'[Worker] = "idle"
      BY <1>0, <1>1, <2>1 DEF ReplayInv, Beside, Threads
    <3>2. run.ephemeral = 0
      BY <3>1, RunFields DEF RunInv
    <3> QED BY <1>1, <3>1, <3>2 DEF OnItsWay, Extra, PushedToActive, EphemeralNow
  <2> QED BY <1>1, <2>1
<1>5. ~Beside'
  BY DEF Overlap
\* The histories as they are read afterwards.
<1>6. BaseHistory' = history
  BY <1>1, <1>4 DEF BaseHistory
<1>7. ASSUME active' \in Seq(Entries) PROVE BaseActive' = active' /\ Extra' <= Len(active')
  <2>1. PICK a \in Seq(Entries) : a = active'
    BY <1>7
  <2>2. SubSeq(a, 1, Len(a) - 0) = a /\ 0 <= Len(a)
    BY SMT
  <2> QED BY <1>4, <2>1, <2>2 DEF BaseActive
<1>s. Stands(history, active) /\ \A s \in DOMAIN files : Stands(LoadedHistory(files[s]), LoadedActive(files[s]))
  BY <1>2 DEF ReplayInv
<1>c. ASSUME TailStart(active) > 0
      PROVE  /\ Compacted(active) \in Seq(Entries) /\ Stands(history, Compacted(active))
             /\ PlanFor(history, active) \in Lines /\ PlanFor(history, active).kind = "checkpoint"
             /\ Projected(history, PlanFor(history, active)) = Compacted(active)
             /\ Compacted(active) = <<PlanFor(history, active).summary>> \o SubSeq(active, TailStart(active) + 1, Len(active))
  <2>1. history \in Seq(Entries) /\ active \in Seq(Entries) /\ Stands(history, active)
    BY <1>s, <1>t
  <2> QED BY <1>c, <2>1, CompactionStands
<1>l. ~poisoned => LoadedHistory(Saved) = history
  BY <1>2 DEF FileInv
<1>i. ~poisoned => LoadedActive(Saved) = IF pc[t] = "install" THEN Compacted(active) ELSE active
  <2>1. (\E u \in Threads : pc[u] = "install") <=> pc[t] = "install"
    BY <1>2 DEF Compacting
  <2> QED BY <1>2, <2>1 DEF ReplayInv
<1>j. (\E u \in Threads : pc'[u] = "install") <=> pc'[t] = "install"
  BY <1>3 DEF Compacting
<1>k. pc[t] \in {"start", "summary", "checkpoint", "install"} => snapshot[t] = active /\ TailStart(active) > 0
  BY DEF ReplayInv
<1>m. pc[t] \in {"checkpoint", "install"} => plan[t] = PlanFor(history, active)
  BY DEF ReplayInv
\* What is left to show of each step.
<1>8. ASSUME active' \in Seq(Entries), Stands(history, active'),
             \A s \in DOMAIN files' : Stands(LoadedHistory(files'[s]), LoadedActive(files'[s])),
             pc'[t] \in {"start", "summary", "checkpoint", "install"} => snapshot'[t] = active' /\ TailStart(active') > 0,
             pc'[t] \in {"checkpoint", "install"} => plan'[t] = PlanFor(history, active'),
             ~poisoned' => LoadedActive(Saved') = IF pc'[t] = "install" THEN Compacted(active') ELSE active'
      PROVE  ReplayInv'
  <2>1. BaseActive' = active' /\ Extra' <= Len(active')
    BY <1>7, <1>8
  <2>2. \A u \in Threads :
       /\ pc'[u] \in {"start", "summary", "checkpoint", "install"} => snapshot'[u] = active' /\ TailStart(active') > 0
       /\ pc'[u] \in {"checkpoint", "install"} => plan'[u] = PlanFor(history', active')
    BY <1>1, <1>3, <1>8 DEF Compacting
  <2>3. ~poisoned' => LoadedActive(Saved') = IF \E u \in Threads : pc'[u] = "install" THEN Compacted(active') ELSE BaseActive'
    BY <1>8, <1>j, <2>1
  <2>4. Stands(BaseHistory', BaseActive')
    BY <1>6, <1>8, <2>1
  <2> QED BY <1>4, <1>5, <1>8, <2>1, <2>2, <2>3, <2>4 DEF ReplayInv
<1>a. \A result : AfterCompaction(t, result) \in {"idle", "turn", "finish", "history"}
  BY AfterwardsMoved
\* A step that neither writes nor installs.
<1>9. ASSUME active' = active, UNCHANGED <<files, current, poisoned>>, pc[t] # "install", pc'[t] # "install",
             pc'[t] \in {"start", "summary", "checkpoint"} => snapshot'[t] = active /\ TailStart(active) > 0,
             pc'[t] = "checkpoint" => plan'[t] = PlanFor(history, active)
      PROVE  ReplayInv'
  <2>1. Saved' = Saved
    BY <1>9 DEF Saved
  <2> QED BY <1>8, <1>9, <1>i, <1>s, <1>t, <2>1
<1>10. CASE CompactClone(t)
  <2>1. active' = active /\ UNCHANGED <<files, current, poisoned>> /\ pc[t] = "clone"
    BY <1>10 DEF CompactClone, sessionVars
  <2>2. CASE TailStart(active) = 0
    <3>1. pc'[t] \in {"idle", "turn", "finish", "history"}
      BY <1>10, <1>a, <1>x, <2>2 DEF CompactClone
    <3> QED BY <1>9, <2>1, <3>1
  <2>3. CASE TailStart(active) # 0
    <3>1. pc'[t] = "start" /\ snapshot'[t] = active
      BY <1>10, <1>t, <1>x, <2>3 DEF CompactClone
    <3>2. TailStart(active) > 0
      BY <1>t, <2>3, TailHasTwo
    <3> QED BY <1>9, <2>1, <3>1, <3>2
  <2> QED BY <2>2, <2>3
<1>11. CASE CompactStart(t)
  <2>1. active' = active /\ UNCHANGED <<files, current, poisoned>> /\ pc[t] = "start"
    BY <1>11 DEF CompactStart, sessionVars
  <2>2. pc'[t] \in {"idle", "turn", "finish", "history"} \/ (pc'[t] = "summary" /\ snapshot' = snapshot)
    BY <1>11, <1>a, <1>x DEF CompactStart
  <2> QED BY <1>9, <1>k, <2>1, <2>2
<1>12. CASE CompactPlan(t)
  <2>1. active' = active /\ UNCHANGED <<files, current, poisoned>> /\ pc[t] = "summary"
    BY <1>12 DEF CompactPlan, sessionVars
  <2>2. CASE CompactFails(t)
    <3>1. pc'[t] \in {"idle", "turn", "finish", "history"}
      BY <1>a, <1>x, <2>2 DEF CompactFails
    <3> QED BY <1>9, <2>1, <3>1
  <2>3. CASE ~CompactFails(t)
    <3>1. PICK l : l = CheckpointLine(Summary(SubSeq(snapshot[t], 1, TailStart(snapshot[t]))),
                                      FirstKept(history, snapshot[t], TailStart(snapshot[t])))
      OBVIOUS
    <3>2. plan' = [plan EXCEPT ![t] = l] /\ snapshot' = snapshot /\ pc'[t] = "checkpoint"
      BY <1>12, <1>x, <2>3, <3>1 DEF CompactPlan
    <3>3. snapshot[t] = active /\ TailStart(active) > 0
      BY <1>k, <2>1
    <3>4. l = PlanFor(history, active)
      BY <3>1, <3>3 DEF PlanFor
    <3>5. plan'[t] = l
      BY <1>t, <3>2
    <3> QED BY <1>9, <2>1, <3>2, <3>3, <3>4, <3>5
  <2> QED BY <2>2, <2>3
<1>13. CASE CompactPersist(t)
  <2>1. active' = active /\ pc[t] = "checkpoint"
    BY <1>13 DEF CompactPersist
  <2>2. plan[t] = PlanFor(history, active) /\ snapshot[t] = active /\ TailStart(active) > 0
    BY <1>k, <1>m, <2>1
  <2>a. /\ Compacted(active) \in Seq(Entries) /\ Stands(history, Compacted(active))
        /\ PlanFor(history, active) \in Lines /\ PlanFor(history, active).kind = "checkpoint"
        /\ Projected(history, PlanFor(history, active)) = Compacted(active)
    BY <1>c, <2>2
  <2>3. /\ Compacted(active) \in Seq(Entries) /\ Stands(history, Compacted(active))
        /\ plan[t] \in Lines /\ plan[t].kind = "checkpoint" /\ Projected(history, plan[t]) = Compacted(active)
    BY <2>2, <2>a
  <2>4. PICK ok \in BOOLEAN : Written(plan[t], ok) /\ (ok => Goto(t, "install") /\ UNCHANGED compactVars) /\ (~ok => CompactFails(t))
    BY <1>13 DEF CompactPersist
  <2>5. /\ Saved \in Files
        /\ \/ files' = files /\ current' = current /\ poisoned' /\ (ok => poisoned)
           \/ ok /\ ~poisoned /\ ~poisoned' /\ current' # NoSession /\ Saved' = AppendLine(Saved, plan[t])
    BY <1>t, <2>3, <2>4, WrittenWhole
  <2>6. Saved' = AppendLine(Saved, plan[t]) => LoadedHistory(Saved') = LoadedHistory(Saved)
                                              /\ LoadedActive(Saved') = Projected(LoadedHistory(Saved), plan[t])
    BY <2>3, <2>5, LoadedPush
  <2>7. ~poisoned' => Saved' = AppendLine(Saved, plan[t]) /\ ~poisoned
    BY <2>5
  <2>8. \A s \in DOMAIN files' : Stands(LoadedHistory(files'[s]), LoadedActive(files'[s]))
    <3>1. CASE poisoned'
      <4>1. files' = files
        BY <2>5, <3>1
      <4> QED BY <1>s, <4>1
    <3>2. CASE ~poisoned'
      <4>1. Stands(LoadedHistory(Saved'), LoadedActive(Saved'))
        BY <1>l, <2>3, <2>6, <2>7, <3>2
      <4> QED BY <2>3, <2>4, <4>1, FilesReplay
    <3> QED BY <3>1, <3>2
  <2>9. CASE ok
    <3>1. pc'[t] = "install" /\ snapshot' = snapshot /\ plan' = plan
      BY <1>x, <2>4, <2>9 DEF compactVars
    <3>2. ~poisoned' => LoadedActive(Saved') = Compacted(active)
      BY <1>l, <2>3, <2>6, <2>7
    <3> QED BY <1>8, <1>s, <1>t, <2>1, <2>2, <2>8, <3>1, <3>2
  <2>10. CASE ~ok
    <3>1. pc'[t] \in {"idle", "turn", "finish", "history"}
      BY <1>a, <1>x, <2>4, <2>10 DEF CompactFails
    <3>2. poisoned'
      BY <2>5, <2>10
    <3> QED BY <1>8, <1>s, <1>t, <2>1, <2>8, <3>1, <3>2
  <2> QED BY <2>9, <2>10
<1>14. CASE CompactInstall(t)
  <2>1. pc[t] = "install" /\ UNCHANGED <<files, current, poisoned>>
        /\ active' = <<plan[t].summary>> \o SubSeq(snapshot[t], TailStart(snapshot[t]) + 1, Len(snapshot[t]))
    BY <1>14 DEF CompactInstall, sessionVars
  <2>2. plan[t] = PlanFor(history, active) /\ snapshot[t] = active /\ TailStart(active) > 0
    BY <1>k, <1>m, <2>1
  <2>a. /\ Compacted(active) \in Seq(Entries) /\ Stands(history, Compacted(active))
        /\ Compacted(active) = <<PlanFor(history, active).summary>> \o SubSeq(active, TailStart(active) + 1, Len(active))
    BY <1>c, <2>2
  <2>3. /\ Compacted(active) \in Seq(Entries) /\ Stands(history, Compacted(active))
        /\ Compacted(active) = <<plan[t].summary>> \o SubSeq(active, TailStart(active) + 1, Len(active))
    BY <2>2, <2>a
  <2>4. active' = Compacted(active)
    BY <2>1, <2>2, <2>3
  <2>5. pc'[t] \in {"idle", "turn", "finish", "history"}
    BY <1>14, <1>a, <1>x DEF CompactInstall
  <2>6. Saved' = Saved
    BY <2>1 DEF Saved
  <2> QED BY <1>8, <1>i, <1>s, <2>1, <2>3, <2>4, <2>5, <2>6
<1> QED BY <1>10, <1>11, <1>12, <1>13, <1>14 DEF Compact

LEMMA ReplayStep ==
  ASSUME ~Torn', ~Mixed, ~Overlap, PlaceInv, RunInv, StoreType, FileInv, ReplayInv, [Next]_vars
  PROVE  ReplayInv'
<1>0. Worker \in Threads /\ \A c \in Clients : c \in Threads /\ c # Worker
  BY WorkerAt
<1>x. \A next : \A t \in Threads : Goto(t, next) => pc'[t] = next /\ \A u \in Threads : u # t => pc'[u] = pc[u]
  BY WorkerAt
<1>y. \A next : Goto(Worker, next) => pc'[Worker] = next /\ \A c \in Clients : pc'[c] = pc[c]
  BY <1>0, <1>x
<1>t. /\ files \in Seq(Files) /\ current \in 0..Len(files) /\ poisoned \in BOOLEAN /\ history \in Seq(Entries)
      /\ active \in Seq(Entries) /\ todos \in {0} \cup TodoLists
  BY DEF StoreType
<1>r. run.ephemeral \in {0, 2} /\ (pc[Worker] # "turn" => run.ephemeral = 0)
  BY RunFields DEF RunInv
<1>o. ~Beside'
  BY DEF Overlap
<1>f. \A s \in DOMAIN files : Stands(LoadedHistory(files[s]), LoadedActive(files[s]))
  BY DEF ReplayInv
\* Where the worker is idle nothing is being pushed.
<1>i. pc[Worker] = "idle" => ~OnItsWay /\ ~PushedToActive /\ Extra = 0
  BY <1>r, RestingRun DEF OnItsWay, PushedToActive, Extra, EphemeralNow, RunInv
<1>1. CASE WorkerPop
  <2>1. /\ pc[Worker] = "idle" /\ pending > 0 /\ UNCHANGED <<history, active, files, current, poisoned, snapshot, plan>>
        /\ pc'[Worker] = "begin" /\ \A u \in Threads : u # Worker => pc'[u] = pc[u]
    BY <1>0, <1>1, <1>x DEF WorkerPop, sessionVars, compactVars
  <2>2. ~run'.halted /\ run'.ephemeral = 0
    BY <1>1, PopMakes
  <2>3. ~OnItsWay' /\ ~PushedToActive' /\ Extra' = 0
    BY <2>1, <2>2 DEF OnItsWay, PushedToActive, Extra, EphemeralNow
  <2>6. /\ \A t \in Threads : pc'[t] \in {"start", "summary", "checkpoint", "install"} => pc'[t] = pc[t]
        /\ \A t \in Threads : pc[t] = "install" => pc'[t] = pc[t]
    BY <2>1
  <2> QED BY <1>i, <1>o, <2>1, <2>3, <2>6, ReplayKept
<1>2. CASE RunBegin
  <2>1. PICK next \in {"finish", "clone", "history"} : Goto(Worker, next)
    BY <1>2 DEF RunBegin
  <2>2. /\ pc[Worker] = "begin" /\ UNCHANGED <<run, history, active, files, current, poisoned, snapshot, plan>> /\ pc'[Worker] = next
    BY <1>2, <1>y, <2>1 DEF RunBegin, sessionVars, compactVars
  <2>3. IsUser(run.entry) /\ ~run.halted
    BY <2>2 DEF RunInv
  <2>4. (OnItsWay' <=> OnItsWay) /\ ~PushedToActive /\ ~PushedToActive'
    BY <2>2, <2>3 DEF OnItsWay, PushedToActive, IsUser
  <2>5. Extra' = Extra
    BY <2>2, <2>3, <2>4 DEF Extra, EphemeralNow
  <2> QED BY <2>1, <2>2, <2>4, <2>5, WorkerReplayKept
<1>3. CASE PushHistory \/ PushActive \/ PushPersist \/ ModelTurn
  BY <1>3, PushStep
<1>4. CASE DispatchTools
  <2>1. PICK next \in {"results", "todos"} : Goto(Worker, next) /\ (next = "todos" => ~run.halted)
    BY <1>4 DEF DispatchTools
  <2>2. /\ pc[Worker] = "tools" /\ UNCHANGED <<run, history, active, files, current, poisoned, snapshot, plan>> /\ pc'[Worker] = next
    BY <1>4, <1>y, <2>1 DEF DispatchTools, sessionVars, compactVars
  <2>3. ~OnItsWay' /\ ~OnItsWay /\ ~PushedToActive /\ ~PushedToActive'
    BY <2>1, <2>2 DEF OnItsWay, PushedToActive
  <2>4. Extra' = Extra
    BY <2>1, <2>2, <2>3 DEF Extra, EphemeralNow
  <2> QED BY <2>1, <2>2, <2>3, <2>4, WorkerReplayKept
<1>5. CASE PersistTodos
  <2>1. PICK ok \in BOOLEAN : Written(TodosLine(todos), ok)
    BY <1>5 DEF PersistTodos, Persisted
  <2>2. pc[Worker] = "todos" /\ pc'[Worker] = "results" /\ UNCHANGED <<history, active, run>> /\ \A c \in Clients : pc'[c] = pc[c]
    BY <1>5, <1>y DEF PersistTodos
  <2>3. PICK line \in Lines : line = TodosLine(todos) /\ line.kind = "todos"
    BY <1>t, LinesMade
  <2>4. ~run.halted /\ run.ephemeral = 0
    BY <1>r, <2>2 DEF RunInv
  <2>5. ~OnItsWay /\ ~OnItsWay' /\ ~PushedToActive /\ ~PushedToActive' /\ Extra = 0 /\ Extra' = 0
    BY <2>2, <2>4 DEF OnItsWay, PushedToActive, Extra, EphemeralNow
  <2>6. BaseHistory' = BaseHistory /\ BaseActive' = BaseActive
    BY <2>2, <2>5 DEF BaseHistory, BaseActive
  <2>7. \A c \in Clients : pc[c] \notin Compacting
    BY <2>2, WorkerAlone
  <2>8. (\A t \in Threads : pc'[t] \notin {"start", "summary", "checkpoint", "install"}) /\ \A c \in Clients : pc'[c] \notin Compacting
    BY <2>2, <2>7 DEF Threads, Compacting
  <2>9. ~\E t \in Threads : pc[t] = "install"
    BY <2>2, <2>7 DEF Threads, Compacting
  <2>10. /\ Saved \in Files
         /\ \/ files' = files /\ current' = current /\ poisoned' /\ (ok => poisoned)
            \/ ok /\ ~poisoned /\ ~poisoned' /\ current' # NoSession /\ Saved' = AppendLine(Saved, line)
    BY <1>t, <2>1, <2>3, WrittenWhole
  <2>11. Saved' = AppendLine(Saved, line) => LoadedHistory(Saved') = LoadedHistory(Saved) /\ LoadedActive(Saved') = LoadedActive(Saved)
    BY <2>3, <2>10, LoadedPush
  <2>12. \A s \in DOMAIN files' : Stands(LoadedHistory(files'[s]), LoadedActive(files'[s]))
    BY <2>1, <2>3, <2>11, FilesReplay, SavedStands
  <2>13. Stands(BaseHistory', BaseActive') /\ (~poisoned => LoadedActive(Saved) = BaseActive)
    BY <2>6, <2>9 DEF ReplayInv
  <2>14. ~poisoned' => LoadedActive(Saved') = BaseActive'
    BY <2>6, <2>10, <2>11, <2>13
  <2>15. Extra' <= Len(active')
    BY <1>t, <2>2, <2>5
  <2> QED BY <2>5, <2>8, <2>12, <2>13, <2>14, <2>15, ReplayAgain
<1>6. CASE ToolResults
  <2>1. /\ pc[Worker] = "results" /\ UNCHANGED <<history, active, files, current, poisoned, snapshot, plan>>
        /\ Goto(Worker, "active") /\ pc'[Worker] = "active"
    BY <1>6, <1>y DEF ToolResults, sessionVars, compactVars
  <2>2. run'.entry.role = "tool" /\ run'.halted = run.halted /\ run'.ephemeral = run.ephemeral
    BY <1>6, ResultsMake
  <2>3. ~OnItsWay' /\ ~OnItsWay /\ ~PushedToActive /\ ~PushedToActive'
    BY <2>1, <2>2 DEF OnItsWay, PushedToActive, IsUser
  <2>4. Extra' = Extra
    BY <2>1, <2>2, <2>3 DEF Extra, EphemeralNow
  <2> QED BY <2>1, <2>3, <2>4, WorkerReplayKept
<1>7. CASE RunFinish
  <2>1. /\ pc[Worker] = "finish" /\ run' = Resting /\ UNCHANGED <<history, active, files, current, poisoned, snapshot, plan>>
        /\ Goto(Worker, "idle") /\ pc'[Worker] = "idle"
    BY <1>7, <1>y DEF RunFinish, sessionVars, compactVars
  <2>2. ~OnItsWay' /\ ~OnItsWay /\ ~PushedToActive /\ ~PushedToActive' /\ Extra = 0 /\ Extra' = 0
    BY <1>r, <2>1, RestingRun DEF OnItsWay, PushedToActive, Extra, EphemeralNow
  <2> QED BY <2>1, <2>2, WorkerReplayKept
<1>8. ASSUME NEW t \in Threads, Compact(t) PROVE ReplayInv'
  BY <1>8, CompactReplay
<1>9. ASSUME NEW c \in Clients, ClientStep(c) \/ ResumeAttach(c) PROVE ReplayInv'
  <2>0. \A next : Goto(c, next) => pc'[c] = next /\ \A u \in Threads : u # c => pc'[u] = pc[u]
    BY <1>0, <1>x
  <2>k. pc[c] \in {"idle", "resume"}
    BY <1>9 DEF ClientStep, Submit, CancelCurrent, NewSession, ResumeLoad, StartManual, Offered, ResumeAttach
  \* A step that moves the client, and no history.
  <2>a. ASSUME UNCHANGED <<run, history, active, files, current, poisoned, snapshot, plan>>,
               NEW next \in {"idle", "resume", "clone"}, Goto(c, next)
        PROVE  ReplayInv'
    <3>1. pc'[c] = next /\ \A u \in Threads : u # c => pc'[u] = pc[u]
      BY <2>0, <2>a
    <3>2. pc'[Worker] = pc[Worker]
      BY <1>0, <3>1
    <3>3. (OnItsWay' <=> OnItsWay) /\ (PushedToActive' <=> PushedToActive) /\ Extra' = Extra
      BY <2>a, <3>2 DEF OnItsWay, PushedToActive, Extra, EphemeralNow
    <3>4. /\ \A t \in Threads : pc'[t] \in {"start", "summary", "checkpoint", "install"} => pc'[t] = pc[t]
          /\ \A t \in Threads : pc[t] = "install" => pc'[t] = pc[t]
      BY <2>a, <2>k, <3>1
    <3> QED BY <1>o, <2>a, <3>3, <3>4, ReplayKept
  \* A switch: no client compacts, and the worker is idle.
  <2>n. ASSUME NewSession(c) \/ ResumeAttach(c)
        PROVE  pc[Worker] = "idle" /\ \A d \in Clients : pc[d] \notin Compacting
    BY <2>n, Switches DEF Overlap
  <2>1. CASE Submit(c)
    <3>1. UNCHANGED <<pc, run, history, active, files, current, poisoned, snapshot, plan>>
      BY <2>1 DEF Submit, sessionVars, compactVars
    <3>2. (OnItsWay' <=> OnItsWay) /\ (PushedToActive' <=> PushedToActive) /\ Extra' = Extra
      BY <3>1 DEF OnItsWay, PushedToActive, Extra, EphemeralNow
    <3> QED BY <1>o, <3>1, <3>2, ReplayKept
  <2>2. CASE CancelCurrent(c)
    <3>1. UNCHANGED <<pc, history, active, files, current, poisoned, snapshot, plan>>
      BY <2>2 DEF CancelCurrent, sessionVars, compactVars
    <3>2. run'.entry = run.entry /\ run'.halted = run.halted /\ run'.ephemeral = run.ephemeral
      BY <2>2, CancelMakes
    <3>3. (OnItsWay' <=> OnItsWay) /\ (PushedToActive' <=> PushedToActive) /\ Extra' = Extra
      BY <3>1, <3>2 DEF OnItsWay, PushedToActive, Extra, EphemeralNow
    <3> QED BY <1>o, <3>1, <3>2, <3>3, ReplayKept
  <2>3. CASE NewSession(c)
    <3>1. pc[Worker] = "idle" /\ pc' = pc /\ run' = run
      BY <2>3, <2>n DEF NewSession
    <3>2. history' = <<>> /\ active' = <<>> /\ current' = NoSession /\ files' = files
      BY <2>3 DEF NewSession, Detached
    <3>3. ~OnItsWay' /\ ~PushedToActive' /\ Extra' = 0
      BY <1>i, <3>1 DEF OnItsWay, PushedToActive, Extra, EphemeralNow
    <3>4. SubSeq(<<>>, 1, 0 - 0) = <<>> /\ Len(<<>>) = 0
      BY SMT
    <3>5. BaseHistory' = <<>> /\ BaseActive' = <<>> /\ Saved' = NewFile
      BY <3>2, <3>3, <3>4 DEF BaseHistory, BaseActive, Saved
    <3>6. (\A t \in Threads : pc'[t] \notin {"start", "summary", "checkpoint", "install"}) /\ \A d \in Clients : pc'[d] \notin Compacting
      BY <2>3, <2>n, <3>1 DEF Threads, Compacting
    <3>7. Extra' <= Len(active')
      BY <3>2, <3>3, <3>4
    <3>8. LoadedActive(Saved') = BaseActive' /\ Stands(BaseHistory', BaseActive')
      BY <3>5, LoadedNothing, StandsNothing
    <3>9. \A s \in DOMAIN files' : Stands(LoadedHistory(files'[s]), LoadedActive(files'[s]))
      BY <1>f, <3>2
    <3> QED BY <3>3, <3>6, <3>7, <3>8, <3>9, ReplayAgain
  <2>4. CASE ResumeLoad(c)
    BY <2>4, <2>a DEF ResumeLoad, sessionVars, compactVars
  <2>5. CASE StartManual(c)
    BY <2>5, <2>a DEF StartManual, sessionVars, compactVars
  <2>6. CASE ResumeAttach(c)
    <3>1. pc[Worker] = "idle" /\ pc'[Worker] = "idle" /\ run' = run /\ pc'[c] = "idle" /\ \A u \in Threads : u # c => pc'[u] = pc[u]
      BY <1>0, <2>0, <2>6, <2>n DEF ResumeAttach
    <3>2. PICK s : s = loaded[c]
      OBVIOUS
    <3>3. s # NoSession /\ s \in 0..Len(files)
      BY <2>6, <3>2 DEF ResumeAttach, StoreType
    <3>4. s \in DOMAIN files
      BY <1>t, <3>3, SMT DEF NoSession
    <3>5. history' = LoadedHistory(files[s]) /\ active' = LoadedActive(files[s]) /\ current' = s /\ files' = files
      BY <2>6, <3>2 DEF ResumeAttach
    <3>6. ~OnItsWay' /\ ~PushedToActive' /\ Extra' = 0
      BY <1>i, <3>1 DEF OnItsWay, PushedToActive, Extra, EphemeralNow
    <3>7. active' \in Seq(Entries)
      BY <1>t, <3>4, <3>5, LoadedType
    <3>8. BaseActive' = active' /\ Extra' <= Len(active')
      <4>1. PICK a \in Seq(Entries) : a = active'
        BY <3>7
      <4>2. SubSeq(a, 1, Len(a) - 0) = a /\ 0 <= Len(a)
        BY SMT
      <4> QED BY <3>6, <4>1, <4>2 DEF BaseActive
    <3>9. BaseHistory' = history' /\ Saved' = files[s]
      BY <3>3, <3>5, <3>6 DEF BaseHistory, Saved
    <3>10. Stands(BaseHistory', BaseActive')
      BY <1>f, <3>4, <3>5, <3>8, <3>9
    <3>11. (\A t \in Threads : pc'[t] \notin {"start", "summary", "checkpoint", "install"}) /\ \A d \in Clients : pc'[d] \notin Compacting
      BY <2>6, <2>n, <3>1 DEF Threads, Compacting
    <3>12. \A q \in DOMAIN files' : Stands(LoadedHistory(files'[q]), LoadedActive(files'[q]))
      BY <1>f, <3>5
    <3>13. LoadedActive(Saved') = BaseActive'
      BY <3>5, <3>8, <3>9
    <3> QED BY <3>6, <3>8, <3>10, <3>11, <3>12, <3>13, ReplayAgain
  <2> QED BY <1>9, <2>1, <2>2, <2>3, <2>4, <2>5, <2>6 DEF ClientStep
<1>10. CASE Restart
  <2>1. history' = <<>> /\ active' = <<>> /\ current' = NoSession /\ run' = Resting /\ \A t \in Threads : pc'[t] = "idle"
    BY <1>10 DEF Restart
  <2>2. files' = files
    BY <1>10, <1>t, RestartKeeps
  <2>3. ~OnItsWay' /\ ~PushedToActive' /\ Extra' = 0
    BY <1>0, <2>1, RestingRun DEF OnItsWay, PushedToActive, Extra, EphemeralNow
  <2>4. SubSeq(<<>>, 1, 0 - 0) = <<>> /\ Len(<<>>) = 0
    BY SMT
  <2>5. BaseHistory' = <<>> /\ BaseActive' = <<>> /\ Saved' = NewFile
    BY <2>1, <2>3, <2>4 DEF BaseHistory, BaseActive, Saved
  <2>6. (\A t \in Threads : pc'[t] \notin {"start", "summary", "checkpoint", "install"}) /\ \A d \in Clients : pc'[d] \notin Compacting
    BY <1>0, <2>1 DEF Compacting
  <2>7. Extra' <= Len(active')
    BY <2>1, <2>3, <2>4
  <2>8. LoadedActive(Saved') = BaseActive' /\ Stands(BaseHistory', BaseActive')
    BY <2>5, LoadedNothing, StandsNothing
  <2>9. \A s \in DOMAIN files' : Stands(LoadedHistory(files'[s]), LoadedActive(files'[s]))
    BY <1>f, <2>2
  <2> QED BY <2>3, <2>6, <2>7, <2>8, <2>9, ReplayAgain
<1>11. CASE UNCHANGED vars
  <2>1. UNCHANGED <<pc, run, pending, history, active, files, current, poisoned, snapshot, plan>>
    BY <1>11 DEF vars, sessionVars, compactVars
  <2>2. (OnItsWay' <=> OnItsWay) /\ (PushedToActive' <=> PushedToActive) /\ Extra' = Extra
    BY <2>1 DEF OnItsWay, PushedToActive, Extra, EphemeralNow
  <2> QED BY <1>o, <2>1, <2>2, ReplayKept
<1> QED BY <1>1, <1>2, <1>3, <1>4, <1>5, <1>6, <1>7, <1>8, <1>9, <1>10, <1>11 DEF Next, Run

LEMMA InitReplay == Init => ReplayInv
<1> SUFFICES ASSUME Init PROVE ReplayInv
  OBVIOUS
<1>1. /\ history = <<>> /\ active = <<>> /\ files = <<>> /\ current = NoSession /\ poisoned = FALSE /\ run = Resting
      /\ Worker \in Threads /\ \A c \in Clients : c \in Threads
  BY DEF Init, Threads
<1>2. \A t \in Threads : pc[t] = "idle"
  BY DEF Init
<1>3. ~OnItsWay /\ ~PushedToActive /\ Extra = 0
  BY <1>1, <1>2, RestingRun DEF OnItsWay, PushedToActive, Extra, EphemeralNow
<1>4. SubSeq(<<>>, 1, 0 - 0) = <<>> /\ Len(<<>>) = 0 /\ DOMAIN (<<>>) = {}
  BY SMT
<1>5. BaseHistory = <<>> /\ BaseActive = <<>> /\ Saved = NewFile
  BY <1>1, <1>3, <1>4 DEF BaseHistory, BaseActive, Saved
<1>6. LoadedActive(Saved) = BaseActive /\ Stands(BaseHistory, BaseActive)
  BY <1>5, LoadedNothing, StandsNothing
<1>7. Extra <= Len(active) /\ DOMAIN files = {}
  BY <1>1, <1>3, <1>4
<1>8. /\ \A c \in Clients : pc[c] \notin Compacting
      /\ \A t \in Threads : pc[t] \notin {"start", "summary", "checkpoint", "install"}
  BY <1>1, <1>2 DEF Compacting
<1>9. ~Beside
  BY <1>8 DEF Beside
<1> QED BY <1>3, <1>6, <1>7, <1>8, <1>9 DEF ReplayInv

\* Between two pushes the base histories are those the properties look at.
LEMMA SettledBase ==
  ASSUME RunInv, Settled
  PROVE  BaseHistory = history /\ BaseActive = Lasting
<1>1. ~OnItsWay
  BY DEF Settled, OnItsWay, RunInv
<1>2. ~PushedToActive
  BY DEF Settled, PushedToActive, RunInv
<1> QED BY <1>1, <1>2 DEF BaseHistory, BaseActive, Extra, Lasting

\* The inductive invariant holds: a part that is claimed after a step was claimed
\* before it, and the step was not the accident that undoes it.
LEMMA InvStep ==
  ASSUME ConversationInv, [Next]_vars PROVE ConversationInv'
<1>1. PlaceInv /\ RunInv /\ accidents \subseteq Accidents
  BY DEF ConversationInv
<1>2. PlaceInv' /\ RunInv'
  BY <1>1, PlaceStep, RunStep
<1>3. /\ accidents \subseteq accidents' /\ accidents' \subseteq Accidents
      /\ "torn" \notin accidents' /\ StoreType => ~Torn'
      /\ "mixed" \notin accidents' => ~Mixed
      /\ "overlap" \notin accidents' /\ ReplayInv => ~Overlap
  BY <1>1, Calm
<1>4. ASSUME "torn" \notin accidents' PROVE StoreType /\ StoreType' /\ ~Torn'
  <2>1. StoreType
    BY <1>3, <1>4 DEF ConversationInv
  <2> QED BY <1>1, <1>3, <1>4, <2>1, StoreStep
<1>5. ASSUME accidents' \cap {"torn", "mixed"} = {} PROVE FileInv /\ FileInv'
  <2>1. "torn" \notin accidents' /\ "mixed" \notin accidents'
    BY <1>5
  <2>2. FileInv
    BY <1>3, <1>5 DEF ConversationInv
  <2> QED BY <1>1, <1>3, <1>4, <2>1, <2>2, FileStep
<1>6. ASSUME accidents' = {} PROVE ReplayInv'
  <2>1. accidents = {} /\ accidents' \cap {"torn", "mixed"} = {}
    BY <1>3, <1>6
  <2>2. ReplayInv
    BY <2>1 DEF ConversationInv
  <2> QED BY <1>1, <1>3, <1>4, <1>5, <1>6, <2>1, <2>2, ReplayStep
<1> QED BY <1>2, <1>3, <1>4, <1>5, <1>6 DEF ConversationInv

LEMMA InvariantHolds == Spec => []ConversationInv
<1>1. Init => ConversationInv
  <2>1. Init => accidents \subseteq Accidents
    BY DEF Init
  <2> QED BY <2>1, InitPlace, InitStore, InitFile, InitReplay DEF ConversationInv
<1>2. ConversationInv /\ [Next]_vars => ConversationInv'
  BY InvStep
<1> QED BY <1>1, <1>2, PTL DEF Spec

\* FileMatchesHistory: until a record is torn or a session switched under a run, what
\* a resume would read is at every moment the transcript and the todo list in memory,
\* but for the entry that is being written; after a failed write, it is what was said
\* until then.  Neither failed writes, crashes, compactions, resumes, cancellations nor
\* compactions that run beside a submission break this (persist_history, session.rs).
THEOREM FileAlwaysMatches == Spec => []FileMatchesHistory
<1>1. ConversationInv => FileMatchesHistory
  <2>1. ASSUME ConversationInv, accidents \cap {"torn", "mixed"} = {} PROVE FileMatchesHistory
    BY <2>1, FileInvMatches DEF ConversationInv
  <2> QED BY <2>1 DEF FileMatchesHistory
<1> QED BY <1>1, InvariantHolds, PTL

\* ActiveIsReplayed: until, besides, a client compacts beside other work, a resume
\* reads from the attached file the active history that is in memory, whatever
\* compactions, failed writes and resumes came between (projected_history).
THEOREM ActiveAlwaysReplayed == Spec => []ActiveIsReplayed
<1>1. ConversationInv => ActiveIsReplayed
  <2> SUFFICES ASSUME ConversationInv, accidents = {}, current # NoSession, ~poisoned, Settled, \A t \in Threads : pc[t] # "install"
               PROVE  LoadedActive(files[current]) = Lasting
    BY DEF ActiveIsReplayed
  <2>1. Saved = files[current] /\ BaseActive = Lasting
    BY SettledBase DEF Saved, ConversationInv
  <2>2. LoadedActive(Saved) = BaseActive
    BY DEF ConversationInv, ReplayInv
  <2> QED BY <2>1, <2>2
<1> QED BY <1>1, InvariantHolds, PTL

LEMMA InvTypeOK ==
  ASSUME ConversationInv PROVE TypeOK
<1>1. PlaceInv /\ RunInv /\ accidents \subseteq Accidents /\ ("torn" \notin accidents => StoreType)
  BY DEF ConversationInv
<1>2. run.turns \in 0..MaxTurns /\ run.ephemeral \in {0, 2}
  BY <1>1, RunFields DEF RunInv
<1>3. pending \in 0..MaxSubmissions
  BY <1>1, ConversationAssumption, SMT DEF RunInv, ConversationAssumption
<1> QED BY <1>1, <1>2, <1>3 DEF PlaceInv, StoreType, TypeOK

LEMMA StandsRemembers ==
  ASSUME NEW h \in Seq(Entries), NEW a \in Seq(Entries), Stands(h, a)
  PROVE  /\ Said(a) = Said(h)
         /\ \A i \in Recent(h) : IsUser(h[i]) => \E j \in DOMAIN a : a[j] = h[i]
<1>1. CASE a = h
  BY <1>1 DEF Recent
<1>2. CASE a # h
  <2>1. /\ Said(a) = Said(h) /\ a # <<>> /\ Len(a) - 1 <= Len(h)
        /\ \A i \in 0..(Len(a) - 2) : a[Len(a) - i] = h[Len(h) - i]
        /\ \A i \in Recent(h) : IsUser(h[i]) => i > Len(h) - (Len(a) - 1)
    BY <1>2 DEF Stands
  <2>2. ASSUME NEW i \in Recent(h), IsUser(h[i]) PROVE \E j \in DOMAIN a : a[j] = h[i]
    <3>1. PICK n \in Nat, m \in Nat : n = Len(h) /\ m = Len(a) /\ DOMAIN a = 1..m
      OBVIOUS
    <3>2. i \in 1..n /\ i > n - (m - 1)
      BY <2>1, <2>2, <3>1 DEF Recent
    <3>3. n - i \in 0..(m - 2) /\ n - (n - i) = i /\ m - (n - i) \in 1..m
      BY <3>1, <3>2, SMT
    <3>4. a[m - (n - i)] = h[n - (n - i)]
      BY <2>1, <3>1, <3>3
    <3> QED BY <3>1, <3>3, <3>4
  <2> QED BY <2>1, <2>2
<1> QED BY <1>1, <1>2

\* NothingForgotten: until one of the accidents, the active history tells the model
\* everything the transcript has, each message once and in order, and the last two user
\* messages as such (compact_history, remove_ephemeral_history, load_path).
THEOREM NothingEverForgotten == Spec => []NothingForgotten
<1>1. Spec => []ConversationInv
  BY InvariantHolds
<1>2. ConversationInv => NothingForgotten
  <2> SUFFICES ASSUME ConversationInv PROVE NothingForgotten
    OBVIOUS
  <2>a. TypeOK
    BY InvTypeOK
  <2> SUFFICES ASSUME accidents = {} PROVE EverythingIsSaid /\ RecentTurnsKept
    BY <2>a DEF NothingForgotten
  <2>1. PlaceInv /\ RunInv /\ StoreType /\ FileInv /\ ReplayInv
    BY DEF ConversationInv
  <2>3. ASSUME Settled PROVE Said(Lasting) = Said(history) /\ (\A i \in Recent(history) : IsUser(history[i]) => \E j \in DOMAIN active : active[j] = history[i])
    <3>1. BaseHistory = history /\ BaseActive = Lasting /\ BaseHistory \in Seq(Entries) /\ BaseActive \in Seq(Entries)
      BY <2>1, <2>3, BaseTypes, SettledBase
    <3>2. Said(Lasting) = Said(history) /\ \A i \in Recent(history) : IsUser(history[i]) => \E j \in DOMAIN Lasting : Lasting[j] = history[i]
      <4>1. Stands(history, Lasting)
        BY <2>1, <3>1 DEF ReplayInv
      <4> QED BY <3>1, <4>1, StandsRemembers
    <3>3. \A j \in DOMAIN Lasting : j \in DOMAIN active /\ active[j] = Lasting[j]
      <4>1. PICK n \in Nat, x \in Nat : n = Len(active) /\ x = Extra /\ x <= n
        BY <2>1, BaseTypes DEF StoreType
      <4>2. active \in Seq(Entries) /\ Lasting = SubSeq(active, 1, n - x)
        BY <2>1, <3>1, <4>1 DEF BaseActive, StoreType
      <4> QED BY <4>1, <4>2
    <3> QED BY <3>2, <3>3
  <2> QED BY <2>3 DEF EverythingIsSaid, RecentTurnsKept
<1> QED BY <1>1, <1>2, PTL
================================================================================
