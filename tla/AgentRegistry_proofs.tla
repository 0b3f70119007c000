--------------------------- MODULE AgentRegistry_proofs ---------------------------
(***************************************************************************)
(* Theorems about AgentRegistry for every number of agents and discarders  *)
(* and every setting of the limits.                                        *)
(***************************************************************************)
EXTENDS AgentRegistry, Functions, FiniteSetTheorems, WellFoundedInduction, TLAPS

----------------------------------------------------------------------------
(* What Without keeps of a list of any length, and the least element of a  *)
(* set of numbers.                                                         *)

\* A set of natural numbers has a least element: the intervals below its
\* elements are finite sets, which strict inclusion orders well.
LEMMA LeastNatural ==
  ASSUME NEW T \in SUBSET Nat, T # {}
  PROVE  \E n \in T : \A m \in T : n <= m
<1> DEFINE Below(n) == 0..n
           family == {Below(n) : n \in T}
           order == StrictSubsetOrdering(Nat)
           subsets == FiniteSubsetsOf(Nat)
<1>1. IsWellFoundedOn(order, subsets)
  BY FS_StrictSubsetOrderingWellFounded
<1>2. \A n \in T : Below(n) \in subsets
  <2> TAKE n \in T
  <2>1. IsFiniteSet(0..n)
    BY FS_Interval
  <2> QED BY <2>1 DEF FiniteSubsetsOf
<1>3. family \subseteq subsets /\ family # {}
  <2> HIDE DEF Below, subsets
  <2> QED BY <1>2
<1>4. PICK least \in family : \A other \in family : ~(<<other, least>> \in order)
  <2> HIDE DEF family, order, subsets
  <2> QED BY <1>1, <1>3, WFMin
<1>5. PICK n \in T : least = Below(n)
  BY <1>4
<1>6. ASSUME NEW m \in T, ~(n <= m) PROVE FALSE
  <2>1. Below(m) \subseteq Below(n) /\ n \in Below(n) /\ n \notin Below(m)
    BY <1>6
  <2>2. <<Below(m), Below(n)>> \in order
    BY <2>1 DEF StrictSubsetOrdering
  <2> QED BY <1>4, <1>5, <2>2
<1> QED BY <1>6

--------------------------------------------------------------------------------
\* A position is the k-th of a set of positions for exactly one k.
LEMMA NthProperties ==
  ASSUME NEW n \in Nat, NEW S \in SUBSET (1..n)
  PROVE  /\ IsFiniteSet(S)
         /\ \A k \in 1..Cardinality(S) :
              Nth(S, k) \in S /\ Cardinality({j \in S : j <= Nth(S, k)}) = k
         /\ \A i \in S : /\ Cardinality({j \in S : j <= i}) \in 1..Cardinality(S)
                         /\ Nth(S, Cardinality({j \in S : j <= i})) = i
<1> DEFINE Upto(i) == {j \in S : j <= i}
           size == Cardinality(S)
           place == [i \in S |-> Cardinality(Upto(i))]
<1>1. IsFiniteSet(S) /\ size \in Nat
  <2>1. IsFiniteSet(1..n)
    BY FS_Interval
  <2> QED BY <2>1, FS_Subset, FS_CardinalityType
<1>2. \A i \in S : IsFiniteSet(Upto(i)) /\ Cardinality(Upto(i)) \in 1..size
  <2> TAKE i \in S
  <2>1. Upto(i) \in SUBSET S /\ i \in Upto(i)
    OBVIOUS
  <2>2. IsFiniteSet(Upto(i)) /\ Cardinality(Upto(i)) <= size
    BY <1>1, <2>1, FS_Subset
  <2>3. Cardinality(Upto(i)) \in Nat /\ Cardinality(Upto(i)) # 0
    <3> HIDE DEF Upto
    <3> QED BY <2>1, <2>2, FS_EmptySet, FS_CardinalityType
  <2> HIDE DEF Upto, size
  <2> QED BY <1>1, <2>2, <2>3
<1>3. \A i, j \in S : i < j => Cardinality(Upto(i)) # Cardinality(Upto(j))
  <2> TAKE i, j \in S
  <2> HAVE i < j
  <2>1. \A x \in S : x \in Int
    OBVIOUS
  <2>2. Upto(i) \in SUBSET Upto(j)
    <3>1. ASSUME NEW x \in S, x <= i PROVE x <= j
      BY <2>1, <3>1
    <3> QED BY <3>1
  <2>3. j \in Upto(j) /\ j \notin Upto(i)
    BY <2>1
  <2> HIDE DEF Upto
  <2> QED BY <1>2, <2>2, <2>3, FS_Subset
<1>4. place \in Injection(S, 1..size)
  <2>1. place \in [S -> 1..size]
    <3> HIDE DEF Upto, size
    <3> QED BY <1>2
  <2>2. \A i, j \in S : place[i] = place[j] => i = j
    <3> SUFFICES ASSUME NEW i \in S, NEW j \in S, place[i] = place[j] PROVE i = j
      OBVIOUS
    <3>1. i \in Int /\ j \in Int
      OBVIOUS
    <3>2. ~(i < j) /\ ~(j < i)
      BY <1>3
    <3> QED BY <3>1, <3>2
  <2> HIDE DEF place
  <2> QED BY <2>1, <2>2 DEF Injection, IsInjective
<1>5. place \in Surjection(S, 1..size)
  <2>1. IsFiniteSet(1..size) /\ Cardinality(1..size) = size
    BY <1>1, FS_Interval
  <2> HIDE DEF place
  <2> QED BY <1>4, <2>1, FS_Injection
<1>6. \A k \in 1..size : Nth(S, k) \in S /\ place[Nth(S, k)] = k
  <2> TAKE k \in 1..size
  <2>1. \E i \in S : Cardinality(Upto(i)) = k
    <3>1. \E i \in S : place[i] = k
      BY <1>5 DEF Surjection
    <3> QED BY <3>1
  <2> QED BY <2>1 DEF Nth
<1>7. \A i \in S : place[i] \in 1..size /\ Nth(S, place[i]) = i
  <2> HIDE DEF place
  <2> QED BY <1>4, <1>6 DEF Injection, IsInjective
<1> QED BY <1>1, <1>6, <1>7

\* Without keeps exactly the elements that are not to go, each as often as it was
\* there and nothing else; a list it has nothing to remove from stays as it is.
THEOREM WithoutKeeps ==
  ASSUME NEW Base, NEW list \in Seq(Base), NEW elements
  PROVE  /\ Without(list, elements) \in Seq(Base)
         /\ Len(Without(list, elements)) <= Len(list)
         /\ Range(Without(list, elements)) = Range(list) \ elements
         /\ (\A i, j \in DOMAIN list : list[i] = list[j] => i = j)
              => \A i, j \in DOMAIN Without(list, elements) :
                   Without(list, elements)[i] = Without(list, elements)[j] => i = j
         /\ Range(list) \cap elements = {} => Without(list, elements) = list
<1> DEFINE kept == {i \in DOMAIN list : list[i] \notin elements}
           size == Cardinality(kept)
           result == Without(list, elements)
           Place(i) == Cardinality({j \in kept : j <= i})
<1>0. Len(list) \in Nat /\ IsFiniteSet(1..Len(list)) /\ Cardinality(1..Len(list)) = Len(list)
  <2>1. Len(list) \in Nat
    OBVIOUS
  <2> HIDE DEF kept, size, result, Place
  <2> QED BY <2>1, FS_Interval, SMTT(40)
<1>1. Len(list) \in Nat /\ DOMAIN list = 1..Len(list) /\ kept \in SUBSET (1..Len(list))
  OBVIOUS
<1>2. /\ IsFiniteSet(kept) /\ size \in Nat
      /\ \A k \in 1..size : Nth(kept, k) \in kept /\ Place(Nth(kept, k)) = k
      /\ \A i \in kept : Place(i) \in 1..size /\ Nth(kept, Place(i)) = i
  <2> HIDE DEF kept
  <2> QED BY <1>1, NthProperties, FS_CardinalityType
<1>3. result = [k \in 1..size |-> list[Nth(kept, k)]]
  BY DEF Without
<1>4. size <= Len(list)
  <2>1. Cardinality(kept) <= Cardinality(1..Len(list))
    <3> HIDE DEF kept
    <3> QED BY <1>0, <1>1, FS_Subset
  <2> QED BY <1>0, <2>1
<1>5. result \in Seq(Base) /\ Len(result) = size /\ DOMAIN result = 1..size
  <2>0. \A i \in kept : list[i] \in Base
    BY <1>1
  <2>1. \A k \in 1..size : list[Nth(kept, k)] \in Base
    <3> HIDE DEF kept, size
    <3> QED BY <1>2, <2>0
  <2> HIDE DEF kept, size, result
  <2> QED BY <1>2, <1>3, <2>1
<1>6. Range(result) = Range(list) \ elements
  <2>1. ASSUME NEW x \in Range(result) PROVE x \in Range(list) \ elements
    <3>1. PICK k \in 1..size : x = list[Nth(kept, k)]
      <4> HIDE DEF kept, size, result
      <4> QED BY <1>3, <1>5, <2>1 DEF Range
    <3>2. Nth(kept, k) \in kept
      BY <1>2
    <3> QED BY <3>1, <3>2 DEF Range
  <2>2. ASSUME NEW x \in Range(list) \ elements PROVE x \in Range(result)
    <3>1. PICK i \in kept : x = list[i]
      BY <2>2 DEF Range
    <3>2. Place(i) \in 1..size /\ Nth(kept, Place(i)) = i
      BY <1>2
    <3>3. result[Place(i)] = x
      <4> HIDE DEF kept, size, result, Place
      <4> QED BY <1>3, <3>1, <3>2
    <3> HIDE DEF kept, size, result, Place
    <3> QED BY <1>5, <3>2, <3>3 DEF Range
  <2> QED BY <2>1, <2>2
<1>7. ASSUME \A i, j \in DOMAIN list : list[i] = list[j] => i = j
      PROVE  \A i, j \in DOMAIN result : result[i] = result[j] => i = j
  <2> SUFFICES ASSUME NEW i \in 1..size, NEW j \in 1..size, result[i] = result[j]
               PROVE  i = j
    BY <1>5
  <2>1. list[Nth(kept, i)] = list[Nth(kept, j)]
    <3> HIDE DEF kept, size, result
    <3> QED BY <1>3
  <2>2. Nth(kept, i) \in DOMAIN list /\ Nth(kept, j) \in DOMAIN list
    BY <1>2
  <2>3. Nth(kept, i) = Nth(kept, j)
    BY <1>7, <2>1, <2>2
  <2>4. Place(Nth(kept, i)) = i /\ Place(Nth(kept, j)) = j
    BY <1>2
  <2> HIDE DEF kept, size, result, Place
  <2> QED BY <2>3, <2>4
<1>8. ASSUME Range(list) \cap elements = {} PROVE result = list
  <2>1. kept = 1..Len(list)
    BY <1>1, <1>8 DEF Range
  <2>2. size = Len(list)
    <3> HIDE DEF kept
    <3> QED BY <1>0, <2>1
  <2>3. \A k \in 1..Len(list) : Place(k) = k
    <3> TAKE k \in 1..Len(list)
    <3>1. {j \in kept : j <= k} = 1..k
      <4> HIDE DEF kept
      <4> QED BY <1>1, <2>1
    <3>2. Cardinality(1..k) = k
      BY FS_Interval
    <3> QED BY <3>1, <3>2
  <2>4. \A k \in 1..Len(list) : Nth(kept, k) = k
    <3> HIDE DEF kept, size, Place
    <3> QED BY <1>2, <2>1, <2>3
  <2> HIDE DEF kept, size, result
  <2> QED BY <1>1, <1>3, <1>5, <2>2, <2>4
<1> QED BY <1>4, <1>5, <1>6, <1>7, <1>8

----------------------------------------------------------------------------
(* Agents, their records and the setting                                   *)

\* Agents and owners are finite sets, and no agent is the main submission or the client.
LEMMA AgentsAreFinite ==
  /\ IsFiniteSet(Agents) /\ IsFiniteSet(Owners)
  /\ Main \notin Agents /\ Client \notin Agents
<1>1. IsFiniteSet(Agents)
  BY RegistryAssumption, FS_Interval DEF Agents
<1>2. IsFiniteSet(Owners)
  <2>1. Owners = Agents \cup {Main}
    BY DEF Owners
  <2> QED BY <1>1, <2>1, FS_AddElement
<1> QED BY <1>1, <1>2, RegistryAssumption DEF Agents

\* The limits are natural numbers.
LEMMA SettingIsTyped ==
  ASSUME TypeOK
  PROVE  /\ setting.agents \in 1..MaxAgents /\ setting.live \in Nat
         /\ setting.mailbox \in Nat /\ setting.recent \in Nat \ {0}
         /\ setting.turns \in Nat /\ setting.messages \in Nat
BY RegistryAssumption DEF TypeOK, SettingType

\* The fields of a record, one by one.
LEMMA RecordIsTyped ==
  ASSUME TypeOK, NEW a \in Agents
  PROVE  /\ rec[a] \in RecordType
         /\ rec[a].gen \in Nat /\ rec[a].parent \in Owners /\ rec[a].path \subseteq Agents
         /\ rec[a].background \in BOOLEAN /\ rec[a].active \in BOOLEAN
         /\ rec[a].inbox \in Nat /\ rec[a].inbox_open \in BOOLEAN
         /\ rec[a].permit \in BOOLEAN /\ rec[a].pending \in BOOLEAN
         /\ rec[a].status \in {"none", "running"} \cup Terminal
BY DEF TypeOK, RecordType

\* Being in the mailbox is being in its range, now
LEMMA MailedIsInRange == \A a : Mailed(a) <=> a \in Range(mailbox)
BY DEF Mailed, Range

\* and after a step.
LEMMA MailedIsInRangeNext == \A a : Mailed(a)' <=> a \in Range(mailbox')
BY DEF Mailed, Range

--------------------------------------------------------------------------------
\* What the steps that change a record do to its fields.
RecordAttached(a) ==
  /\ rec' \in [Agents -> RecordType]
  /\ \A b \in Agents : b # a => rec'[b] = rec[b]
  /\ rec'[a].gen = rec[a].gen
  /\ rec'[a].parent = rec[a].parent
  /\ rec'[a].path = rec[a].path
  /\ rec'[a].background = rec[a].background
  /\ rec'[a].status = rec[a].status
  /\ rec'[a].active = TRUE
  /\ rec'[a].inbox = rec[a].inbox
  /\ rec'[a].inbox_open = rec[a].inbox_open
  /\ rec'[a].permit = rec[a].permit
  /\ rec'[a].pending = rec[a].pending

LEMMA AttachRecord ==
  ASSUME TypeOK, NEW o \in Owners, SpawnAttach(o), child[o] \in Agents
  PROVE  RecordAttached(child[o])
<1>1. rec \in [Agents -> RecordType]
  BY DEF TypeOK
<1>2. rec' = [rec EXCEPT ![child[o]] = [rec[child[o]] EXCEPT !.active = TRUE]]
  BY DEF SpawnAttach
<1>3. rec[child[o]] \in RecordType
  BY <1>1
<1> QED BY <1>1, <1>2, <1>3 DEF RecordType, Terminal, RecordAttached

RecordMessaged(a) ==
  /\ rec' \in [Agents -> RecordType]
  /\ \A b \in Agents : b # a => rec'[b] = rec[b]
  /\ rec'[a].gen = rec[a].gen
  /\ rec'[a].parent = rec[a].parent
  /\ rec'[a].path = rec[a].path
  /\ rec'[a].background = rec[a].background
  /\ rec'[a].status = rec[a].status
  /\ rec'[a].active = rec[a].active
  /\ rec'[a].inbox = rec[a].inbox + 1
  /\ rec'[a].inbox_open = rec[a].inbox_open
  /\ rec'[a].permit = rec[a].permit
  /\ rec'[a].pending = rec[a].pending

LEMMA MessageRecord ==
  ASSUME TypeOK, NEW o \in Owners, NEW a \in Agents, MessageAccept(o, a)
  PROVE  RecordMessaged(a)
<1>1. rec \in [Agents -> RecordType]
  BY DEF TypeOK
<1>2. rec' = [rec EXCEPT ![a] = [rec[a] EXCEPT !.inbox = @ + 1]]
  BY DEF MessageAccept
<1>3. rec[a] \in RecordType
  BY <1>1
<1> QED BY <1>1, <1>2, <1>3 DEF RecordType, Terminal, RecordMessaged

RecordEnded(a) ==
  /\ rec' \in [Agents -> RecordType]
  /\ \A b \in Agents : b # a => rec'[b] = rec[b]
  /\ rec'[a].gen = rec[a].gen
  /\ rec'[a].parent = rec[a].parent
  /\ rec'[a].path = rec[a].path
  /\ rec'[a].background = rec[a].background
  /\ rec'[a].status = outcome[a]
  /\ rec'[a].active = FALSE
  /\ rec'[a].inbox = 0
  /\ rec'[a].inbox_open = FALSE
  /\ rec'[a].permit = rec[a].permit
  /\ rec'[a].pending = rec[a].pending

LEMMA FinishedRecord ==
  ASSUME TypeOK, NEW a \in Agents, FinishRecord(a), outcome[a] \in Terminal
  PROVE  RecordEnded(a)
<1>1. rec \in [Agents -> RecordType]
  BY DEF TypeOK
<1>2. rec' = [rec EXCEPT ![a] = [rec[a] EXCEPT !.status = outcome[a], !.active = FALSE,
                                        !.inbox = 0, !.inbox_open = FALSE]]
  BY DEF FinishRecord
<1>3. rec[a] \in RecordType
  BY <1>1
<1> QED BY <1>1, <1>2, <1>3 DEF RecordType, Terminal, RecordEnded

RecordMarked(a) ==
  /\ rec' \in [Agents -> RecordType]
  /\ \A b \in Agents : b # a => rec'[b] = rec[b]
  /\ rec'[a].gen = rec[a].gen
  /\ rec'[a].parent = rec[a].parent
  /\ rec'[a].path = rec[a].path
  /\ rec'[a].background = rec[a].background
  /\ rec'[a].status = rec[a].status
  /\ rec'[a].active = rec[a].active
  /\ rec'[a].inbox = rec[a].inbox
  /\ rec'[a].inbox_open = rec[a].inbox_open
  /\ rec'[a].permit = rec[a].permit
  /\ rec'[a].pending = TRUE

LEMMA MarkedRecord ==
  ASSUME TypeOK, NEW a \in Agents, FinishMark(a), rec[a].permit
  PROVE  RecordMarked(a)
<1>1. rec \in [Agents -> RecordType]
  BY DEF TypeOK
<1>2. rec' = [rec EXCEPT ![a] = [rec[a] EXCEPT !.pending = TRUE]]
  BY DEF FinishMark
<1>3. rec[a] \in RecordType
  BY <1>1
<1> QED BY <1>1, <1>2, <1>3 DEF RecordType, Terminal, RecordMarked

RecordTurned(a) ==
  /\ rec' \in [Agents -> RecordType]
  /\ \A b \in Agents : b # a => rec'[b] = rec[b]
  /\ rec'[a].gen = rec[a].gen
  /\ rec'[a].parent = rec[a].parent
  /\ rec'[a].path = rec[a].path
  /\ rec'[a].background = rec[a].background
  /\ rec'[a].status = rec[a].status
  /\ rec'[a].active = rec[a].active
  /\ rec'[a].permit = rec[a].permit
  /\ rec'[a].pending = rec[a].pending
  /\ \/ /\ rec[a].inbox > 0 /\ turns'[a] > 0
        /\ rec'[a].inbox = 0 /\ rec'[a].inbox_open = rec[a].inbox_open
        /\ handled' = [handled EXCEPT ![a] = @ + rec[a].inbox]
        /\ UNCHANGED <<pc, outcome>>
     \/ /\ turns'[a] = 0 \/ rec[a].inbox = 0
        /\ rec'[a].inbox = rec[a].inbox /\ rec'[a].inbox_open = FALSE
        /\ outcome' = [outcome EXCEPT ![a] = "completed"]
        /\ Moves(a, "commands")
        /\ UNCHANGED handled
  /\ turns' \in [Agents -> 0..setting.turns] /\ turns'[a] \in Nat
  /\ \A b \in Agents : b # a => turns'[b] = turns[b]

LEMMA EndedTurnRecord ==
  ASSUME TypeOK, NEW a \in Agents, TurnOk(a)
  PROVE  RecordTurned(a)
<1> USE DEF RecordTurned
<1>1. rec \in [Agents -> RecordType] /\ rec[a] \in RecordType /\ rec[a].inbox \in Nat
  BY RecordIsTyped DEF TypeOK
<1>2. /\ turns \in [Agents -> 0..setting.turns] /\ setting.turns \in Nat
  BY SettingIsTyped DEF TypeOK
<1>3. PICK left \in 0..setting.turns :
        /\ turns' = [turns EXCEPT ![a] = left]
        /\ IF left > 0 /\ rec[a].inbox > 0
           THEN /\ rec' = [rec EXCEPT ![a].inbox = 0]
                /\ handled' = [handled EXCEPT ![a] = @ + rec[a].inbox]
                /\ UNCHANGED <<pc, outcome>>
           ELSE /\ rec' = [rec EXCEPT ![a].inbox_open = FALSE]
                /\ outcome' = [outcome EXCEPT ![a] = "completed"]
                /\ Moves(a, "commands")
                /\ UNCHANGED handled
  BY DEF TurnOk
<1>4. turns' \in [Agents -> 0..setting.turns] /\ turns'[a] = left /\ left \in Nat
      /\ \A b \in Agents : b # a => turns'[b] = turns[b]
  BY <1>2, <1>3
<1>5. CASE left > 0 /\ rec[a].inbox > 0
  <2>1. rec' = [rec EXCEPT ![a] = [rec[a] EXCEPT !.inbox = 0]]
    BY <1>3, <1>5
  <2>2. /\ rec' \in [Agents -> RecordType]
        /\ \A b \in Agents : b # a => rec'[b] = rec[b]
        /\ rec'[a].gen = rec[a].gen
        /\ rec'[a].parent = rec[a].parent
        /\ rec'[a].path = rec[a].path
        /\ rec'[a].background = rec[a].background
        /\ rec'[a].status = rec[a].status
        /\ rec'[a].active = rec[a].active
        /\ rec'[a].inbox = 0
        /\ rec'[a].inbox_open = rec[a].inbox_open
        /\ rec'[a].permit = rec[a].permit
        /\ rec'[a].pending = rec[a].pending
    BY <1>1, <2>1 DEF RecordType
  <2> QED BY <1>3, <1>4, <1>5, <2>2
<1>6. CASE ~(left > 0 /\ rec[a].inbox > 0)
  <2>1. rec' = [rec EXCEPT ![a] = [rec[a] EXCEPT !.inbox_open = FALSE]]
    BY <1>3, <1>6
  <2>2. /\ rec' \in [Agents -> RecordType]
        /\ \A b \in Agents : b # a => rec'[b] = rec[b]
        /\ rec'[a].gen = rec[a].gen
        /\ rec'[a].parent = rec[a].parent
        /\ rec'[a].path = rec[a].path
        /\ rec'[a].background = rec[a].background
        /\ rec'[a].status = rec[a].status
        /\ rec'[a].active = rec[a].active
        /\ rec'[a].inbox = rec[a].inbox
        /\ rec'[a].inbox_open = FALSE
        /\ rec'[a].permit = rec[a].permit
        /\ rec'[a].pending = rec[a].pending
    BY <1>1, <2>1 DEF RecordType
  <2> QED BY <1>1, <1>3, <1>4, <1>6, <2>2
<1> QED BY <1>5, <1>6 DEF RecordTurned

\* The results an owner's look at the mailbox finds.
Ready(o) == {a \in Agents : a \in filter[o] /\ Visible(a) /\ Mailed(a)}

RecordsConsumed(o) ==
  /\ rec' \in [Agents -> RecordType]
  /\ \A a \in Agents \ Ready(o) : rec'[a] = rec[a] /\ delivered'[a] = delivered[a]
  /\ \A a \in Ready(o) : /\ ~rec'[a].pending /\ ~rec'[a].permit
                         /\ delivered'[a] = delivered[a] + 1
  /\ \A a \in Agents :
       /\ rec'[a].gen = rec[a].gen
       /\ rec'[a].parent = rec[a].parent
       /\ rec'[a].path = rec[a].path
       /\ rec'[a].background = rec[a].background
       /\ rec'[a].status = rec[a].status
       /\ rec'[a].active = rec[a].active
       /\ rec'[a].inbox = rec[a].inbox
       /\ rec'[a].inbox_open = rec[a].inbox_open
  /\ delivered' \in [Agents -> Nat]

LEMMA ConsumedRecord ==
  ASSUME TypeOK, NEW o \in Owners, WaitCheck(o)
  PROVE  RecordsConsumed(o)
<1>1. rec \in [Agents -> RecordType] /\ delivered \in [Agents -> Nat]
  BY DEF TypeOK
<1>2. rec' = [a \in Agents |-> IF a \in Ready(o)
                               THEN [rec[a] EXCEPT !.pending = FALSE, !.permit = FALSE]
                               ELSE rec[a]]
  BY DEF WaitCheck, Ready, Mailed
<1>3. delivered' = [a \in Agents |-> IF a \in Ready(o) THEN delivered[a] + 1 ELSE delivered[a]]
  BY DEF WaitCheck, Ready, Mailed
<1>4. ASSUME NEW a \in Agents, a \in Ready(o)
      PROVE  /\ rec'[a] \in RecordType /\ rec'[a].pending = FALSE /\ rec'[a].permit = FALSE
             /\ rec'[a].gen = rec[a].gen
             /\ rec'[a].parent = rec[a].parent
             /\ rec'[a].path = rec[a].path
             /\ rec'[a].background = rec[a].background
             /\ rec'[a].status = rec[a].status
             /\ rec'[a].active = rec[a].active
             /\ rec'[a].inbox = rec[a].inbox
             /\ rec'[a].inbox_open = rec[a].inbox_open
  <2>1. rec[a] \in RecordType
    BY <1>1
  <2>2. rec'[a] = [rec[a] EXCEPT !.pending = FALSE, !.permit = FALSE]
    BY <1>2, <1>4
  <2> QED BY <2>1, <2>2 DEF RecordType
<1>5. ASSUME NEW a \in Agents, a \notin Ready(o) PROVE rec'[a] = rec[a] /\ rec'[a] \in RecordType
  BY <1>1, <1>2, <1>5
<1>6. rec' \in [Agents -> RecordType]
  BY <1>2, <1>4, <1>5
<1>7. Ready(o) \subseteq Agents
  BY DEF Ready
<1>8. \A a \in Ready(o) : delivered'[a] = delivered[a] + 1
  BY <1>3, <1>7
<1>9. \A a \in Agents \ Ready(o) : delivered'[a] = delivered[a]
  BY <1>3
<1>10. delivered' \in [Agents -> Nat]
  BY <1>1, <1>3
<1> HIDE DEF Ready
<1>11. \A a \in Agents :
         /\ rec'[a].gen = rec[a].gen
         /\ rec'[a].parent = rec[a].parent
         /\ rec'[a].path = rec[a].path
         /\ rec'[a].background = rec[a].background
         /\ rec'[a].status = rec[a].status
         /\ rec'[a].active = rec[a].active
         /\ rec'[a].inbox = rec[a].inbox
         /\ rec'[a].inbox_open = rec[a].inbox_open
  BY <1>4, <1>5
<1> QED BY <1>4, <1>5, <1>6, <1>7, <1>8, <1>9, <1>10, <1>11 DEF RecordsConsumed

RecordInserted(o) ==
  /\ next_id \in Agents /\ next_id' = next_id + 1 /\ next_id' \in 1..MaxAgents + 1
  /\ rec' \in [Agents -> RecordType]
  /\ \A b \in Agents : b # next_id => rec'[b] = rec[b]
  /\ rec'[next_id] =
       [gen |-> generation, parent |-> o, path |-> PathUnder(o, next_id),
        background |-> pc[o] = "reserved_bg", status |-> "running", active |-> FALSE,
        inbox |-> 0, inbox_open |-> TRUE, permit |-> pc[o] = "reserved_bg",
        pending |-> FALSE]

LEMMA InsertedRecord ==
  ASSUME TypeOK, NEW o \in Owners, SpawnInsert(o)
  PROVE  RecordInserted(o)
<1>1. next_id \in Agents /\ next_id' = next_id + 1 /\ next_id' \in 1..MaxAgents + 1
  <2>1. next_id \in 1..MaxAgents + 1 /\ setting.agents \in 1..MaxAgents
        /\ next_id <= setting.agents /\ next_id' = next_id + 1
    BY SettingIsTyped DEF SpawnInsert, TypeOK
  <2> QED BY <2>1, RegistryAssumption DEF Agents
<1>2. PathUnder(o, next_id) \subseteq Agents
  BY <1>1, RecordIsTyped DEF PathUnder, TypeOK
<1> DEFINE new == [gen |-> generation, parent |-> o, path |-> PathUnder(o, next_id),
               background |-> pc[o] = "reserved_bg", status |-> "running", active |-> FALSE,
               inbox |-> 0, inbox_open |-> TRUE, permit |-> pc[o] = "reserved_bg",
               pending |-> FALSE]
<1>3. new \in RecordType
  <2>1. (pc[o] = "reserved_bg") \in BOOLEAN
    OBVIOUS
  <2>2. generation \in Nat
    BY DEF TypeOK
  <2> QED BY <1>2, <2>1, <2>2 DEF RecordType
<1>4. rec' = [rec EXCEPT ![next_id] = new]
  BY DEF SpawnInsert
<1>5. rec \in [Agents -> RecordType]
  BY DEF TypeOK
<1> HIDE DEF new
<1>6. /\ rec' \in [Agents -> RecordType] /\ rec'[next_id] = new
      /\ \A b \in Agents : b # next_id => rec'[b] = rec[b]
  BY <1>1, <1>3, <1>4, <1>5
<1> QED BY <1>1, <1>6 DEF new, RecordInserted

\* What retain_recent pops: the list after it is a prefix of the list before,
\* whose last entry moves to the front where the loop met a pinned one.
Fresh(a) == <<a>> \o Without(recent, {a})
Kept(a) == Len(Fresh(a)) - Expired(Fresh(a))

\* The loop pops removable entries while the list is too long, and stops where either
\* fails.
LEMMA ExpiredIsFirst ==
  ASSUME TypeOK, NEW list \in Seq(Agents)
  PROVE  /\ Expired(list) \in 0..Len(list)
         /\ Len(list) - Expired(list) > setting.recent
              => ~Removable(list[Len(list) - Expired(list)])
         /\ \A n \in 0..Expired(list) - 1 : /\ Len(list) - n > setting.recent
                                            /\ Removable(list[Len(list) - n])
<1> DEFINE Stops(n) == \/ Len(list) - n <= setting.recent
                       \/ ~Removable(list[Len(list) - n])
           places == {n \in 0..Len(list) : Stops(n)}
<1>1. Len(list) \in Nat /\ setting.recent \in Nat \ {0}
  BY SettingIsTyped
<1>2. Len(list) \in places
  BY <1>1
<1>3. places \in SUBSET Nat
  BY <1>1
<1>4. PICK least \in places : \A n \in places : least <= n
  <2> HIDE DEF places
  <2> QED BY <1>2, <1>3, LeastNatural
<1>5. Expired(list) = Min(places)
  BY DEF Expired
<1>6. Expired(list) \in places /\ \A n \in places : Expired(list) <= n
  <2>1. Min(places) = CHOOSE x \in places : \A y \in places : x <= y
    BY DEF Min
  <2> HIDE DEF places
  <2> QED BY <1>4, <1>5, <2>1
<1>7. \A n \in 0..Expired(list) - 1 : n \in 0..Len(list) /\ n \notin places
  <2> HIDE DEF places
  <2> TAKE n \in 0..Expired(list) - 1
  <2>1. Expired(list) \in Nat /\ Expired(list) <= Len(list)
    BY <1>1, <1>6 DEF places
  <2>2. n \in 0..Len(list) /\ ~(Expired(list) <= n)
    BY <1>1, <2>1
  <2> QED BY <1>6, <2>2
<1> QED BY <1>1, <1>6, <1>7

\* FinishRetain in these terms.
LEMMA RetainedList ==
  ASSUME TypeOK, NEW a \in Agents, FinishRetain(a)
  PROVE  /\ Fresh(a) \in Seq(Agents) /\ Len(Fresh(a)) >= 1 /\ Fresh(a)[1] = a
         /\ Kept(a) \in 1..Len(Fresh(a))
         /\ recent' \in Seq(Agents) /\ Len(recent') = Kept(a)
         /\ recent' = IF Kept(a) > setting.recent
                      THEN [k \in 1..Kept(a) |-> IF k = 1 THEN Fresh(a)[Kept(a)] ELSE Fresh(a)[k - 1]]
                      ELSE [k \in 1..Kept(a) |-> Fresh(a)[k]]
         /\ records' = records \ {Fresh(a)[k] : k \in Kept(a) + 1 .. Len(Fresh(a))}
<1> DEFINE list == Fresh(a)
           kept == Kept(a)
           rest == SubSeq(list, 1, kept)
<1>1. recent \in Seq(Agents) /\ setting.recent \in Nat \ {0}
  BY SettingIsTyped DEF TypeOK
<1>2. list \in Seq(Agents) /\ Len(list) >= 1 /\ list[1] = a
  <2>1. Without(recent, {a}) \in Seq(Agents)
    BY <1>1, WithoutKeeps
  <2> QED BY <2>1 DEF Fresh
<1>3. Expired(list) \in 0..Len(list) /\ Len(list) \in Nat
  BY <1>2, ExpiredIsFirst
<1>4. kept \in 1..Len(list)
  <2>1. Expired(list) # Len(list)
    <3> SUFFICES ASSUME Expired(list) = Len(list) PROVE FALSE
      OBVIOUS
    <3>1. Len(list) - 1 \in 0..Expired(list) - 1
      BY <1>2, <1>3
    <3>2. Len(list) - (Len(list) - 1) > setting.recent
      BY <1>2, <3>1, ExpiredIsFirst
    <3> HIDE DEF list
    <3> QED BY <1>1, <1>3, <3>2
  <2> QED BY <1>3, <2>1 DEF Kept
<1>5. /\ recent' = IF kept > setting.recent THEN <<Last(rest)>> \o Front(rest) ELSE rest
      /\ records' = records \ {list[k] : k \in kept + 1 .. Len(list)}
  BY DEF FinishRetain, Fresh, Kept
<1> HIDE DEF list, kept
<1>6. /\ rest \in Seq(Agents) /\ Len(rest) = kept
      /\ \A k \in 1..kept : rest[k] = list[k]
  BY <1>2, <1>4
<1> HIDE DEF rest
<1>7. CASE kept > setting.recent
  <2>1. Front(rest) \in Seq(Agents) /\ Len(Front(rest)) = kept - 1
        /\ \A k \in 1..kept - 1 : Front(rest)[k] = list[k]
    <3>1. Front(rest) = SubSeq(rest, 1, kept - 1) /\ kept \in Nat \ {0}
      BY <1>3, <1>4, <1>6 DEF Front
    <3> QED BY <1>6, <3>1
  <2>2. Last(rest) = list[kept] /\ list[kept] \in Agents
    BY <1>2, <1>4, <1>6 DEF Last
  <2>3. recent' = <<list[kept]>> \o Front(rest)
    BY <1>5, <1>7, <2>2
  <2>4. recent' \in Seq(Agents) /\ Len(recent') = kept
    BY <1>4, <2>1, <2>2, <2>3
  <2>5. \A k \in 1..kept : recent'[k] = IF k = 1 THEN list[kept] ELSE list[k - 1]
    BY <1>3, <1>4, <2>1, <2>2, <2>3
  <2>6. recent' = [k \in 1..kept |-> IF k = 1 THEN list[kept] ELSE list[k - 1]]
    BY <2>4, <2>5
  <2> QED BY <1>2, <1>4, <1>5, <1>7, <2>4, <2>6 DEF list, kept
<1>8. CASE ~(kept > setting.recent)
  <2>1. recent' = rest
    BY <1>5, <1>8
  <2>2. rest = [k \in 1..kept |-> list[k]]
    BY <1>4, <1>6
  <2> QED BY <1>2, <1>4, <1>5, <1>6, <1>8, <2>1, <2>2 DEF list, kept
<1> QED BY <1>7, <1>8

\* Who is listed after it, and who leaves the map.
Popped(a) == {Fresh(a)[k] : k \in Kept(a) + 1 .. Len(Fresh(a))}

\* The list that retain_recent works on: the agent in front, everything else behind it.
LEMMA FreshList ==
  ASSUME TypeOK, NEW a \in Agents
  PROVE  /\ Fresh(a) \in Seq(Agents) /\ Range(Fresh(a)) = Range(recent) \cup {a}
         /\ a \notin Range(recent) => Fresh(a) = <<a>> \o recent
         /\ (\A j, k \in DOMAIN recent : recent[j] = recent[k] => j = k)
              => \A j, k \in DOMAIN Fresh(a) : Fresh(a)[j] = Fresh(a)[k] => j = k
<1> DEFINE rest == Without(recent, {a})
<1>1. recent \in Seq(Agents)
  BY DEF TypeOK
<1>2. rest \in Seq(Agents) /\ Range(rest) = Range(recent) \ {a}
      /\ ((\A j, k \in DOMAIN recent : recent[j] = recent[k] => j = k)
            => \A j, k \in DOMAIN rest : rest[j] = rest[k] => j = k)
      /\ (a \notin Range(recent) => rest = recent)
  <2>1. a \notin Range(recent) => Range(recent) \cap {a} = {}
    OBVIOUS
  <2> QED BY <1>1, <2>1, WithoutKeeps
<1> HIDE DEF rest
<1>3. /\ Fresh(a) \in Seq(Agents) /\ Len(rest) \in Nat
      /\ DOMAIN rest = 1..Len(rest) /\ DOMAIN Fresh(a) = 1..Len(rest) + 1
      /\ Fresh(a)[1] = a /\ \A k \in 2..Len(rest) + 1 : Fresh(a)[k] = rest[k - 1]
      /\ \A k \in 1..Len(rest) : Fresh(a)[k + 1] = rest[k]
  BY <1>2 DEF Fresh, rest
<1>4. Range(Fresh(a)) = Range(rest) \cup {a}
  <2>1. \A k \in 1..Len(rest) : k + 1 \in 2..Len(rest) + 1 /\ Fresh(a)[k + 1] = rest[k]
    BY <1>3
  <2>2. \A k \in 1..Len(rest) + 1 : k = 1 \/ (k \in 2..Len(rest) + 1 /\ k - 1 \in 1..Len(rest))
    <3>1. Len(rest) \in Nat
      BY <1>3
    <3> QED BY <3>1
  <2>3. 1 \in 1..Len(rest) + 1 /\ \A k \in 1..Len(rest) : k + 1 \in 1..Len(rest) + 1
    <3>1. Len(rest) \in Nat
      BY <1>3
    <3> QED BY <3>1
  <2> HIDE DEF Fresh
  <2>4. ASSUME NEW x \in Range(Fresh(a)) PROVE x \in Range(rest) \cup {a}
    <3>1. PICK k \in 1..Len(rest) + 1 : Fresh(a)[k] = x
      BY <1>3, <2>4 DEF Range
    <3> QED BY <1>3, <2>2, <3>1 DEF Range
  <2>5. ASSUME NEW x \in Range(rest) PROVE x \in Range(Fresh(a))
    <3>1. PICK k \in 1..Len(rest) : rest[k] = x
      BY <1>3, <2>5 DEF Range
    <3>2. k + 1 \in DOMAIN Fresh(a) /\ Fresh(a)[k + 1] = x
      BY <1>3, <2>1, <2>3, <3>1
    <3> QED BY <3>2 DEF Range
  <2>6. a \in Range(Fresh(a))
    BY <1>3, <2>3 DEF Range
  <2> QED BY <2>4, <2>5, <2>6
<1>5. ASSUME \A j, k \in DOMAIN recent : recent[j] = recent[k] => j = k,
             NEW j \in DOMAIN Fresh(a), NEW k \in DOMAIN Fresh(a), Fresh(a)[j] = Fresh(a)[k]
      PROVE  j = k
  <2>1. \A i \in 1..Len(rest) : rest[i] # a
    <3>1. \A i \in 1..Len(rest) : rest[i] \in Range(rest)
      BY <1>3 DEF Range
    <3> QED BY <1>2, <3>1
  <2>2. j \in 1..Len(rest) + 1 /\ k \in 1..Len(rest) + 1
    BY <1>3, <1>5
  <2>3. CASE j = 1 \/ k = 1
    <3>1. \A i \in 2..Len(rest) + 1 : i - 1 \in 1..Len(rest) /\ Fresh(a)[i] # a
      BY <1>3, <2>1
    <3> QED BY <1>3, <1>5, <2>2, <2>3, <3>1
  <2>4. CASE j # 1 /\ k # 1
    <3>1. j - 1 \in 1..Len(rest) /\ k - 1 \in 1..Len(rest) /\ rest[j - 1] = rest[k - 1]
      BY <1>3, <1>5, <2>2, <2>4
    <3>2. j - 1 = k - 1
      BY <1>2, <1>3, <1>5, <3>1
    <3> QED BY <2>2, <3>2
  <2> QED BY <2>3, <2>4
<1> QED BY <1>2, <1>3, <1>4, <1>5 DEF Fresh, rest

ListRetained(a) ==
  /\ Range(recent') \cup Popped(a) = Range(recent) \cup {a}
  /\ records' = records \ Popped(a)
  /\ Popped(a) \subseteq records /\ \A b \in Popped(a) : ~rec[b].pending
  /\ a \in Range(recent')
  /\ (\A j, k \in DOMAIN recent : recent[j] = recent[k] => j = k)
       => /\ \A j, k \in DOMAIN recent' : recent'[j] = recent'[k] => j = k
          /\ Popped(a) \cap Range(recent') = {}

\* retain_recent loses no agent: one it pops is in no list any more, and leaves the map.
LEMMA RetainedRange ==
  ASSUME TypeOK, NEW a \in Agents, FinishRetain(a)
  PROVE  ListRetained(a)
<1> DEFINE list == Fresh(a)
           kept == Kept(a)
           place == [k \in 1..kept |-> IF kept > setting.recent
                                       THEN IF k = 1 THEN kept ELSE k - 1 ELSE k]
           origin == [k \in 1..kept |-> IF kept > setting.recent
                                        THEN IF k = kept THEN 1 ELSE k + 1 ELSE k]
<1>1. /\ list \in Seq(Agents) /\ Len(list) \in Nat /\ DOMAIN list = 1..Len(list)
      /\ Range(list) = Range(recent) \cup {a} /\ list[1] = a
      /\ kept \in 1..Len(list) /\ recent' \in Seq(Agents) /\ DOMAIN recent' = 1..kept
      /\ setting.recent \in Nat
  <2>1. list \in Seq(Agents) /\ Range(list) = Range(recent) \cup {a}
    BY FreshList
  <2>2. list[1] = a /\ kept \in 1..Len(list) /\ recent' \in Seq(Agents) /\ Len(recent') = kept
    BY RetainedList
  <2>3. setting.recent \in Nat
    BY SettingIsTyped
  <2> HIDE DEF list, kept
  <2> QED BY <2>1, <2>2, <2>3
<1>2. \A k \in 1..kept : place[k] \in 1..kept /\ recent'[k] = list[place[k]]
  BY <1>1, RetainedList
<1>3. \A k \in 1..kept : origin[k] \in 1..kept /\ place[origin[k]] = k
  BY <1>1
<1>4. \A j, k \in 1..kept : place[j] = place[k] => j = k
  BY <1>1
<1>5. Popped(a) = {list[k] : k \in kept + 1 .. Len(list)}
  BY DEF Popped
<1>6. ASSUME NEW b \in Popped(a) PROVE b \in records /\ ~rec[b].pending
  <2>1. PICK k \in kept + 1 .. Len(list) : b = list[k]
    BY <1>5
  <2>2. kept = Len(list) - Expired(list) /\ Expired(list) \in 0..Len(list)
    BY <1>1, ExpiredIsFirst DEF Kept
  <2>3. Len(list) - k \in 0..Expired(list) - 1 /\ Len(list) - (Len(list) - k) = k
    BY <1>1, <2>1, <2>2
  <2>4. Removable(list[k])
    <3> HIDE DEF list, kept
    <3> QED BY <1>1, <2>3, ExpiredIsFirst
  <2> QED BY <2>1, <2>4 DEF Removable
<1> HIDE DEF list, kept
<1>7. 1..Len(list) = (1..kept) \cup (kept + 1 .. Len(list))
      /\ (1..kept) \cap (kept + 1 .. Len(list)) = {} /\ 1 \in 1..kept
  BY <1>1
<1> HIDE DEF place, origin
<1>8. Range(recent') = {list[k] : k \in 1..kept}
  <2>1. \A k \in 1..kept : recent'[origin[k]] = list[k]
    BY <1>2, <1>3
  <2>2. Range(recent') = {recent'[k] : k \in 1..kept}
    BY <1>1 DEF Range
  <2>3. {recent'[k] : k \in 1..kept} \subseteq {list[k] : k \in 1..kept}
    BY <1>2
  <2>4. {list[k] : k \in 1..kept} \subseteq {recent'[k] : k \in 1..kept}
    BY <1>3, <2>1
  <2> QED BY <2>2, <2>3, <2>4
<1>9. Range(recent') \cup Popped(a) = Range(recent) \cup {a}
  BY <1>1, <1>5, <1>7, <1>8 DEF Range
<1>10. a \in Range(recent')
  BY <1>1, <1>7, <1>8
<1>11. ASSUME \A j, k \in DOMAIN recent : recent[j] = recent[k] => j = k
       PROVE  /\ \A j, k \in DOMAIN recent' : recent'[j] = recent'[k] => j = k
              /\ Popped(a) \cap Range(recent') = {}
  <2>1. \A j, k \in 1..Len(list) : list[j] = list[k] => j = k
    BY <1>1, <1>11, FreshList DEF list
  <2>2. \A j, k \in DOMAIN recent' : recent'[j] = recent'[k] => j = k
    BY <1>1, <1>2, <1>4, <1>7, <2>1
  <2> QED BY <1>5, <1>7, <1>8, <2>1, <2>2
<1>12. records' = records \ Popped(a)
  BY RetainedList DEF Popped
<1> QED BY <1>6, <1>9, <1>10, <1>11, <1>12 DEF ListRetained

\* Every action keeps the types.
LEMMA TypeStep == ASSUME TypeOK, RecordInv, AttachInv, [Next]_vars PROVE TypeOK'
<1> USE SettingIsTyped, RegistryAssumption DEF TypeOK
<1>1. ASSUME NEW o \in Owners, ToolDispatch(o) PROVE setting' = setting => TypeOK'
  BY <1>1 DEF ToolDispatch, Moves, Places, SweepPlaces, Owners, Terminal, NoAgent, regVars,
       taskVars, waitVars, sweepVars, histVars
<1>2. ASSUME NEW o \in Owners, ToolReturn(o) PROVE setting' = setting => TypeOK'
  BY <1>2 DEF ToolReturn, Moves, Places, SweepPlaces, Owners, Terminal, NoAgent, regVars, taskVars,
       waitVars, sweepVars, histVars
<1>3. ASSUME NEW o \in Owners, SpawnReserve(o) PROVE setting' = setting => TypeOK'
  BY <1>3 DEF SpawnReserve, Moves, Places, SweepPlaces, Owners, Terminal, NoAgent, regVars,
       taskVars, waitVars, sweepVars, histVars
<1>4. ASSUME NEW o \in Owners, SpawnRefused(o) PROVE setting' = setting => TypeOK'
  BY <1>4 DEF SpawnRefused, Moves, Places, SweepPlaces, Owners, Terminal, NoAgent, regVars,
       taskVars, waitVars, sweepVars, histVars
<1>5. ASSUME NEW o \in Owners, SpawnInsert(o) PROVE setting' = setting => TypeOK'
  <2> SUFFICES ASSUME setting' = setting PROVE TypeOK'
    OBVIOUS
  <2>1. rec' \in [Agents -> RecordType] /\ next_id \in Agents /\ next_id' \in 1..MaxAgents + 1
    BY <1>5, InsertedRecord DEF RecordInserted
  <2> QED BY <1>5, <2>1 DEF SpawnInsert, Moves, Places, SweepPlaces, Owners, Terminal, NoAgent,
       regVars, taskVars, waitVars, sweepVars, histVars
<1>6. ASSUME NEW o \in Owners, SpawnAttach(o) PROVE setting' = setting => TypeOK'
  <2> SUFFICES ASSUME setting' = setting PROVE TypeOK'
    OBVIOUS
  <2>1. child[o] \in Agents
    BY <1>6 DEF SpawnAttach, AttachInv, Registered, Agents
  <2>2. rec' \in [Agents -> RecordType]
    BY <1>6, <2>1, AttachRecord DEF RecordAttached
  <2>3. pc' \in [Owners -> Places]
    BY <1>6, <2>1 DEF SpawnAttach, Places, Owners
  <2>4. child' \in [Owners -> Agents \cup {NoAgent}]
    BY <1>6, <2>1 DEF SpawnAttach
  <2> QED BY <1>6, <2>1, <2>2, <2>3, <2>4 DEF SpawnAttach, Moves, Places, SweepPlaces, Owners,
       Terminal, NoAgent, regVars, taskVars, waitVars, sweepVars, histVars
<1>7. ASSUME NEW o \in Owners, SyncReturn(o) PROVE setting' = setting => TypeOK'
  BY <1>7 DEF SyncReturn, Moves, Places, SweepPlaces, Owners, Terminal, NoAgent, regVars, taskVars,
       waitVars, sweepVars, histVars
<1>8. ASSUME NEW o \in Owners, SyncCancel(o) PROVE setting' = setting => TypeOK'
  <2> SUFFICES ASSUME setting' = setting PROVE TypeOK'
    OBVIOUS
  <2>1. child[o] \in Agents
    BY <1>8 DEF SyncCancel, AttachInv, Registered, Agents
  <2>2. cancelled' \subseteq Owners
    BY <1>8, <2>1 DEF SyncCancel, CancelIfAttached, Owners
  <2> QED BY <1>8, <2>1, <2>2 DEF SyncCancel, CancelIfAttached, Moves, Places, SweepPlaces, Owners,
       Terminal, NoAgent, regVars, taskVars, waitVars, sweepVars, histVars
<1>9. ASSUME NEW o \in Owners, SyncTimeout(o) PROVE setting' = setting => TypeOK'
  BY <1>9 DEF SyncTimeout, Moves, Places, SweepPlaces, Owners, Terminal, NoAgent, regVars, taskVars,
       waitVars, sweepVars, histVars
<1>10. ASSUME NEW o \in Owners, WaitStart(o) PROVE setting' = setting => TypeOK'
  <2> SUFFICES ASSUME setting' = setting PROVE TypeOK'
    OBVIOUS
  <2>1. filter' \in [Owners -> SUBSET Agents]
    BY <1>10 DEF WaitStart
  <2>2. deaf' \subseteq Owners
    BY <1>10 DEF WaitStart
  <2> QED BY <1>10, <2>1, <2>2 DEF WaitStart, Moves, Places, SweepPlaces, Owners, Terminal, NoAgent,
       regVars, taskVars, waitVars, sweepVars, histVars
<1>11. ASSUME NEW o \in Owners, WaitCheck(o) PROVE setting' = setting => TypeOK'
  <2> SUFFICES ASSUME setting' = setting PROVE TypeOK'
    OBVIOUS
  <2>1. rec' \in [Agents -> RecordType] /\ delivered' \in [Agents -> Nat]
    BY <1>11, ConsumedRecord DEF RecordsConsumed
  <2>2. mailbox' \in Seq(Agents)
    BY <1>11, WithoutKeeps DEF WaitCheck, MailboxRest
  <2>3. pc' \in [Owners -> Places] /\ filter' \in [Owners -> SUBSET Agents]
    BY <1>11 DEF WaitCheck, Moves, Places, waitVars
  <2>4. woken' \subseteq Owners /\ deaf' \subseteq Owners
    BY <1>11 DEF WaitCheck, waitVars
  <2> QED BY <1>11, <2>1, <2>2, <2>3, <2>4 DEF WaitCheck, Moves, Places, SweepPlaces, Owners,
       Terminal, NoAgent, regVars, taskVars, waitVars, sweepVars, histVars
<1>12. ASSUME NEW o \in Owners, WaitSleep(o) PROVE setting' = setting => TypeOK'
  BY <1>12 DEF WaitSleep, Moves, Places, SweepPlaces, Owners, Terminal, NoAgent, regVars, taskVars,
       waitVars, sweepVars, histVars
<1>13. ASSUME NEW o \in Owners, WaitWoken(o) PROVE setting' = setting => TypeOK'
  BY <1>13 DEF WaitWoken, Moves, Places, SweepPlaces, Owners, Terminal, NoAgent, regVars, taskVars,
       waitVars, sweepVars, histVars
<1>14. ASSUME NEW o \in Owners, WaitTimedOut(o) PROVE setting' = setting => TypeOK'
  BY <1>14 DEF WaitTimedOut, WaitEnds, Moves, Places, SweepPlaces, Owners, Terminal, NoAgent,
       regVars, taskVars, waitVars, sweepVars, histVars
<1>15. ASSUME NEW o \in Owners, WaitCancelled(o) PROVE setting' = setting => TypeOK'
  BY <1>15 DEF WaitCancelled, WaitEnds, Moves, Places, SweepPlaces, Owners, Terminal, NoAgent,
       regVars, taskVars, waitVars, sweepVars, histVars
<1>16. ASSUME NEW o \in Owners, NEW a \in Agents, MessageAccept(o, a) PROVE setting' = setting => TypeOK'
  <2> SUFFICES ASSUME setting' = setting PROVE TypeOK'
    OBVIOUS
  <2>1. rec' \in [Agents -> RecordType]
    BY <1>16, MessageRecord DEF RecordMessaged
  <2>2. sent' \in [Agents -> Nat]
    BY <1>16, SMTT(40) DEF MessageAccept
  <2> QED BY <1>16, <2>1, <2>2 DEF MessageAccept, Moves, Places, SweepPlaces, Owners, Terminal,
       NoAgent, regVars, taskVars, waitVars, sweepVars, histVars
<1>17. ASSUME NEW a \in Agents, StopAgent(a) PROVE setting' = setting => TypeOK'
  BY <1>17 DEF StopAgent, CancelIfAttached, Places, SweepPlaces, Owners, Terminal, NoAgent, regVars,
       taskVars, waitVars, sweepVars, histVars
<1>18. ASSUME NEW a \in Agents, StopTree(a) PROVE setting' = setting => TypeOK'
  <2> SUFFICES ASSUME setting' = setting PROVE TypeOK'
    OBVIOUS
  <2>1. {b \in Subtree(a, TRUE) : Running(b)} \subseteq Agents
    BY DEF Subtree
  <2> QED BY <1>18, <2>1 DEF StopTree, Places, SweepPlaces, Owners, Terminal, NoAgent, regVars,
       taskVars, waitVars, sweepVars, histVars
<1>19. ASSUME NEW k \in Agents \cup {Client}, StopNext(k) PROVE setting' = setting => TypeOK'
  <2> SUFFICES ASSUME setting' = setting PROVE TypeOK'
    OBVIOUS
  <2>1. PICK b \in stopping[k] : /\ IF Visible(b) THEN CancelIfAttached(b) ELSE UNCHANGED cancelled
                               /\ stopping' = [stopping EXCEPT ![k] = @ \ {b}]
    BY <1>19 DEF StopNext
  <2>2. b \in Agents
    OBVIOUS
  <2>3. cancelled' \subseteq Owners
    BY <2>1, <2>2 DEF CancelIfAttached, Owners
  <2>4. stopping' \in [Agents \cup {Client} -> SUBSET Agents]
    BY <2>1
  <2> QED BY <1>19, <2>1, <2>2, <2>3, <2>4 DEF StopNext, CancelIfAttached, Places, SweepPlaces,
       Owners, Terminal, NoAgent, regVars, taskVars, waitVars, sweepVars, histVars
<1>20. ASSUME CancelMain PROVE setting' = setting => TypeOK'
  BY <1>20 DEF CancelMain, Places, SweepPlaces, Owners, Terminal, NoAgent, regVars, taskVars,
       waitVars, sweepVars, histVars
<1>21. ASSUME NextMain PROVE setting' = setting => TypeOK'
  BY <1>21 DEF NextMain, Places, SweepPlaces, Owners, Terminal, NoAgent, regVars, taskVars,
       waitVars, sweepVars, histVars
<1>22. ASSUME NEW a \in Agents, TurnOk(a) PROVE setting' = setting => TypeOK'
  <2> SUFFICES ASSUME setting' = setting PROVE TypeOK'
    OBVIOUS
  <2>1. rec' \in [Agents -> RecordType] /\ turns' \in [Agents -> 0..setting.turns]
    BY <1>22, EndedTurnRecord DEF RecordTurned
  <2>2. rec[a].inbox \in Nat
    BY RecordIsTyped
  <2>3. handled' \in [Agents -> Nat]
    <3>1. handled' = [handled EXCEPT ![a] = @ + rec[a].inbox] \/ UNCHANGED handled
      BY <1>22, EndedTurnRecord DEF RecordTurned
    <3> QED BY <2>2, <3>1
  <2>4. outcome' \in [Agents -> {"none"} \cup Terminal]
    BY <1>22, EndedTurnRecord DEF Terminal, RecordTurned
  <2>5. pc' \in [Owners -> Places]
    BY <1>22, EndedTurnRecord DEF Moves, Places, RecordTurned
  <2> QED BY <1>22, <2>1, <2>2, <2>3, <2>4, <2>5 DEF TurnOk, Moves, Places, SweepPlaces, Owners,
       Terminal, NoAgent, regVars, taskVars, waitVars, sweepVars, histVars
<1>23. ASSUME NEW a \in Agents, TurnFailed(a) PROVE setting' = setting => TypeOK'
  BY <1>23 DEF TurnFailed, Moves, Places, SweepPlaces, Owners, Terminal, NoAgent, regVars, taskVars,
       waitVars, sweepVars, histVars
<1>24. ASSUME NEW a \in Agents, FinishDescendants(a) PROVE setting' = setting => TypeOK'
  <2> SUFFICES ASSUME setting' = setting PROVE TypeOK'
    OBVIOUS
  <2>1. Descendants(a) \subseteq Agents
    BY DEF Descendants, Subtree
  <2> QED BY <1>24, <2>1 DEF FinishDescendants, Moves, Places, SweepPlaces, Owners, Terminal,
       NoAgent, regVars, taskVars, waitVars, sweepVars, histVars
<1>25. ASSUME NEW a \in Agents, FinishRecord(a) PROVE setting' = setting => TypeOK'
  <2> SUFFICES ASSUME setting' = setting PROVE TypeOK'
    OBVIOUS
  <2>1. outcome[a] \in Terminal
    BY <1>25 DEF FinishRecord, RecordInv, Registered, Agents, NoAgent
  <2>2. rec' \in [Agents -> RecordType]
    BY <1>25, <2>1, FinishedRecord DEF RecordEnded
  <2> QED BY <1>25, <2>1, <2>2 DEF FinishRecord, Moves, Places, SweepPlaces, Owners, Terminal,
       NoAgent, regVars, taskVars, waitVars, sweepVars, histVars
<1>26. ASSUME NEW a \in Agents, FinishMark(a) PROVE setting' = setting => TypeOK'
  <2> SUFFICES ASSUME setting' = setting PROVE TypeOK'
    OBVIOUS
  <2>1. rec' \in [Agents -> RecordType]
    BY <1>26, MarkedRecord DEF FinishMark, RecordMarked
  <2>2. pc' \in [Owners -> Places]
    <3>1. Moves(a, "marked") \/ Moves(a, "mailed")
      BY <1>26 DEF FinishMark
    <3> QED BY <3>1 DEF Moves, Places, Owners
  <2> QED BY <1>26, <2>1, <2>2 DEF FinishMark, Moves, Places, SweepPlaces, Owners, Terminal,
       NoAgent, regVars, taskVars, waitVars, sweepVars, histVars
<1>27. ASSUME NEW a \in Agents, FinishPush(a) PROVE setting' = setting => TypeOK'
  <2> SUFFICES ASSUME setting' = setting PROVE TypeOK'
    OBVIOUS
  <2>1. mailbox' \in Seq(Agents)
    BY <1>27 DEF FinishPush
  <2> QED BY <1>27, <2>1 DEF FinishPush, Moves, Places, SweepPlaces, Owners, Terminal, NoAgent,
       regVars, taskVars, waitVars, sweepVars, histVars
<1>28. ASSUME NEW a \in Agents, FinishNotify(a) PROVE setting' = setting => TypeOK'
  <2> SUFFICES ASSUME setting' = setting PROVE TypeOK'
    OBVIOUS
  <2>1. woken' \subseteq Owners
    BY <1>28 DEF FinishNotify, Notified
  <2> QED BY <1>28, <2>1 DEF FinishNotify, Moves, Places, SweepPlaces, Owners, Terminal, NoAgent,
       regVars, taskVars, waitVars, sweepVars, histVars
<1>29. ASSUME NEW a \in Agents, FinishRetain(a) PROVE setting' = setting => TypeOK'
  <2> SUFFICES ASSUME setting' = setting PROVE TypeOK'
    OBVIOUS
  <2>1. recent' \in Seq(Agents)
    BY <1>29, RetainedList DEF FinishRetain
  <2> QED BY <1>29, <2>1 DEF FinishRetain, Moves, Places, SweepPlaces, Owners, Terminal, NoAgent,
       regVars, taskVars, waitVars, sweepVars, histVars
<1>30. ASSUME NEW k \in Discarders, SweepClose(k) PROVE setting' = setting => TypeOK'
  BY <1>30 DEF SweepClose, SweepTo, Places, SweepPlaces, Owners, Terminal, NoAgent, regVars,
       taskVars, waitVars, sweepVars, histVars
<1>31. ASSUME NEW k \in Discarders, SweepList(k) PROVE setting' = setting => TypeOK'
  BY <1>31 DEF SweepList, SweepTo, Places, SweepPlaces, Owners, Terminal, NoAgent, regVars,
       taskVars, waitVars, sweepVars, histVars
<1>32. ASSUME NEW k \in Discarders, SweepCancel(k) PROVE setting' = setting => TypeOK'
  BY <1>32 DEF SweepCancel, SweepTo, Places, SweepPlaces, Owners, Terminal, NoAgent, regVars,
       taskVars, waitVars, sweepVars, histVars
<1>33. ASSUME NEW k \in Discarders, SweepStopped(k) PROVE setting' = setting => TypeOK'
  BY <1>33 DEF SweepStopped, SweepTo, Places, SweepPlaces, Owners, Terminal, NoAgent, regVars,
       taskVars, waitVars, sweepVars, histVars
<1>40. ASSUME NEW k \in Discarders, SweepCheck(k) PROVE setting' = setting => TypeOK'
  BY <1>40 DEF SweepCheck, SweepTo, Places, SweepPlaces, Owners, Terminal, NoAgent, regVars,
       taskVars, waitVars, sweepVars, histVars
<1>41. ASSUME NEW k \in Discarders, SweepDropped(k) PROVE setting' = setting => TypeOK'
  BY <1>41 DEF SweepDropped, SweepTo, Places, SweepPlaces, Owners, Terminal, NoAgent, regVars,
       taskVars, waitVars, sweepVars, histVars
<1>34. ASSUME NEW k \in Discarders, SweepTimeout(k) PROVE setting' = setting => TypeOK'
  BY <1>34 DEF SweepTimeout, SweepTo, Reopened, Places, SweepPlaces, Owners, Terminal, NoAgent,
       regVars, taskVars, waitVars, sweepVars, histVars
<1>35. ASSUME NEW k \in Discarders, DiscardList(k) PROVE setting' = setting => TypeOK'
  BY <1>35 DEF DiscardList, SweepTo, Places, SweepPlaces, Owners, Terminal, NoAgent, regVars,
       taskVars, waitVars, sweepVars, histVars
<1>36. ASSUME NEW k \in Discarders, DiscardRecords(k) PROVE setting' = setting => TypeOK'
  BY <1>36 DEF DiscardRecords, SweepTo, Places, SweepPlaces, Owners, Terminal, NoAgent, regVars,
       taskVars, waitVars, sweepVars, histVars
<1>37. ASSUME NEW k \in Discarders, DiscardMailbox(k) PROVE setting' = setting => TypeOK'
  <2> SUFFICES ASSUME setting' = setting PROVE TypeOK'
    OBVIOUS
  <2>1. mailbox' \in Seq(Agents)
    BY <1>37, WithoutKeeps DEF DiscardMailbox
  <2> QED BY <1>37, <2>1 DEF DiscardMailbox, SweepTo, Places, SweepPlaces, Owners, Terminal,
       NoAgent, regVars, taskVars, waitVars, sweepVars, histVars
<1>38. ASSUME NEW k \in Discarders, DiscardGeneration(k) PROVE setting' = setting => TypeOK'
  <2> SUFFICES ASSUME setting' = setting PROVE TypeOK'
    OBVIOUS
  <2>1. recent' \in Seq(Agents)
    BY <1>38, WithoutKeeps DEF DiscardGeneration
  <2>2. generation' \in Nat \ {0}
    BY <1>38 DEF DiscardGeneration
  <2> QED BY <1>38, <2>1, <2>2 DEF DiscardGeneration, SweepTo, Places, SweepPlaces,
       Owners, Terminal, NoAgent, regVars, taskVars, waitVars, sweepVars, histVars
<1>39. CASE UNCHANGED vars
  BY <1>39 DEF vars, regVars, taskVars, waitVars, sweepVars, histVars
<1> QED BY <1>1, <1>2, <1>3, <1>4, <1>5, <1>6, <1>7, <1>8, <1>9, <1>10, <1>11, <1>12, <1>13, <1>14,
     <1>15, <1>16, <1>17, <1>18, <1>19, <1>20, <1>21, <1>22, <1>23, <1>24, <1>25, <1>26, <1>27,
     <1>28, <1>29, <1>30, <1>31, <1>32, <1>33, <1>34, <1>35, <1>36, <1>37, <1>38, <1>39, <1>40,
     <1>41
         DEF Next, Spawn, Wait, Stop, RunChild, Finish, Sweep

--------------------------------------------------------------------------------
\* What each step changes, variable by variable.

Inserts(o) ==
  /\ pc[o] \in {"reserved", "reserved_bg"} /\ pc'[o] = "inserted"
  /\ \A p \in Owners : p # o => pc'[p] = pc[p]
  /\ child'[o] = next_id
  /\ \A p \in Owners : p # o => child'[p] = child[p]
  /\ records' = records \cup {next_id}
  /\ UNCHANGED <<generation, accepting, mailbox, recent, cancelled, turns, outcome,
                  filter, woken, deaf, stopping, sweep, swept, delivered, sent,
                  handled>>

LEMMA SpawnInsertEffect ==
  ASSUME TypeOK, NEW o \in Owners, SpawnInsert(o)
  PROVE  Inserts(o)
<1>1. pc \in [Owners -> Places] /\ child \in [Owners -> Agents \cup {NoAgent}]
  BY DEF TypeOK
<1> QED BY <1>1 DEF SpawnInsert, Moves, regVars, taskVars, waitVars, sweepVars, histVars, Inserts

Attaches(o) ==
  /\ child[o] \in Agents \cap Registered /\ child[o] # o
  /\ pc[o] = "inserted" /\ pc[child[o]] = "none" /\ pc'[child[o]] = "turn"
  /\ pc'[o] = IF rec[child[o]].background THEN "turn" ELSE "sync"
  /\ child'[o] = IF rec[child[o]].background THEN NoAgent ELSE child[o]
  /\ \A p \in Owners \ {o, child[o]} : pc'[p] = pc[p]
  /\ \A p \in Owners : p # o => child'[p] = child[p]
  /\ UNCHANGED <<records, next_id, generation, accepting, mailbox, recent, cancelled,
                  turns, outcome, filter, woken, deaf, stopping, sweep, swept,
                  delivered, sent, handled>>

LEMMA SpawnAttachEffect ==
  ASSUME TypeOK, AttachInv, NEW o \in Owners, SpawnAttach(o)
  PROVE  Attaches(o)
<1>1. pc \in [Owners -> Places] /\ child \in [Owners -> Agents \cup {NoAgent}] /\ Agents \subseteq Owners
  BY DEF TypeOK, Owners
<1>2. pc[o] = "inserted"
  BY DEF SpawnAttach
<1>3. child[o] \in Registered /\ pc[child[o]] = "none" /\ child[o] # o
  BY <1>2 DEF AttachInv
<1>4. child[o] \in Agents
  BY <1>1, <1>3 DEF Registered, Agents, NoAgent
<1> QED BY <1>1, <1>2, <1>3, <1>4 DEF SpawnAttach, regVars, taskVars, waitVars, sweepVars, histVars,
     Attaches

Looks(o) ==
  /\ pc[o] = "wait" /\ pc'[o] \in {"turn", "looked"}
  /\ \A p \in Owners : p # o => pc'[p] = pc[p]
  /\ pc'[o] = "looked" => Ready(o) = {} /\ UNCHANGED waitVars
  /\ Range(mailbox') = Range(mailbox) \ filter[o] /\ Ready(o) \subseteq Range(mailbox) \cap filter[o]
  /\ \A a : Mailed(a)' <=> Mailed(a) /\ a \notin filter[o]
  /\ (\A i, j \in DOMAIN mailbox : mailbox[i] = mailbox[j] => i = j)
        => \A i, j \in DOMAIN mailbox' : mailbox'[i] = mailbox'[j] => i = j
  /\ \A p \in Owners : p # o => filter'[p] = filter[p] /\ (p \in woken' <=> p \in woken)
  /\ UNCHANGED <<records, next_id, generation, accepting, recent, cancelled, child,
                  turns, outcome, stopping, sweep, swept, sent, handled>>

LEMMA WaitCheckEffect ==
  ASSUME TypeOK, NEW o \in Owners, WaitCheck(o)
  PROVE  Looks(o)
<1> USE DEF Looks
<1>1. pc \in [Owners -> Places] /\ filter \in [Owners -> SUBSET Agents] /\ mailbox \in Seq(Agents)
  BY DEF TypeOK
<1>2. mailbox' = Without(mailbox, filter[o]) /\ filter[o] \subseteq Agents
  BY <1>1 DEF WaitCheck, MailboxRest
<1>3. Range(mailbox') = Range(mailbox) \ filter[o]
  BY <1>1, <1>2, WithoutKeeps
<1>4. \A a : Mailed(a)' <=> Mailed(a) /\ a \notin filter[o]
  BY <1>3, MailedIsInRange, MailedIsInRangeNext
<1>11. (\A i, j \in DOMAIN mailbox : mailbox[i] = mailbox[j] => i = j)
         => \A i, j \in DOMAIN mailbox' : mailbox'[i] = mailbox'[j] => i = j
  BY <1>1, <1>2, WithoutKeeps
<1>10. Ready(o) \subseteq Range(mailbox) \cap filter[o]
  BY MailedIsInRange DEF Ready
<1>5. \/ Ready(o) # {} /\ Moves(o, "turn") /\ filter' = [filter EXCEPT ![o] = {}] /\ woken' = woken \ {o}
      \/ Ready(o) = {} /\ Moves(o, "looked") /\ UNCHANGED waitVars
  BY DEF WaitCheck, Ready, Mailed
<1>6. pc[o] = "wait"
  BY DEF WaitCheck
<1>7. UNCHANGED <<records, next_id, generation, accepting, recent, cancelled, child, turns, outcome,
                  stopping, sweep, swept, sent, handled>>
  BY DEF WaitCheck, sweepVars
<1>8. CASE Ready(o) # {} /\ Moves(o, "turn") /\ filter' = [filter EXCEPT ![o] = {}] /\ woken' = woken \ {o}
  BY <1>1, <1>2, <1>4, <1>6, <1>7, <1>8, <1>3, <1>10, <1>11 DEF Moves
<1>9. CASE Ready(o) = {} /\ Moves(o, "looked") /\ UNCHANGED waitVars
  BY <1>1, <1>2, <1>4, <1>6, <1>7, <1>9, <1>3, <1>10, <1>11 DEF Moves, waitVars
<1> QED BY <1>5, <1>8, <1>9 DEF Looks

Accepts(o, a) ==
  /\ pc[o] = "tool" /\ pc'[o] = "turn"
  /\ \A p \in Owners : p # o => pc'[p] = pc[p]
  /\ Visible(a) /\ Running(a) /\ rec[a].inbox_open
  /\ sent'[a] = sent[a] + 1
  /\ \A b \in Agents : b # a => sent'[b] = sent[b]
  /\ UNCHANGED <<records, next_id, generation, accepting, mailbox, recent, cancelled,
                  child, turns, outcome, filter, woken, deaf, stopping, sweep, swept,
                  delivered, handled>>

LEMMA MessageAcceptEffect ==
  ASSUME TypeOK, NEW o \in Owners, NEW a \in Agents, MessageAccept(o, a)
  PROVE  Accepts(o, a)
<1>1. pc \in [Owners -> Places] /\ sent \in [Agents -> Nat]
  BY DEF TypeOK
<1> QED BY <1>1 DEF MessageAccept, InboxAccepts, Moves, regVars, taskVars, waitVars, sweepVars,
     histVars, Accepts

Cancels(k) ==
  /\ cancelled \subseteq cancelled'
  /\ \A j \in Agents \cup {Client} : j # k => stopping'[j] = stopping[j]
  /\ \E b \in stopping[k] : /\ stopping'[k] = stopping[k] \ {b}
                            /\ Visible(b) /\ rec[b].active => b \in cancelled'
  /\ UNCHANGED <<records, rec, next_id, generation, accepting, mailbox, recent, pc,
                  child, turns, outcome, filter, woken, deaf, sweep, swept,
                  delivered, sent, handled>>

LEMMA StopNextEffect ==
  ASSUME TypeOK, NEW k \in Agents \cup {Client}, StopNext(k)
  PROVE  Cancels(k)
<1>1. stopping \in [Agents \cup {Client} -> SUBSET Agents]
  BY DEF TypeOK
<1> QED BY <1>1 DEF StopNext, CancelIfAttached, regVars, taskVars, waitVars, sweepVars, histVars,
     Cancels

EndsTurn(a) ==
  /\ pc[a] = "turn"
  /\ \A p \in Owners : p # a => pc'[p] = pc[p]
  /\ \A b \in Agents : b # a => outcome'[b] = outcome[b] /\ handled'[b] = handled[b] /\ turns'[b] = turns[b]
  /\ \/ /\ pc'[a] = "turn" /\ outcome'[a] = outcome[a] /\ handled'[a] = handled[a] + rec[a].inbox
        /\ rec'[a].inbox = 0 /\ rec'[a].inbox_open = rec[a].inbox_open
     \/ /\ pc'[a] = "commands" /\ outcome'[a] = "completed" /\ handled'[a] = handled[a]
        /\ rec'[a].inbox_open = FALSE /\ (turns'[a] = 0 \/ rec[a].inbox = 0)
  /\ turns'[a] \in Nat
  /\ UNCHANGED <<records, next_id, generation, accepting, mailbox, recent, cancelled,
                  child, filter, woken, deaf, stopping, sweep, swept, delivered, sent>>

LEMMA TurnOkEffect ==
  ASSUME TypeOK, NEW a \in Agents, TurnOk(a)
  PROVE  EndsTurn(a)
<1> USE DEF EndsTurn
<1>1. /\ pc \in [Owners -> Places] /\ handled \in [Agents -> Nat] /\ Agents \subseteq Owners
      /\ outcome \in [Agents -> {"none"} \cup Terminal] /\ setting.turns \in Nat
  BY SettingIsTyped DEF TypeOK, Owners
<1>2. pc[a] = "turn" /\ UNCHANGED <<records, next_id, generation, accepting, mailbox, recent, cancelled,
                                   child, filter, woken, deaf, stopping, sweep, swept, delivered, sent>>
  BY DEF TurnOk, waitVars, sweepVars
<1>3. turns'[a] \in Nat /\ \A b \in Agents : b # a => turns'[b] = turns[b]
  BY <1>1, EndedTurnRecord DEF RecordTurned
<1>4. CASE /\ rec[a].inbox > 0 /\ turns'[a] > 0
           /\ rec'[a].inbox = 0 /\ rec'[a].inbox_open = rec[a].inbox_open
           /\ handled' = [handled EXCEPT ![a] = @ + rec[a].inbox]
           /\ UNCHANGED <<pc, outcome>>
  BY <1>1, <1>2, <1>3, <1>4
<1>5. CASE /\ turns'[a] = 0 \/ rec[a].inbox = 0
           /\ rec'[a].inbox = rec[a].inbox /\ rec'[a].inbox_open = FALSE
           /\ outcome' = [outcome EXCEPT ![a] = "completed"]
           /\ Moves(a, "commands")
           /\ UNCHANGED handled
  BY <1>1, <1>2, <1>3, <1>5 DEF Moves
<1> QED BY <1>4, <1>5, EndedTurnRecord DEF EndsTurn, RecordTurned

FailsTurn(a) ==
  /\ pc[a] = "turn" /\ pc'[a] = "commands"
  /\ \A p \in Owners : p # a => pc'[p] = pc[p]
  /\ outcome'[a] \in {"stopped", "failed"}
  /\ \A b \in Agents : b # a => outcome'[b] = outcome[b]
  /\ UNCHANGED <<records, rec, next_id, generation, accepting, mailbox, recent,
                  cancelled, child, turns, filter, woken, deaf, stopping, sweep,
                  swept, delivered, sent, handled>>

LEMMA TurnFailedEffect ==
  ASSUME TypeOK, NEW a \in Agents, TurnFailed(a)
  PROVE  FailsTurn(a)
<1>1. pc \in [Owners -> Places] /\ Agents \subseteq Owners /\ outcome \in [Agents -> {"none"} \cup Terminal]
  BY DEF TypeOK, Owners
<1> QED BY <1>1 DEF TurnFailed, Moves, regVars, taskVars, waitVars, sweepVars, histVars, FailsTurn

ListsTree(a) ==
  /\ pc[a] = "commands" /\ pc'[a] = "descendants"
  /\ \A p \in Owners : p # a => pc'[p] = pc[p]
  /\ stopping'[a] = IF Visible(a) THEN Descendants(a) ELSE {}
  /\ \A j \in Agents \cup {Client} : j # a => stopping'[j] = stopping[j]
  /\ UNCHANGED <<records, rec, next_id, generation, accepting, mailbox, recent,
                  cancelled, child, turns, outcome, filter, woken, deaf, sweep,
                  swept, delivered, sent, handled>>

LEMMA FinishDescendantsEffect ==
  ASSUME TypeOK, NEW a \in Agents, FinishDescendants(a)
  PROVE  ListsTree(a)
<1>1. pc \in [Owners -> Places] /\ Agents \subseteq Owners /\ stopping \in [Agents \cup {Client} -> SUBSET Agents]
  BY DEF TypeOK, Owners
<1> QED BY <1>1 DEF FinishDescendants, Moves, regVars, taskVars, waitVars, sweepVars, histVars,
     ListsTree

Ends(a) ==
  /\ pc[a] = "descendants" /\ pc'[a] = "finished"
  /\ \A p \in Owners : p # a => pc'[p] = pc[p]
  /\ stopping[a] = {}
  /\ UNCHANGED <<records, next_id, generation, accepting, mailbox, recent, cancelled,
                  child, turns, outcome, filter, woken, deaf, stopping, sweep, swept,
                  delivered, sent, handled>>

LEMMA FinishRecordEffect ==
  ASSUME TypeOK, NEW a \in Agents, FinishRecord(a)
  PROVE  Ends(a)
<1>1. pc \in [Owners -> Places] /\ Agents \subseteq Owners
  BY DEF TypeOK, Owners
<1> QED BY <1>1 DEF FinishRecord, Moves, DescendantsHandled, regVars, taskVars, waitVars, sweepVars,
     histVars, Ends

Marks(a) ==
  /\ pc[a] = "finished"
  /\ rec[a].permit => pc'[a] = "marked" /\ RecordMarked(a)
  /\ ~rec[a].permit => pc'[a] = "mailed" /\ rec' = rec
  /\ \A p \in Owners : p # a => pc'[p] = pc[p]
  /\ UNCHANGED <<records, next_id, generation, accepting, mailbox, recent, cancelled,
                  child, turns, outcome, filter, woken, deaf, stopping, sweep, swept,
                  delivered, sent, handled>>

LEMMA FinishMarkEffect ==
  ASSUME TypeOK, NEW a \in Agents, FinishMark(a)
  PROVE  Marks(a)
<1>1. pc \in [Owners -> Places] /\ Agents \subseteq Owners
  BY DEF TypeOK, Owners
<1>2. rec[a].permit => RecordMarked(a)
  BY MarkedRecord DEF RecordMarked
<1> QED BY <1>1, <1>2 DEF FinishMark, Moves, regVars, taskVars, waitVars, sweepVars, histVars, Marks

Pushes(a) ==
  /\ pc[a] = "marked" /\ pc'[a] = "pushed"
  /\ \A p \in Owners : p # a => pc'[p] = pc[p]
  /\ a \notin Range(mailbox) /\ (\A i, j \in DOMAIN mailbox : mailbox[i] = mailbox[j] => i = j)
        => \A i, j \in DOMAIN mailbox' : mailbox'[i] = mailbox'[j] => i = j
  /\ Range(mailbox') = Range(mailbox) \cup {a}
  /\ \A b : Mailed(b)' <=> Mailed(b) \/ b = a
  /\ UNCHANGED <<records, rec, next_id, generation, accepting, recent, cancelled,
                  child, turns, outcome, filter, woken, deaf, stopping, sweep, swept,
                  delivered, sent, handled>>

LEMMA FinishPushEffect ==
  ASSUME TypeOK, NEW a \in Agents, FinishPush(a)
  PROVE  Pushes(a)
<1>1. pc \in [Owners -> Places] /\ Agents \subseteq Owners
  BY DEF TypeOK, Owners
<1>2. mailbox' = Append(mailbox, a) /\ mailbox \in Seq(Agents)
  BY DEF FinishPush, TypeOK
<1>3. Range(mailbox') = Range(mailbox) \cup {a}
  <2>1. /\ Len(mailbox) \in Nat /\ DOMAIN mailbox = 1..Len(mailbox)
        /\ DOMAIN mailbox' = 1..Len(mailbox) + 1
        /\ mailbox'[Len(mailbox) + 1] = a
        /\ \A k \in 1..Len(mailbox) : mailbox'[k] = mailbox[k]
    BY <1>2
  <2>2. 1..Len(mailbox) + 1 = (1..Len(mailbox)) \cup {Len(mailbox) + 1}
    BY <2>1
  <2> QED BY <2>1, <2>2 DEF Range
<1>4. \A b : Mailed(b)' <=> Mailed(b) \/ b = a
  BY <1>3, MailedIsInRange, MailedIsInRangeNext
<1>5. a \notin Range(mailbox) /\ (\A i, j \in DOMAIN mailbox : mailbox[i] = mailbox[j] => i = j)
        => \A i, j \in DOMAIN mailbox' : mailbox'[i] = mailbox'[j] => i = j
  <2>1. /\ Len(mailbox) \in Nat /\ DOMAIN mailbox = 1..Len(mailbox)
        /\ DOMAIN mailbox' = 1..Len(mailbox) + 1
        /\ mailbox'[Len(mailbox) + 1] = a
        /\ \A k \in 1..Len(mailbox) : mailbox'[k] = mailbox[k]
    BY <1>2
  <2>2. 1..Len(mailbox) + 1 = (1..Len(mailbox)) \cup {Len(mailbox) + 1}
    BY <2>1
  <2> QED BY <2>1, <2>2 DEF Range
<1> QED BY <1>1, <1>2, <1>3, <1>4, <1>5 DEF FinishPush, Moves, regVars, taskVars, waitVars,
     sweepVars, histVars, Pushes

Notifies(a) ==
  /\ pc[a] = "pushed" /\ pc'[a] = "mailed"
  /\ \A p \in Owners : p # a => pc'[p] = pc[p]
  /\ woken' = woken \cup Notified
  /\ UNCHANGED <<records, rec, next_id, generation, accepting, mailbox, recent,
                  cancelled, child, turns, outcome, filter, deaf, stopping, sweep,
                  swept, delivered, sent, handled>>

LEMMA FinishNotifyEffect ==
  ASSUME TypeOK, NEW a \in Agents, FinishNotify(a)
  PROVE  Notifies(a)
<1>1. pc \in [Owners -> Places] /\ Agents \subseteq Owners
  BY DEF TypeOK, Owners
<1> QED BY <1>1 DEF FinishNotify, Moves, regVars, taskVars, waitVars, sweepVars, histVars, Notifies

Retires(a) ==
  /\ pc[a] = "mailed" /\ pc'[a] = "done"
  /\ \A p \in Owners : p # a => pc'[p] = pc[p]
  /\ records' \subseteq records
  /\ UNCHANGED <<rec, next_id, generation, accepting, mailbox, cancelled, child,
                  turns, outcome, filter, woken, deaf, stopping, sweep, swept,
                  delivered, sent, handled>>

LEMMA FinishRetainEffect ==
  ASSUME TypeOK, NEW a \in Agents, FinishRetain(a)
  PROVE  Retires(a)
<1>1. pc \in [Owners -> Places] /\ Agents \subseteq Owners
  BY DEF TypeOK, Owners
<1>2. records' \subseteq records
  BY RetainedList
<1> QED BY <1>1, <1>2 DEF FinishRetain, Moves, regVars, taskVars, waitVars, sweepVars, histVars,
     Retires

DropsRecords(k) ==
  /\ sweep[k] = "listed" /\ sweep'[k] = "unlisted"
  /\ \A j \in Discarders : j # k => sweep'[j] = sweep[j]
  /\ Discarded' = Discarded \cup swept[k]
  /\ records' = records \ swept[k]
  /\ UNCHANGED <<rec, next_id, generation, accepting, mailbox, recent, cancelled, pc,
                  child, turns, outcome, filter, woken, deaf, stopping, swept,
                  delivered, sent, handled>>

LEMMA DiscardRecordsEffect ==
  ASSUME TypeOK, NEW k \in Discarders, DiscardRecords(k)
  PROVE  DropsRecords(k)
<1>1. swept[k] \subseteq Agents /\ generation \in Nat \ {0} /\ sweep \in [Discarders -> SweepPlaces]
  BY DEF TypeOK
<1>2. sweep'[k] = "unlisted" /\ \A j \in Discarders : j # k => sweep'[j] = sweep[j]
  BY <1>1 DEF DiscardRecords, SweepTo
<1>3. Discarded' = Discarded \cup swept[k]
  BY <1>1, <1>2 DEF Discarded, DiscardRecords, SweepTo
<1> QED BY <1>1, <1>2, <1>3 DEF DiscardRecords, SweepTo, regVars, taskVars, waitVars, sweepVars,
     histVars, DropsRecords

DropsResults(k) ==
  /\ swept[k] \subseteq Discarded /\ Discarded' = Discarded
  /\ sweep'[k] = "unmailed"
  /\ \A j \in Discarders : j # k => sweep'[j] = sweep[j]
  /\ Range(mailbox') = Range(mailbox) \ swept[k]
  /\ (\A i, j \in DOMAIN mailbox : mailbox[i] = mailbox[j] => i = j)
        => \A i, j \in DOMAIN mailbox' : mailbox'[i] = mailbox'[j] => i = j
  /\ \A a : Mailed(a)' <=> Mailed(a) /\ a \notin swept[k]
  /\ UNCHANGED <<records, rec, next_id, generation, accepting, recent, cancelled, pc,
                  child, turns, outcome, filter, woken, deaf, stopping, swept,
                  delivered, sent, handled>>

LEMMA DiscardMailboxEffect ==
  ASSUME TypeOK, NEW k \in Discarders, DiscardMailbox(k)
  PROVE  DropsResults(k)
<1>1. swept[k] \subseteq Agents /\ generation \in Nat \ {0} /\ sweep \in [Discarders -> SweepPlaces]
  BY DEF TypeOK
<1>2. sweep'[k] = "unmailed" /\ \A j \in Discarders : j # k => sweep'[j] = sweep[j]
  BY <1>1 DEF DiscardMailbox, SweepTo
<1>3. Discarded' = Discarded /\ swept[k] \subseteq Discarded
  BY <1>1, <1>2 DEF Discarded, DiscardMailbox, SweepTo
<1>4. mailbox' = Without(mailbox, swept[k]) /\ mailbox \in Seq(Agents)
  BY DEF DiscardMailbox, SweepTo, TypeOK
<1>5. /\ Range(mailbox') = Range(mailbox) \ swept[k]
      /\ (\A i, j \in DOMAIN mailbox : mailbox[i] = mailbox[j] => i = j)
           => \A i, j \in DOMAIN mailbox' : mailbox'[i] = mailbox'[j] => i = j
  BY <1>1, <1>4, WithoutKeeps
<1>6. \A a : Mailed(a)' <=> Mailed(a) /\ a \notin swept[k]
  BY <1>5, MailedIsInRange, MailedIsInRangeNext
<1> QED BY <1>1, <1>2, <1>3, <1>4, <1>5, <1>6 DEF DiscardMailbox, SweepTo, regVars, taskVars,
     waitVars, sweepVars, histVars, DropsResults

DropsRecent(k) ==
  /\ swept[k] \subseteq Discarded /\ Discarded' = Discarded
  /\ accepting' = TRUE
  /\ (\A i, j \in DOMAIN recent : recent[i] = recent[j] => i = j)
        => \A i, j \in DOMAIN recent' : recent'[i] = recent'[j] => i = j
  /\ swept[k] = {} => recent' = recent
  /\ Range(recent') = Range(recent) \ swept[k]
  /\ generation' = generation + 1 /\ generation \in Nat \ {0}
  /\ UNCHANGED <<records, rec, next_id, mailbox, cancelled, pc, child, turns,
                  outcome, filter, woken, deaf, stopping, swept, delivered, sent,
                  handled>>

LEMMA DiscardGenerationEffect ==
  ASSUME TypeOK, NEW k \in Discarders, DiscardGeneration(k)
  PROVE  DropsRecent(k)
<1>1. swept[k] \subseteq Agents /\ generation \in Nat \ {0} /\ sweep \in [Discarders -> SweepPlaces]
  BY DEF TypeOK
<1>2. sweep'[k] = "discarded" /\ \A j \in Discarders : j # k => sweep'[j] = sweep[j]
  BY <1>1 DEF DiscardGeneration, SweepTo
<1>3. Discarded' = Discarded /\ swept[k] \subseteq Discarded
  BY <1>1, <1>2 DEF Discarded, DiscardGeneration, SweepTo, Reopened
<1>4. recent' = Without(recent, swept[k]) /\ recent \in Seq(Agents)
  BY DEF DiscardGeneration, SweepTo, TypeOK
<1>5. /\ Range(recent') = Range(recent) \ swept[k]
      /\ (\A i, j \in DOMAIN recent : recent[i] = recent[j] => i = j)
           => \A i, j \in DOMAIN recent' : recent'[i] = recent'[j] => i = j
  BY <1>1, <1>4, WithoutKeeps
<1>6. swept[k] = {} => recent' = recent
  <2>1. swept[k] = {} => Range(recent) \cap swept[k] = {}
    OBVIOUS
  <2> QED BY <1>4, <2>1, WithoutKeeps
<1> QED BY <1>1, <1>2, <1>3, <1>4, <1>5, <1>6 DEF DiscardGeneration, SweepTo, regVars,
     taskVars, waitVars, sweepVars, histVars, DropsRecent

--------------------------------------------------------------------------------
(* The steps, by what they do to the state the invariant is about.         *)

\* Where an owner is in the middle of its turn.
TurnPlaces == RunPlaces \ {"commands", "descendants"}

\* An owner gets on with its turn, or something is cancelled.
Turning ==
  /\ UNCHANGED <<records, rec, next_id, generation, accepting, mailbox, recent, turns,
                 outcome, sweep, swept, delivered, sent, handled>>
  /\ \A a \in Agents : /\ stopping'[a] = stopping[a]
                       /\ a \in cancelled => a \in cancelled'
  /\ \A p \in Owners :
       /\ pc'[p] # pc[p] => pc[p] \in TurnPlaces /\ pc'[p] \in TurnPlaces
       /\ pc'[p] = "inserted" <=> pc[p] = "inserted"
       /\ pc'[p] \in {"inserted", "sync", "cleanup"} =>
            pc[p] \in {"inserted", "sync", "cleanup"} /\ child'[p] = child[p]
       /\ pc'[p] \in {"looked", "asleep"} =>
            /\ pc[p] \in {"looked", "asleep"} /\ filter'[p] = filter[p]
            /\ p \in woken => p \in woken'
  /\ \/ \E o \in Owners : SpawnReserve(o)
     \/ \A p \in Owners : pc'[p] \in {"reserved", "reserved_bg"} => pc'[p] = pc[p]

\* A discard gets on, and drops nothing.
Sweeping ==
  /\ UNCHANGED <<records, rec, next_id, generation, mailbox, recent, pc, child, turns,
                 outcome, filter, woken, deaf, stopping, delivered, sent, handled>>
  /\ cancelled \subseteq cancelled'
  /\ Discarded' = Discarded
  /\ \A k \in Discarders : swept'[k] = swept[k] \/ swept'[k] \subseteq records
  /\ \/ accepting'
     \/ \E k \in Discarders : KeepsClosed(k)'
     \/ /\ accepting' = accepting
        /\ \A k \in Discarders : KeepsClosed(k) => KeepsClosed(k)'

\* An agent enters the registry or starts, or its record takes something in.
Registering ==
  \/ \E o \in Owners : \/ Inserts(o) /\ RecordInserted(o)
                       \/ Attaches(o) /\ RecordAttached(child[o])
                       \/ Looks(o) /\ RecordsConsumed(o)
  \/ \E o \in Owners, a \in Agents : Accepts(o, a) /\ RecordMessaged(a)
  \/ \E k \in Agents \cup {Client} : Cancels(k)

\* An agent's task ends.
Finishing ==
  \E a \in Agents :
    \/ EndsTurn(a) /\ RecordTurned(a)
    \/ FailsTurn(a)
    \/ ListsTree(a)
    \/ Ends(a) /\ RecordEnded(a)
    \/ Marks(a)
    \/ Pushes(a)
    \/ Notifies(a)
    \/ Retires(a) /\ ListRetained(a) /\ FinishRetain(a)

Discarding == \E k \in Discarders : DropsRecords(k) \/ DropsResults(k) \/ DropsRecent(k)

Step == UNCHANGED setting /\ (Turning \/ Sweeping \/ Registering \/ Finishing \/ Discarding)

\* The ids given so far, and the next one.
LEMMA RegisteredIds ==
  ASSUME TypeOK
  PROVE  /\ Registered \subseteq Agents /\ next_id \notin Registered /\ Client \notin Agents
         /\ \A a \in Agents : a \in Nat
         /\ next_id' = next_id => Registered' = Registered
         /\ next_id' = next_id + 1 => Registered' = Registered \cup {next_id}
         /\ \A a \in Registered : a < next_id
<1>1. next_id \in 1..MaxAgents + 1 /\ MaxAgents \in Nat /\ next_id \in Nat
  BY RegistryAssumption DEF TypeOK
<1>2. Registered = {a \in Agents : a < next_id}
  BY <1>1 DEF Registered, Agents
<1>3. next_id' = next_id => Registered' = Registered
  BY DEF Registered
<1>4. next_id' = next_id + 1 => Registered' = Registered \cup {next_id}
  BY <1>1 DEF Registered
<1> QED BY <1>1, <1>2, <1>3, <1>4, AgentsAreFinite DEF Agents

\* Every step of the specification is one of these.
LEMMA StepKinds == ASSUME TypeOK, RecordInv, AttachInv, [Next]_vars PROVE Step
<1>1. ASSUME NEW o \in Owners, ToolDispatch(o) PROVE Turning
  BY <1>1, AgentsAreFinite DEF ToolDispatch, Moves, Turning, TurnPlaces, RunPlaces, TypeOK, Owners,
       regVars, waitVars, sweepVars, histVars, taskVars
<1>2. ASSUME NEW o \in Owners, ToolReturn(o) PROVE Turning
  BY <1>2, AgentsAreFinite DEF ToolReturn, Moves, Turning, TurnPlaces, RunPlaces, TypeOK, Owners,
       regVars, waitVars, sweepVars, histVars, taskVars
<1>3. ASSUME NEW o \in Owners, SpawnReserve(o) PROVE Turning
  BY <1>3, AgentsAreFinite DEF SpawnReserve, Moves, Turning, TurnPlaces, RunPlaces, TypeOK, Owners,
       regVars, waitVars, sweepVars, histVars, taskVars
<1>4. ASSUME NEW o \in Owners, SpawnRefused(o) PROVE Turning
  BY <1>4, AgentsAreFinite DEF SpawnRefused, Moves, Turning, TurnPlaces, RunPlaces, TypeOK, Owners,
       regVars, waitVars, sweepVars, histVars, taskVars
<1>5. ASSUME NEW o \in Owners, SpawnInsert(o) PROVE Registering
  BY <1>5, SpawnInsertEffect, InsertedRecord DEF Registering
<1>6. ASSUME NEW o \in Owners, SpawnAttach(o) PROVE Registering
  <2>1. Attaches(o)
    BY <1>6, SpawnAttachEffect
  <2>2. child[o] \in Agents
    BY <2>1 DEF Attaches
  <2> QED BY <1>6, <2>1, <2>2, AttachRecord DEF Registering
<1>7. ASSUME NEW o \in Owners, SyncReturn(o) PROVE Turning
  BY <1>7, AgentsAreFinite DEF SyncReturn, Moves, Turning, TurnPlaces, RunPlaces, TypeOK, Owners,
       regVars, waitVars, sweepVars, histVars, taskVars
<1>8. ASSUME NEW o \in Owners, SyncCancel(o) PROVE Turning
  BY <1>8, AgentsAreFinite DEF SyncCancel, CancelIfAttached, Moves, Turning, TurnPlaces, RunPlaces,
       TypeOK, Owners, regVars, waitVars, sweepVars, histVars, taskVars
<1>9. ASSUME NEW o \in Owners, SyncTimeout(o) PROVE Turning
  BY <1>9, AgentsAreFinite DEF SyncTimeout, Moves, Turning, TurnPlaces, RunPlaces, TypeOK, Owners,
       regVars, waitVars, sweepVars, histVars, taskVars
<1>10. ASSUME NEW o \in Owners, WaitStart(o) PROVE Turning
  BY <1>10, AgentsAreFinite DEF WaitStart, Moves, Turning, TurnPlaces, RunPlaces, TypeOK, Owners,
       regVars, waitVars, sweepVars, histVars, taskVars
<1>11. ASSUME NEW o \in Owners, WaitCheck(o) PROVE Registering
  BY <1>11, WaitCheckEffect, ConsumedRecord DEF Registering
<1>12. ASSUME NEW o \in Owners, WaitSleep(o) PROVE Turning
  BY <1>12, AgentsAreFinite DEF WaitSleep, Moves, Turning, TurnPlaces, RunPlaces, TypeOK, Owners,
       regVars, waitVars, sweepVars, histVars, taskVars
<1>13. ASSUME NEW o \in Owners, WaitWoken(o) PROVE Turning
  BY <1>13, AgentsAreFinite DEF WaitWoken, Moves, Turning, TurnPlaces, RunPlaces, TypeOK, Owners,
       regVars, waitVars, sweepVars, histVars, taskVars
<1>14. ASSUME NEW o \in Owners, WaitTimedOut(o) PROVE Turning
  BY <1>14, AgentsAreFinite DEF WaitTimedOut, WaitEnds, Moves, Turning, TurnPlaces, RunPlaces,
       TypeOK, Owners, regVars, waitVars, sweepVars, histVars, taskVars
<1>15. ASSUME NEW o \in Owners, WaitCancelled(o) PROVE Turning
  BY <1>15, AgentsAreFinite DEF WaitCancelled, WaitEnds, Moves, Turning, TurnPlaces, RunPlaces,
       TypeOK, Owners, regVars, waitVars, sweepVars, histVars, taskVars
<1>16. ASSUME NEW o \in Owners, NEW a \in Agents, MessageAccept(o, a) PROVE Registering
  BY <1>16, MessageAcceptEffect, MessageRecord DEF Registering
<1>17. ASSUME NEW a \in Agents, StopAgent(a) PROVE Turning
  BY <1>17, AgentsAreFinite DEF StopAgent, CancelIfAttached, Turning, TurnPlaces, RunPlaces, TypeOK,
       Owners, regVars, waitVars, sweepVars, histVars, taskVars
<1>18. ASSUME NEW a \in Agents, StopTree(a) PROVE Turning
  BY <1>18, AgentsAreFinite DEF StopTree, Turning, TurnPlaces, RunPlaces, TypeOK, Owners, regVars,
       waitVars, sweepVars, histVars, taskVars
<1>19. ASSUME NEW k \in Agents \cup {Client}, StopNext(k) PROVE Registering
  BY <1>19, StopNextEffect DEF Registering
<1>20. ASSUME CancelMain PROVE Turning
  BY <1>20, AgentsAreFinite DEF CancelMain, Turning, TurnPlaces, RunPlaces, TypeOK, Owners, regVars,
       waitVars, sweepVars, histVars, taskVars
<1>21. ASSUME NextMain PROVE Turning
  BY <1>21, AgentsAreFinite DEF NextMain, Turning, TurnPlaces, RunPlaces, TypeOK, Owners, regVars,
       waitVars, sweepVars, histVars, taskVars
<1>22. ASSUME NEW a \in Agents, TurnOk(a) PROVE Finishing
  BY <1>22, TurnOkEffect, EndedTurnRecord DEF Finishing
<1>23. ASSUME NEW a \in Agents, TurnFailed(a) PROVE Finishing
  BY <1>23, TurnFailedEffect DEF Finishing
<1>24. ASSUME NEW a \in Agents, FinishDescendants(a) PROVE Finishing
  BY <1>24, FinishDescendantsEffect DEF Finishing
<1>25. ASSUME NEW a \in Agents, FinishRecord(a) PROVE Finishing
  <2>1. outcome[a] \in Terminal
    BY <1>25, RegisteredIds, AgentsAreFinite DEF FinishRecord, RecordInv
  <2> QED BY <1>25, <2>1, FinishRecordEffect, FinishedRecord DEF Finishing
<1>26. ASSUME NEW a \in Agents, FinishMark(a) PROVE Finishing
  BY <1>26, FinishMarkEffect DEF Finishing
<1>27. ASSUME NEW a \in Agents, FinishPush(a) PROVE Finishing
  BY <1>27, FinishPushEffect DEF Finishing
<1>28. ASSUME NEW a \in Agents, FinishNotify(a) PROVE Finishing
  BY <1>28, FinishNotifyEffect DEF Finishing
<1>29. ASSUME NEW a \in Agents, FinishRetain(a) PROVE Finishing
  BY <1>29, FinishRetainEffect, RetainedRange DEF Finishing
<1>30. ASSUME NEW k \in Discarders, SweepClose(k) PROVE Sweeping
  <2>1. Discarded' = Discarded
    BY <1>30 DEF SweepClose, SweepTo, Discarded, TypeOK
  <2> QED BY <1>30, <2>1 DEF SweepClose, SweepTo, Sweeping, KeepsClosed, TypeOK,
       SweepPlaces, regVars, taskVars,
       waitVars, histVars, Visible
<1>31. ASSUME NEW k \in Discarders, SweepList(k) PROVE Sweeping
  <2>1. Discarded' = Discarded
    BY <1>31 DEF SweepList, SweepTo, Discarded, TypeOK
  <2> QED BY <1>31, <2>1 DEF SweepList, SweepTo, Sweeping, KeepsClosed, TypeOK,
       SweepPlaces, regVars, taskVars,
       waitVars, histVars, Visible
<1>32. ASSUME NEW k \in Discarders, SweepCancel(k) PROVE Sweeping
  <2>1. Discarded' = Discarded
    BY <1>32 DEF SweepCancel, SweepTo, Discarded, TypeOK
  <2> QED BY <1>32, <2>1 DEF SweepCancel, SweepTo, Sweeping, KeepsClosed, TypeOK,
       SweepPlaces, regVars, taskVars,
       waitVars, histVars, Visible
<1>33. ASSUME NEW k \in Discarders, SweepStopped(k) PROVE Sweeping
  <2>1. Discarded' = Discarded
    BY <1>33 DEF SweepStopped, SweepTo, Discarded, TypeOK
  <2> QED BY <1>33, <2>1 DEF SweepStopped, SweepTo, Sweeping, KeepsClosed, TypeOK,
       SweepPlaces, regVars,
       taskVars, waitVars, histVars, Visible
<1>40. ASSUME NEW k \in Discarders, SweepCheck(k) PROVE Sweeping
  <2>1. Discarded' = Discarded
    BY <1>40 DEF SweepCheck, SweepTo, Discarded, TypeOK
  <2> QED BY <1>40, <2>1 DEF SweepCheck, SweepTo, Sweeping, KeepsClosed, TypeOK,
       SweepPlaces, regVars, taskVars,
       waitVars, histVars, Visible
<1>41. ASSUME NEW k \in Discarders, SweepDropped(k) PROVE Sweeping
  <2>1. Discarded' = Discarded
    BY <1>41 DEF SweepDropped, SweepTo, Discarded, TypeOK
  <2> QED BY <1>41, <2>1 DEF SweepDropped, SweepTo, Sweeping, KeepsClosed, TypeOK,
       SweepPlaces, regVars, taskVars,
       waitVars, histVars, Visible
<1>34. ASSUME NEW k \in Discarders, SweepTimeout(k) PROVE Sweeping
  <2>1. Discarded' = Discarded
    BY <1>34 DEF SweepTimeout, SweepTo, Reopened, Discarded, TypeOK
  <2> QED BY <1>34, <2>1 DEF SweepTimeout, SweepTo, Reopened, Sweeping, KeepsClosed, TypeOK,
       SweepPlaces,
       regVars, taskVars, waitVars, histVars, Visible
<1>35. ASSUME NEW k \in Discarders, DiscardList(k) PROVE Sweeping
  <2>1. Discarded' = Discarded
    BY <1>35 DEF DiscardList, SweepTo, Discarded, TypeOK
  <2> QED BY <1>35, <2>1 DEF DiscardList, SweepTo, Sweeping, KeepsClosed, TypeOK,
       SweepPlaces, regVars, taskVars,
       waitVars, histVars, Visible
<1>36. ASSUME NEW k \in Discarders, DiscardRecords(k) PROVE Discarding
  BY <1>36, DiscardRecordsEffect DEF Discarding
<1>37. ASSUME NEW k \in Discarders, DiscardMailbox(k) PROVE Discarding
  BY <1>37, DiscardMailboxEffect DEF Discarding
<1>38. ASSUME NEW k \in Discarders, DiscardGeneration(k) PROVE Discarding
  BY <1>38, DiscardGenerationEffect DEF Discarding
<1>39. ASSUME UNCHANGED vars PROVE Turning /\ UNCHANGED setting
  BY <1>39 DEF vars, Turning, regVars, taskVars, waitVars, sweepVars, histVars, RunPlaces,
       TurnPlaces
<1> QED BY <1>1, <1>2, <1>3, <1>4, <1>5, <1>6, <1>7, <1>8, <1>9, <1>10, <1>11, <1>12, <1>13, <1>14,
     <1>15, <1>16, <1>17, <1>18, <1>19, <1>20, <1>21, <1>22, <1>23, <1>24, <1>25, <1>26, <1>27,
     <1>28, <1>29, <1>30, <1>31, <1>32, <1>33, <1>34, <1>35, <1>36, <1>37, <1>38, <1>39, <1>40,
     <1>41
         DEF Step, Next, Spawn, Wait, Stop, RunChild, Finish, Sweep

\* What every step leaves alone, and the types its arithmetic needs.
LEMMA StepBasics ==
  ASSUME TypeOK, Step
  PROVE  /\ setting' = setting /\ Agents \subseteq Owners /\ Registered \subseteq Agents
         /\ next_id \notin Registered /\ Client \notin Agents
         /\ next_id' = next_id => Registered' = Registered
         /\ next_id' = next_id + 1 => Registered' = Registered \cup {next_id}
         /\ UNCHANGED <<sweep, swept>> => Discarded' = Discarded
         /\ mailbox' = mailbox => \A a : Mailed(a)' <=> Mailed(a)
         /\ generation \in Nat
         /\ \A a \in Agents : /\ rec[a].gen \in Nat /\ rec[a].inbox \in Nat /\ sent[a] \in Nat
                             /\ handled[a] \in Nat /\ turns[a] \in Nat /\ delivered[a] \in Nat
<1>1. setting' = setting /\ Agents \subseteq Owners
  BY DEF Step, Owners
<1>2. UNCHANGED <<sweep, swept>> => Discarded' = Discarded
  BY DEF Discarded
<1>3. generation \in Nat /\ \A a \in Agents : rec[a].gen \in Nat /\ rec[a].inbox \in Nat
  BY RecordIsTyped DEF TypeOK
<1>4. \A a \in Agents : /\ sent[a] \in Nat /\ handled[a] \in Nat /\ delivered[a] \in Nat
                      /\ turns[a] \in 0..setting.turns
  BY DEF TypeOK
<1> QED BY <1>1, <1>2, <1>3, <1>4, RegisteredIds, SettingIsTyped, MailedIsInRange,
     MailedIsInRangeNext

\* A record is filled in once, and its status follows the place of its task.
LEMMA RecordInvStep ==
  ASSUME TypeOK, RecordInv, AttachInv, Step, TypeOK'
  PROVE  RecordInv'
<1> USE DEF RunPlaces, EndPlaces, TurnPlaces
<1>1. CASE Turning
  BY <1>1, StepBasics DEF Turning, RecordInv, Ended, Running, Terminal, Visible
<1>2. CASE Sweeping
  BY <1>2, StepBasics DEF Sweeping, RecordInv, Ended, Running, Terminal, Visible
<1>3. ASSUME NEW o \in Owners, Inserts(o), RecordInserted(o) PROVE RecordInv'
  <2>1. \A b \in Agents \ Registered' : /\ rec'[b] = NoRecord /\ pc'[b] = "none"
                                        /\ delivered'[b] = 0 /\ sent'[b] = 0 /\ handled'[b] = 0
    BY <1>3, StepBasics DEF Inserts, RecordInserted, RecordInv, Ended, Running, Terminal, Visible
  <2>2. records' \cup Range(mailbox') \cup Range(recent') \subseteq Registered'
    BY <1>3, StepBasics DEF Inserts, RecordInserted, RecordInv, Ended, Running, Terminal, Visible
  <2>3. \A j \in Discarders : swept'[j] \subseteq Registered'
    BY <1>3, StepBasics DEF Inserts, RecordInserted, RecordInv, Ended, Running, Terminal, Visible
  <2>4. \A b \in Registered' : /\ rec'[b].gen <= generation'
                               /\ pc'[b] \in {"none"} \cup RunPlaces => Running(b)'
    BY <1>3, StepBasics DEF Inserts, RecordInserted, RecordInv, Ended, Running, Terminal, Visible
  <2>5. \A b \in Registered' : /\ pc'[b] \in EndPlaces => Ended(b)'
                               /\ pc'[b] \in {"commands", "descendants"} => outcome'[b] \in Terminal
    BY <1>3, StepBasics DEF Inserts, RecordInserted, RecordInv, Ended, Running, Terminal, Visible
  <2> QED BY <2>1, <2>2, <2>3, <2>4, <2>5 DEF RecordInv, NoRecord, Terminal
<1>4. ASSUME NEW o \in Owners, Attaches(o), RecordAttached(child[o]) PROVE RecordInv'
  <2>1. \A b \in Agents \ Registered' : /\ rec'[b] = NoRecord /\ pc'[b] = "none"
                                        /\ delivered'[b] = 0 /\ sent'[b] = 0 /\ handled'[b] = 0
    BY <1>4, StepBasics DEF Attaches, RecordAttached, RecordInv, Ended, Running, Terminal, Visible
  <2>2. records' \cup Range(mailbox') \cup Range(recent') \subseteq Registered'
    BY <1>4, StepBasics DEF Attaches, RecordAttached, RecordInv, Ended, Running, Terminal, Visible
  <2>3. \A j \in Discarders : swept'[j] \subseteq Registered'
    BY <1>4, StepBasics DEF Attaches, RecordAttached, RecordInv, Ended, Running, Terminal, Visible
  <2>4. \A b \in Registered' : /\ rec'[b].gen <= generation'
                               /\ pc'[b] \in {"none"} \cup RunPlaces => Running(b)'
    BY <1>4, StepBasics DEF Attaches, RecordAttached, RecordInv, Ended, Running, Terminal, Visible
  <2>5. \A b \in Registered' : /\ pc'[b] \in EndPlaces => Ended(b)'
                               /\ pc'[b] \in {"commands", "descendants"} => outcome'[b] \in Terminal
    BY <1>4, StepBasics DEF Attaches, RecordAttached, RecordInv, Ended, Running, Terminal, Visible
  <2> QED BY <2>1, <2>2, <2>3, <2>4, <2>5 DEF RecordInv, NoRecord, Terminal
<1>5. ASSUME NEW o \in Owners, Looks(o), RecordsConsumed(o) PROVE RecordInv'
  <2>1. \A b \in Agents \ Registered' : /\ rec'[b] = NoRecord /\ pc'[b] = "none"
                                        /\ delivered'[b] = 0 /\ sent'[b] = 0 /\ handled'[b] = 0
    BY <1>5, StepBasics DEF Looks, RecordsConsumed, RecordInv, Ended, Running, Terminal, Visible
  <2>2. records' \cup Range(mailbox') \cup Range(recent') \subseteq Registered'
    BY <1>5, StepBasics DEF Looks, RecordsConsumed, RecordInv, Ended, Running, Terminal, Visible
  <2>3. \A j \in Discarders : swept'[j] \subseteq Registered'
    BY <1>5, StepBasics DEF Looks, RecordsConsumed, RecordInv, Ended, Running, Terminal, Visible
  <2>4. \A b \in Registered' : /\ rec'[b].gen <= generation'
                               /\ pc'[b] \in {"none"} \cup RunPlaces => Running(b)'
    BY <1>5, StepBasics DEF Looks, RecordsConsumed, RecordInv, Ended, Running, Terminal, Visible
  <2>5. \A b \in Registered' : /\ pc'[b] \in EndPlaces => Ended(b)'
                               /\ pc'[b] \in {"commands", "descendants"} => outcome'[b] \in Terminal
    BY <1>5, StepBasics DEF Looks, RecordsConsumed, RecordInv, Ended, Running, Terminal, Visible
  <2> QED BY <2>1, <2>2, <2>3, <2>4, <2>5 DEF RecordInv, NoRecord, Terminal
<1>6. ASSUME NEW o \in Owners, NEW a \in Agents, Accepts(o, a), RecordMessaged(a) PROVE RecordInv'
  <2>1. \A b \in Agents \ Registered' : /\ rec'[b] = NoRecord /\ pc'[b] = "none"
                                        /\ delivered'[b] = 0 /\ sent'[b] = 0 /\ handled'[b] = 0
    BY <1>6, StepBasics DEF Accepts, RecordMessaged, RecordInv, Ended, Running, Terminal, Visible
  <2>2. records' \cup Range(mailbox') \cup Range(recent') \subseteq Registered'
    BY <1>6, StepBasics DEF Accepts, RecordMessaged, RecordInv, Ended, Running, Terminal, Visible
  <2>3. \A j \in Discarders : swept'[j] \subseteq Registered'
    BY <1>6, StepBasics DEF Accepts, RecordMessaged, RecordInv, Ended, Running, Terminal, Visible
  <2>4. \A b \in Registered' : /\ rec'[b].gen <= generation'
                               /\ pc'[b] \in {"none"} \cup RunPlaces => Running(b)'
    BY <1>6, StepBasics DEF Accepts, RecordMessaged, RecordInv, Ended, Running, Terminal, Visible
  <2>5. \A b \in Registered' : /\ pc'[b] \in EndPlaces => Ended(b)'
                               /\ pc'[b] \in {"commands", "descendants"} => outcome'[b] \in Terminal
    BY <1>6, StepBasics DEF Accepts, RecordMessaged, RecordInv, Ended, Running, Terminal, Visible
  <2> QED BY <2>1, <2>2, <2>3, <2>4, <2>5 DEF RecordInv, NoRecord, Terminal
<1>7. ASSUME NEW k \in Agents \cup {Client}, Cancels(k) PROVE RecordInv'
  BY <1>7, StepBasics DEF Cancels, RecordInv, Ended, Running, Terminal, Visible
<1>8. ASSUME NEW a \in Agents, EndsTurn(a), RecordTurned(a) PROVE RecordInv'
  <2>1. \A b \in Agents \ Registered' : /\ rec'[b] = NoRecord /\ pc'[b] = "none"
                                        /\ delivered'[b] = 0 /\ sent'[b] = 0 /\ handled'[b] = 0
    BY <1>8, StepBasics DEF EndsTurn, RecordTurned, RecordInv, Ended, Running, Terminal, Visible
  <2>2. records' \cup Range(mailbox') \cup Range(recent') \subseteq Registered'
    BY <1>8, StepBasics DEF EndsTurn, RecordTurned, RecordInv, Ended, Running, Terminal, Visible
  <2>3. \A j \in Discarders : swept'[j] \subseteq Registered'
    BY <1>8, StepBasics DEF EndsTurn, RecordTurned, RecordInv, Ended, Running, Terminal, Visible
  <2>4. \A b \in Registered' : /\ rec'[b].gen <= generation'
                               /\ pc'[b] \in {"none"} \cup RunPlaces => Running(b)'
    BY <1>8, StepBasics DEF EndsTurn, RecordTurned, RecordInv, Ended, Running, Terminal, Visible
  <2>5. \A b \in Registered' : /\ pc'[b] \in EndPlaces => Ended(b)'
                               /\ pc'[b] \in {"commands", "descendants"} => outcome'[b] \in Terminal
    BY <1>8, StepBasics DEF EndsTurn, RecordTurned, RecordInv, Ended, Running, Terminal, Visible
  <2> QED BY <2>1, <2>2, <2>3, <2>4, <2>5 DEF RecordInv, NoRecord, Terminal
<1>9. ASSUME NEW a \in Agents, FailsTurn(a) PROVE RecordInv'
  BY <1>9, StepBasics DEF FailsTurn, RecordInv, Ended, Running, Terminal, Visible
<1>10. ASSUME NEW a \in Agents, ListsTree(a) PROVE RecordInv'
  BY <1>10, StepBasics DEF ListsTree, RecordInv, Ended, Running, Terminal, Visible
<1>11. ASSUME NEW a \in Agents, Ends(a), RecordEnded(a) PROVE RecordInv'
  <2>1. \A b \in Agents \ Registered' : /\ rec'[b] = NoRecord /\ pc'[b] = "none"
                                        /\ delivered'[b] = 0 /\ sent'[b] = 0 /\ handled'[b] = 0
    BY <1>11, StepBasics DEF Ends, RecordEnded, RecordInv, Ended, Running, Terminal, Visible
  <2>2. records' \cup Range(mailbox') \cup Range(recent') \subseteq Registered'
    BY <1>11, StepBasics DEF Ends, RecordEnded, RecordInv, Ended, Running, Terminal, Visible
  <2>3. \A j \in Discarders : swept'[j] \subseteq Registered'
    BY <1>11, StepBasics DEF Ends, RecordEnded, RecordInv, Ended, Running, Terminal, Visible
  <2>4. \A b \in Registered' : /\ rec'[b].gen <= generation'
                               /\ pc'[b] \in {"none"} \cup RunPlaces => Running(b)'
    BY <1>11, StepBasics DEF Ends, RecordEnded, RecordInv, Ended, Running, Terminal, Visible
  <2>5. \A b \in Registered' : /\ pc'[b] \in EndPlaces => Ended(b)'
                               /\ pc'[b] \in {"commands", "descendants"} => outcome'[b] \in Terminal
    BY <1>11, StepBasics DEF Ends, RecordEnded, RecordInv, Ended, Running, Terminal, Visible
  <2> QED BY <2>1, <2>2, <2>3, <2>4, <2>5 DEF RecordInv, NoRecord, Terminal
<1>12. ASSUME NEW a \in Agents, Marks(a) PROVE RecordInv'
  <2>1. \A b \in Agents \ Registered' : /\ rec'[b] = NoRecord /\ pc'[b] = "none"
                                        /\ delivered'[b] = 0 /\ sent'[b] = 0 /\ handled'[b] = 0
    BY <1>12, StepBasics DEF Marks, RecordMarked, RecordInv, Ended, Running, Terminal, Visible
  <2>2. records' \cup Range(mailbox') \cup Range(recent') \subseteq Registered'
    BY <1>12, StepBasics DEF Marks, RecordMarked, RecordInv, Ended, Running, Terminal, Visible
  <2>3. \A j \in Discarders : swept'[j] \subseteq Registered'
    BY <1>12, StepBasics DEF Marks, RecordMarked, RecordInv, Ended, Running, Terminal, Visible
  <2>4. \A b \in Registered' : /\ rec'[b].gen <= generation'
                               /\ pc'[b] \in {"none"} \cup RunPlaces => Running(b)'
    BY <1>12, StepBasics DEF Marks, RecordMarked, RecordInv, Ended, Running, Terminal, Visible
  <2>5. \A b \in Registered' : /\ pc'[b] \in EndPlaces => Ended(b)'
                               /\ pc'[b] \in {"commands", "descendants"} => outcome'[b] \in Terminal
    BY <1>12, StepBasics DEF Marks, RecordMarked, RecordInv, Ended, Running, Terminal, Visible
  <2> QED BY <2>1, <2>2, <2>3, <2>4, <2>5 DEF RecordInv, NoRecord, Terminal
<1>13. ASSUME NEW a \in Agents, Pushes(a) PROVE RecordInv'
  BY <1>13, StepBasics DEF Pushes, RecordInv, Ended, Running, Terminal, Visible
<1>14. ASSUME NEW a \in Agents, Notifies(a) PROVE RecordInv'
  BY <1>14, StepBasics DEF Notifies, RecordInv, Ended, Running, Terminal, Visible
<1>15. ASSUME NEW a \in Agents, Retires(a), ListRetained(a), FinishRetain(a) PROVE RecordInv'
  <2>1. \A b \in Agents \ Registered' : /\ rec'[b] = NoRecord /\ pc'[b] = "none"
                                        /\ delivered'[b] = 0 /\ sent'[b] = 0 /\ handled'[b] = 0
    BY <1>15, StepBasics DEF Retires, ListRetained, RecordInv, Ended, Running, Terminal, Visible
  <2>2. records' \cup Range(mailbox') \cup Range(recent') \subseteq Registered'
    BY <1>15, StepBasics DEF Retires, ListRetained, RecordInv, Ended, Running, Terminal, Visible
  <2>3. \A j \in Discarders : swept'[j] \subseteq Registered'
    BY <1>15, StepBasics DEF Retires, ListRetained, RecordInv, Ended, Running, Terminal, Visible
  <2>4. \A b \in Registered' : /\ rec'[b].gen <= generation'
                               /\ pc'[b] \in {"none"} \cup RunPlaces => Running(b)'
    BY <1>15, StepBasics DEF Retires, ListRetained, RecordInv, Ended, Running, Terminal, Visible
  <2>5. \A b \in Registered' : /\ pc'[b] \in EndPlaces => Ended(b)'
                               /\ pc'[b] \in {"commands", "descendants"} => outcome'[b] \in Terminal
    BY <1>15, StepBasics DEF Retires, ListRetained, RecordInv, Ended, Running, Terminal, Visible
  <2> QED BY <2>1, <2>2, <2>3, <2>4, <2>5 DEF RecordInv, NoRecord, Terminal
<1>16. ASSUME NEW k \in Discarders, DropsRecords(k) PROVE RecordInv'
  BY <1>16, StepBasics DEF DropsRecords, RecordInv, Ended, Running, Terminal, Visible
<1>17. ASSUME NEW k \in Discarders, DropsResults(k) PROVE RecordInv'
  BY <1>17, StepBasics DEF DropsResults, RecordInv, Ended, Running, Terminal, Visible
<1>18. ASSUME NEW k \in Discarders, DropsRecent(k) PROVE RecordInv'
  <2>1. \A b \in Agents \ Registered' : /\ rec'[b] = NoRecord /\ pc'[b] = "none"
                                        /\ delivered'[b] = 0 /\ sent'[b] = 0 /\ handled'[b] = 0
    BY <1>18, StepBasics DEF DropsRecent, RecordInv, Ended, Running, Terminal, Visible
  <2>2. records' \cup Range(mailbox') \cup Range(recent') \subseteq Registered'
    BY <1>18, StepBasics DEF DropsRecent, RecordInv, Ended, Running, Terminal, Visible
  <2>3. \A j \in Discarders : swept'[j] \subseteq Registered'
    BY <1>18, StepBasics DEF DropsRecent, RecordInv, Ended, Running, Terminal, Visible
  <2>4. \A b \in Registered' : /\ rec'[b].gen <= generation'
                               /\ pc'[b] \in {"none"} \cup RunPlaces => Running(b)'
    BY <1>18, StepBasics DEF DropsRecent, RecordInv, Ended, Running, Terminal, Visible
  <2>5. \A b \in Registered' : /\ pc'[b] \in EndPlaces => Ended(b)'
                               /\ pc'[b] \in {"commands", "descendants"} => outcome'[b] \in Terminal
    BY <1>18, StepBasics DEF DropsRecent, RecordInv, Ended, Running, Terminal, Visible
  <2> QED BY <2>1, <2>2, <2>3, <2>4, <2>5 DEF RecordInv, NoRecord, Terminal
<1> QED BY <1>1, <1>2, <1>3, <1>4, <1>5, <1>6, <1>7, <1>8, <1>9, <1>10, <1>11, <1>12, <1>13, <1>14,
     <1>15, <1>16, <1>17, <1>18
         DEF Step, Registering, Finishing, Discarding

\* Only the spawner that inserted a record attaches it, so nobody starts a task twice.
LEMMA AttachInvStep ==
  ASSUME TypeOK, RecordInv, AttachInv, Step, TypeOK'
  PROVE  AttachInv'
<1> USE DEF RunPlaces, EndPlaces, TurnPlaces
<1>1. CASE Turning
  BY <1>1, StepBasics DEF Turning, AttachInv, RecordInv
<1>2. CASE Sweeping
  BY <1>2, StepBasics DEF Sweeping, AttachInv, RecordInv
<1>3. ASSUME NEW o \in Owners, Inserts(o), RecordInserted(o) PROVE AttachInv'
  <2>1. \A p \in Owners : pc'[p] \in {"inserted", "sync", "cleanup"} => child'[p] \in Registered'
    BY <1>3, StepBasics DEF Inserts, RecordInserted, AttachInv, RecordInv
  <2>2. \A p \in Owners : pc'[p] = "inserted" => pc'[child'[p]] = "none"
    BY <1>3, StepBasics DEF Inserts, RecordInserted, AttachInv, RecordInv
  <2>3. \A p, q \in Owners : pc'[p] = "inserted" /\ pc'[q] = "inserted" /\ child'[q] = child'[p] => q = p
    BY <1>3, StepBasics DEF Inserts, RecordInserted, AttachInv, RecordInv
  <2> QED BY <2>1, <2>2, <2>3 DEF AttachInv
<1>4. ASSUME NEW o \in Owners, Attaches(o), RecordAttached(child[o]) PROVE AttachInv'
  BY <1>4, StepBasics DEF Attaches, RecordAttached, AttachInv, RecordInv
<1>5. ASSUME NEW o \in Owners, Looks(o), RecordsConsumed(o) PROVE AttachInv'
  BY <1>5, StepBasics DEF Looks, RecordsConsumed, AttachInv, RecordInv
<1>6. ASSUME NEW o \in Owners, NEW a \in Agents, Accepts(o, a), RecordMessaged(a) PROVE AttachInv'
  BY <1>6, StepBasics DEF Accepts, RecordMessaged, AttachInv, RecordInv
<1>7. ASSUME NEW k \in Agents \cup {Client}, Cancels(k) PROVE AttachInv'
  BY <1>7, StepBasics DEF Cancels, AttachInv, RecordInv
<1>8. ASSUME NEW a \in Agents, EndsTurn(a), RecordTurned(a) PROVE AttachInv'
  BY <1>8, StepBasics DEF EndsTurn, RecordTurned, AttachInv, RecordInv
<1>9. ASSUME NEW a \in Agents, FailsTurn(a) PROVE AttachInv'
  BY <1>9, StepBasics DEF FailsTurn, AttachInv, RecordInv
<1>10. ASSUME NEW a \in Agents, ListsTree(a) PROVE AttachInv'
  BY <1>10, StepBasics DEF ListsTree, AttachInv, RecordInv
<1>11. ASSUME NEW a \in Agents, Ends(a), RecordEnded(a) PROVE AttachInv'
  BY <1>11, StepBasics DEF Ends, RecordEnded, AttachInv, RecordInv
<1>12. ASSUME NEW a \in Agents, Marks(a) PROVE AttachInv'
  BY <1>12, StepBasics DEF Marks, RecordMarked, AttachInv, RecordInv
<1>13. ASSUME NEW a \in Agents, Pushes(a) PROVE AttachInv'
  BY <1>13, StepBasics DEF Pushes, AttachInv, RecordInv
<1>14. ASSUME NEW a \in Agents, Notifies(a) PROVE AttachInv'
  BY <1>14, StepBasics DEF Notifies, AttachInv, RecordInv
<1>15. ASSUME NEW a \in Agents, Retires(a), ListRetained(a), FinishRetain(a) PROVE AttachInv'
  BY <1>15, StepBasics DEF Retires, ListRetained, AttachInv, RecordInv
<1>16. ASSUME NEW k \in Discarders, DropsRecords(k) PROVE AttachInv'
  BY <1>16, StepBasics DEF DropsRecords, AttachInv, RecordInv
<1>17. ASSUME NEW k \in Discarders, DropsResults(k) PROVE AttachInv'
  BY <1>17, StepBasics DEF DropsResults, AttachInv, RecordInv
<1>18. ASSUME NEW k \in Discarders, DropsRecent(k) PROVE AttachInv'
  BY <1>18, StepBasics DEF DropsRecent, AttachInv, RecordInv
<1> QED BY <1>1, <1>2, <1>3, <1>4, <1>5, <1>6, <1>7, <1>8, <1>9, <1>10, <1>11, <1>12, <1>13, <1>14,
     <1>15, <1>16, <1>17, <1>18
         DEF Step, Registering, Finishing, Discarding

\* A message goes from the sender to the open inbox, and from there to the model; the
\* inbox is closed where it is found empty.
LEMMA InboxInvStep ==
  ASSUME TypeOK, RecordInv, AttachInv, InboxInv, Step, TypeOK'
  PROVE  InboxInv'
<1> USE DEF RunPlaces, EndPlaces, TurnPlaces
<1>1. CASE Turning
  BY <1>1, StepBasics DEF Turning, InboxInv, RecordInv, Running, Ended, Terminal, Visible
<1>2. CASE Sweeping
  BY <1>2, StepBasics DEF Sweeping, InboxInv, RecordInv, Running, Ended, Terminal, Visible
<1>3. ASSUME NEW o \in Owners, Inserts(o), RecordInserted(o) PROVE InboxInv'
  BY <1>3, StepBasics DEF Inserts, RecordInserted, InboxInv, RecordInv, Running, Ended, Terminal,
       Visible
<1>4. ASSUME NEW o \in Owners, Attaches(o), RecordAttached(child[o]) PROVE InboxInv'
  BY <1>4, StepBasics DEF Attaches, RecordAttached, InboxInv, RecordInv, Running, Ended, Terminal,
       Visible
<1>5. ASSUME NEW o \in Owners, Looks(o), RecordsConsumed(o) PROVE InboxInv'
  BY <1>5, StepBasics DEF Looks, RecordsConsumed, InboxInv, RecordInv, Running, Ended, Terminal,
       Visible
<1>6. ASSUME NEW o \in Owners, NEW a \in Agents, Accepts(o, a), RecordMessaged(a) PROVE InboxInv'
  <2>1. \A b \in Registered' : pc'[b] \in ({"none"} \cup RunPlaces) \ {"commands", "descendants"}
         => rec'[b].inbox_open /\ handled'[b] + rec'[b].inbox = sent'[b]
    <3> SUFFICES ASSUME NEW b \in Registered', pc'[b] \in ({"none"} \cup RunPlaces) \ {"commands", "descendants"}
                 PROVE  rec'[b].inbox_open /\ handled'[b] + rec'[b].inbox = sent'[b]
      OBVIOUS
    <3>1. b \in Registered /\ b \in Agents /\ pc[b] \in ({"none"} \cup RunPlaces) \ {"commands", "descendants"}
      BY <1>6, StepBasics DEF Accepts
    <3>2. rec[b].inbox_open /\ handled[b] + rec[b].inbox = sent[b] /\ handled'[b] = handled[b]
      BY <1>6, <3>1 DEF InboxInv, Accepts
    <3>3. CASE b = a
      <4>1. rec'[b].inbox_open /\ rec'[b].inbox = rec[b].inbox + 1 /\ sent'[b] = sent[b] + 1
        BY <1>6, <3>2, <3>3 DEF Accepts, RecordMessaged
      <4> QED BY <3>1, <3>2, <4>1, StepBasics
    <3>4. CASE b # a
      BY <1>6, <3>1, <3>2, <3>4 DEF Accepts, RecordMessaged
    <3> QED BY <3>3, <3>4
  <2>2. \A b \in Registered' : pc'[b] \in {"commands", "descendants"} /\ outcome'[b] = "completed"
         => ~rec'[b].inbox_open /\ (turns'[b] > 0 => handled'[b] = sent'[b])
    BY <1>6, StepBasics DEF Accepts, RecordMessaged, InboxInv, RecordInv, Running, Ended, Terminal,
         Visible
  <2>3. \A b \in Registered' : rec'[b].status = "completed" /\ turns'[b] > 0
         => handled'[b] = sent'[b]
    BY <1>6, StepBasics DEF Accepts, RecordMessaged, InboxInv, RecordInv, Running, Ended, Terminal,
         Visible
  <2> QED BY <2>1, <2>2, <2>3 DEF InboxInv
<1>7. ASSUME NEW k \in Agents \cup {Client}, Cancels(k) PROVE InboxInv'
  BY <1>7, StepBasics DEF Cancels, InboxInv, RecordInv, Running, Ended, Terminal, Visible
<1>8. ASSUME NEW a \in Agents, EndsTurn(a), RecordTurned(a) PROVE InboxInv'
  BY <1>8, StepBasics DEF EndsTurn, RecordTurned, InboxInv, RecordInv, Running, Ended, Terminal,
       Visible
<1>9. ASSUME NEW a \in Agents, FailsTurn(a) PROVE InboxInv'
  BY <1>9, StepBasics DEF FailsTurn, InboxInv, RecordInv, Running, Ended, Terminal, Visible
<1>10. ASSUME NEW a \in Agents, ListsTree(a) PROVE InboxInv'
  BY <1>10, StepBasics DEF ListsTree, InboxInv, RecordInv, Running, Ended, Terminal, Visible
<1>11. ASSUME NEW a \in Agents, Ends(a), RecordEnded(a) PROVE InboxInv'
  BY <1>11, StepBasics DEF Ends, RecordEnded, InboxInv, RecordInv, Running, Ended, Terminal, Visible
<1>12. ASSUME NEW a \in Agents, Marks(a) PROVE InboxInv'
  BY <1>12, StepBasics DEF Marks, RecordMarked, InboxInv, RecordInv, Running, Ended, Terminal,
       Visible
<1>13. ASSUME NEW a \in Agents, Pushes(a) PROVE InboxInv'
  BY <1>13, StepBasics DEF Pushes, InboxInv, RecordInv, Running, Ended, Terminal, Visible
<1>14. ASSUME NEW a \in Agents, Notifies(a) PROVE InboxInv'
  BY <1>14, StepBasics DEF Notifies, InboxInv, RecordInv, Running, Ended, Terminal, Visible
<1>15. ASSUME NEW a \in Agents, Retires(a), ListRetained(a), FinishRetain(a) PROVE InboxInv'
  BY <1>15, StepBasics DEF Retires, ListRetained, InboxInv, RecordInv, Running, Ended, Terminal,
       Visible
<1>16. ASSUME NEW k \in Discarders, DropsRecords(k) PROVE InboxInv'
  BY <1>16, StepBasics DEF DropsRecords, InboxInv, RecordInv, Running, Ended, Terminal, Visible
<1>17. ASSUME NEW k \in Discarders, DropsResults(k) PROVE InboxInv'
  BY <1>17, StepBasics DEF DropsResults, InboxInv, RecordInv, Running, Ended, Terminal, Visible
<1>18. ASSUME NEW k \in Discarders, DropsRecent(k) PROVE InboxInv'
  BY <1>18, StepBasics DEF DropsRecent, InboxInv, RecordInv, Running, Ended, Terminal, Visible
<1> QED BY <1>1, <1>2, <1>3, <1>4, <1>5, <1>6, <1>7, <1>8, <1>9, <1>10, <1>11, <1>12, <1>13, <1>14,
     <1>15, <1>16, <1>17, <1>18
         DEF Step, Registering, Finishing, Discarding

\* A result that comes in while an owner looks or sleeps leaves a finisher that has
\* yet to notify; the notification reaches everyone that looks or sleeps.
LEMMA WakeInvStep ==
  ASSUME TypeOK, RecordInv, AttachInv, WakeInv, Step, TypeOK'
  PROVE  WakeInv'
<1> USE DEF RunPlaces, EndPlaces, TurnPlaces
<1>1. CASE Turning
  BY <1>1, StepBasics, MailedIsInRange, MailedIsInRangeNext DEF Turning, WakeInv, Notified, waitVars
<1>2. CASE Sweeping
  BY <1>2, StepBasics, MailedIsInRange, MailedIsInRangeNext DEF Sweeping, WakeInv, Notified,
       waitVars
<1>3. ASSUME NEW o \in Owners, Inserts(o), RecordInserted(o) PROVE WakeInv'
  BY <1>3, StepBasics, MailedIsInRange, MailedIsInRangeNext DEF Inserts, RecordInserted, WakeInv,
       Notified, waitVars
<1>4. ASSUME NEW o \in Owners, Attaches(o), RecordAttached(child[o]) PROVE WakeInv'
  BY <1>4, StepBasics, MailedIsInRange, MailedIsInRangeNext DEF Attaches, RecordAttached, WakeInv,
       Notified, waitVars
<1>5. ASSUME NEW o \in Owners, Looks(o), RecordsConsumed(o) PROVE WakeInv'
  BY <1>5, StepBasics, MailedIsInRange, MailedIsInRangeNext DEF Looks, RecordsConsumed, WakeInv,
       Notified, waitVars
<1>6. ASSUME NEW o \in Owners, NEW a \in Agents, Accepts(o, a), RecordMessaged(a) PROVE WakeInv'
  BY <1>6, StepBasics, MailedIsInRange, MailedIsInRangeNext DEF Accepts, RecordMessaged, WakeInv,
       Notified, waitVars
<1>7. ASSUME NEW k \in Agents \cup {Client}, Cancels(k) PROVE WakeInv'
  BY <1>7, StepBasics, MailedIsInRange, MailedIsInRangeNext DEF Cancels, WakeInv, Notified, waitVars
<1>8. ASSUME NEW a \in Agents, EndsTurn(a), RecordTurned(a) PROVE WakeInv'
  BY <1>8, StepBasics, MailedIsInRange, MailedIsInRangeNext DEF EndsTurn, RecordTurned, WakeInv,
       Notified, waitVars
<1>9. ASSUME NEW a \in Agents, FailsTurn(a) PROVE WakeInv'
  BY <1>9, StepBasics, MailedIsInRange, MailedIsInRangeNext DEF FailsTurn, WakeInv, Notified,
       waitVars
<1>10. ASSUME NEW a \in Agents, ListsTree(a) PROVE WakeInv'
  BY <1>10, StepBasics, MailedIsInRange, MailedIsInRangeNext DEF ListsTree, WakeInv, Notified,
       waitVars
<1>11. ASSUME NEW a \in Agents, Ends(a), RecordEnded(a) PROVE WakeInv'
  BY <1>11, StepBasics, MailedIsInRange, MailedIsInRangeNext DEF Ends, RecordEnded, WakeInv,
       Notified, waitVars
<1>12. ASSUME NEW a \in Agents, Marks(a) PROVE WakeInv'
  BY <1>12, StepBasics, MailedIsInRange, MailedIsInRangeNext DEF Marks, RecordMarked, WakeInv,
       Notified, waitVars
<1>13. ASSUME NEW a \in Agents, Pushes(a) PROVE WakeInv'
  BY <1>13, StepBasics, MailedIsInRange, MailedIsInRangeNext DEF Pushes, WakeInv, Notified, waitVars
<1>14. ASSUME NEW a \in Agents, Notifies(a) PROVE WakeInv'
  BY <1>14, StepBasics, MailedIsInRange, MailedIsInRangeNext DEF Notifies, WakeInv, Notified,
       waitVars
<1>15. ASSUME NEW a \in Agents, Retires(a), ListRetained(a), FinishRetain(a) PROVE WakeInv'
  BY <1>15, StepBasics, MailedIsInRange, MailedIsInRangeNext DEF Retires, ListRetained, WakeInv,
       Notified, waitVars
<1>16. ASSUME NEW k \in Discarders, DropsRecords(k) PROVE WakeInv'
  BY <1>16, StepBasics, MailedIsInRange, MailedIsInRangeNext DEF DropsRecords, WakeInv, Notified,
       waitVars
<1>17. ASSUME NEW k \in Discarders, DropsResults(k) PROVE WakeInv'
  BY <1>17, StepBasics, MailedIsInRange, MailedIsInRangeNext DEF DropsResults, WakeInv, Notified,
       waitVars
<1>18. ASSUME NEW k \in Discarders, DropsRecent(k) PROVE WakeInv'
  BY <1>18, StepBasics, MailedIsInRange, MailedIsInRangeNext DEF DropsRecent, WakeInv, Notified,
       waitVars
<1> QED BY <1>1, <1>2, <1>3, <1>4, <1>5, <1>6, <1>7, <1>8, <1>9, <1>10, <1>11, <1>12, <1>13, <1>14,
     <1>15, <1>16, <1>17, <1>18
         DEF Step, Registering, Finishing, Discarding

\* Who closes admission keeps it closed until it opens it, if it does.
LEMMA AdmissionReopensStep ==
  ASSUME TypeOK, AdmissionReopens, Step, TypeOK'
  PROVE  AdmissionReopens'
<1> USE DEF RunPlaces, EndPlaces, TurnPlaces, KeepsClosed
<1>1. CASE Turning
  BY <1>1, StepBasics DEF Turning, AdmissionReopens
<1>2. CASE Sweeping
  BY <1>2, StepBasics DEF Sweeping, AdmissionReopens
<1>3. ASSUME NEW o \in Owners, Inserts(o), RecordInserted(o) PROVE AdmissionReopens'
  BY <1>3, StepBasics DEF Inserts, RecordInserted, AdmissionReopens
<1>4. ASSUME NEW o \in Owners, Attaches(o), RecordAttached(child[o]) PROVE AdmissionReopens'
  BY <1>4, StepBasics DEF Attaches, RecordAttached, AdmissionReopens
<1>5. ASSUME NEW o \in Owners, Looks(o), RecordsConsumed(o) PROVE AdmissionReopens'
  BY <1>5, StepBasics DEF Looks, RecordsConsumed, AdmissionReopens
<1>6. ASSUME NEW o \in Owners, NEW a \in Agents, Accepts(o, a), RecordMessaged(a) PROVE AdmissionReopens'
  BY <1>6, StepBasics DEF Accepts, RecordMessaged, AdmissionReopens
<1>7. ASSUME NEW k \in Agents \cup {Client}, Cancels(k) PROVE AdmissionReopens'
  BY <1>7, StepBasics DEF Cancels, AdmissionReopens
<1>8. ASSUME NEW a \in Agents, EndsTurn(a), RecordTurned(a) PROVE AdmissionReopens'
  BY <1>8, StepBasics DEF EndsTurn, RecordTurned, AdmissionReopens
<1>9. ASSUME NEW a \in Agents, FailsTurn(a) PROVE AdmissionReopens'
  BY <1>9, StepBasics DEF FailsTurn, AdmissionReopens
<1>10. ASSUME NEW a \in Agents, ListsTree(a) PROVE AdmissionReopens'
  BY <1>10, StepBasics DEF ListsTree, AdmissionReopens
<1>11. ASSUME NEW a \in Agents, Ends(a), RecordEnded(a) PROVE AdmissionReopens'
  BY <1>11, StepBasics DEF Ends, RecordEnded, AdmissionReopens
<1>12. ASSUME NEW a \in Agents, Marks(a) PROVE AdmissionReopens'
  BY <1>12, StepBasics DEF Marks, RecordMarked, AdmissionReopens
<1>13. ASSUME NEW a \in Agents, Pushes(a) PROVE AdmissionReopens'
  BY <1>13, StepBasics DEF Pushes, AdmissionReopens
<1>14. ASSUME NEW a \in Agents, Notifies(a) PROVE AdmissionReopens'
  BY <1>14, StepBasics DEF Notifies, AdmissionReopens
<1>15. ASSUME NEW a \in Agents, Retires(a), ListRetained(a), FinishRetain(a) PROVE AdmissionReopens'
  BY <1>15, StepBasics DEF Retires, ListRetained, AdmissionReopens
<1>16. ASSUME NEW k \in Discarders, DropsRecords(k) PROVE AdmissionReopens'
  BY <1>16, StepBasics DEF DropsRecords, AdmissionReopens
<1>17. ASSUME NEW k \in Discarders, DropsResults(k) PROVE AdmissionReopens'
  BY <1>17, StepBasics DEF DropsResults, AdmissionReopens
<1>18. ASSUME NEW k \in Discarders, DropsRecent(k) PROVE AdmissionReopens'
  BY <1>18, StepBasics DEF DropsRecent, AdmissionReopens
<1> QED BY <1>1, <1>2, <1>3, <1>4, <1>5, <1>6, <1>7, <1>8, <1>9, <1>10, <1>11, <1>12, <1>13, <1>14,
     <1>15, <1>16, <1>17, <1>18
         DEF Step, Registering, Finishing, Discarding

\* A discard drops registered agents only.
LEMMA DiscardedIsRegistered == RecordInv => Discarded \subseteq Registered
BY DEF RecordInv, Discarded

\* An agent leaves the map with its place in the list, or by a discard.
LEMMA ListInvStep ==
  ASSUME TypeOK, RecordInv, AttachInv, ListInv, Step, TypeOK'
  PROVE  ListInv'
<1> USE DEF RunPlaces, EndPlaces, TurnPlaces
<1>1. CASE Turning
  BY <1>1, StepBasics, DiscardedIsRegistered DEF Turning, ListInv, RecordInv
<1>2. CASE Sweeping
  BY <1>2, StepBasics, DiscardedIsRegistered DEF Sweeping, ListInv, RecordInv
<1>3. ASSUME NEW o \in Owners, Inserts(o), RecordInserted(o) PROVE ListInv'
  BY <1>3, StepBasics, DiscardedIsRegistered DEF Inserts, RecordInserted, ListInv, RecordInv
<1>4. ASSUME NEW o \in Owners, Attaches(o), RecordAttached(child[o]) PROVE ListInv'
  BY <1>4, StepBasics, DiscardedIsRegistered DEF Attaches, RecordAttached, ListInv, RecordInv
<1>5. ASSUME NEW o \in Owners, Looks(o), RecordsConsumed(o) PROVE ListInv'
  BY <1>5, StepBasics, DiscardedIsRegistered DEF Looks, RecordsConsumed, ListInv, RecordInv
<1>6. ASSUME NEW o \in Owners, NEW a \in Agents, Accepts(o, a), RecordMessaged(a) PROVE ListInv'
  BY <1>6, StepBasics, DiscardedIsRegistered DEF Accepts, RecordMessaged, ListInv, RecordInv
<1>7. ASSUME NEW k \in Agents \cup {Client}, Cancels(k) PROVE ListInv'
  BY <1>7, StepBasics, DiscardedIsRegistered DEF Cancels, ListInv, RecordInv
<1>8. ASSUME NEW a \in Agents, EndsTurn(a), RecordTurned(a) PROVE ListInv'
  BY <1>8, StepBasics, DiscardedIsRegistered DEF EndsTurn, RecordTurned, ListInv, RecordInv
<1>9. ASSUME NEW a \in Agents, FailsTurn(a) PROVE ListInv'
  BY <1>9, StepBasics, DiscardedIsRegistered DEF FailsTurn, ListInv, RecordInv
<1>10. ASSUME NEW a \in Agents, ListsTree(a) PROVE ListInv'
  BY <1>10, StepBasics, DiscardedIsRegistered DEF ListsTree, ListInv, RecordInv
<1>11. ASSUME NEW a \in Agents, Ends(a), RecordEnded(a) PROVE ListInv'
  BY <1>11, StepBasics, DiscardedIsRegistered DEF Ends, RecordEnded, ListInv, RecordInv
<1>12. ASSUME NEW a \in Agents, Marks(a) PROVE ListInv'
  BY <1>12, StepBasics, DiscardedIsRegistered DEF Marks, RecordMarked, ListInv, RecordInv
<1>13. ASSUME NEW a \in Agents, Pushes(a) PROVE ListInv'
  BY <1>13, StepBasics, DiscardedIsRegistered DEF Pushes, ListInv, RecordInv
<1>14. ASSUME NEW a \in Agents, Notifies(a) PROVE ListInv'
  BY <1>14, StepBasics, DiscardedIsRegistered DEF Notifies, ListInv, RecordInv
<1>15. ASSUME NEW a \in Agents, Retires(a), ListRetained(a), FinishRetain(a) PROVE ListInv'
  BY <1>15, StepBasics, DiscardedIsRegistered DEF Retires, ListRetained, ListInv, RecordInv
<1>16. ASSUME NEW k \in Discarders, DropsRecords(k) PROVE ListInv'
  BY <1>16, StepBasics, DiscardedIsRegistered DEF DropsRecords, ListInv, RecordInv
<1>17. ASSUME NEW k \in Discarders, DropsResults(k) PROVE ListInv'
  BY <1>17, StepBasics, DiscardedIsRegistered DEF DropsResults, ListInv, RecordInv
<1>18. ASSUME NEW k \in Discarders, DropsRecent(k) PROVE ListInv'
  BY <1>18, StepBasics, DiscardedIsRegistered DEF DropsRecent, ListInv, RecordInv
<1> QED BY <1>1, <1>2, <1>3, <1>4, <1>5, <1>6, <1>7, <1>8, <1>9, <1>10, <1>11, <1>12, <1>13, <1>14,
     <1>15, <1>16, <1>17, <1>18
         DEF Step, Registering, Finishing, Discarding

\* An agent pushes its result once.
LEMMA MailboxOnceStep ==
  ASSUME TypeOK, PermitInv, MailboxOnce, Step, TypeOK'
  PROVE  MailboxOnce'
<1> USE DEF RunPlaces, EndPlaces, TurnPlaces
<1>1. CASE Turning
  BY <1>1, StepBasics DEF Turning, MailboxOnce
<1>2. CASE Sweeping
  BY <1>2, StepBasics DEF Sweeping, MailboxOnce
<1>3. ASSUME NEW o \in Owners, Inserts(o), RecordInserted(o) PROVE MailboxOnce'
  BY <1>3, StepBasics DEF Inserts, RecordInserted, MailboxOnce
<1>4. ASSUME NEW o \in Owners, Attaches(o), RecordAttached(child[o]) PROVE MailboxOnce'
  BY <1>4, StepBasics DEF Attaches, RecordAttached, MailboxOnce
<1>5. ASSUME NEW o \in Owners, Looks(o), RecordsConsumed(o) PROVE MailboxOnce'
  BY <1>5, StepBasics DEF Looks, RecordsConsumed, MailboxOnce
<1>6. ASSUME NEW o \in Owners, NEW a \in Agents, Accepts(o, a), RecordMessaged(a) PROVE MailboxOnce'
  BY <1>6, StepBasics DEF Accepts, RecordMessaged, MailboxOnce
<1>7. ASSUME NEW k \in Agents \cup {Client}, Cancels(k) PROVE MailboxOnce'
  BY <1>7, StepBasics DEF Cancels, MailboxOnce
<1>8. ASSUME NEW a \in Agents, EndsTurn(a), RecordTurned(a) PROVE MailboxOnce'
  BY <1>8, StepBasics DEF EndsTurn, RecordTurned, MailboxOnce
<1>9. ASSUME NEW a \in Agents, FailsTurn(a) PROVE MailboxOnce'
  BY <1>9, StepBasics DEF FailsTurn, MailboxOnce
<1>10. ASSUME NEW a \in Agents, ListsTree(a) PROVE MailboxOnce'
  BY <1>10, StepBasics DEF ListsTree, MailboxOnce
<1>11. ASSUME NEW a \in Agents, Ends(a), RecordEnded(a) PROVE MailboxOnce'
  BY <1>11, StepBasics DEF Ends, RecordEnded, MailboxOnce
<1>12. ASSUME NEW a \in Agents, Marks(a) PROVE MailboxOnce'
  BY <1>12, StepBasics DEF Marks, RecordMarked, MailboxOnce
<1>13. ASSUME NEW a \in Agents, Pushes(a) PROVE MailboxOnce'
  <2>1. a \notin Range(mailbox)
    BY <1>13, MailedIsInRange DEF PermitInv, PermitOf, Pushed, Pushes
  <2> QED BY <1>13, <2>1 DEF Pushes, MailboxOnce
<1>14. ASSUME NEW a \in Agents, Notifies(a) PROVE MailboxOnce'
  BY <1>14, StepBasics DEF Notifies, MailboxOnce
<1>15. ASSUME NEW a \in Agents, Retires(a), ListRetained(a), FinishRetain(a) PROVE MailboxOnce'
  BY <1>15, StepBasics DEF Retires, ListRetained, MailboxOnce
<1>16. ASSUME NEW k \in Discarders, DropsRecords(k) PROVE MailboxOnce'
  BY <1>16, StepBasics DEF DropsRecords, MailboxOnce
<1>17. ASSUME NEW k \in Discarders, DropsResults(k) PROVE MailboxOnce'
  BY <1>17, StepBasics DEF DropsResults, MailboxOnce
<1>18. ASSUME NEW k \in Discarders, DropsRecent(k) PROVE MailboxOnce'
  BY <1>18, StepBasics DEF DropsRecent, MailboxOnce
<1> QED BY <1>1, <1>2, <1>3, <1>4, <1>5, <1>6, <1>7, <1>8, <1>9, <1>10, <1>11, <1>12, <1>13, <1>14,
     <1>15, <1>16, <1>17, <1>18
         DEF Step, Registering, Finishing, Discarding

\* The place in the mailbox goes from the admission to the mark, the push and one reader.
LEMMA PermitOfStep ==
  ASSUME TypeOK, RecordInv, AttachInv, ListInv, PermitInv, Step, TypeOK'
  PROVE  \A b \in Agents : PermitOf(b)'
<1> USE DEF RunPlaces, EndPlaces, TurnPlaces
<1>1. CASE Turning
  <2> SUFFICES ASSUME NEW b \in Agents PROVE PermitOf(b)'
    OBVIOUS
  <2>1. PermitOf(b)
    BY DEF PermitInv
  <2> QED BY <1>1, <2>1, StepBasics, DiscardedIsRegistered DEF Turning, PermitOf, Pushed, RecordInv,
       ListInv, Current, Visible, Running, Ended, Terminal, NoRecord
<1>2. CASE Sweeping
  <2> SUFFICES ASSUME NEW b \in Agents PROVE PermitOf(b)'
    OBVIOUS
  <2>1. PermitOf(b)
    BY DEF PermitInv
  <2> QED BY <1>2, <2>1, StepBasics, DiscardedIsRegistered DEF Sweeping, PermitOf, Pushed,
       RecordInv, ListInv, Current, Visible, Running, Ended, Terminal, NoRecord
<1>3. ASSUME NEW o \in Owners, Inserts(o), RecordInserted(o) PROVE \A b \in Agents : PermitOf(b)'
  <2> SUFFICES ASSUME NEW b \in Agents PROVE PermitOf(b)'
    OBVIOUS
  <2>1. PermitOf(b)
    BY DEF PermitInv
  <2> QED BY <1>3, <2>1, StepBasics, DiscardedIsRegistered DEF Inserts, RecordInserted, PermitOf,
       Pushed, RecordInv, ListInv, Current, Visible, Running, Ended, Terminal, NoRecord
<1>4. ASSUME NEW o \in Owners, Attaches(o), RecordAttached(child[o]) PROVE \A b \in Agents : PermitOf(b)'
  <2> SUFFICES ASSUME NEW b \in Agents PROVE PermitOf(b)'
    OBVIOUS
  <2>1. PermitOf(b)
    BY DEF PermitInv
  <2> QED BY <1>4, <2>1, StepBasics, DiscardedIsRegistered DEF Attaches, RecordAttached, PermitOf,
       Pushed, RecordInv, ListInv, Current, Visible, Running, Ended, Terminal, NoRecord
<1>5. ASSUME NEW o \in Owners, Looks(o), RecordsConsumed(o) PROVE \A b \in Agents : PermitOf(b)'
  <2> SUFFICES ASSUME NEW b \in Agents PROVE PermitOf(b)'
    OBVIOUS
  <2>1. PermitOf(b)
    BY DEF PermitInv
  <2>2. /\ pc[b] \in {"marked"} \cup Pushed => pc'[b] = pc[b]
        /\ pc'[b] \in {"marked"} \cup Pushed => pc'[b] = pc[b]
        /\ Mailed(b)' <=> Mailed(b) /\ b \notin filter[o]
        /\ records' = records /\ Discarded' = Discarded /\ generation' = generation
        /\ rec'[b].background = rec[b].background /\ rec'[b].gen = rec[b].gen
    BY <1>5, StepBasics DEF Looks, RecordsConsumed, Pushed
  <2>3. CASE b \in Ready(o)
    <3>1. Mailed(b) /\ b \in filter[o]
      BY <2>3 DEF Ready
    <3>2. ~rec'[b].pending /\ ~rec'[b].permit /\ delivered'[b] = 1
      BY <1>5, <2>1, <2>3, <3>1 DEF RecordsConsumed, PermitOf
    <3> QED BY <2>1, <2>2, <3>1, <3>2 DEF PermitOf, Pushed
  <2>4. CASE b \notin Ready(o)
    <3>1. rec'[b] = rec[b] /\ delivered'[b] = delivered[b]
      BY <1>5, <2>4 DEF RecordsConsumed
    <3>2. Mailed(b) /\ b \in filter[o] => ~Current(b)
      BY <2>1, <2>4 DEF Ready, Visible, Current, PermitOf
    <3> QED BY <2>1, <2>2, <3>1, <3>2 DEF PermitOf, Pushed, Current
  <2> QED BY <2>3, <2>4
<1>6. ASSUME NEW o \in Owners, NEW a \in Agents, Accepts(o, a), RecordMessaged(a) PROVE \A b \in Agents : PermitOf(b)'
  <2> SUFFICES ASSUME NEW b \in Agents PROVE PermitOf(b)'
    OBVIOUS
  <2>1. PermitOf(b)
    BY DEF PermitInv
  <2> QED BY <1>6, <2>1, StepBasics, DiscardedIsRegistered DEF Accepts, RecordMessaged, PermitOf,
       Pushed, RecordInv, ListInv, Current, Visible, Running, Ended, Terminal, NoRecord
<1>7. ASSUME NEW k \in Agents \cup {Client}, Cancels(k) PROVE \A b \in Agents : PermitOf(b)'
  <2> SUFFICES ASSUME NEW b \in Agents PROVE PermitOf(b)'
    OBVIOUS
  <2>1. PermitOf(b)
    BY DEF PermitInv
  <2> QED BY <1>7, <2>1, StepBasics, DiscardedIsRegistered DEF Cancels, PermitOf, Pushed, RecordInv,
       ListInv, Current, Visible, Running, Ended, Terminal, NoRecord
<1>8. ASSUME NEW a \in Agents, EndsTurn(a), RecordTurned(a) PROVE \A b \in Agents : PermitOf(b)'
  <2> SUFFICES ASSUME NEW b \in Agents PROVE PermitOf(b)'
    OBVIOUS
  <2>1. PermitOf(b)
    BY DEF PermitInv
  <2> QED BY <1>8, <2>1, StepBasics, DiscardedIsRegistered DEF EndsTurn, RecordTurned, PermitOf,
       Pushed, RecordInv, ListInv, Current, Visible, Running, Ended, Terminal, NoRecord
<1>9. ASSUME NEW a \in Agents, FailsTurn(a) PROVE \A b \in Agents : PermitOf(b)'
  <2> SUFFICES ASSUME NEW b \in Agents PROVE PermitOf(b)'
    OBVIOUS
  <2>1. PermitOf(b)
    BY DEF PermitInv
  <2> QED BY <1>9, <2>1, StepBasics, DiscardedIsRegistered DEF FailsTurn, PermitOf, Pushed,
       RecordInv, ListInv, Current, Visible, Running, Ended, Terminal, NoRecord
<1>10. ASSUME NEW a \in Agents, ListsTree(a) PROVE \A b \in Agents : PermitOf(b)'
  <2> SUFFICES ASSUME NEW b \in Agents PROVE PermitOf(b)'
    OBVIOUS
  <2>1. PermitOf(b)
    BY DEF PermitInv
  <2> QED BY <1>10, <2>1, StepBasics, DiscardedIsRegistered DEF ListsTree, PermitOf, Pushed,
       RecordInv, ListInv, Current, Visible, Running, Ended, Terminal, NoRecord
<1>11. ASSUME NEW a \in Agents, Ends(a), RecordEnded(a) PROVE \A b \in Agents : PermitOf(b)'
  <2> SUFFICES ASSUME NEW b \in Agents PROVE PermitOf(b)'
    OBVIOUS
  <2>1. PermitOf(b)
    BY DEF PermitInv
  <2> QED BY <1>11, <2>1, StepBasics, DiscardedIsRegistered DEF Ends, RecordEnded, PermitOf, Pushed,
       RecordInv, ListInv, Current, Visible, Running, Ended, Terminal, NoRecord
<1>12. ASSUME NEW a \in Agents, Marks(a) PROVE \A b \in Agents : PermitOf(b)'
  <2> SUFFICES ASSUME NEW b \in Agents PROVE PermitOf(b)'
    OBVIOUS
  <2>1. PermitOf(b)
    BY DEF PermitInv
  <2> QED BY <1>12, <2>1, StepBasics, DiscardedIsRegistered DEF Marks, RecordMarked, PermitOf,
       Pushed, RecordInv, ListInv, Current, Visible, Running, Ended, Terminal, NoRecord
<1>13. ASSUME NEW a \in Agents, Pushes(a) PROVE \A b \in Agents : PermitOf(b)'
  <2> SUFFICES ASSUME NEW b \in Agents PROVE PermitOf(b)'
    OBVIOUS
  <2>1. PermitOf(b)
    BY DEF PermitInv
  <2> QED BY <1>13, <2>1, StepBasics, DiscardedIsRegistered DEF Pushes, PermitOf, Pushed, RecordInv,
       ListInv, Current, Visible, Running, Ended, Terminal, NoRecord
<1>14. ASSUME NEW a \in Agents, Notifies(a) PROVE \A b \in Agents : PermitOf(b)'
  <2> SUFFICES ASSUME NEW b \in Agents PROVE PermitOf(b)'
    OBVIOUS
  <2>1. PermitOf(b)
    BY DEF PermitInv
  <2> QED BY <1>14, <2>1, StepBasics, DiscardedIsRegistered DEF Notifies, PermitOf, Pushed,
       RecordInv, ListInv, Current, Visible, Running, Ended, Terminal, NoRecord
<1>15. ASSUME NEW a \in Agents, Retires(a), ListRetained(a), FinishRetain(a) PROVE \A b \in Agents : PermitOf(b)'
  <2> SUFFICES ASSUME NEW b \in Agents PROVE PermitOf(b)'
    OBVIOUS
  <2>1. PermitOf(b)
    BY DEF PermitInv
  <2> QED BY <1>15, <2>1, StepBasics, DiscardedIsRegistered DEF Retires, ListRetained, PermitOf,
       Pushed, RecordInv, ListInv, Current, Visible, Running, Ended, Terminal, NoRecord
<1>16. ASSUME NEW k \in Discarders, DropsRecords(k) PROVE \A b \in Agents : PermitOf(b)'
  <2> SUFFICES ASSUME NEW b \in Agents PROVE PermitOf(b)'
    OBVIOUS
  <2>1. PermitOf(b)
    BY DEF PermitInv
  <2> QED BY <1>16, <2>1, StepBasics, DiscardedIsRegistered DEF DropsRecords, PermitOf, Pushed,
       RecordInv, ListInv, Current, Visible, Running, Ended, Terminal, NoRecord
<1>17. ASSUME NEW k \in Discarders, DropsResults(k) PROVE \A b \in Agents : PermitOf(b)'
  <2> SUFFICES ASSUME NEW b \in Agents PROVE PermitOf(b)'
    OBVIOUS
  <2>1. PermitOf(b)
    BY DEF PermitInv
  <2> QED BY <1>17, <2>1, StepBasics, DiscardedIsRegistered DEF DropsResults, PermitOf, Pushed,
       RecordInv, ListInv, Current, Visible, Running, Ended, Terminal, NoRecord
<1>18. ASSUME NEW k \in Discarders, DropsRecent(k) PROVE \A b \in Agents : PermitOf(b)'
  <2> SUFFICES ASSUME NEW b \in Agents PROVE PermitOf(b)'
    OBVIOUS
  <2>1. PermitOf(b)
    BY DEF PermitInv
  <2> QED BY <1>18, <2>1, StepBasics, DiscardedIsRegistered DEF DropsRecent, PermitOf, Pushed,
       RecordInv, ListInv, Current, Visible, Running, Ended, Terminal, NoRecord
<1> QED BY <1>1, <1>2, <1>3, <1>4, <1>5, <1>6, <1>7, <1>8, <1>9, <1>10, <1>11, <1>12, <1>13, <1>14,
     <1>15, <1>16, <1>17, <1>18
         DEF Step, Registering, Finishing, Discarding

\* An agent is an owner.
LEMMA OwnersOfAgents ==
  ASSUME TypeOK
  PROVE  /\ Agents \subseteq Owners /\ \A a \in Agents : rec[a].parent \in Owners /\ pc[a] \in Places
         /\ \A o \in Owners : o \in Agents \/ o = Main
BY RecordIsTyped DEF TypeOK, Owners

\* A task that has not started has its spawner at the attachment.
LEMMA PlacedStep ==
  ASSUME TypeOK, RecordInv, AttachInv, TreeInv, Step, TypeOK'
  PROVE  \A b \in Registered' : Placed(b)'
<1> USE DEF RunPlaces, EndPlaces, TurnPlaces
<1>1. CASE Turning
  <2> SUFFICES ASSUME NEW b \in Registered' PROVE Placed(b)'
    OBVIOUS
  <2> QED BY <1>1, StepBasics, OwnersOfAgents DEF Turning, Placed, TreeInv, RecordInv
<1>2. CASE Sweeping
  <2> SUFFICES ASSUME NEW b \in Registered' PROVE Placed(b)'
    OBVIOUS
  <2> QED BY <1>2, StepBasics, OwnersOfAgents DEF Sweeping, Placed, TreeInv, RecordInv
<1>3. ASSUME NEW o \in Owners, Inserts(o), RecordInserted(o) PROVE \A b \in Registered' : Placed(b)'
  <2> SUFFICES ASSUME NEW b \in Registered' PROVE Placed(b)'
    OBVIOUS
  <2> QED BY <1>3, StepBasics, OwnersOfAgents DEF Inserts, RecordInserted, Placed, TreeInv,
       RecordInv
<1>4. ASSUME NEW o \in Owners, Attaches(o), RecordAttached(child[o]) PROVE \A b \in Registered' : Placed(b)'
  <2> SUFFICES ASSUME NEW b \in Registered' PROVE Placed(b)'
    OBVIOUS
  <2> QED BY <1>4, StepBasics, OwnersOfAgents DEF Attaches, RecordAttached, Placed, TreeInv,
       RecordInv
<1>5. ASSUME NEW o \in Owners, Looks(o), RecordsConsumed(o) PROVE \A b \in Registered' : Placed(b)'
  <2> SUFFICES ASSUME NEW b \in Registered' PROVE Placed(b)'
    OBVIOUS
  <2> QED BY <1>5, StepBasics, OwnersOfAgents DEF Looks, RecordsConsumed, Placed, TreeInv, RecordInv
<1>6. ASSUME NEW o \in Owners, NEW a \in Agents, Accepts(o, a), RecordMessaged(a) PROVE \A b \in Registered' : Placed(b)'
  <2> SUFFICES ASSUME NEW b \in Registered' PROVE Placed(b)'
    OBVIOUS
  <2> QED BY <1>6, StepBasics, OwnersOfAgents DEF Accepts, RecordMessaged, Placed, TreeInv,
       RecordInv
<1>7. ASSUME NEW k \in Agents \cup {Client}, Cancels(k) PROVE \A b \in Registered' : Placed(b)'
  <2> SUFFICES ASSUME NEW b \in Registered' PROVE Placed(b)'
    OBVIOUS
  <2> QED BY <1>7, StepBasics, OwnersOfAgents DEF Cancels, Placed, TreeInv, RecordInv
<1>8. ASSUME NEW a \in Agents, EndsTurn(a), RecordTurned(a) PROVE \A b \in Registered' : Placed(b)'
  <2> SUFFICES ASSUME NEW b \in Registered' PROVE Placed(b)'
    OBVIOUS
  <2> QED BY <1>8, StepBasics, OwnersOfAgents DEF EndsTurn, RecordTurned, Placed, TreeInv, RecordInv
<1>9. ASSUME NEW a \in Agents, FailsTurn(a) PROVE \A b \in Registered' : Placed(b)'
  <2> SUFFICES ASSUME NEW b \in Registered' PROVE Placed(b)'
    OBVIOUS
  <2> QED BY <1>9, StepBasics, OwnersOfAgents DEF FailsTurn, Placed, TreeInv, RecordInv
<1>10. ASSUME NEW a \in Agents, ListsTree(a) PROVE \A b \in Registered' : Placed(b)'
  <2> SUFFICES ASSUME NEW b \in Registered' PROVE Placed(b)'
    OBVIOUS
  <2> QED BY <1>10, StepBasics, OwnersOfAgents DEF ListsTree, Placed, TreeInv, RecordInv
<1>11. ASSUME NEW a \in Agents, Ends(a), RecordEnded(a) PROVE \A b \in Registered' : Placed(b)'
  <2> SUFFICES ASSUME NEW b \in Registered' PROVE Placed(b)'
    OBVIOUS
  <2> QED BY <1>11, StepBasics, OwnersOfAgents DEF Ends, RecordEnded, Placed, TreeInv, RecordInv
<1>12. ASSUME NEW a \in Agents, Marks(a) PROVE \A b \in Registered' : Placed(b)'
  <2> SUFFICES ASSUME NEW b \in Registered' PROVE Placed(b)'
    OBVIOUS
  <2> QED BY <1>12, StepBasics, OwnersOfAgents DEF Marks, RecordMarked, Placed, TreeInv, RecordInv
<1>13. ASSUME NEW a \in Agents, Pushes(a) PROVE \A b \in Registered' : Placed(b)'
  <2> SUFFICES ASSUME NEW b \in Registered' PROVE Placed(b)'
    OBVIOUS
  <2> QED BY <1>13, StepBasics, OwnersOfAgents DEF Pushes, Placed, TreeInv, RecordInv
<1>14. ASSUME NEW a \in Agents, Notifies(a) PROVE \A b \in Registered' : Placed(b)'
  <2> SUFFICES ASSUME NEW b \in Registered' PROVE Placed(b)'
    OBVIOUS
  <2> QED BY <1>14, StepBasics, OwnersOfAgents DEF Notifies, Placed, TreeInv, RecordInv
<1>15. ASSUME NEW a \in Agents, Retires(a), ListRetained(a), FinishRetain(a) PROVE \A b \in Registered' : Placed(b)'
  <2> SUFFICES ASSUME NEW b \in Registered' PROVE Placed(b)'
    OBVIOUS
  <2> QED BY <1>15, StepBasics, OwnersOfAgents DEF Retires, ListRetained, Placed, TreeInv, RecordInv
<1>16. ASSUME NEW k \in Discarders, DropsRecords(k) PROVE \A b \in Registered' : Placed(b)'
  <2> SUFFICES ASSUME NEW b \in Registered' PROVE Placed(b)'
    OBVIOUS
  <2> QED BY <1>16, StepBasics, OwnersOfAgents DEF DropsRecords, Placed, TreeInv, RecordInv
<1>17. ASSUME NEW k \in Discarders, DropsResults(k) PROVE \A b \in Registered' : Placed(b)'
  <2> SUFFICES ASSUME NEW b \in Registered' PROVE Placed(b)'
    OBVIOUS
  <2> QED BY <1>17, StepBasics, OwnersOfAgents DEF DropsResults, Placed, TreeInv, RecordInv
<1>18. ASSUME NEW k \in Discarders, DropsRecent(k) PROVE \A b \in Registered' : Placed(b)'
  <2> SUFFICES ASSUME NEW b \in Registered' PROVE Placed(b)'
    OBVIOUS
  <2> QED BY <1>18, StepBasics, OwnersOfAgents DEF DropsRecent, Placed, TreeInv, RecordInv
<1> QED BY <1>1, <1>2, <1>3, <1>4, <1>5, <1>6, <1>7, <1>8, <1>9, <1>10, <1>11, <1>12, <1>13, <1>14,
     <1>15, <1>16, <1>17, <1>18
         DEF Step, Registering, Finishing, Discarding

\* A child is younger than its parent, and its path goes on from the parent's while that
\* is in the map.
LEMMA DescendsStep ==
  ASSUME TypeOK, RecordInv, AttachInv, ListInv, TreeInv, Step, TypeOK'
  PROVE  \A b \in Registered' : Descends(b)'
<1> USE DEF RunPlaces, EndPlaces, TurnPlaces
<1>1. CASE Turning
  <2> SUFFICES ASSUME NEW b \in Registered' PROVE Descends(b)'
    OBVIOUS
  <2> QED BY <1>1, StepBasics, RegisteredIds, OwnersOfAgents DEF Turning, Descends, TreeInv,
       RecordInv, ListInv, Spawner
<1>2. CASE Sweeping
  <2> SUFFICES ASSUME NEW b \in Registered' PROVE Descends(b)'
    OBVIOUS
  <2> QED BY <1>2, StepBasics, RegisteredIds, OwnersOfAgents DEF Sweeping, Descends, TreeInv,
       RecordInv, ListInv, Spawner
<1>3. ASSUME NEW o \in Owners, Inserts(o), RecordInserted(o) PROVE \A b \in Registered' : Descends(b)'
  <2> SUFFICES ASSUME NEW b \in Registered', Spawner(b)' PROVE Descends(b)'
    BY DEF Descends
  <2>1. Registered' = Registered \cup {next_id} /\ next_id \notin Registered /\ next_id \in Agents
    BY <1>3, StepBasics DEF Inserts, RecordInserted
  <2>2. CASE b = next_id
    <3>1. rec'[b].parent = o /\ rec'[b].gen = generation /\ rec'[b].path = PathUnder(o, next_id)
      BY <1>3, <2>2 DEF RecordInserted
    <3>2. o \in Agents
      BY <3>1 DEF Spawner
    <3>3. o \in Registered /\ pc[o] # "done"
      BY <1>3, <3>2 DEF RecordInv, Inserts
    <3>4. o < next_id /\ rec'[o] = rec[o] /\ rec[o].gen <= generation
      BY <1>3, <2>1, <3>2, <3>3, RegisteredIds DEF RecordInserted, RecordInv
    <3>5. o \notin Discarded' => rec[o].path \subseteq PathUnder(o, next_id)
      <4>1. Discarded' = Discarded
        BY <1>3, StepBasics DEF Inserts
      <4>2. o \notin Discarded => o \in records
        BY <3>3 DEF ListInv
      <4> QED BY <4>1, <4>2 DEF PathUnder
    <3> QED BY <2>2, <3>1, <3>4, <3>5 DEF Descends
  <2>3. CASE b # next_id
    <3>1. b \in Registered /\ rec'[b] = rec[b] /\ Spawner(b) /\ Descends(b)
      BY <1>3, <2>1, <2>3, StepBasics DEF RecordInserted, TreeInv, Spawner
    <3>2. rec[b].parent \in Agents /\ rec[b].parent # next_id
      BY <3>1, RegisteredIds DEF Descends, Spawner
    <3>3. rec'[rec[b].parent] = rec[rec[b].parent] /\ Discarded' = Discarded
      BY <1>3, <3>2, StepBasics DEF Inserts, RecordInserted
    <3> QED BY <3>1, <3>3 DEF Descends, Spawner
  <2> QED BY <2>2, <2>3
<1>4. ASSUME NEW o \in Owners, Attaches(o), RecordAttached(child[o]) PROVE \A b \in Registered' : Descends(b)'
  <2> SUFFICES ASSUME NEW b \in Registered' PROVE Descends(b)'
    OBVIOUS
  <2> QED BY <1>4, StepBasics, RegisteredIds, OwnersOfAgents DEF Attaches, RecordAttached, Descends,
       TreeInv, RecordInv, ListInv, Spawner
<1>5. ASSUME NEW o \in Owners, Looks(o), RecordsConsumed(o) PROVE \A b \in Registered' : Descends(b)'
  <2> SUFFICES ASSUME NEW b \in Registered' PROVE Descends(b)'
    OBVIOUS
  <2> QED BY <1>5, StepBasics, RegisteredIds, OwnersOfAgents DEF Looks, RecordsConsumed, Descends,
       TreeInv, RecordInv, ListInv, Spawner
<1>6. ASSUME NEW o \in Owners, NEW a \in Agents, Accepts(o, a), RecordMessaged(a) PROVE \A b \in Registered' : Descends(b)'
  <2> SUFFICES ASSUME NEW b \in Registered' PROVE Descends(b)'
    OBVIOUS
  <2> QED BY <1>6, StepBasics, RegisteredIds, OwnersOfAgents DEF Accepts, RecordMessaged, Descends,
       TreeInv, RecordInv, ListInv, Spawner
<1>7. ASSUME NEW k \in Agents \cup {Client}, Cancels(k) PROVE \A b \in Registered' : Descends(b)'
  <2> SUFFICES ASSUME NEW b \in Registered' PROVE Descends(b)'
    OBVIOUS
  <2> QED BY <1>7, StepBasics, RegisteredIds, OwnersOfAgents DEF Cancels, Descends, TreeInv,
       RecordInv, ListInv, Spawner
<1>8. ASSUME NEW a \in Agents, EndsTurn(a), RecordTurned(a) PROVE \A b \in Registered' : Descends(b)'
  <2> SUFFICES ASSUME NEW b \in Registered' PROVE Descends(b)'
    OBVIOUS
  <2> QED BY <1>8, StepBasics, RegisteredIds, OwnersOfAgents DEF EndsTurn, RecordTurned, Descends,
       TreeInv, RecordInv, ListInv, Spawner
<1>9. ASSUME NEW a \in Agents, FailsTurn(a) PROVE \A b \in Registered' : Descends(b)'
  <2> SUFFICES ASSUME NEW b \in Registered' PROVE Descends(b)'
    OBVIOUS
  <2> QED BY <1>9, StepBasics, RegisteredIds, OwnersOfAgents DEF FailsTurn, Descends, TreeInv,
       RecordInv, ListInv, Spawner
<1>10. ASSUME NEW a \in Agents, ListsTree(a) PROVE \A b \in Registered' : Descends(b)'
  <2> SUFFICES ASSUME NEW b \in Registered' PROVE Descends(b)'
    OBVIOUS
  <2> QED BY <1>10, StepBasics, RegisteredIds, OwnersOfAgents DEF ListsTree, Descends, TreeInv,
       RecordInv, ListInv, Spawner
<1>11. ASSUME NEW a \in Agents, Ends(a), RecordEnded(a) PROVE \A b \in Registered' : Descends(b)'
  <2> SUFFICES ASSUME NEW b \in Registered' PROVE Descends(b)'
    OBVIOUS
  <2> QED BY <1>11, StepBasics, RegisteredIds, OwnersOfAgents DEF Ends, RecordEnded, Descends,
       TreeInv, RecordInv, ListInv, Spawner
<1>12. ASSUME NEW a \in Agents, Marks(a) PROVE \A b \in Registered' : Descends(b)'
  <2> SUFFICES ASSUME NEW b \in Registered' PROVE Descends(b)'
    OBVIOUS
  <2> QED BY <1>12, StepBasics, RegisteredIds, OwnersOfAgents DEF Marks, RecordMarked, Descends,
       TreeInv, RecordInv, ListInv, Spawner
<1>13. ASSUME NEW a \in Agents, Pushes(a) PROVE \A b \in Registered' : Descends(b)'
  <2> SUFFICES ASSUME NEW b \in Registered' PROVE Descends(b)'
    OBVIOUS
  <2> QED BY <1>13, StepBasics, RegisteredIds, OwnersOfAgents DEF Pushes, Descends, TreeInv,
       RecordInv, ListInv, Spawner
<1>14. ASSUME NEW a \in Agents, Notifies(a) PROVE \A b \in Registered' : Descends(b)'
  <2> SUFFICES ASSUME NEW b \in Registered' PROVE Descends(b)'
    OBVIOUS
  <2> QED BY <1>14, StepBasics, RegisteredIds, OwnersOfAgents DEF Notifies, Descends, TreeInv,
       RecordInv, ListInv, Spawner
<1>15. ASSUME NEW a \in Agents, Retires(a), ListRetained(a), FinishRetain(a) PROVE \A b \in Registered' : Descends(b)'
  <2> SUFFICES ASSUME NEW b \in Registered' PROVE Descends(b)'
    OBVIOUS
  <2> QED BY <1>15, StepBasics, RegisteredIds, OwnersOfAgents DEF Retires, ListRetained, Descends,
       TreeInv, RecordInv, ListInv, Spawner
<1>16. ASSUME NEW k \in Discarders, DropsRecords(k) PROVE \A b \in Registered' : Descends(b)'
  <2> SUFFICES ASSUME NEW b \in Registered' PROVE Descends(b)'
    OBVIOUS
  <2> QED BY <1>16, StepBasics, RegisteredIds, OwnersOfAgents DEF DropsRecords, Descends, TreeInv,
       RecordInv, ListInv, Spawner
<1>17. ASSUME NEW k \in Discarders, DropsResults(k) PROVE \A b \in Registered' : Descends(b)'
  <2> SUFFICES ASSUME NEW b \in Registered' PROVE Descends(b)'
    OBVIOUS
  <2> QED BY <1>17, StepBasics, RegisteredIds, OwnersOfAgents DEF DropsResults, Descends, TreeInv,
       RecordInv, ListInv, Spawner
<1>18. ASSUME NEW k \in Discarders, DropsRecent(k) PROVE \A b \in Registered' : Descends(b)'
  <2> SUFFICES ASSUME NEW b \in Registered' PROVE Descends(b)'
    OBVIOUS
  <2> QED BY <1>18, StepBasics, RegisteredIds, OwnersOfAgents DEF DropsRecent, Descends, TreeInv,
       RecordInv, ListInv, Spawner
<1> QED BY <1>1, <1>2, <1>3, <1>4, <1>5, <1>6, <1>7, <1>8, <1>9, <1>10, <1>11, <1>12, <1>13, <1>14,
     <1>15, <1>16, <1>17, <1>18
         DEF Step, Registering, Finishing, Discarding

\* A child that runs has a parent that runs, too, or that has put it on its list of
\* descendants, or was cancelled.
LEMMA FollowsStep ==
  ASSUME TypeOK, RecordInv, AttachInv, ListInv, TreeInv, Step, TypeOK'
  PROVE  \A b \in Registered' : Follows(b)'
<1> USE DEF RunPlaces, EndPlaces, TurnPlaces
<1>1. CASE Turning
  <2> SUFFICES ASSUME NEW b \in Registered' PROVE Follows(b)'
    OBVIOUS
  <2> QED BY <1>1, StepBasics, RegisteredIds, OwnersOfAgents DEF Turning, Follows, TreeInv,
       RecordInv, ListInv, Placed, Descends, Spawner, Current, Running, Ended, Terminal, Visible
<1>2. CASE Sweeping
  <2> SUFFICES ASSUME NEW b \in Registered' PROVE Follows(b)'
    OBVIOUS
  <2> QED BY <1>2, StepBasics, RegisteredIds, OwnersOfAgents DEF Sweeping, Follows, TreeInv,
       RecordInv, ListInv, Placed, Descends, Spawner, Current, Running, Ended, Terminal, Visible
<1>3. ASSUME NEW o \in Owners, Inserts(o), RecordInserted(o) PROVE \A b \in Registered' : Follows(b)'
  <2> SUFFICES ASSUME NEW b \in Registered' PROVE Follows(b)'
    OBVIOUS
  <2> QED BY <1>3, StepBasics, RegisteredIds, OwnersOfAgents DEF Inserts, RecordInserted, Follows,
       TreeInv, RecordInv, ListInv, Placed, Descends, Spawner, Current, Running, Ended, Terminal,
       Visible
<1>4. ASSUME NEW o \in Owners, Attaches(o), RecordAttached(child[o]) PROVE \A b \in Registered' : Follows(b)'
  <2> SUFFICES ASSUME NEW b \in Registered' PROVE Follows(b)'
    OBVIOUS
  <2> QED BY <1>4, StepBasics, RegisteredIds, OwnersOfAgents DEF Attaches, RecordAttached, Follows,
       TreeInv, RecordInv, ListInv, Placed, Descends, Spawner, Current, Running, Ended, Terminal,
       Visible
<1>5. ASSUME NEW o \in Owners, Looks(o), RecordsConsumed(o) PROVE \A b \in Registered' : Follows(b)'
  <2> SUFFICES ASSUME NEW b \in Registered' PROVE Follows(b)'
    OBVIOUS
  <2> QED BY <1>5, StepBasics, RegisteredIds, OwnersOfAgents DEF Looks, RecordsConsumed, Follows,
       TreeInv, RecordInv, ListInv, Placed, Descends, Spawner, Current, Running, Ended, Terminal,
       Visible
<1>6. ASSUME NEW o \in Owners, NEW a \in Agents, Accepts(o, a), RecordMessaged(a) PROVE \A b \in Registered' : Follows(b)'
  <2> SUFFICES ASSUME NEW b \in Registered' PROVE Follows(b)'
    OBVIOUS
  <2> QED BY <1>6, StepBasics, RegisteredIds, OwnersOfAgents DEF Accepts, RecordMessaged, Follows,
       TreeInv, RecordInv, ListInv, Placed, Descends, Spawner, Current, Running, Ended, Terminal,
       Visible
<1>7. ASSUME NEW k \in Agents \cup {Client}, Cancels(k) PROVE \A b \in Registered' : Follows(b)'
  <2> SUFFICES ASSUME NEW b \in Registered', Spawner(b)', Running(b)', Current(rec[b].parent)', Current(b)'
               PROVE  \/ b \in cancelled'
                      \/ pc'[rec'[b].parent] \in ({"none"} \cup RunPlaces) \ {"descendants"}
                      \/ pc'[rec'[b].parent] = "descendants" /\ b \in stopping'[rec'[b].parent]
    BY DEF Follows
  <2> DEFINE parent == rec[b].parent
  <2>1. /\ b \in Registered /\ b \in Agents /\ parent \in Agents
        /\ rec' = rec /\ cancelled \subseteq cancelled' /\ records' = records
        /\ Running(b) /\ Current(parent) /\ Current(b)
    BY <1>7, StepBasics DEF Cancels, Spawner, Running, Current
  <2>2. Placed(b) /\ Descends(b) /\ Follows(b)
    BY <2>1 DEF TreeInv
  <2>3. pc[b] \in {"none"} \cup RunPlaces /\ b \in records
    BY <2>1, OwnersOfAgents DEF RecordInv, ListInv, Current, Places, Running, Ended, Terminal
  <2>4. \/ b \in cancelled
        \/ pc[parent] \in ({"none"} \cup RunPlaces) \ {"descendants"}
        \/ pc[parent] = "descendants" /\ b \in stopping[parent]
    BY <2>1, <2>2 DEF Follows, Spawner
  <2>5. CASE b \in cancelled
    BY <2>1, <2>5
  <2>6. CASE pc[parent] \in ({"none"} \cup RunPlaces) \ {"descendants"}
    BY <1>7, <2>1, <2>6 DEF Cancels
  <2>7. CASE pc[parent] = "descendants" /\ b \in stopping[parent]
    <3>1. rec[b].active
      BY <2>2, <2>3, <2>7 DEF Placed
    <3>2. Visible(b)
      BY <2>1, <2>3 DEF Visible, Current
    <3> QED BY <1>7, <2>1, <2>7, <3>1, <3>2 DEF Cancels
  <2> QED BY <2>4, <2>5, <2>6, <2>7
<1>8. ASSUME NEW a \in Agents, EndsTurn(a), RecordTurned(a) PROVE \A b \in Registered' : Follows(b)'
  <2> SUFFICES ASSUME NEW b \in Registered' PROVE Follows(b)'
    OBVIOUS
  <2> QED BY <1>8, StepBasics, RegisteredIds, OwnersOfAgents DEF EndsTurn, RecordTurned, Follows,
       TreeInv, RecordInv, ListInv, Placed, Descends, Spawner, Current, Running, Ended, Terminal,
       Visible
<1>9. ASSUME NEW a \in Agents, FailsTurn(a) PROVE \A b \in Registered' : Follows(b)'
  <2> SUFFICES ASSUME NEW b \in Registered' PROVE Follows(b)'
    OBVIOUS
  <2> QED BY <1>9, StepBasics, RegisteredIds, OwnersOfAgents DEF FailsTurn, Follows, TreeInv,
       RecordInv, ListInv, Placed, Descends, Spawner, Current, Running, Ended, Terminal, Visible
<1>10. ASSUME NEW a \in Agents, ListsTree(a) PROVE \A b \in Registered' : Follows(b)'
  <2> SUFFICES ASSUME NEW b \in Registered', Spawner(b)', Running(b)', Current(rec[b].parent)', Current(b)'
               PROVE  \/ b \in cancelled'
                      \/ pc'[rec'[b].parent] \in ({"none"} \cup RunPlaces) \ {"descendants"}
                      \/ pc'[rec'[b].parent] = "descendants" /\ b \in stopping'[rec'[b].parent]
    BY DEF Follows
  <2> DEFINE parent == rec[b].parent
  <2>1. /\ b \in Registered /\ b \in Agents /\ parent \in Agents
        /\ rec' = rec /\ cancelled \subseteq cancelled' /\ records' = records
        /\ Running(b) /\ Current(parent) /\ Current(b)
    BY <1>10, StepBasics DEF ListsTree, Spawner, Running, Current
  <2>2. Placed(b) /\ Descends(b) /\ Follows(b)
    BY <2>1 DEF TreeInv
  <2>3. pc[b] \in {"none"} \cup RunPlaces /\ b \in records
    BY <2>1, OwnersOfAgents DEF RecordInv, ListInv, Current, Places, Running, Ended, Terminal
  <2>4. \/ b \in cancelled
        \/ pc[parent] \in ({"none"} \cup RunPlaces) \ {"descendants"}
        \/ pc[parent] = "descendants" /\ b \in stopping[parent]
    BY <2>1, <2>2 DEF Follows, Spawner
  <2>5. CASE parent # a
    BY <1>10, <2>1, <2>4, <2>5, OwnersOfAgents DEF ListsTree
  <2>6. CASE parent = a
    <3>1. Visible(a) /\ Visible(b)
      BY <1>10, <2>1, <2>3, <2>6, RegisteredIds DEF Visible, Current, ListsTree, ListInv, RecordInv
    <3>2. rec[a].path \subseteq rec[b].path /\ b # a
      BY <2>1, <2>2, <2>6, RegisteredIds DEF Descends, Current, Spawner
    <3>3. b \in Descendants(a)
      BY <2>1, <3>1, <3>2 DEF Descendants, Subtree
    <3> QED BY <1>10, <2>1, <2>6, <3>1, <3>3, OwnersOfAgents DEF ListsTree
  <2> QED BY <2>5, <2>6
<1>11. ASSUME NEW a \in Agents, Ends(a), RecordEnded(a) PROVE \A b \in Registered' : Follows(b)'
  <2> SUFFICES ASSUME NEW b \in Registered' PROVE Follows(b)'
    OBVIOUS
  <2> QED BY <1>11, StepBasics, RegisteredIds, OwnersOfAgents DEF Ends, RecordEnded, Follows,
       TreeInv, RecordInv, ListInv, Placed, Descends, Spawner, Current, Running, Ended, Terminal,
       Visible
<1>12. ASSUME NEW a \in Agents, Marks(a) PROVE \A b \in Registered' : Follows(b)'
  <2> SUFFICES ASSUME NEW b \in Registered' PROVE Follows(b)'
    OBVIOUS
  <2> QED BY <1>12, StepBasics, RegisteredIds, OwnersOfAgents DEF Marks, RecordMarked, Follows,
       TreeInv, RecordInv, ListInv, Placed, Descends, Spawner, Current, Running, Ended, Terminal,
       Visible
<1>13. ASSUME NEW a \in Agents, Pushes(a) PROVE \A b \in Registered' : Follows(b)'
  <2> SUFFICES ASSUME NEW b \in Registered' PROVE Follows(b)'
    OBVIOUS
  <2> QED BY <1>13, StepBasics, RegisteredIds, OwnersOfAgents DEF Pushes, Follows, TreeInv,
       RecordInv, ListInv, Placed, Descends, Spawner, Current, Running, Ended, Terminal, Visible
<1>14. ASSUME NEW a \in Agents, Notifies(a) PROVE \A b \in Registered' : Follows(b)'
  <2> SUFFICES ASSUME NEW b \in Registered' PROVE Follows(b)'
    OBVIOUS
  <2> QED BY <1>14, StepBasics, RegisteredIds, OwnersOfAgents DEF Notifies, Follows, TreeInv,
       RecordInv, ListInv, Placed, Descends, Spawner, Current, Running, Ended, Terminal, Visible
<1>15. ASSUME NEW a \in Agents, Retires(a), ListRetained(a), FinishRetain(a) PROVE \A b \in Registered' : Follows(b)'
  <2> SUFFICES ASSUME NEW b \in Registered' PROVE Follows(b)'
    OBVIOUS
  <2> QED BY <1>15, StepBasics, RegisteredIds, OwnersOfAgents DEF Retires, ListRetained, Follows,
       TreeInv, RecordInv, ListInv, Placed, Descends, Spawner, Current, Running, Ended, Terminal,
       Visible
<1>16. ASSUME NEW k \in Discarders, DropsRecords(k) PROVE \A b \in Registered' : Follows(b)'
  <2> SUFFICES ASSUME NEW b \in Registered' PROVE Follows(b)'
    OBVIOUS
  <2> QED BY <1>16, StepBasics, RegisteredIds, OwnersOfAgents DEF DropsRecords, Follows, TreeInv,
       RecordInv, ListInv, Placed, Descends, Spawner, Current, Running, Ended, Terminal, Visible
<1>17. ASSUME NEW k \in Discarders, DropsResults(k) PROVE \A b \in Registered' : Follows(b)'
  <2> SUFFICES ASSUME NEW b \in Registered' PROVE Follows(b)'
    OBVIOUS
  <2> QED BY <1>17, StepBasics, RegisteredIds, OwnersOfAgents DEF DropsResults, Follows, TreeInv,
       RecordInv, ListInv, Placed, Descends, Spawner, Current, Running, Ended, Terminal, Visible
<1>18. ASSUME NEW k \in Discarders, DropsRecent(k) PROVE \A b \in Registered' : Follows(b)'
  <2> SUFFICES ASSUME NEW b \in Registered' PROVE Follows(b)'
    OBVIOUS
  <2> QED BY <1>18, StepBasics, RegisteredIds, OwnersOfAgents DEF DropsRecent, Follows, TreeInv,
       RecordInv, ListInv, Placed, Descends, Spawner, Current, Running, Ended, Terminal, Visible
<1> QED BY <1>1, <1>2, <1>3, <1>4, <1>5, <1>6, <1>7, <1>8, <1>9, <1>10, <1>11, <1>12, <1>13, <1>14,
     <1>15, <1>16, <1>17, <1>18
         DEF Step, Registering, Finishing, Discarding

--------------------------------------------------------------------------------
\* The permits.
Live == {a \in Agents : Running(a)}
Reserving == {o \in Owners : pc[o] \in {"reserved", "reserved_bg"}}
Holding == {a \in Agents : rec[a].permit /\ (a \in records \/ pc[a] # "done")}
Backing == {o \in Owners : pc[o] = "reserved_bg"}

\* Sets that do not grow together hold no more.
LEMMA SmallerSum ==
  ASSUME NEW S, NEW T, IsFiniteSet(S), IsFiniteSet(T),
         NEW U \in SUBSET S, NEW V \in SUBSET T
  PROVE  /\ Cardinality(U) + Cardinality(V) <= Cardinality(S) + Cardinality(T)
         /\ Cardinality(U) + Cardinality(V) \in Nat
         /\ Cardinality(S) + Cardinality(T) \in Nat
<1>1. IsFiniteSet(U) /\ Cardinality(U) <= Cardinality(S)
  BY FS_Subset
<1>2. IsFiniteSet(V) /\ Cardinality(V) <= Cardinality(T)
  BY FS_Subset
<1>3. /\ Cardinality(U) \in Nat /\ Cardinality(V) \in Nat
      /\ Cardinality(S) \in Nat /\ Cardinality(T) \in Nat
  BY <1>1, <1>2, FS_CardinalityType
<1> QED BY <1>1, <1>2, <1>3

\* What the limits count is finite, before and after a step.
LEMMA RoomIsFinite ==
  /\ IsFiniteSet(Live) /\ IsFiniteSet(Reserving) /\ IsFiniteSet(Holding) /\ IsFiniteSet(Backing)
  /\ LiveHeld = Cardinality(Live) + Cardinality(Reserving)
  /\ MailboxHeld = Cardinality(Holding) + Cardinality(Backing)
  /\ LiveHeld' = Cardinality(Live') + Cardinality(Reserving')
  /\ MailboxHeld' = Cardinality(Holding') + Cardinality(Backing')
<1>1. Live \subseteq Agents /\ Holding \subseteq Agents /\ Reserving \subseteq Owners /\ Backing \subseteq Owners
  BY DEF Live, Holding, Reserving, Backing
<1>2. IsFiniteSet(Live) /\ IsFiniteSet(Holding)
  BY <1>1, AgentsAreFinite, FS_Subset
<1>3. IsFiniteSet(Reserving) /\ IsFiniteSet(Backing)
  BY <1>1, AgentsAreFinite, FS_Subset
<1>4. /\ LiveHeld = Cardinality(Live) + Cardinality(Reserving)
      /\ LiveHeld' = Cardinality(Live') + Cardinality(Reserving')
  BY DEF LiveHeld, Live, Reserving
<1>5. /\ MailboxHeld = Cardinality(Holding) + Cardinality(Backing)
      /\ MailboxHeld' = Cardinality(Holding') + Cardinality(Backing')
  BY DEF MailboxHeld, Holding, Backing
<1> QED BY <1>2, <1>3, <1>4, <1>5

\* A step that admits nobody takes no permit.
LEMMA RoomKept ==
  ASSUME TypeOK, RoomInv, UNCHANGED setting,
         \A a \in Agents : /\ Running(a)' => Running(a)
                           /\ rec'[a].permit => rec[a].permit
                           /\ a \in records' => a \in records
                           /\ pc[a] = "done" => pc'[a] = "done",
         \A o \in Owners : pc'[o] \in {"reserved", "reserved_bg"} => pc'[o] = pc[o]
  PROVE  RoomInv'
<1>1. Live' \subseteq Live /\ Reserving' \subseteq Reserving
  BY DEF Live, Reserving
<1>2. Holding' \subseteq Holding /\ Backing' \subseteq Backing
  BY DEF Holding, Backing
<1>3. LiveHeld' <= LiveHeld /\ LiveHeld \in Nat /\ LiveHeld' \in Nat
  BY <1>1, RoomIsFinite, SmallerSum
<1>4. MailboxHeld' <= MailboxHeld /\ MailboxHeld \in Nat /\ MailboxHeld' \in Nat
  BY <1>2, RoomIsFinite, SmallerSum
<1> QED BY <1>3, <1>4, SettingIsTyped DEF RoomInv

\* An admission takes the permits it found free.
LEMMA ReserveKeepsRoom ==
  ASSUME TypeOK, RoomInv, Turning, UNCHANGED setting, NEW o \in Owners, SpawnReserve(o)
  PROVE  RoomInv'
<1>1. pc \in [Owners -> Places] /\ Agents \subseteq Owners
  BY DEF TypeOK, Owners
<1>2. /\ pc[o] = "tool" /\ LiveHeld < setting.live
      /\ \/ pc'[o] = "reserved"
         \/ pc'[o] = "reserved_bg" /\ MailboxHeld < setting.mailbox
      /\ \A p \in Owners : p # o => pc'[p] = pc[p]
      /\ rec' = rec /\ records' = records
  BY <1>1 DEF SpawnReserve, Moves, LiveRoom, MailboxRoom, regVars
<1>3. Live' = Live /\ Reserving' = Reserving \cup {o} /\ o \notin Reserving
  BY <1>2 DEF Live, Reserving, Running
<1>4. Holding' \subseteq Holding
  BY <1>1, <1>2 DEF Holding
<1>5. o \notin Backing
  BY <1>2 DEF Backing
<1>6. LiveHeld' = LiveHeld + 1 /\ LiveHeld \in Nat
  <2>1. Cardinality(Reserving') = Cardinality(Reserving) + 1
    BY <1>3, RoomIsFinite, FS_AddElement
  <2>2. Cardinality(Reserving) \in Nat /\ Cardinality(Live) \in Nat
    BY RoomIsFinite, FS_CardinalityType
  <2> QED BY <1>3, <2>1, <2>2, RoomIsFinite
<1>7. CASE pc'[o] = "reserved"
  <2>1. Backing' \subseteq Backing
    BY <1>2, <1>7 DEF Backing
  <2>2. MailboxHeld' <= MailboxHeld /\ MailboxHeld \in Nat /\ MailboxHeld' \in Nat
    BY <1>4, <2>1, RoomIsFinite, SmallerSum
  <2> QED BY <1>2, <1>6, <2>2, SettingIsTyped DEF RoomInv
<1>8. CASE pc'[o] = "reserved_bg" /\ MailboxHeld < setting.mailbox
  <2>1. Backing' = Backing \cup {o}
    BY <1>2, <1>8 DEF Backing
  <2>2. Cardinality(Backing') = Cardinality(Backing) + 1
    BY <1>5, <2>1, RoomIsFinite, FS_AddElement
  <2>3. Cardinality(Holding') + Cardinality(Backing) <= MailboxHeld
    BY <1>4, RoomIsFinite, SmallerSum
  <2>4. /\ Cardinality(Backing) \in Nat /\ Cardinality(Holding') \in Nat /\ MailboxHeld \in Nat
    <3>1. IsFiniteSet(Holding')
      BY <1>4, RoomIsFinite, FS_Subset
    <3> QED BY <3>1, RoomIsFinite, FS_CardinalityType
  <2>5. MailboxHeld' <= MailboxHeld + 1
    BY <2>2, <2>3, <2>4, RoomIsFinite
  <2>6. MailboxHeld' \in Nat
    BY <2>2, <2>4, RoomIsFinite
  <2> QED BY <1>2, <1>6, <1>8, <2>4, <2>5, <2>6, SettingIsTyped DEF RoomInv
<1> QED BY <1>2, <1>7, <1>8

\* The permits of a reservation move to the new record.
LEMMA InsertKeepsRoom ==
  ASSUME TypeOK, RecordInv, RoomInv, UNCHANGED setting, NEW o \in Owners, Inserts(o), RecordInserted(o)
  PROVE  RoomInv'
<1>1. /\ next_id \in Agents /\ next_id \in Owners
      /\ rec[next_id] = NoRecord /\ pc[next_id] = "none"
  BY RegisteredIds DEF RecordInv, RecordInserted, Owners
<1>2. /\ \A b \in Agents : b # next_id => rec'[b] = rec[b]
      /\ rec'[next_id].permit <=> pc[o] = "reserved_bg"
      /\ rec'[next_id].status = "running"
      /\ records' = records \cup {next_id}
      /\ pc[o] \in {"reserved", "reserved_bg"} /\ pc'[o] = "inserted"
      /\ \A p \in Owners : p # o => pc'[p] = pc[p]
  <2>1. rec'[next_id].permit = (pc[o] = "reserved_bg") /\ rec'[next_id].status = "running"
    BY DEF RecordInserted
  <2> QED BY <2>1 DEF RecordInserted, Inserts
<1>3. ~Running(next_id) /\ ~rec[next_id].permit /\ Agents \subseteq Owners
  BY <1>1 DEF Running, NoRecord, Owners
<1>4. Live' = Live \cup {next_id} /\ next_id \notin Live
  BY <1>1, <1>2, <1>3 DEF Live, Running
<1>5. Reserving' = Reserving \ {o} /\ o \in Reserving
  BY <1>2 DEF Reserving
<1>6. LiveHeld' = LiveHeld
  <2>1. Cardinality(Live') = Cardinality(Live) + 1
    BY <1>4, RoomIsFinite, FS_AddElement
  <2>2. Cardinality(Reserving') = Cardinality(Reserving) - 1
    BY <1>5, RoomIsFinite, FS_RemoveElement
  <2>3. Cardinality(Live) \in Nat /\ Cardinality(Reserving) \in Nat
    BY RoomIsFinite, FS_CardinalityType
  <2> QED BY <2>1, <2>2, <2>3, RoomIsFinite
<1>7. CASE pc[o] = "reserved_bg"
  <2>1. Holding' = Holding \cup {next_id} /\ next_id \notin Holding
    BY <1>1, <1>2, <1>3, <1>7 DEF Holding
  <2>2. Backing' = Backing \ {o} /\ o \in Backing
    BY <1>2, <1>7 DEF Backing
  <2>3. Cardinality(Holding') = Cardinality(Holding) + 1
    BY <2>1, RoomIsFinite, FS_AddElement
  <2>4. Cardinality(Backing') = Cardinality(Backing) - 1
    BY <2>2, RoomIsFinite, FS_RemoveElement
  <2>5. Cardinality(Holding) \in Nat /\ Cardinality(Backing) \in Nat
    BY RoomIsFinite, FS_CardinalityType
  <2>6. MailboxHeld' = MailboxHeld
    BY <2>3, <2>4, <2>5, RoomIsFinite
  <2> QED BY <1>6, <2>6 DEF RoomInv
<1>8. CASE pc[o] = "reserved"
  <2>1. Holding' \subseteq Holding
    BY <1>1, <1>2, <1>3, <1>8 DEF Holding
  <2>2. Backing' \subseteq Backing
    BY <1>2, <1>8 DEF Backing
  <2>3. MailboxHeld' <= MailboxHeld /\ MailboxHeld \in Nat /\ MailboxHeld' \in Nat
    BY <2>1, <2>2, RoomIsFinite, SmallerSum
  <2> QED BY <1>6, <2>3, SettingIsTyped DEF RoomInv
<1> QED BY <1>2, <1>7, <1>8

\* The permits are kept by every step.
LEMMA RoomInvStep ==
  ASSUME TypeOK, RecordInv, AttachInv, RoomInv, Step, TypeOK'
  PROVE  RoomInv'
<1> USE DEF RunPlaces, EndPlaces, TurnPlaces
<1>1. CASE Turning
  <2>1. CASE \E o \in Owners : SpawnReserve(o)
    BY <1>1, <2>1, ReserveKeepsRoom, StepBasics
  <2>2. CASE \A p \in Owners : pc'[p] \in {"reserved", "reserved_bg"} => pc'[p] = pc[p]
    <3>1. \A a \in Agents : /\ Running(a)' => Running(a)
                            /\ rec'[a].permit => rec[a].permit
                            /\ a \in records' => a \in records
                            /\ pc[a] = "done" => pc'[a] = "done"
      BY <1>1, StepBasics DEF Turning, Running
    <3> QED BY <2>2, <3>1, RoomKept, StepBasics
  <2> QED BY <1>1, <2>1, <2>2 DEF Turning
<1>2. CASE Sweeping
  <2>1. \A b \in Agents : /\ Running(b)' => Running(b)
                          /\ rec'[b].permit => rec[b].permit
                          /\ b \in records' => b \in records
                          /\ pc[b] = "done" => pc'[b] = "done"
    BY <1>2, StepBasics DEF Sweeping, RoomInv, Running, Ended, Terminal
  <2>2. \A p \in Owners : pc'[p] \in {"reserved", "reserved_bg"} => pc'[p] = pc[p]
    BY <1>2, StepBasics DEF Sweeping, RoomInv, Running, Ended, Terminal
  <2> QED BY <2>1, <2>2, RoomKept, StepBasics
<1>3. ASSUME NEW o \in Owners, Inserts(o), RecordInserted(o) PROVE RoomInv'
  BY <1>3, InsertKeepsRoom, StepBasics
<1>4. ASSUME NEW o \in Owners, Attaches(o), RecordAttached(child[o]) PROVE RoomInv'
  <2>1. \A b \in Agents : /\ Running(b)' => Running(b)
                          /\ rec'[b].permit => rec[b].permit
                          /\ b \in records' => b \in records
                          /\ pc[b] = "done" => pc'[b] = "done"
    BY <1>4, StepBasics DEF Attaches, RecordAttached, RoomInv, Running, Ended, Terminal
  <2>2. \A p \in Owners : pc'[p] \in {"reserved", "reserved_bg"} => pc'[p] = pc[p]
    BY <1>4, StepBasics DEF Attaches, RecordAttached, RoomInv, Running, Ended, Terminal
  <2> QED BY <2>1, <2>2, RoomKept, StepBasics
<1>5. ASSUME NEW o \in Owners, Looks(o), RecordsConsumed(o) PROVE RoomInv'
  <2>1. \A b \in Agents : /\ Running(b)' => Running(b)
                          /\ rec'[b].permit => rec[b].permit
                          /\ b \in records' => b \in records
                          /\ pc[b] = "done" => pc'[b] = "done"
    BY <1>5, StepBasics DEF Looks, RecordsConsumed, RoomInv, Running, Ended, Terminal
  <2>2. \A p \in Owners : pc'[p] \in {"reserved", "reserved_bg"} => pc'[p] = pc[p]
    BY <1>5, StepBasics DEF Looks, RecordsConsumed, RoomInv, Running, Ended, Terminal
  <2> QED BY <2>1, <2>2, RoomKept, StepBasics
<1>6. ASSUME NEW o \in Owners, NEW a \in Agents, Accepts(o, a), RecordMessaged(a) PROVE RoomInv'
  <2>1. \A b \in Agents : /\ Running(b)' => Running(b)
                          /\ rec'[b].permit => rec[b].permit
                          /\ b \in records' => b \in records
                          /\ pc[b] = "done" => pc'[b] = "done"
    BY <1>6, StepBasics DEF Accepts, RecordMessaged, RoomInv, Running, Ended, Terminal
  <2>2. \A p \in Owners : pc'[p] \in {"reserved", "reserved_bg"} => pc'[p] = pc[p]
    BY <1>6, StepBasics DEF Accepts, RecordMessaged, RoomInv, Running, Ended, Terminal
  <2> QED BY <2>1, <2>2, RoomKept, StepBasics
<1>7. ASSUME NEW k \in Agents \cup {Client}, Cancels(k) PROVE RoomInv'
  <2>1. \A b \in Agents : /\ Running(b)' => Running(b)
                          /\ rec'[b].permit => rec[b].permit
                          /\ b \in records' => b \in records
                          /\ pc[b] = "done" => pc'[b] = "done"
    BY <1>7, StepBasics DEF Cancels, RoomInv, Running, Ended, Terminal
  <2>2. \A p \in Owners : pc'[p] \in {"reserved", "reserved_bg"} => pc'[p] = pc[p]
    BY <1>7, StepBasics DEF Cancels, RoomInv, Running, Ended, Terminal
  <2> QED BY <2>1, <2>2, RoomKept, StepBasics
<1>8. ASSUME NEW a \in Agents, EndsTurn(a), RecordTurned(a) PROVE RoomInv'
  <2>1. \A b \in Agents : /\ Running(b)' => Running(b)
                          /\ rec'[b].permit => rec[b].permit
                          /\ b \in records' => b \in records
                          /\ pc[b] = "done" => pc'[b] = "done"
    BY <1>8, StepBasics DEF EndsTurn, RecordTurned, RoomInv, Running, Ended, Terminal
  <2>2. \A p \in Owners : pc'[p] \in {"reserved", "reserved_bg"} => pc'[p] = pc[p]
    BY <1>8, StepBasics DEF EndsTurn, RecordTurned, RoomInv, Running, Ended, Terminal
  <2> QED BY <2>1, <2>2, RoomKept, StepBasics
<1>9. ASSUME NEW a \in Agents, FailsTurn(a) PROVE RoomInv'
  <2>1. \A b \in Agents : /\ Running(b)' => Running(b)
                          /\ rec'[b].permit => rec[b].permit
                          /\ b \in records' => b \in records
                          /\ pc[b] = "done" => pc'[b] = "done"
    BY <1>9, StepBasics DEF FailsTurn, RoomInv, Running, Ended, Terminal
  <2>2. \A p \in Owners : pc'[p] \in {"reserved", "reserved_bg"} => pc'[p] = pc[p]
    BY <1>9, StepBasics DEF FailsTurn, RoomInv, Running, Ended, Terminal
  <2> QED BY <2>1, <2>2, RoomKept, StepBasics
<1>10. ASSUME NEW a \in Agents, ListsTree(a) PROVE RoomInv'
  <2>1. \A b \in Agents : /\ Running(b)' => Running(b)
                          /\ rec'[b].permit => rec[b].permit
                          /\ b \in records' => b \in records
                          /\ pc[b] = "done" => pc'[b] = "done"
    BY <1>10, StepBasics DEF ListsTree, RoomInv, Running, Ended, Terminal
  <2>2. \A p \in Owners : pc'[p] \in {"reserved", "reserved_bg"} => pc'[p] = pc[p]
    BY <1>10, StepBasics DEF ListsTree, RoomInv, Running, Ended, Terminal
  <2> QED BY <2>1, <2>2, RoomKept, StepBasics
<1>11. ASSUME NEW a \in Agents, Ends(a), RecordEnded(a) PROVE RoomInv'
  <2>1. \A b \in Agents : /\ Running(b)' => Running(b)
                          /\ rec'[b].permit => rec[b].permit
                          /\ b \in records' => b \in records
                          /\ pc[b] = "done" => pc'[b] = "done"
    BY <1>11, StepBasics DEF Ends, RecordEnded, RoomInv, Running, Ended, Terminal, RecordInv
  <2>2. \A p \in Owners : pc'[p] \in {"reserved", "reserved_bg"} => pc'[p] = pc[p]
    BY <1>11, StepBasics DEF Ends, RecordEnded, RoomInv, Running, Ended, Terminal, RecordInv
  <2> QED BY <2>1, <2>2, RoomKept, StepBasics
<1>12. ASSUME NEW a \in Agents, Marks(a) PROVE RoomInv'
  <2>1. \A b \in Agents : /\ Running(b)' => Running(b)
                          /\ rec'[b].permit => rec[b].permit
                          /\ b \in records' => b \in records
                          /\ pc[b] = "done" => pc'[b] = "done"
    BY <1>12, StepBasics DEF Marks, RecordMarked, RoomInv, Running, Ended, Terminal
  <2>2. \A p \in Owners : pc'[p] \in {"reserved", "reserved_bg"} => pc'[p] = pc[p]
    BY <1>12, StepBasics DEF Marks, RecordMarked, RoomInv, Running, Ended, Terminal
  <2> QED BY <2>1, <2>2, RoomKept, StepBasics
<1>13. ASSUME NEW a \in Agents, Pushes(a) PROVE RoomInv'
  <2>1. \A b \in Agents : /\ Running(b)' => Running(b)
                          /\ rec'[b].permit => rec[b].permit
                          /\ b \in records' => b \in records
                          /\ pc[b] = "done" => pc'[b] = "done"
    BY <1>13, StepBasics DEF Pushes, RoomInv, Running, Ended, Terminal
  <2>2. \A p \in Owners : pc'[p] \in {"reserved", "reserved_bg"} => pc'[p] = pc[p]
    BY <1>13, StepBasics DEF Pushes, RoomInv, Running, Ended, Terminal
  <2> QED BY <2>1, <2>2, RoomKept, StepBasics
<1>14. ASSUME NEW a \in Agents, Notifies(a) PROVE RoomInv'
  <2>1. \A b \in Agents : /\ Running(b)' => Running(b)
                          /\ rec'[b].permit => rec[b].permit
                          /\ b \in records' => b \in records
                          /\ pc[b] = "done" => pc'[b] = "done"
    BY <1>14, StepBasics DEF Notifies, RoomInv, Running, Ended, Terminal
  <2>2. \A p \in Owners : pc'[p] \in {"reserved", "reserved_bg"} => pc'[p] = pc[p]
    BY <1>14, StepBasics DEF Notifies, RoomInv, Running, Ended, Terminal
  <2> QED BY <2>1, <2>2, RoomKept, StepBasics
<1>15. ASSUME NEW a \in Agents, Retires(a), ListRetained(a), FinishRetain(a) PROVE RoomInv'
  <2>1. \A b \in Agents : /\ Running(b)' => Running(b)
                          /\ rec'[b].permit => rec[b].permit
                          /\ b \in records' => b \in records
                          /\ pc[b] = "done" => pc'[b] = "done"
    BY <1>15, StepBasics DEF Retires, ListRetained, RoomInv, Running, Ended, Terminal
  <2>2. \A p \in Owners : pc'[p] \in {"reserved", "reserved_bg"} => pc'[p] = pc[p]
    BY <1>15, StepBasics DEF Retires, ListRetained, RoomInv, Running, Ended, Terminal
  <2> QED BY <2>1, <2>2, RoomKept, StepBasics
<1>16. ASSUME NEW k \in Discarders, DropsRecords(k) PROVE RoomInv'
  <2>1. \A b \in Agents : /\ Running(b)' => Running(b)
                          /\ rec'[b].permit => rec[b].permit
                          /\ b \in records' => b \in records
                          /\ pc[b] = "done" => pc'[b] = "done"
    BY <1>16, StepBasics DEF DropsRecords, RoomInv, Running, Ended, Terminal
  <2>2. \A p \in Owners : pc'[p] \in {"reserved", "reserved_bg"} => pc'[p] = pc[p]
    BY <1>16, StepBasics DEF DropsRecords, RoomInv, Running, Ended, Terminal
  <2> QED BY <2>1, <2>2, RoomKept, StepBasics
<1>17. ASSUME NEW k \in Discarders, DropsResults(k) PROVE RoomInv'
  <2>1. \A b \in Agents : /\ Running(b)' => Running(b)
                          /\ rec'[b].permit => rec[b].permit
                          /\ b \in records' => b \in records
                          /\ pc[b] = "done" => pc'[b] = "done"
    BY <1>17, StepBasics DEF DropsResults, RoomInv, Running, Ended, Terminal
  <2>2. \A p \in Owners : pc'[p] \in {"reserved", "reserved_bg"} => pc'[p] = pc[p]
    BY <1>17, StepBasics DEF DropsResults, RoomInv, Running, Ended, Terminal
  <2> QED BY <2>1, <2>2, RoomKept, StepBasics
<1>18. ASSUME NEW k \in Discarders, DropsRecent(k) PROVE RoomInv'
  <2>1. \A b \in Agents : /\ Running(b)' => Running(b)
                          /\ rec'[b].permit => rec[b].permit
                          /\ b \in records' => b \in records
                          /\ pc[b] = "done" => pc'[b] = "done"
    BY <1>18, StepBasics DEF DropsRecent, RoomInv, Running, Ended, Terminal
  <2>2. \A p \in Owners : pc'[p] \in {"reserved", "reserved_bg"} => pc'[p] = pc[p]
    BY <1>18, StepBasics DEF DropsRecent, RoomInv, Running, Ended, Terminal
  <2> QED BY <2>1, <2>2, RoomKept, StepBasics
<1> QED BY <1>1, <1>2, <1>3, <1>4, <1>5, <1>6, <1>7, <1>8, <1>9, <1>10, <1>11, <1>12, <1>13, <1>14,
     <1>15, <1>16, <1>17, <1>18
         DEF Step, Registering, Finishing, Discarding

--------------------------------------------------------------------------------
\* The list of recent agents.
LEMMA PinnedIsFinite ==
  ASSUME NEW n \in Nat
  PROVE  /\ IsFiniteSet(PinnedBehind(n)) /\ Cardinality(PinnedBehind(n)) \in Nat
         /\ IsFiniteSet(PinnedBehind(n)') /\ Cardinality(PinnedBehind(n)') \in Nat
<1>1. PinnedBehind(n) \subseteq Agents /\ PinnedBehind(n)' \subseteq Agents
  BY DEF PinnedBehind
<1>2. IsFiniteSet(PinnedBehind(n)) /\ IsFiniteSet(PinnedBehind(n)')
  BY <1>1, AgentsAreFinite, FS_Subset
<1> QED BY <1>2, FS_CardinalityType

\* A step that leaves the list and pins nothing on it.
LEMMA RecentKept ==
  ASSUME TypeOK, RecentInv, UNCHANGED <<setting, recent>>,
         Discarded' = {} => Discarded = {},
         \A b \in Range(recent) : rec'[b].pending => rec[b].pending
  PROVE  RecentInv'
<1> SUFFICES ASSUME Ample, Discarded = {}
             PROVE  \E moved \in 0..setting.mailbox :
                      /\ 2 * moved <= Len(recent')
                      /\ Len(recent') <= setting.recent + moved
                      /\ Cardinality(PinnedBehind(2 * moved)') + moved <= setting.mailbox
  BY DEF RecentInv, Ample
<1>1. PICK moved \in 0..setting.mailbox :
        /\ 2 * moved <= Len(recent)
        /\ Len(recent) <= setting.recent + moved
        /\ Cardinality(PinnedBehind(2 * moved)) + moved <= setting.mailbox
  BY DEF RecentInv
<1>2. setting.mailbox \in Nat /\ moved \in Nat /\ 2 * moved \in Nat
  BY SettingIsTyped
<1>3. PinnedBehind(2 * moved)' \subseteq PinnedBehind(2 * moved)
  <2>1. \A k \in 2 * moved + 1 .. Len(recent) : recent[k] \in Range(recent)
    <3>1. recent \in Seq(Agents)
      BY DEF TypeOK
    <3>2. \A k \in 2 * moved + 1 .. Len(recent) : k \in DOMAIN recent
      BY <1>2, <3>1
    <3> QED BY <3>2 DEF Range
  <2> QED BY <2>1 DEF PinnedBehind
<1>4. Cardinality(PinnedBehind(2 * moved)') <= Cardinality(PinnedBehind(2 * moved))
  BY <1>2, <1>3, PinnedIsFinite, FS_Subset
<1>5. Cardinality(PinnedBehind(2 * moved)') + moved <= setting.mailbox
  <2>1. /\ Cardinality(PinnedBehind(2 * moved)') \in Nat
        /\ Cardinality(PinnedBehind(2 * moved)) \in Nat
    BY <1>2, PinnedIsFinite
  <2> QED BY <1>1, <1>2, <1>4, <2>1
<1> QED BY <1>1, <1>5

\* retain_recent: a list that gets short enough has only results that own a
\* place behind its front; one that does not has met a pinned entry behind the
\* part that was moved there before, and moves that one too.
LEMMA RetireKeepsRecent ==
  ASSUME TypeOK, RecordInv, ListInv, RecentInv, RecordInv', TypeOK', ListInv', PermitInv', RoomInv',
         UNCHANGED setting, NEW a \in Agents, Retires(a), FinishRetain(a)
  PROVE  RecentInv'
<1> SUFFICES ASSUME Ample, Discarded = {}
             PROVE  \E moved \in 0..setting.mailbox :
                      /\ 2 * moved <= Len(recent')
                      /\ Len(recent') <= setting.recent + moved
                      /\ Cardinality(PinnedBehind(2 * moved)') + moved <= setting.mailbox
  BY DEF RecentInv, Ample, Retires, Discarded
<1> DEFINE list == Fresh(a)
           kept == Kept(a)
<1>1. /\ setting.mailbox \in Nat /\ setting.recent \in Nat /\ 2 * setting.mailbox < setting.recent
      /\ recent \in Seq(Agents) /\ Len(recent) \in Nat
  <2>1. setting.mailbox \in Nat /\ setting.recent \in Nat /\ recent \in Seq(Agents)
    BY SettingIsTyped DEF TypeOK
  <2>2. 2 * setting.mailbox < setting.recent
    BY DEF Ample
  <2> QED BY <2>1, <2>2
<1>2. list = <<a>> \o recent
  <2>1. a \notin Range(recent)
    BY DEF Retires, ListInv
  <2> QED BY <2>1, FreshList
<1>3. Len(list) = Len(recent) + 1 /\ \A k \in 2..Len(list) : list[k] = recent[k - 1]
  BY <1>1, <1>2
<1>4. /\ kept \in 1..Len(list) /\ recent' \in Seq(Agents) /\ Len(recent') = kept
      /\ recent' = IF kept > setting.recent
                   THEN [k \in 1..kept |-> IF k = 1 THEN list[kept] ELSE list[k - 1]]
                   ELSE [k \in 1..kept |-> list[k]]
  BY RetainedList
<1> HIDE DEF list, kept
<1>5. Discarded' = {} /\ rec' = rec
  BY DEF Retires, Discarded
<1>6. CASE kept <= setting.recent
  <2>1. PinnedBehind(0)' \subseteq Holding'
    <3> SUFFICES ASSUME NEW b \in Agents, rec'[b].pending, NEW k \in 1..kept, recent'[k] = b
                 PROVE  b \in Holding'
      BY <1>4 DEF PinnedBehind
    <3>1. b \in Range(recent')
      BY <1>4 DEF Range
    <3>2. rec'[b].permit
      BY DEF PermitInv, PermitOf
    <3>3. b \in records'
      BY <1>5, <3>1 DEF ListInv, RecordInv
    <3> QED BY <3>2, <3>3 DEF Holding
  <2>2. Cardinality(PinnedBehind(0)') <= setting.mailbox
    <3>1. IsFiniteSet(Holding') /\ IsFiniteSet(Backing')
      <4>1. Holding' \subseteq Agents /\ Backing' \subseteq Owners
        BY DEF Holding, Backing
      <4> QED BY <4>1, AgentsAreFinite, FS_Subset
    <3>2. Cardinality(PinnedBehind(0)') <= Cardinality(Holding')
      BY <2>1, <3>1, FS_Subset
    <3>3. /\ Cardinality(Holding') \in Nat /\ Cardinality(Backing') \in Nat
          /\ Cardinality(PinnedBehind(0)') \in Nat
      BY <3>1, FS_CardinalityType, PinnedIsFinite
    <3>4. Cardinality(Holding') + Cardinality(Backing') <= setting.mailbox
      BY RoomIsFinite DEF RoomInv
    <3> QED BY <1>1, <3>2, <3>3, <3>4
  <2>3. /\ 0 \in 0..setting.mailbox /\ 2 * 0 = 0 /\ 0 <= Len(recent')
        /\ Len(recent') <= setting.recent + 0
        /\ Cardinality(PinnedBehind(0)') + 0 <= setting.mailbox
    <3>1. Cardinality(PinnedBehind(0)') \in Nat
      BY PinnedIsFinite
    <3>2. Len(list) \in Nat
      BY <1>1, <1>3
    <3> QED BY <1>1, <1>4, <1>6, <2>2, <3>1, <3>2
  <2> QED BY <2>3
<1>7. CASE kept > setting.recent
  <2>1. PICK moved \in 0..setting.mailbox :
          /\ 2 * moved <= Len(recent)
          /\ Len(recent) <= setting.recent + moved
          /\ Cardinality(PinnedBehind(2 * moved)) + moved <= setting.mailbox
    BY DEF RecentInv
  <2> DEFINE x == recent[kept - 1]
             behind == PinnedBehind(2 * moved)
             after == PinnedBehind(2 * (moved + 1))'
  <2>2. /\ moved \in Nat /\ 2 * moved \in Nat /\ 2 * (moved + 1) \in Nat
        /\ kept \in Nat /\ kept \in 2..Len(list) /\ kept - 1 \in 2 * moved + 1 .. Len(recent)
        /\ kept - 1 \in 1..Len(recent)
    BY <1>1, <1>3, <1>4, <1>7, <2>1
  <2>3. list[kept] = x /\ x \in Agents /\ x \in Range(recent)
    <3>1. recent[kept - 1] \in Range(recent)
      BY <1>1, <2>2 DEF Range
    <3> QED BY <1>1, <1>3, <2>2, <3>1
  <2>4. rec[x].pending
    <3>1. x \in records
      BY <2>3 DEF ListInv, RecordInv
    <3>2. ~Removable(list[kept])
      <4>1. list \in Seq(Agents)
        BY FreshList DEF list
      <4>2. Len(list) - Expired(list) = kept
        BY DEF list, kept, Kept
      <4>3. Expired(list) \in 0..Len(list)
        BY <4>1, ExpiredIsFirst
      <4> QED BY <1>7, <4>1, <4>2, ExpiredIsFirst
    <3> QED BY <2>3, <3>1, <3>2 DEF Removable
  <2>5. x \in behind
    BY <2>2, <2>3, <2>4 DEF PinnedBehind
  <2>6. after \subseteq behind \ {x}
    <3> SUFFICES ASSUME NEW b \in Agents, rec'[b].pending,
                        NEW k \in 2 * (moved + 1) + 1 .. Len(recent'), recent'[k] = b
                 PROVE  b \in behind \ {x}
      BY DEF PinnedBehind
    <3>1. /\ k \in 1..kept /\ k # 1 /\ k - 1 \in 2..Len(list) /\ (k - 1) - 1 = k - 2
          /\ k - 2 \in 2 * moved + 1 .. Len(recent)
      BY <1>1, <1>3, <1>4, <2>2
    <3>2. recent'[k] = list[k - 1] /\ recent'[1] = list[kept] /\ 1 \in 1..kept
      <4>1. recent' = [j \in 1..kept |-> IF j = 1 THEN list[kept] ELSE list[j - 1]]
        BY <1>4, <1>7
      <4>2. 1 \in 1..kept
        BY <2>2
      <4> QED BY <3>1, <4>1, <4>2
    <3>3. b = recent[k - 2]
      BY <1>3, <3>1, <3>2
    <3>4. b # x
      <4>1. DOMAIN recent' = 1..kept
        BY <1>4
      <4> QED BY <2>3, <3>1, <3>2, <4>1 DEF ListInv
    <3> QED BY <1>5, <3>1, <3>3, <3>4 DEF PinnedBehind
  <2>7. Cardinality(behind) \in Nat /\ Cardinality(after) \in Nat /\ Cardinality(after) + 1 <= Cardinality(behind)
    <3>1. IsFiniteSet(behind) /\ Cardinality(behind) \in Nat /\ Cardinality(after) \in Nat
      BY <2>2, PinnedIsFinite
    <3>2. IsFiniteSet(behind \ {x}) /\ Cardinality(behind \ {x}) = Cardinality(behind) - 1
      BY <2>5, <3>1, FS_RemoveElement
    <3>3. Cardinality(after) <= Cardinality(behind \ {x})
      BY <2>6, <3>2, FS_Subset
    <3> QED BY <3>1, <3>2, <3>3
  <2> HIDE DEF behind, after
  <2>8. /\ moved + 1 \in 0..setting.mailbox
        /\ 2 * (moved + 1) <= Len(recent')
        /\ Len(recent') <= setting.recent + (moved + 1)
        /\ Cardinality(after) + (moved + 1) <= setting.mailbox
    <3>1. Cardinality(behind) + moved <= setting.mailbox
      BY <2>1 DEF behind
    <3>2. moved + 1 \in 0..setting.mailbox
      BY <1>1, <2>2, <2>7, <3>1
    <3>3. 2 * (moved + 1) <= 2 * setting.mailbox
      BY <1>1, <2>2, <3>2
    <3>4. Len(recent') = kept /\ kept <= Len(recent) + 1
      BY <1>3, <1>4, <2>2
    <3>5. 2 * (moved + 1) <= kept
      BY <1>1, <1>7, <2>2, <3>3
    <3>6. kept <= setting.recent + (moved + 1)
      BY <1>1, <2>1, <2>2, <3>4
    <3>7. Cardinality(after) + (moved + 1) <= setting.mailbox
      BY <1>1, <2>2, <2>7, <3>1
    <3> QED BY <3>2, <3>4, <3>5, <3>6, <3>7
  <2> QED BY <2>8 DEF after
<1> QED BY <1>1, <1>3, <1>4, <1>6, <1>7

\* The list is lengthened by retain_recent alone.
LEMMA RecentInvStep ==
  ASSUME TypeOK, RecordInv, AttachInv, ListInv, RecentInv, RecordInv', ListInv', PermitInv', RoomInv', Step, TypeOK'
  PROVE  RecentInv'
<1> USE DEF RunPlaces, EndPlaces, TurnPlaces
<1>1. CASE Turning
  <2>1. \A b \in Range(recent) : rec'[b].pending => rec[b].pending
    BY <1>1, StepBasics DEF Turning, RecentInv, ListInv, RecordInv
  <2> QED BY <1>1, <2>1, RecentKept, StepBasics DEF Turning, RecentInv, ListInv, RecordInv
<1>2. CASE Sweeping
  <2>1. \A b \in Range(recent) : rec'[b].pending => rec[b].pending
    BY <1>2, StepBasics DEF Sweeping, RecentInv, ListInv, RecordInv
  <2> QED BY <1>2, <2>1, RecentKept, StepBasics DEF Sweeping, RecentInv, ListInv, RecordInv
<1>3. ASSUME NEW o \in Owners, Inserts(o), RecordInserted(o) PROVE RecentInv'
  <2>1. \A b \in Range(recent) : rec'[b].pending => rec[b].pending
    BY <1>3, StepBasics DEF Inserts, RecordInserted, RecentInv, ListInv, RecordInv
  <2> QED BY <1>3, <2>1, RecentKept, StepBasics DEF Inserts, RecordInserted, RecentInv, ListInv,
       RecordInv
<1>4. ASSUME NEW o \in Owners, Attaches(o), RecordAttached(child[o]) PROVE RecentInv'
  <2>1. \A b \in Range(recent) : rec'[b].pending => rec[b].pending
    BY <1>4, StepBasics DEF Attaches, RecordAttached, RecentInv, ListInv, RecordInv
  <2> QED BY <1>4, <2>1, RecentKept, StepBasics DEF Attaches, RecordAttached, RecentInv, ListInv,
       RecordInv
<1>5. ASSUME NEW o \in Owners, Looks(o), RecordsConsumed(o) PROVE RecentInv'
  <2>1. \A b \in Range(recent) : rec'[b].pending => rec[b].pending
    BY <1>5, StepBasics DEF Looks, RecordsConsumed, RecentInv, ListInv, RecordInv
  <2> QED BY <1>5, <2>1, RecentKept, StepBasics DEF Looks, RecordsConsumed, RecentInv, ListInv,
       RecordInv
<1>6. ASSUME NEW o \in Owners, NEW a \in Agents, Accepts(o, a), RecordMessaged(a) PROVE RecentInv'
  <2>1. \A b \in Range(recent) : rec'[b].pending => rec[b].pending
    BY <1>6, StepBasics DEF Accepts, RecordMessaged, RecentInv, ListInv, RecordInv
  <2> QED BY <1>6, <2>1, RecentKept, StepBasics DEF Accepts, RecordMessaged, RecentInv, ListInv,
       RecordInv
<1>7. ASSUME NEW k \in Agents \cup {Client}, Cancels(k) PROVE RecentInv'
  <2>1. \A b \in Range(recent) : rec'[b].pending => rec[b].pending
    BY <1>7, StepBasics DEF Cancels, RecentInv, ListInv, RecordInv
  <2> QED BY <1>7, <2>1, RecentKept, StepBasics DEF Cancels, RecentInv, ListInv, RecordInv
<1>8. ASSUME NEW a \in Agents, EndsTurn(a), RecordTurned(a) PROVE RecentInv'
  <2>1. \A b \in Range(recent) : rec'[b].pending => rec[b].pending
    BY <1>8, StepBasics DEF EndsTurn, RecordTurned, RecentInv, ListInv, RecordInv
  <2> QED BY <1>8, <2>1, RecentKept, StepBasics DEF EndsTurn, RecordTurned, RecentInv, ListInv,
       RecordInv
<1>9. ASSUME NEW a \in Agents, FailsTurn(a) PROVE RecentInv'
  <2>1. \A b \in Range(recent) : rec'[b].pending => rec[b].pending
    BY <1>9, StepBasics DEF FailsTurn, RecentInv, ListInv, RecordInv
  <2> QED BY <1>9, <2>1, RecentKept, StepBasics DEF FailsTurn, RecentInv, ListInv, RecordInv
<1>10. ASSUME NEW a \in Agents, ListsTree(a) PROVE RecentInv'
  <2>1. \A b \in Range(recent) : rec'[b].pending => rec[b].pending
    BY <1>10, StepBasics DEF ListsTree, RecentInv, ListInv, RecordInv
  <2> QED BY <1>10, <2>1, RecentKept, StepBasics DEF ListsTree, RecentInv, ListInv, RecordInv
<1>11. ASSUME NEW a \in Agents, Ends(a), RecordEnded(a) PROVE RecentInv'
  <2>1. \A b \in Range(recent) : rec'[b].pending => rec[b].pending
    BY <1>11, StepBasics DEF Ends, RecordEnded, RecentInv, ListInv, RecordInv
  <2> QED BY <1>11, <2>1, RecentKept, StepBasics DEF Ends, RecordEnded, RecentInv, ListInv,
       RecordInv
<1>12. ASSUME NEW a \in Agents, Marks(a) PROVE RecentInv'
  <2>1. \A b \in Range(recent) : rec'[b].pending => rec[b].pending
    BY <1>12, StepBasics DEF Marks, RecordMarked, RecentInv, ListInv, RecordInv
  <2> QED BY <1>12, <2>1, RecentKept, StepBasics DEF Marks, RecordMarked, RecentInv, ListInv,
       RecordInv
<1>13. ASSUME NEW a \in Agents, Pushes(a) PROVE RecentInv'
  <2>1. \A b \in Range(recent) : rec'[b].pending => rec[b].pending
    BY <1>13, StepBasics DEF Pushes, RecentInv, ListInv, RecordInv
  <2> QED BY <1>13, <2>1, RecentKept, StepBasics DEF Pushes, RecentInv, ListInv, RecordInv
<1>14. ASSUME NEW a \in Agents, Notifies(a) PROVE RecentInv'
  <2>1. \A b \in Range(recent) : rec'[b].pending => rec[b].pending
    BY <1>14, StepBasics DEF Notifies, RecentInv, ListInv, RecordInv
  <2> QED BY <1>14, <2>1, RecentKept, StepBasics DEF Notifies, RecentInv, ListInv, RecordInv
<1>15. ASSUME NEW a \in Agents, Retires(a), ListRetained(a), FinishRetain(a) PROVE RecentInv'
  BY <1>15, RetireKeepsRecent, StepBasics
<1>16. ASSUME NEW k \in Discarders, DropsRecords(k) PROVE RecentInv'
  <2>1. \A b \in Range(recent) : rec'[b].pending => rec[b].pending
    BY <1>16, StepBasics DEF DropsRecords, RecentInv, ListInv, RecordInv
  <2> QED BY <1>16, <2>1, RecentKept, StepBasics DEF DropsRecords, RecentInv, ListInv, RecordInv
<1>17. ASSUME NEW k \in Discarders, DropsResults(k) PROVE RecentInv'
  <2>1. \A b \in Range(recent) : rec'[b].pending => rec[b].pending
    BY <1>17, StepBasics DEF DropsResults, RecentInv, ListInv, RecordInv
  <2> QED BY <1>17, <2>1, RecentKept, StepBasics DEF DropsResults, RecentInv, ListInv, RecordInv
<1>18. ASSUME NEW k \in Discarders, DropsRecent(k) PROVE RecentInv'
  <2>1. Discarded' = {} => swept[k] = {}
    BY <1>18 DEF DropsRecent
  <2>2. Discarded' = {} /\ Discarded = {} => recent' = recent /\ RecentInv'
    BY <1>18, <2>1, RecentKept, StepBasics DEF DropsRecent
  <2> QED BY <1>18, <2>2 DEF DropsRecent, RecentInv
<1> QED BY <1>1, <1>2, <1>3, <1>4, <1>5, <1>6, <1>7, <1>8, <1>9, <1>10, <1>11, <1>12, <1>13, <1>14,
     <1>15, <1>16, <1>17, <1>18
         DEF Step, Registering, Finishing, Discarding

--------------------------------------------------------------------------------
\* The invariant holds initially,
LEMMA InitInv == Init => RegistryInv
<1> SUFFICES ASSUME Init PROVE RegistryInv
  OBVIOUS
<1>1. TypeOK
  <2>1. NoRecord \in RecordType
    BY DEF NoRecord, RecordType, Owners
  <2>2. rec \in [Agents -> RecordType]
    BY <2>1 DEF Init
  <2>3. next_id \in 1..MaxAgents + 1 /\ generation \in Nat \ {0}
    BY RegistryAssumption DEF Init
  <2>4. mailbox \in Seq(Agents) /\ recent \in Seq(Agents)
    BY DEF Init
  <2>5. setting \in Settings /\ setting.turns \in Nat
    BY RegistryAssumption DEF Init, SettingType
  <2>6. turns \in [Agents -> 0..setting.turns]
    BY <2>5 DEF Init
  <2>7. pc \in [Owners -> Places] /\ child \in [Owners -> Agents \cup {NoAgent}]
    BY DEF Init, Places
  <2>8. /\ sweep \in [Discarders -> SweepPlaces] /\ swept \in [Discarders -> SUBSET Agents]
        /\ stopping \in [Agents \cup {Client} -> SUBSET Agents] /\ filter \in [Owners -> SUBSET Agents]
    BY DEF Init, SweepPlaces
  <2>9. /\ delivered \in [Agents -> Nat] /\ sent \in [Agents -> Nat] /\ handled \in [Agents -> Nat]
        /\ outcome \in [Agents -> {"none"} \cup Terminal]
    BY DEF Init
  <2> QED BY <2>2, <2>3, <2>4, <2>5, <2>6, <2>7, <2>8, <2>9 DEF TypeOK, Init
<1>2. /\ Registered = {} /\ Range(mailbox) = {} /\ Range(recent) = {} /\ records = {}
      /\ DOMAIN mailbox = {} /\ DOMAIN recent = {} /\ Len(recent) = 0
      /\ Discarded = {} /\ accepting
  <2>1. DOMAIN mailbox = {} /\ DOMAIN recent = {} /\ Len(recent) = 0
    BY DEF Init
  <2>2. Registered = {}
    BY DEF Init, Registered
  <2>3. Discarded = {}
    BY DEF Init, Discarded
  <2> QED BY <2>1, <2>2, <2>3 DEF Range, Init
<1>3. \A a \in Agents : /\ rec[a] = NoRecord /\ pc[a] = "none" /\ delivered[a] = 0
                        /\ sent[a] = 0 /\ handled[a] = 0
  BY AgentsAreFinite DEF Init, Owners
<1>4. \A o \in Owners : pc[o] \in {"turn", "none"}
  BY DEF Init
<1>5. RecordInv
  BY <1>2, <1>3 DEF RecordInv, Init
<1>6. AttachInv /\ WakeInv
  BY <1>4 DEF AttachInv, WakeInv
<1>7. TreeInv /\ InboxInv
  BY <1>2 DEF TreeInv, InboxInv
<1>8. PermitInv
  <2>1. \A a \in Agents : PermitOf(a)
    BY <1>2, <1>3 DEF PermitOf, NoRecord, Mailed, Pushed
  <2> QED BY <1>2, <2>1 DEF PermitInv, MailboxOnce
<1>9. ListInv
  BY <1>2 DEF ListInv
<1>10. RoomInv
  <2>1. Live = {} /\ Holding = {}
    BY <1>3 DEF Live, Holding, Running, NoRecord
  <2>2. Reserving = {} /\ Backing = {}
    BY <1>4 DEF Reserving, Backing
  <2>3. LiveHeld = 0 /\ MailboxHeld = 0
    BY <2>1, <2>2, RoomIsFinite, FS_EmptySet
  <2> QED BY <1>1, <2>3, SettingIsTyped DEF RoomInv
<1>11. RecentInv
  <2>1. PinnedBehind(0) = {}
    BY <1>3 DEF PinnedBehind, NoRecord
  <2>2. setting.mailbox \in Nat /\ setting.recent \in Nat
    BY <1>1, SettingIsTyped
  <2>3. Cardinality(PinnedBehind(0)) = 0
    BY <2>1, FS_EmptySet
  <2>4. /\ 0 \in 0..setting.mailbox /\ 2 * 0 = 0 /\ 2 * 0 <= Len(recent)
        /\ Len(recent) <= setting.recent + 0
        /\ Cardinality(PinnedBehind(2 * 0)) + 0 <= setting.mailbox
    BY <1>2, <2>2, <2>3
  <2> QED BY <2>4 DEF RecentInv
<1>12. AdmissionReopens
  BY <1>2 DEF AdmissionReopens
<1> QED BY <1>1, <1>5, <1>6, <1>7, <1>8, <1>9, <1>10, <1>11, <1>12 DEF RegistryInv

\* and every step keeps it.
LEMMA StepInv == RegistryInv /\ [Next]_vars => RegistryInv'
<1> SUFFICES ASSUME RegistryInv, [Next]_vars PROVE RegistryInv'
  OBVIOUS
<1>1. /\ TypeOK /\ RecordInv /\ AttachInv /\ TreeInv /\ PermitInv /\ ListInv /\ RoomInv
      /\ RecentInv /\ WakeInv /\ InboxInv /\ AdmissionReopens /\ MailboxOnce
  BY DEF RegistryInv, PermitInv
<1>2. TypeOK' /\ Step
  BY <1>1, TypeStep, StepKinds
<1>3. RecordInv' /\ AttachInv' /\ ListInv' /\ RoomInv'
  BY <1>1, <1>2, RecordInvStep, AttachInvStep, ListInvStep, RoomInvStep
<1>4. PermitInv'
  BY <1>1, <1>2, MailboxOnceStep, PermitOfStep DEF PermitInv
<1>5. TreeInv'
  BY <1>1, <1>2, PlacedStep, DescendsStep, FollowsStep DEF TreeInv
<1>6. RecentInv'
  BY <1>1, <1>2, <1>3, <1>4, RecentInvStep
<1>7. WakeInv' /\ InboxInv' /\ AdmissionReopens'
  BY <1>1, <1>2, WakeInvStep, InboxInvStep, AdmissionReopensStep
<1> QED BY <1>2, <1>3, <1>4, <1>5, <1>6, <1>7 DEF RegistryInv

\* The registry, its mailbox, its list of recent agents and the tasks of its
\* agents agree in every reachable state.
THEOREM RegistryCorrect == Spec => []RegistryInv
BY InitInv, StepInv, PTL DEF Spec

--------------------------------------------------------------------------------
(* The properties follow from the invariant.                               *)

\* Results.
LEMMA ResultIsSafe == RegistryInv => ResultNotLost
<1> SUFFICES ASSUME RegistryInv PROVE ResultNotLost
  OBVIOUS
<1>1. TypeOK /\ RecordInv /\ PermitInv /\ ListInv /\ RoomInv
  BY DEF RegistryInv
<1>2. ASSUME NEW k \in DOMAIN mailbox
      PROVE  /\ mailbox[k] \in Agents /\ rec[mailbox[k]].permit /\ rec[mailbox[k]].pending
             /\ mailbox[k] \in records \cup Discarded
  <2>1. mailbox[k] \in Agents
    BY <1>1 DEF TypeOK
  <2>2. Mailed(mailbox[k])
    BY DEF Mailed
  <2>3. PermitOf(mailbox[k])
    BY <1>1, <2>1 DEF PermitInv
  <2> QED BY <2>1, <2>2, <2>3 DEF PermitOf
<1>3. Cardinality(Range(mailbox) \ Discarded) <= setting.mailbox
  <2>1. Range(mailbox) \ Discarded \subseteq Holding
    BY <1>2 DEF Range, Holding
  <2>2. Cardinality(Range(mailbox) \ Discarded) <= Cardinality(Holding)
    BY <2>1, RoomIsFinite, FS_Subset
  <2>3. IsFiniteSet(Range(mailbox) \ Discarded)
    BY <2>1, RoomIsFinite, FS_Subset
  <2>4. /\ Cardinality(Holding) \in Nat /\ Cardinality(Backing) \in Nat
        /\ Cardinality(Range(mailbox) \ Discarded) \in Nat
    BY <2>3, RoomIsFinite, FS_CardinalityType
  <2>5. Cardinality(Holding) + Cardinality(Backing) <= setting.mailbox
    BY <1>1, RoomIsFinite DEF RoomInv
  <2> QED BY <1>1, <2>2, <2>4, <2>5, SettingIsTyped
<1>4. ASSUME NEW a \in Agents
      PROVE  /\ Visible(a) /\ rec[a].pending => Mailed(a) \/ pc[a] = "marked"
             /\ delivered[a] <= 1
             /\ delivered[a] = 1 => Ended(a) /\ ~Mailed(a)
             /\ rec[a].background /\ Current(a) /\ pc[a] \in {"pushed", "mailed", "done"}
                  => (Mailed(a) <=> delivered[a] = 0)
  <2>1. PermitOf(a)
    BY <1>1 DEF PermitInv
  <2>2. Visible(a) => Current(a)
    BY <1>1 DEF Visible, Current, ListInv
  <2>3. pc[a] \in Pushed => Ended(a)
    BY <1>1 DEF RecordInv, Pushed, EndPlaces
  <2> QED BY <2>1, <2>2, <2>3 DEF PermitOf, Pushed
<1> QED BY <1>1, <1>2, <1>3, <1>4 DEF ResultNotLost, PermitInv, MailboxOnce

\* Bounds.
LEMMA RegistryIsBounded == RegistryInv => RegistryBounded
<1> SUFFICES ASSUME RegistryInv PROVE RegistryBounded
  OBVIOUS
<1>1. TypeOK /\ RecordInv /\ ListInv /\ RoomInv /\ RecentInv /\ AdmissionReopens
  BY DEF RegistryInv
<1>2. Cardinality({a \in Agents : Running(a)}) <= setting.live
  <2>1. Cardinality(Live) \in Nat /\ Cardinality(Reserving) \in Nat
    BY RoomIsFinite, FS_CardinalityType
  <2>2. Cardinality(Live) + Cardinality(Reserving) <= setting.live
    BY <1>1, RoomIsFinite DEF RoomInv
  <2>3. Cardinality(Live) <= setting.live
    BY <1>1, <2>1, <2>2, SettingIsTyped
  <2> QED BY <2>3 DEF Live
<1>3. \A k \in DOMAIN recent : pc[recent[k]] = "done"
  BY <1>1 DEF ListInv, Range
<1> DEFINE kept == {a \in 1..next_id - 1 : pc[a] # "done"} \cup Range(recent)
<1>4. records \subseteq kept /\ kept \ records \subseteq Discarded
  BY <1>1 DEF ListInv, RecordInv, Registered
<1>5. Ample /\ Discarded = {} => Len(recent) <= setting.recent + setting.mailbox
  <2> SUFFICES ASSUME Ample, Discarded = {} PROVE Len(recent) <= setting.recent + setting.mailbox
    OBVIOUS
  <2>1. PICK moved \in 0..setting.mailbox : Len(recent) <= setting.recent + moved
    BY <1>1 DEF RecentInv
  <2>2. setting.mailbox \in Nat /\ setting.recent \in Nat /\ recent \in Seq(Agents)
    BY <1>1, SettingIsTyped DEF TypeOK
  <2> QED BY <2>1, <2>2
<1> QED BY <1>1, <1>2, <1>3, <1>4, <1>5 DEF RegistryBounded

\* Messages.
LEMMA InboxIsSettled == RegistryInv => InboxSettled
<1> SUFFICES ASSUME RegistryInv, NEW a \in Agents, rec[a].status = "completed", turns[a] > 0
             PROVE  handled[a] = sent[a]
  BY DEF InboxSettled
<1>1. a \in Registered
  BY DEF RegistryInv, RecordInv, NoRecord
<1> QED BY <1>1 DEF RegistryInv, InboxInv

\* Trees.
LEMMA ChildrenDoFollow == RegistryInv => ChildrenFollowParent
<1> SUFFICES ASSUME RegistryInv, NEW a \in Agents, rec[a].parent \in Agents, Ended(rec[a].parent),
                    Current(rec[a].parent), Current(a), a \notin cancelled
             PROVE  Ended(a)
  BY DEF ChildrenFollowParent
<1>1. TypeOK /\ RecordInv /\ TreeInv
  BY DEF RegistryInv
<1>2. a \in Registered
  BY <1>1, AgentsAreFinite DEF RecordInv, NoRecord
<1>3. Descends(a) /\ Follows(a)
  BY <1>1, <1>2 DEF TreeInv
<1>4. rec[a].parent \in Registered
  <2>1. rec[a].parent < a /\ a < next_id /\ next_id \in Nat
    BY <1>1, <1>2, <1>3, RegisteredIds, SMTT(40) DEF Descends, Spawner, TypeOK
  <2> QED BY <1>2, <2>1 DEF Registered, Agents
<1>5. pc[rec[a].parent] \notin {"none"} \cup RunPlaces
  BY <1>1, <1>4 DEF RecordInv, Running, Ended, Terminal
<1>6. ~Running(a)
  BY <1>3, <1>5 DEF Follows, Spawner, RunPlaces
<1>7. pc[a] \in Places
  BY <1>1 DEF TypeOK, Owners
<1> QED BY <1>1, <1>2, <1>6, <1>7 DEF RecordInv, Places, RunPlaces, EndPlaces

\* Every result in the mailbox owns the place reserved at admission, and every
\* result of the current conversation is in the mailbox or was handed out once.
THEOREM ResultNotLostAlways == Spec => []ResultNotLost
BY RegistryCorrect, ResultIsSafe, PTL

\* The permits are never overdrawn, the map holds what its tasks and its list
\* account for, and the list overshoots its limit by no more than the results
\* that can be pending.
THEOREM RegistryBoundedAlways == Spec => []RegistryBounded
BY RegistryCorrect, RegistryIsBounded, PTL

\* A waiter asleep while its result is in the mailbox is going to be woken.
THEOREM WaiterNotLostAlways == Spec => []WaiterNotLost
<1>1. RegistryInv => WaiterNotLost
  BY DEF RegistryInv, WakeInv, WaiterNotLost
<1> QED BY <1>1, RegistryCorrect, PTL

\* An agent that completes with turns to spare has handled every message it
\* accepted.
THEOREM InboxSettledAlways == Spec => []InboxSettled
BY RegistryCorrect, InboxIsSettled, PTL

\* The children of a terminal parent are cancelled or terminal.
THEOREM ChildrenFollowParentAlways == Spec => []ChildrenFollowParent
BY RegistryCorrect, ChildrenDoFollow, PTL

================================================================================
