--------------------------- MODULE Activities_proofs ---------------------------
(***************************************************************************)
(* Theorems about Activities for every set of commands and child agents,   *)
(* every owner of theirs and every limit.                                  *)
(***************************************************************************)
EXTENDS Activities, FiniteSetTheorems, SequenceTheorems, TLAPS


\* retain_recent of a command that is not in the list: it comes first, and what
\* falls off the end, and nothing else, leaves the records.
LEMMA Retained ==
  ASSUME recent \in Seq(Commands), Len(recent) <= MAX_RECENT_TASKS,
         \A i, k \in DOMAIN recent : recent[i] = recent[k] => i = k,
         NEW c \in Commands, \A i \in DOMAIN recent : recent[i] # c, RetainRecent(c)
  PROVE  /\ recent' \in Seq(Commands) /\ Len(recent') <= MAX_RECENT_TASKS
         /\ \A i, k \in DOMAIN recent' : recent'[i] = recent'[k] => i = k
         /\ 1 \in DOMAIN recent' /\ recent'[1] = c
         /\ \A i \in DOMAIN recent' : i # 1 => \E k \in DOMAIN recent : recent'[i] = recent[k]
         /\ \A k \in DOMAIN recent : recent[k] \in records' => \E i \in DOMAIN recent' : recent'[i] = recent[k]
         /\ \A i \in DOMAIN recent' : recent'[i] \in records => recent'[i] \in records'
         /\ records' \subseteq records
         /\ \A x \in records : x \in records' \/ \E k \in DOMAIN recent : recent[k] = x
<1> DEFINE all == <<c>> \o recent
           n == IF Len(all) < MAX_RECENT_TASKS THEN Len(all) ELSE MAX_RECENT_TASKS
<1>1. RemoveFirst(recent, c) = recent
  BY DEF RemoveFirst
<1>2. /\ all \in Seq(Commands) /\ Len(all) = Len(recent) + 1 /\ all[1] = c
      /\ \A k \in DOMAIN recent : all[k + 1] = recent[k]
      /\ \A i \in 2..Len(all) : i - 1 \in DOMAIN recent /\ all[i] = recent[i - 1]
  OBVIOUS
<1>3. /\ recent' = SubSeq(all, 1, n)
      /\ records' = records \ {all[i] : i \in (MAX_RECENT_TASKS + 1)..Len(all)}
  BY <1>1 DEF RetainRecent
<1> HIDE DEF all
<1>4. n \in 1..Len(all) /\ n <= MAX_RECENT_TASKS /\ (n = Len(all) \/ n = MAX_RECENT_TASKS)
  BY <1>2, ActivitiesAssumption
<1>5. /\ recent' \in Seq(Commands) /\ Len(recent') = n
      /\ \A i \in 1..n : recent'[i] = all[i]
  BY <1>2, <1>3, <1>4
<1>6. \A i, k \in 1..Len(all) : all[i] = all[k] => i = k
  <2> SUFFICES ASSUME NEW i \in 1..Len(all), NEW k \in 1..Len(all), all[i] = all[k] PROVE i = k
    OBVIOUS
  <2>1. ASSUME i # 1 PROVE i - 1 \in DOMAIN recent /\ all[i] = recent[i - 1] /\ all[i] # c
    BY <1>2, <2>1
  <2>2. ASSUME k # 1 PROVE k - 1 \in DOMAIN recent /\ all[k] = recent[k - 1] /\ all[k] # c
    BY <1>2, <2>2
  <2>3. CASE i # 1 /\ k # 1
    <3>1. i - 1 = k - 1
      BY <2>1, <2>2, <2>3
    <3> QED BY <3>1
  <2>4. CASE i = 1 \/ k = 1
    BY <1>2, <2>1, <2>2, <2>4
  <2> QED BY <2>3, <2>4
<1> HIDE DEF n
<1>7. DOMAIN recent' = 1..n /\ DOMAIN all = 1..Len(all) /\ DOMAIN recent = 1..Len(recent)
  BY <1>2, <1>5
<1>8. \A k \in DOMAIN recent : recent[k] \in records' => \E i \in DOMAIN recent' : recent'[i] = recent[k]
  <2> SUFFICES ASSUME NEW k \in DOMAIN recent, recent[k] \in records'
               PROVE  \E i \in DOMAIN recent' : recent'[i] = recent[k]
    OBVIOUS
  <2>1. k + 1 \in 1..Len(all) /\ all[k + 1] = recent[k]
    BY <1>2, <1>7
  <2>2. ~(k + 1 \in (MAX_RECENT_TASKS + 1)..Len(all))
    BY <1>3, <2>1
  <2>3. k + 1 \in 1..n
    BY <1>4, <2>1, <2>2, ActivitiesAssumption
  <2> QED BY <1>5, <1>7, <2>1, <2>3
<1>9. \A i \in DOMAIN recent' : recent'[i] \in records => recent'[i] \in records'
  <2> SUFFICES ASSUME NEW i \in 1..n, all[i] \in records, all[i] \notin records' PROVE FALSE
    BY <1>5, <1>7
  <2>1. PICK k \in (MAX_RECENT_TASKS + 1)..Len(all) : all[k] = all[i]
    BY <1>3
  <2>2. k = i
    BY <1>4, <1>6, <2>1, ActivitiesAssumption
  <2> QED BY <1>4, <2>1, <2>2, ActivitiesAssumption
<1>10. \A x \in records : x \in records' \/ \E k \in DOMAIN recent : recent[k] = x
  <2> SUFFICES ASSUME NEW x \in records, x \notin records' PROVE \E k \in DOMAIN recent : recent[k] = x
    OBVIOUS
  <2>1. PICK i \in (MAX_RECENT_TASKS + 1)..Len(all) : all[i] = x
    BY <1>3
  <2>2. i \in 2..Len(all)
    BY <2>1, ActivitiesAssumption, <1>2
  <2> QED BY <1>2, <2>1, <2>2
<1>11. 1 \in DOMAIN recent' /\ recent'[1] = c
  BY <1>2, <1>4, <1>5, <1>7
<1>12. \A i \in DOMAIN recent' : i # 1 => \E k \in DOMAIN recent : recent'[i] = recent[k]
  <2> SUFFICES ASSUME NEW i \in 1..n, i # 1 PROVE \E k \in DOMAIN recent : recent'[i] = recent[k]
    BY <1>7
  <2>1. i \in 2..Len(all)
    BY <1>4
  <2> QED BY <1>2, <1>5, <2>1
<1>13. \A i, k \in DOMAIN recent' : recent'[i] = recent'[k] => i = k
  <2> SUFFICES ASSUME NEW i \in 1..n, NEW k \in 1..n, recent'[i] = recent'[k] PROVE i = k
    BY <1>7
  <2>1. i \in 1..Len(all) /\ k \in 1..Len(all) /\ all[i] = all[k]
    BY <1>4, <1>5
  <2> QED BY <1>6, <2>1
<1>14. Len(recent') <= MAX_RECENT_TASKS /\ records' \subseteq records
  BY <1>3, <1>4, <1>5
<1> QED BY <1>5, <1>8, <1>9, <1>10, <1>11, <1>12, <1>13, <1>14

\* What the counters and the channel become is of their type.
LEMMA CountedIsTyped ==
  ASSUME ActTypes, NEW c \in Commands, NEW n \in {1, -1}
  PROVE  Counted(c, n) \in [active : Int, active_children : Int, per_child : [Children -> Int]]
BY DEF Counted, ActTypes

LEMMA EventIsTyped ==
  ASSUME channel \in Seq(Events), NEW c \in Commands, NEW x \in {"Changed", "Finished"}
  PROVE  Append(channel, <<x, c>>) \in Seq(Events)
BY DEF Events

\* Every variable keeps its range.
LEMMA TypesKept ==
  ASSUME ActTypes, ListInv, JoinInv, ActivitiesNext
  PROVE  ActTypes'
<1>1. ASSUME NEW c \in Commands, ReserveSlot(c) PROVE ActTypes'
  <2>1. admission' \in [active : Int, active_children : Int, per_child : [Children -> Int]]
    BY <1>1, CountedIsTyped DEF ReserveSlot, ActTypes, listVars, superVars, outputVars, pollVars, downVars, eventVars
  <2>2. call' \in [Commands -> {"idle", "admitted", "registered", "spawned", "promoting", "waiting",
                                "stopping", "retaining", "delivering", "over"}]
    <3>1. CASE HasSlot(c)
      <4>1. call' = [call EXCEPT ![c] = "admitted"]
        BY <1>1, <3>1 DEF ReserveSlot
      <4> QED BY <4>1 DEF ActTypes, ActTypeOK, processVars
    <3>2. CASE ~(HasSlot(c))
      <4>1. call' = [call EXCEPT ![c] = "over"]
        BY <1>1, <3>2 DEF ReserveSlot
      <4> QED BY <4>1 DEF ActTypes, ActTypeOK, processVars
    <3> QED BY <3>1, <3>2
  <2>3. permit' \subseteq Commands
    BY <1>1 DEF ReserveSlot, ActTypes, ActTypeOK, processVars
  <2>4. ActTypeOK'
    BY <1>1, <2>2, <2>3 DEF ReserveSlot, ActTypes, ActTypeOK, processVars, listVars, superVars, downVars
  <2> QED BY <1>1, <2>1, <2>4 DEF ReserveSlot, ActTypes, listVars, superVars, outputVars, pollVars, downVars, eventVars
<1>2. ASSUME NEW c \in Commands, RegisterRecord(c) PROVE ActTypes'
  <2>1. admission' \in [active : Int, active_children : Int, per_child : [Children -> Int]]
    BY <1>2, CountedIsTyped DEF RegisterRecord, Freed, ActTypes, superVars, outputVars, pollVars, downVars, eventVars
  <2>2. call' \in [Commands -> {"idle", "admitted", "registered", "spawned", "promoting", "waiting",
                                "stopping", "retaining", "delivering", "over"}]
    <3>1. CASE shutting_down = "no"
      <4>1. call' = [call EXCEPT ![c] = "registered"]
        BY <1>2, <3>1 DEF RegisterRecord
      <4> QED BY <4>1 DEF ActTypes, ActTypeOK, processVars
    <3>2. CASE ~(shutting_down = "no")
      <4>1. call' = [call EXCEPT ![c] = "over"]
        BY <1>2, <3>2 DEF RegisterRecord
      <4> QED BY <4>1 DEF ActTypes, ActTypeOK, processVars
    <3> QED BY <3>1, <3>2
  <2>3. permit' \subseteq Commands /\ records' \subseteq Commands
    BY <1>2 DEF RegisterRecord, Freed, ActTypes, ActTypeOK, processVars
  <2>4. ActTypeOK'
    BY <1>2, <2>2, <2>3 DEF RegisterRecord, ActTypes, ActTypeOK, processVars, superVars, downVars
  <2> QED BY <1>2, <2>1, <2>4 DEF RegisterRecord, ActTypes, superVars, outputVars, pollVars, downVars, eventVars
<1>3. ASSUME NEW c \in Commands, SpawnFails(c) PROVE ActTypes'
  <2>1. admission' \in [active : Int, active_children : Int, per_child : [Children -> Int]]
    BY <1>3, CountedIsTyped DEF SpawnFails, Freed, ActTypes, outputVars, pollVars, downVars, eventVars
  <2>2. process' \in [Commands -> {"none", "running", "exited", "gone"}]
    <3>1. process' = process \/ process' = [process EXCEPT ![c] = "running"]
      BY <1>3 DEF SpawnFails
    <3> QED BY <3>1 DEF ActTypes, ActTypeOK
  <2>4. call' = [call EXCEPT ![c] = "over"] /\ handle' = [handle EXCEPT ![c] = "Unavailable"]
        /\ records' = records \ {c} /\ permit' = permit \ {c} /\ UNCHANGED <<terminal, stop, supervisor, cleanup_failed, downVars>>
    BY <1>3 DEF SpawnFails, Freed
  <2>3. ActTypeOK'
    BY <2>2, <2>4 DEF ActTypes, ActTypeOK, downVars
  <2> QED BY <1>3, <2>1, <2>3 DEF SpawnFails, ActTypes, outputVars, pollVars, downVars, eventVars
<1>4. ASSUME NEW c \in Commands, Spawn(c) PROVE ActTypes'
  BY <1>4 DEF Spawn, listVars, downVars, eventVars, ActTypes, ActTypeOK, processVars
<1>5. ASSUME NEW c \in Commands, SetSupervisor(c) PROVE ActTypes'
  BY <1>5 DEF SetSupervisor, listVars, outputVars, pollVars, downVars, eventVars, ActTypes,
     ActTypeOK, processVars
<1>6. ASSUME NEW c \in Commands, PublishRefused(c) PROVE ActTypes'
  BY <1>6 DEF PublishRefused, StopUnlessOver, listVars, outputVars, pollVars, downVars,
     eventVars, ActTypes, ActTypeOK, processVars
<1>7. ASSUME NEW c \in Commands, Publish(c) PROVE ActTypes'
  <2>1. channel' \in Seq(Events)
    <3>1. channel' = Append(channel, <<"Finished", c>>) \/ channel' = Append(channel, <<"Changed", c>>)
      BY <1>7 DEF Publish
    <3>2. channel \in Seq(Events)
      BY DEF ActTypes
    <3> QED BY <3>1, <3>2, EventIsTyped
  <2>2. ActTypeOK'
    BY <1>7 DEF Publish, ActTypes, ActTypeOK, processVars, superVars, outputVars, pollVars, downVars
  <2> QED BY <1>7, <2>1, <2>2 DEF Publish, ActTypes, superVars, outputVars, pollVars, downVars
<1>8. ASSUME NEW c \in Commands, RetainPublished(c) PROVE ActTypes'
  <2>1. \A i \in DOMAIN recent : recent[i] # c
    BY <1>8 DEF RetainPublished, ListInv
  <2>2. recent' \in Seq(Commands) /\ records' \subseteq records
    BY <1>8, <2>1, Retained DEF RetainPublished, ActTypes, ListInv
  <2>3. ActTypeOK'
    BY <1>8, <2>2 DEF RetainPublished, ActTypes, ActTypeOK, processVars, superVars, outputVars, pollVars, downVars, eventVars
  <2> QED BY <1>8, <2>2, <2>3 DEF RetainPublished, ActTypes, superVars, outputVars, pollVars, downVars, eventVars
<1>9. ASSUME NEW c \in Commands, Return(c) PROVE ActTypes'
  BY <1>9 DEF Return, listVars, superVars, outputVars, pollVars, downVars, eventVars, ActTypes,
     ActTypeOK, processVars
<1>10. ASSUME NEW c \in Commands, CancelCall(c) PROVE ActTypes'
  BY <1>10 DEF CancelCall, listVars, outputVars, pollVars, downVars, eventVars, ActTypes,
     ActTypeOK, processVars
<1>11. ASSUME NEW c \in Commands, AbortCall(c) PROVE ActTypes'
  BY <1>11 DEF AbortCall, StopUnlessOver, listVars, outputVars, pollVars, downVars, eventVars,
     ActTypes, ActTypeOK, processVars
<1>12. ASSUME NEW c \in Commands, ProgramWrites(c) PROVE ActTypes'
  <2>1. written' \in [Commands -> Nat] /\ pipe' \in [Commands -> Nat]
    <3>1. written' = [written EXCEPT ![c] = @ + 1] /\ pipe' = [pipe EXCEPT ![c] = @ + 1]
      BY <1>12 DEF ProgramWrites
    <3>2. written \in [Commands -> Nat] /\ pipe \in [Commands -> Nat]
      BY DEF ActTypes
    <3> QED BY <3>1, <3>2
  <2>2. ActTypeOK'
    BY <1>12 DEF ProgramWrites, ActTypes, ActTypeOK, processVars, callVars, listVars, superVars, pollVars, downVars, eventVars
  <2> QED BY <1>12, <2>1, <2>2 DEF ProgramWrites, ActTypes, callVars, listVars, superVars, pollVars, downVars, eventVars
<1>13. ASSUME NEW c \in Commands, ProgramExits(c) PROVE ActTypes'
  BY <1>13 DEF ProgramExits, callVars, listVars, superVars, outputVars, pollVars, downVars,
     eventVars, ActTypes, ActTypeOK, processVars
<1>14. ASSUME NEW c \in Commands, CaptureReads(c) PROVE ActTypes'
  <2>1. pipe' \in [Commands -> Nat]
    BY <1>14 DEF CaptureReads, ActTypes
  <2>2. capture' \in [Commands -> {"none", "reading", "appending", "over"}]
    BY <1>14 DEF CaptureReads, ActTypes
  <2> QED
    BY <1>14, <2>1, <2>2 DEF CaptureReads, callVars, listVars, superVars, pollVars, downVars, eventVars,
       ActTypes, ActTypeOK, processVars
<1>15. ASSUME NEW c \in Commands, CaptureAppends(c) PROVE ActTypes'
  <2>1. output' \in [Commands -> Nat]
    BY <1>15 DEF CaptureAppends, ActTypes
  <2>2. capture' \in [Commands -> {"none", "reading", "appending", "over"}]
    BY <1>15 DEF CaptureAppends, ActTypes
  <2> QED
    BY <1>15, <2>1, <2>2 DEF CaptureAppends, callVars, listVars, superVars, pollVars, downVars, eventVars,
       ActTypes, ActTypeOK, processVars
<1>16. ASSUME NEW c \in Commands, Triggered(c) PROVE ActTypes'
  BY <1>16 DEF Triggered, callVars, listVars, outputVars, pollVars, downVars, eventVars,
     ActTypes, ActTypeOK, processVars
<1>50. ASSUME NEW c \in Commands, WaitFails(c) PROVE ActTypes'
  BY <1>50 DEF WaitFails, callVars, listVars, outputVars, pollVars, downVars, eventVars,
     ActTypes, ActTypeOK, processVars
<1>17. ASSUME NEW c \in Commands, CloseInput(c) PROVE ActTypes'
  BY <1>17 DEF CloseInput, callVars, listVars, outputVars, downVars, eventVars, ActTypes,
     ActTypeOK, processVars
<1>18. ASSUME NEW c \in Commands, KillAndReap(c) PROVE ActTypes'
  BY <1>18 DEF KillAndReap, AfterKill, callVars, listVars, outputVars, pollVars, downVars, eventVars,
     ActTypes, ActTypeOK, processVars
<1>19. ASSUME NEW c \in Commands, DrainTimesOut(c) PROVE ActTypes'
  BY <1>19 DEF DrainTimesOut, callVars, listVars, superVars, pollVars, downVars, eventVars,
     ActTypes, ActTypeOK, processVars
<1>20. ASSUME NEW c \in Commands, FinishRecord(c) PROVE ActTypes'
  <2>1. admission' \in [active : Int, active_children : Int, per_child : [Children -> Int]]
    BY <1>20, CountedIsTyped DEF FinishRecord, Freed, ActTypes, pollVars, downVars
  <2>2. channel' \in Seq(Events)
    BY <1>20, EventIsTyped DEF FinishRecord, ActTypes, pollVars, downVars
  <2>3. ActTypeOK'
    <3>1. ActTypeOK
      BY DEF ActTypes
    <3>2. call' = call /\ handle' = handle /\ UNCHANGED processVars /\ stop' = stop /\ UNCHANGED downVars
      BY <1>20 DEF FinishRecord
    <3>3. \E place \in {"retaining", "over"} : supervisor' = [supervisor EXCEPT ![c] = place]
      BY <1>20 DEF FinishRecord
    <3>4. records' \subseteq Commands /\ terminal' \subseteq Commands /\ permit' \subseteq Commands
      BY <1>20, <3>1 DEF FinishRecord, Freed, ActTypeOK
    <3> QED BY <3>1, <3>2, <3>3, <3>4 DEF ActTypeOK, downVars, processVars
  <2>4. capture' \in [Commands -> {"none", "reading", "appending", "over"}]
    BY <1>20 DEF FinishRecord, ActTypes, pollVars, downVars
  <2> QED BY <1>20, <2>1, <2>2, <2>3, <2>4 DEF FinishRecord, ActTypes, pollVars, downVars
<1>21. ASSUME NEW c \in Commands, RetainFinished(c) PROVE ActTypes'
  <2>1. \A i \in DOMAIN recent : recent[i] # c
    BY <1>21 DEF RetainFinished, ListInv
  <2>2. recent' \in Seq(Commands) /\ records' \subseteq records
    BY <1>21, <2>1, Retained DEF RetainFinished, ActTypes, ListInv
  <2>3. ActTypeOK'
    BY <1>21, <2>2 DEF RetainFinished, ActTypes, ActTypeOK, processVars, callVars, outputVars, pollVars, downVars, eventVars
  <2> QED BY <1>21, <2>2, <2>3 DEF RetainFinished, ActTypes, callVars, outputVars, pollVars, downVars, eventVars
<1>22. ASSUME NEW c \in Commands, Stop(c) PROVE ActTypes'
  BY <1>22 DEF Stop, Known, callVars, listVars, outputVars, pollVars, downVars, eventVars,
     ActTypes, ActTypeOK, processVars
<1>23. ASSUME NEW a \in Children, StopOwner(a) PROVE ActTypes'
  <2>1. a \in Joiners /\ joining[a] = {}
    BY <1>23 DEF StopOwner, Joiners
  <2>2. \E set \in SUBSET records : joining' = [joining EXCEPT ![a] = set] /\ stop' = stop \cup {c \in set : ~Terminal(c)}
    BY <1>23 DEF StopOwner, StopAndJoin
  <2>3. joining' \in [Joiners -> SUBSET Commands] /\ stop' \subseteq Commands
    BY <2>1, <2>2 DEF ActTypes, ActTypeOK, processVars
  <2>4. UNCHANGED <<callVars, listVars, terminal, supervisor, handle, processVars, outputVars, pollVars, shutting_down,
                    holding, eventVars>>
    BY <1>23 DEF StopOwner
  <2>5. holding[a] = nobody
    BY <2>1 DEF ActTypes, ActTypeOK, processVars
  <2>6. \A j \in Joiners : joining'[j] \subseteq Commands /\ holding'[j] \in joining'[j] \cup {nobody}
    BY <2>1, <2>2, <2>3, <2>4, <2>5 DEF ActTypes, ActTypeOK, processVars
  <2> QED BY <2>3, <2>4, <2>6 DEF ActTypes, ActTypeOK, processVars, callVars, listVars, outputVars, eventVars
<1>24. ASSUME Shutdown PROVE ActTypes'
  <2>1. joining' \in [Joiners -> SUBSET Commands] /\ stop' \subseteq Commands
    BY <1>24, ActivitiesAssumption DEF Shutdown, StopAndJoin, ActTypes, ActTypeOK, processVars, Joiners, callVars, listVars, outputVars, pollVars, eventVars
  <2>2. holding["shutdown"] = nobody
    BY <1>24 DEF Shutdown, JoinInv, ActTypes, ActTypeOK, processVars, Joiners, callVars, listVars, outputVars, pollVars, eventVars
  <2>3. ActTypeOK'
    BY <1>24, <2>1, <2>2 DEF Shutdown, StopAndJoin, ActTypes, ActTypeOK, processVars, Joiners, callVars, listVars, outputVars, pollVars, eventVars
  <2> QED BY <1>24, <2>1, <2>2, <2>3 DEF Shutdown, ActTypes, callVars, listVars, outputVars, pollVars, eventVars
<1>25. ASSUME NEW j \in Joiners, NEW c \in Commands, JoinSupervisor(j, c) PROVE ActTypes'
  <2>1. joining' \in [Joiners -> SUBSET Commands] /\ holding' \in [Joiners -> Commands \cup {nobody}]
    <3>1. \/ holding' = [holding EXCEPT ![j] = c] /\ joining' = joining
          \/ joining' = [joining EXCEPT ![j] = @ \ {c}] /\ holding' = holding
      BY <1>25 DEF JoinSupervisor
    <3>2. joining \in [Joiners -> SUBSET Commands] /\ holding \in [Joiners -> Commands \cup {nobody}]
      BY DEF ActTypes
    <3> QED BY <3>1, <3>2
  <2>2. ActTypeOK'
    BY <1>25, <2>1 DEF JoinSupervisor, ActTypes, ActTypeOK, processVars, callVars, listVars, outputVars, pollVars, eventVars
  <2> QED BY <1>25, <2>1, <2>2 DEF JoinSupervisor, ActTypes, callVars, listVars, outputVars, pollVars, eventVars
<1>26. ASSUME NEW j \in Joiners, Joined(j) PROVE ActTypes'
  BY <1>26 DEF Joined, callVars, listVars, superVars, outputVars, pollVars, eventVars,
     ActTypes, ActTypeOK, processVars
<1>27. ASSUME FlushEvents PROVE ActTypes'
  <2>1. <<"Flush", nobody>> \in Events
    BY <1>27 DEF FlushEvents, Events, callVars, listVars, superVars, outputVars, pollVars
  <2>2. channel' \in Seq(Events)
    BY <1>27, <2>1 DEF FlushEvents, ActTypes, callVars, listVars, superVars, outputVars, pollVars
  <2>3. ActTypeOK'
    BY <1>27 DEF FlushEvents, ActTypes, ActTypeOK, processVars, callVars, listVars, superVars, outputVars, pollVars
  <2> QED BY <1>27, <2>1, <2>2, <2>3 DEF FlushEvents, ActTypes, callVars, listVars, superVars, outputVars, pollVars
<1>28. ASSUME RouteEvent PROVE ActTypes'
  <2>1. channel' \in Seq(Events) /\ Head(channel) \in Events
    BY <1>28 DEF RouteEvent, ActTypes
  <2>2. emitted' \in [Commands -> Seq({"Changed", "Finished"})]
    <3>1. CASE Head(channel)[1] = "Flush"
      BY <1>28, <3>1 DEF RouteEvent, ActTypes
    <3>2. CASE Head(channel)[1] # "Flush"
      <4>1. Head(channel)[1] \in {"Changed", "Finished"} /\ Head(channel)[2] \in Commands
        BY <2>1, <3>2 DEF Events
      <4>2. emitted' = [emitted EXCEPT ![Head(channel)[2]] = Append(@, Head(channel)[1])]
        BY <1>28, <3>2 DEF RouteEvent
      <4>3. emitted[Head(channel)[2]] \in Seq({"Changed", "Finished"})
        BY <4>1 DEF ActTypes
      <4>4. Append(emitted[Head(channel)[2]], Head(channel)[1]) \in Seq({"Changed", "Finished"})
        BY <4>1, <4>3
      <4> QED BY <4>1, <4>2, <4>4 DEF ActTypes
    <3> QED BY <3>1, <3>2
  <2>3. shutting_down' \in {"no", "joining", "flushing", "down"}
    BY <1>28 DEF RouteEvent, ActTypes
  <2>4. ActTypeOK'
    BY <1>28 DEF RouteEvent, ActTypes, ActTypeOK, processVars, callVars, listVars, superVars
  <2> QED BY <1>28, <2>1, <2>2, <2>3, <2>4 DEF RouteEvent, ActTypes, callVars, listVars, superVars, outputVars, pollVars
<1>29. ASSUME UNCHANGED <<issued, call, permit, admission, records, recent, published, terminal, stop, supervisor, handle, process, cleanup_failed, written, pipe, capture, output, incomplete, shutting_down, joining, holding, channel, emitted>> PROVE ActTypes'
  BY <1>29 DEF ActTypes, ActTypeOK, processVars
<1>30. ASSUME NEW c \in Commands, PollStarts(c) \/ InputWritten(c) \/ PollReturns(c) \/
   PollCancelled(c)
      PROVE  ActTypes'
  BY <1>30, <1>29 DEF PollStarts, processVars, callVars, listVars, superVars, outputVars, downVars,
     eventVars, InputWritten, PollReturns, PollCancelled
<1> QED BY <1>50, <1>1, <1>2, <1>3, <1>4, <1>5, <1>6, <1>7, <1>8, <1>9, <1>10, <1>11, <1>12, <1>13,
   <1>14, <1>15, <1>16, <1>17, <1>18, <1>19, <1>20, <1>21, <1>22, <1>23, <1>24, <1>25, <1>26,
   <1>27, <1>28, <1>30 DEF ActivitiesNext, Calling, Capturing, Supervising, Joining

\* The call, supervisor, process and capture of every command go together after every step.
LEMMA StageKept ==
  ASSUME ActTypeOK, StageInv, ActivitiesNext
  PROVE  StageInv'
<1>1. ASSUME NEW c \in Commands, ReserveSlot(c) PROVE StageInv'
  BY <1>1 DEF ReserveSlot, Counted, listVars, superVars, outputVars, pollVars, downVars,
     eventVars, StageInv, ActTypeOK, Terminal, Live, Watched, GivenUp, processVars
<1>2. ASSUME NEW c \in Commands, RegisterRecord(c) PROVE StageInv'
  BY <1>2 DEF RegisterRecord, Freed, Counted, superVars, outputVars, pollVars, downVars,
     eventVars, StageInv, ActTypeOK, Terminal, Live, Watched, GivenUp, processVars
<1>3. ASSUME NEW c \in Commands, SpawnFails(c) PROVE StageInv'
  BY <1>3 DEF SpawnFails, Freed, outputVars, pollVars, downVars, eventVars, StageInv,
     ActTypeOK, Terminal, Live, Watched, GivenUp, processVars
<1>4. ASSUME NEW c \in Commands, Spawn(c) PROVE StageInv'
  BY <1>4 DEF Spawn, listVars, downVars, eventVars, StageInv, ActTypeOK, Terminal, Live, Watched, GivenUp, processVars
<1>5. ASSUME NEW c \in Commands, SetSupervisor(c) PROVE StageInv'
  BY <1>5 DEF SetSupervisor, listVars, outputVars, pollVars, downVars, eventVars, StageInv,
     ActTypeOK, Terminal, Live, Watched, GivenUp, processVars
<1>6. ASSUME NEW c \in Commands, PublishRefused(c) PROVE StageInv'
  BY <1>6 DEF PublishRefused, StopUnlessOver, listVars, outputVars, pollVars, downVars,
     eventVars, StageInv, ActTypeOK, Terminal, Live, Watched, GivenUp, processVars
<1>7. ASSUME NEW c \in Commands, Publish(c) PROVE StageInv'
  BY <1>7 DEF Publish, superVars, outputVars, pollVars, downVars, StageInv, ActTypeOK,
     Terminal, Live, Watched, GivenUp, processVars
<1>8. ASSUME NEW c \in Commands, RetainPublished(c) PROVE StageInv'
  BY <1>8 DEF RetainPublished, RetainRecent, superVars, outputVars, pollVars, downVars,
     eventVars, StageInv, ActTypeOK, Terminal, Live, Watched, GivenUp, processVars
<1>9. ASSUME NEW c \in Commands, Return(c) PROVE StageInv'
  BY <1>9 DEF Return, listVars, superVars, outputVars, pollVars, downVars, eventVars, StageInv,
     ActTypeOK, Terminal, Live, Watched, GivenUp, processVars
<1>10. ASSUME NEW c \in Commands, CancelCall(c) PROVE StageInv'
  BY <1>10 DEF CancelCall, listVars, outputVars, pollVars, downVars, eventVars, StageInv,
     ActTypeOK, Terminal, Live, Watched, GivenUp, processVars
<1>11. ASSUME NEW c \in Commands, AbortCall(c) PROVE StageInv'
  BY <1>11 DEF AbortCall, StopUnlessOver, listVars, outputVars, pollVars, downVars, eventVars,
     StageInv, ActTypeOK, Terminal, Live, Watched, GivenUp, processVars
<1>12. ASSUME NEW c \in Commands, ProgramExits(c) PROVE StageInv'
  BY <1>12 DEF ProgramExits, callVars, listVars, superVars, outputVars, pollVars, downVars,
     eventVars, StageInv, ActTypeOK, Terminal, Live, Watched, GivenUp, processVars
<1>13. ASSUME NEW c \in Commands, Triggered(c) PROVE StageInv'
  BY <1>13 DEF Triggered, callVars, listVars, outputVars, pollVars, downVars, eventVars,
     StageInv, ActTypeOK, Terminal, Live, Watched, GivenUp, processVars
<1>26. ASSUME NEW c \in Commands, WaitFails(c) PROVE StageInv'
  BY <1>26 DEF WaitFails, callVars, listVars, outputVars, pollVars, downVars, eventVars,
     StageInv, ActTypeOK, Terminal, Live, Watched, GivenUp
<1>14. ASSUME NEW c \in Commands, CloseInput(c) PROVE StageInv'
  BY <1>14 DEF CloseInput, callVars, listVars, outputVars, downVars, eventVars, StageInv,
     ActTypeOK, Terminal, Live, Watched, GivenUp, processVars
<1>15. ASSUME NEW c \in Commands, KillAndReap(c) PROVE StageInv'
  BY <1>15 DEF KillAndReap, AfterKill, callVars, listVars, outputVars, pollVars, downVars, eventVars,
     StageInv, ActTypeOK, Terminal, Live, Watched, GivenUp, processVars
<1>16. ASSUME NEW c \in Commands, FinishRecord(c) PROVE StageInv'
  BY <1>16 DEF FinishRecord, Freed, CaptureJoined, Drained, pollVars, downVars, StageInv,
     ActTypeOK, Terminal, Live, Watched, GivenUp, processVars
<1>17. ASSUME NEW c \in Commands, RetainFinished(c) PROVE StageInv'
  BY <1>17 DEF RetainFinished, RetainRecent, callVars, outputVars, pollVars, downVars,
     eventVars, StageInv, ActTypeOK, Terminal, Live, Watched, GivenUp, processVars
<1>18. ASSUME UNCHANGED <<call, supervisor, process, cleanup_failed, terminal, published>> PROVE StageInv'
  BY <1>18 DEF StageInv, ActTypeOK, Terminal, Live, Watched, GivenUp, processVars
<1>19. ASSUME NEW c \in Commands, ProgramWrites(c) \/ CaptureReads(c) \/ CaptureAppends(c) \/
   DrainTimesOut(c) \/ PollStarts(c) \/ InputWritten(c) \/ PollReturns(c) \/ PollCancelled(c)
   \/ Stop(c)
      PROVE  StageInv'
  BY <1>19, <1>18 DEF processVars, ProgramWrites, callVars, listVars, superVars, pollVars, downVars,
     eventVars, CaptureReads, CaptureAppends, DrainTimesOut, PollStarts, outputVars,
     InputWritten, PollReturns, PollCancelled, Stop
<1>20. ASSUME NEW a \in Children, StopOwner(a) PROVE StageInv'
  BY <1>20, <1>18 DEF processVars, StopOwner, callVars, listVars, outputVars, pollVars, eventVars
<1>21. ASSUME Shutdown PROVE StageInv'
  BY <1>21, <1>18 DEF processVars, Shutdown, callVars, listVars, outputVars, pollVars, eventVars
<1>22. ASSUME NEW j \in Joiners, NEW c \in Commands, JoinSupervisor(j, c) PROVE StageInv'
  BY <1>22, <1>18 DEF processVars, JoinSupervisor, callVars, listVars, outputVars, pollVars, eventVars
<1>23. ASSUME NEW j \in Joiners, Joined(j) PROVE StageInv'
  BY <1>23, <1>18 DEF processVars, Joined, callVars, listVars, superVars, outputVars, pollVars, eventVars
<1>24. ASSUME FlushEvents PROVE StageInv'
  BY <1>24, <1>18 DEF processVars, FlushEvents, callVars, listVars, superVars, outputVars, pollVars
<1>25. ASSUME RouteEvent PROVE StageInv'
  BY <1>25, <1>18 DEF processVars, RouteEvent, callVars, listVars, superVars, outputVars, pollVars
<1> QED BY <1>1, <1>2, <1>3, <1>4, <1>5, <1>6, <1>7, <1>8, <1>9, <1>10, <1>11, <1>12, <1>13,
   <1>14, <1>15, <1>16, <1>17, <1>19, <1>20, <1>21, <1>22, <1>23, <1>24, <1>25, <1>26 DEF
   ActivitiesNext, Calling, Capturing, Supervising, Joining

\* A permit more, and one less.
LEMMA PermitTaken ==
  ASSUME ActTypeOK, NEW c \in Commands \ permit, permit' = permit \cup {c}, NEW owners
  PROVE  /\ Permits(owners) \in Nat
         /\ Permits(owners)' = IF OwnerOf[c] \in owners THEN Permits(owners) + 1 ELSE Permits(owners)
<1> DEFINE counted == {x \in permit : OwnerOf[x] \in owners}
<1>1. IsFiniteSet(counted)
  BY ActivitiesAssumption, FS_Subset DEF ActTypeOK
<1>2. Cardinality(counted) \in Nat
  BY <1>1, FS_CardinalityType
<1>3. Cardinality(counted \cup {c}) = Cardinality(counted) + 1
  BY <1>1, FS_AddElement
<1>4. {x \in permit' : OwnerOf[x] \in owners} = IF OwnerOf[c] \in owners THEN counted \cup {c} ELSE counted
  OBVIOUS
<1> QED BY <1>2, <1>3, <1>4 DEF Permits

LEMMA PermitFreed ==
  ASSUME ActTypeOK, NEW c \in permit, permit' = permit \ {c}, NEW owners
  PROVE  /\ Permits(owners) \in Nat
         /\ Permits(owners)' = IF OwnerOf[c] \in owners THEN Permits(owners) - 1 ELSE Permits(owners)
<1> DEFINE counted == {x \in permit : OwnerOf[x] \in owners}
<1>1. IsFiniteSet(counted)
  BY ActivitiesAssumption, FS_Subset DEF ActTypeOK
<1>2. Cardinality(counted) \in Nat
  BY <1>1, FS_CardinalityType
<1>3. c \in counted => Cardinality(counted \ {c}) = Cardinality(counted) - 1
  BY <1>1, FS_RemoveElement
<1>4. /\ {x \in permit' : OwnerOf[x] \in owners} = IF OwnerOf[c] \in owners THEN counted \ {c} ELSE counted
      /\ OwnerOf[c] \in owners => c \in counted
  OBVIOUS
<1> QED BY <1>2, <1>3, <1>4 DEF Permits

\* The counters follow the permits.
LEMMA SlotTaken ==
  ASSUME ActTypes, SlotsMatchPermits, NEW c \in Commands \ permit, HasSlot(c),
         permit' = permit \cup {c}, admission' = Counted(c, 1)
  PROVE  SlotsMatchPermits'
<1>1. Cardinality(permit') = Cardinality(permit) + 1
  BY ActivitiesAssumption, FS_Subset, FS_AddElement DEF ActTypes, ActTypeOK
<1>2. Permits(Children)' = IF Child(c) THEN Permits(Children) + 1 ELSE Permits(Children)
  BY PermitTaken DEF Child, ActTypes
<1>3. \A a \in Children : Permits({a})' = IF a = OwnerOf[c] THEN Permits({a}) + 1 ELSE Permits({a})
  BY PermitTaken DEF ActTypes
<1>4. /\ admission'.active = admission.active + 1
      /\ admission'.active_children =
           IF Child(c) THEN admission.active_children + 1 ELSE admission.active_children
      /\ \A a \in Children : admission'.per_child[a] =
           IF a = OwnerOf[c] THEN admission.per_child[a] + 1 ELSE admission.per_child[a]
  BY DEF Counted
<1>5. admission.active < MAX_ACTIVE_TASKS
  BY DEF HasSlot
<1>6. Child(c) => /\ admission.active_children < MAX_ACTIVE_CHILD_TASKS
                  /\ admission.per_child[OwnerOf[c]] < MAX_ACTIVE_TASKS_PER_CHILD
  BY DEF HasSlot
<1>7. \A a \in Children : admission.per_child[a] \in Int
  BY DEF ActTypes
<1>8. admission.active \in Int /\ admission.active_children \in Int
  BY DEF ActTypes
<1>9. \A a \in Children : a = OwnerOf[c] => Child(c)
  BY DEF Child
<1> QED BY <1>1, <1>2, <1>3, <1>4, <1>5, <1>6, <1>7, <1>8, <1>9, ActivitiesAssumption DEF SlotsMatchPermits

LEMMA SlotFreed ==
  ASSUME ActTypes, SlotsMatchPermits, NEW c \in permit, Freed(c)
  PROVE  SlotsMatchPermits'
<1>0. permit' = permit \ {c} /\ admission' = Counted(c, -1)
  BY DEF Freed
<1>1. Cardinality(permit') = Cardinality(permit) - 1
  BY <1>0, ActivitiesAssumption, FS_Subset, FS_RemoveElement DEF ActTypes, ActTypeOK
<1>2. Permits(Children)' = IF Child(c) THEN Permits(Children) - 1 ELSE Permits(Children)
  BY <1>0, PermitFreed DEF Child, ActTypes
<1>3. \A a \in Children : Permits({a})' = IF a = OwnerOf[c] THEN Permits({a}) - 1 ELSE Permits({a})
  BY <1>0, PermitFreed DEF ActTypes
<1>4. /\ admission'.active = admission.active - 1
      /\ admission'.active_children =
           IF Child(c) THEN admission.active_children - 1 ELSE admission.active_children
      /\ \A a \in Children : admission'.per_child[a] =
           IF a = OwnerOf[c] THEN admission.per_child[a] - 1 ELSE admission.per_child[a]
  BY <1>0 DEF Counted, ActTypes
<1>5. /\ admission.active \in Int /\ admission.active_children \in Int
      /\ \A a \in Children : admission.per_child[a] \in Int
  BY DEF ActTypes
<1>6. admission'.active = Cardinality(permit') /\ admission'.active <= MAX_ACTIVE_TASKS
  BY <1>1, <1>4, <1>5, ActivitiesAssumption DEF SlotsMatchPermits
<1>7. admission'.active_children = Permits(Children)' /\ admission'.active_children <= MAX_ACTIVE_CHILD_TASKS
  BY <1>2, <1>4, <1>5, ActivitiesAssumption DEF SlotsMatchPermits
<1>8. ASSUME NEW a \in Children
      PROVE  /\ admission'.per_child[a] = Permits({a})'
             /\ admission'.per_child[a] <= MAX_ACTIVE_TASKS_PER_CHILD
  <2>1. admission.per_child[a] = Permits({a}) /\ admission.per_child[a] <= MAX_ACTIVE_TASKS_PER_CHILD
    BY DEF SlotsMatchPermits
  <2>2. admission'.per_child[a] = IF a = OwnerOf[c] THEN admission.per_child[a] - 1 ELSE admission.per_child[a]
    BY <1>4
  <2>3. Permits({a})' = IF a = OwnerOf[c] THEN Permits({a}) - 1 ELSE Permits({a})
    BY <1>3
  <2>4. admission.per_child[a] \in Int /\ MAX_ACTIVE_TASKS_PER_CHILD \in Int
    BY <1>5, ActivitiesAssumption
  <2>5. CASE a = OwnerOf[c]
    BY <2>1, <2>2, <2>3, <2>4, <2>5
  <2>6. CASE a # OwnerOf[c]
    BY <2>1, <2>2, <2>3, <2>6
  <2> QED BY <2>5, <2>6
<1> QED BY <1>6, <1>7, <1>8 DEF SlotsMatchPermits

\* The counters are the permits, and a permit lives from admission to the end of its command.
LEMMA PermitsKept ==
  ASSUME ActTypes, ActTypeOK, StageInv, StageInv', PermitInv, ActivitiesNext
  PROVE  PermitInv'
<1>1. ASSUME NEW c \in Commands, ReserveSlot(c) PROVE PermitInv'
  <2>1. c \notin permit
    BY <1>1 DEF ReserveSlot, PermitInv, StageInv, Supervised
  <2>2. CASE HasSlot(c)
    <3>1. SlotsMatchPermits'
      BY <1>1, <2>1, <2>2, SlotTaken DEF ReserveSlot, PermitInv, SlotsMatchPermits
    <3>2. \A x \in Commands : x \in permit' <=> call'[x] \in {"admitted", "registered"} \/ Supervised(x)'
      BY <1>1, <2>2 DEF ReserveSlot, PermitInv, ActTypeOK, Supervised, superVars
    <3> QED BY <3>1, <3>2 DEF PermitInv
  <2>3. CASE ~HasSlot(c)
    BY <1>1, <2>3 DEF ReserveSlot, PermitInv, SlotsMatchPermits, Permits, ActTypeOK, Supervised, superVars
  <2> QED BY <2>2, <2>3
<1>2. ASSUME NEW c \in Commands, RegisterRecord(c) PROVE PermitInv'
  <2>1. call[c] \in {"admitted", "registered"} \/ Supervised(c)
    BY <1>2 DEF RegisterRecord, Supervised
  <2>2. c \in permit
    BY <2>1 DEF PermitInv
  <2>3. CASE Freed(c)
    <3>1. SlotsMatchPermits'
      BY <2>2, <2>3, SlotFreed DEF PermitInv, SlotsMatchPermits
    <3>2. \A x \in Commands : x \in permit' <=> call'[x] \in {"admitted", "registered"} \/ Supervised(x)'
      BY <1>2, <2>2, <2>3, ActTypeOK, StageInv, PermitInv DEF RegisterRecord, Freed, PermitInv, ActTypeOK, StageInv, Supervised, superVars, outputVars, pollVars, downVars, eventVars
    <3> QED BY <3>1, <3>2 DEF PermitInv
  <2>4. CASE shutting_down = "no"
    BY <1>2, <2>4 DEF RegisterRecord, PermitInv, SlotsMatchPermits, Permits, Supervised, ActTypeOK, StageInv, superVars, outputVars, pollVars, downVars, eventVars
  <2> QED BY <1>2, <2>3, <2>4 DEF RegisterRecord
<1>3. ASSUME NEW c \in Commands, SpawnFails(c) PROVE PermitInv'
  <2>1. call[c] \in {"admitted", "registered"} \/ Supervised(c)
    BY <1>3 DEF SpawnFails, Supervised
  <2>2. c \in permit
    BY <2>1 DEF PermitInv
  <2>3. CASE Freed(c)
    <3>1. SlotsMatchPermits'
      BY <2>2, <2>3, SlotFreed DEF PermitInv, SlotsMatchPermits
    <3>2. \A x \in Commands : x \in permit' <=> call'[x] \in {"admitted", "registered"} \/ Supervised(x)'
      BY <1>3, <2>2, <2>3, ActTypeOK, StageInv, PermitInv DEF SpawnFails, Freed, PermitInv, ActTypeOK, StageInv, Supervised, outputVars, pollVars, downVars, eventVars
    <3> QED BY <3>1, <3>2 DEF PermitInv
  <2> QED BY <1>3, <2>3 DEF SpawnFails
<1>4. ASSUME NEW c \in Commands, Spawn(c) PROVE PermitInv'
  BY <1>4 DEF Spawn, listVars, downVars, eventVars, PermitInv, SlotsMatchPermits, Permits,
     Supervised, StageInv, ActTypeOK
<1>5. ASSUME NEW c \in Commands, SetSupervisor(c) PROVE PermitInv'
  BY <1>5 DEF SetSupervisor, listVars, outputVars, pollVars, downVars, eventVars, PermitInv,
     SlotsMatchPermits, Permits, Supervised, StageInv, ActTypeOK
<1>6. ASSUME NEW c \in Commands, PublishRefused(c) PROVE PermitInv'
  BY <1>6 DEF PublishRefused, StopUnlessOver, listVars, outputVars, pollVars, downVars,
     eventVars, PermitInv, SlotsMatchPermits, Permits, Supervised, StageInv, ActTypeOK
<1>7. ASSUME NEW c \in Commands, Publish(c) PROVE PermitInv'
  BY <1>7 DEF Publish, superVars, outputVars, pollVars, downVars, PermitInv, SlotsMatchPermits,
     Permits, Live, Supervised, StageInv, ActTypeOK
<1>8. ASSUME NEW c \in Commands, RetainPublished(c) PROVE PermitInv'
  BY <1>8 DEF RetainPublished, RetainRecent, superVars, outputVars, pollVars, downVars,
     eventVars, PermitInv, SlotsMatchPermits, Permits, Supervised, StageInv, ActTypeOK
<1>9. ASSUME NEW c \in Commands, Return(c) PROVE PermitInv'
  BY <1>9 DEF Return, listVars, superVars, outputVars, pollVars, downVars, eventVars,
     PermitInv, SlotsMatchPermits, Permits, Supervised, StageInv, ActTypeOK
<1>10. ASSUME NEW c \in Commands, CancelCall(c) PROVE PermitInv'
  BY <1>10 DEF CancelCall, listVars, outputVars, pollVars, downVars, eventVars, PermitInv,
     SlotsMatchPermits, Permits, Supervised, StageInv, ActTypeOK
<1>11. ASSUME NEW c \in Commands, AbortCall(c) PROVE PermitInv'
  BY <1>11 DEF AbortCall, StopUnlessOver, listVars, outputVars, pollVars, downVars, eventVars,
     PermitInv, SlotsMatchPermits, Permits, Supervised, StageInv, ActTypeOK
<1>12. ASSUME NEW c \in Commands, ProgramExits(c) PROVE PermitInv'
  BY <1>12 DEF ProgramExits, callVars, listVars, superVars, outputVars, pollVars, downVars,
     eventVars, PermitInv, SlotsMatchPermits, Permits, Supervised, StageInv, ActTypeOK
<1>13. ASSUME NEW c \in Commands, Triggered(c) PROVE PermitInv'
  BY <1>13 DEF Triggered, callVars, listVars, outputVars, pollVars, downVars, eventVars,
     PermitInv, SlotsMatchPermits, Permits, Supervised, StageInv, ActTypeOK
<1>26. ASSUME NEW c \in Commands, WaitFails(c) PROVE PermitInv'
  BY <1>26 DEF WaitFails, callVars, listVars, outputVars, pollVars, downVars, eventVars,
     PermitInv, SlotsMatchPermits, Permits, Supervised, StageInv, ActTypeOK
<1>14. ASSUME NEW c \in Commands, CloseInput(c) PROVE PermitInv'
  BY <1>14 DEF CloseInput, callVars, listVars, outputVars, downVars, eventVars, PermitInv,
     SlotsMatchPermits, Permits, Supervised, StageInv, ActTypeOK
<1>15. ASSUME NEW c \in Commands, KillAndReap(c) PROVE PermitInv'
  BY <1>15 DEF KillAndReap, AfterKill, callVars, listVars, outputVars, pollVars, downVars, eventVars,
     PermitInv, SlotsMatchPermits, Permits, Supervised, StageInv, ActTypeOK
<1>16. ASSUME NEW c \in Commands, FinishRecord(c) PROVE PermitInv'
  <2>1. call[c] \in {"admitted", "registered"} \/ Supervised(c)
    BY <1>16 DEF FinishRecord, Supervised
  <2>2. c \in permit
    BY <2>1 DEF PermitInv
  <2>3. CASE Freed(c)
    <3>1. SlotsMatchPermits'
      BY <2>2, <2>3, SlotFreed DEF PermitInv, SlotsMatchPermits
    <3>2. \A x \in Commands : x \in permit' <=> call'[x] \in {"admitted", "registered"} \/ Supervised(x)'
      BY <1>16, <2>2, <2>3, ActTypeOK, StageInv, PermitInv DEF FinishRecord, Freed, PermitInv, ActTypeOK, StageInv, Supervised, pollVars, downVars
    <3> QED BY <3>1, <3>2 DEF PermitInv
  <2> QED BY <1>16, <2>3 DEF FinishRecord
<1>17. ASSUME NEW c \in Commands, RetainFinished(c) PROVE PermitInv'
  BY <1>17 DEF RetainFinished, RetainRecent, callVars, outputVars, pollVars, downVars,
     eventVars, PermitInv, SlotsMatchPermits, Permits, Supervised, StageInv, ActTypeOK
<1>18. ASSUME UNCHANGED <<permit, admission, call, supervisor>> PROVE PermitInv'
  BY <1>18 DEF PermitInv, SlotsMatchPermits, Permits, Supervised, StageInv, ActTypeOK
<1>19. ASSUME NEW c \in Commands, ProgramWrites(c) \/ CaptureReads(c) \/ CaptureAppends(c) \/
   DrainTimesOut(c) \/ PollStarts(c) \/ InputWritten(c) \/ PollReturns(c) \/ PollCancelled(c)
   \/ Stop(c)
      PROVE  PermitInv'
  BY <1>19, <1>18 DEF ProgramWrites, callVars, listVars, superVars, pollVars, downVars,
     eventVars, CaptureReads, CaptureAppends, DrainTimesOut, PollStarts, outputVars,
     InputWritten, PollReturns, PollCancelled, Stop
<1>20. ASSUME NEW a \in Children, StopOwner(a) PROVE PermitInv'
  BY <1>20, <1>18 DEF StopOwner, callVars, listVars, outputVars, pollVars, eventVars
<1>21. ASSUME Shutdown PROVE PermitInv'
  BY <1>21, <1>18 DEF Shutdown, callVars, listVars, outputVars, pollVars, eventVars
<1>22. ASSUME NEW j \in Joiners, NEW c \in Commands, JoinSupervisor(j, c) PROVE PermitInv'
  BY <1>22, <1>18 DEF JoinSupervisor, callVars, listVars, outputVars, pollVars, eventVars
<1>23. ASSUME NEW j \in Joiners, Joined(j) PROVE PermitInv'
  BY <1>23, <1>18 DEF Joined, callVars, listVars, superVars, outputVars, pollVars, eventVars
<1>24. ASSUME FlushEvents PROVE PermitInv'
  BY <1>24, <1>18 DEF FlushEvents, callVars, listVars, superVars, outputVars, pollVars
<1>25. ASSUME RouteEvent PROVE PermitInv'
  BY <1>25, <1>18 DEF RouteEvent, callVars, listVars, superVars, outputVars, pollVars
<1> QED BY <1>1, <1>2, <1>3, <1>4, <1>5, <1>6, <1>7, <1>8, <1>9, <1>10, <1>11, <1>12, <1>13,
   <1>14, <1>15, <1>16, <1>17, <1>19, <1>20, <1>21, <1>22, <1>23, <1>24, <1>25, <1>26 DEF
   ActivitiesNext, Calling, Capturing, Supervising, Joining

\* Nothing that lives is forgotten, and the recent list stays bounded.
LEMMA ListKept ==
  ASSUME ActTypes, ActTypeOK, StageInv, ListInv, ActivitiesNext
  PROVE  ListInv'
<1>1. ASSUME NEW c \in Commands, ReserveSlot(c) PROVE ListInv'
  BY <1>1 DEF ReserveSlot, Counted, listVars, superVars, outputVars, pollVars, downVars,
     eventVars, ListInv, ActTypeOK, StageInv, Supervised, Terminal
<1>2. ASSUME NEW c \in Commands, RegisterRecord(c) PROVE ListInv'
  BY <1>2 DEF RegisterRecord, Freed, Counted, superVars, outputVars, pollVars, downVars,
     eventVars, ListInv, ActTypeOK, StageInv, Supervised, Terminal
<1>3. ASSUME NEW c \in Commands, SpawnFails(c) PROVE ListInv'
  BY <1>3 DEF SpawnFails, Freed, outputVars, pollVars, downVars, eventVars, ListInv, ActTypeOK,
     StageInv, Supervised, Terminal
<1>4. ASSUME NEW c \in Commands, Spawn(c) PROVE ListInv'
  BY <1>4 DEF Spawn, listVars, downVars, eventVars, ListInv, ActTypeOK, StageInv, Supervised,
     Terminal
<1>5. ASSUME NEW c \in Commands, SetSupervisor(c) PROVE ListInv'
  BY <1>5 DEF SetSupervisor, listVars, outputVars, pollVars, downVars, eventVars, ListInv,
     ActTypeOK, StageInv, Supervised, Terminal
<1>6. ASSUME NEW c \in Commands, PublishRefused(c) PROVE ListInv'
  BY <1>6 DEF PublishRefused, StopUnlessOver, listVars, outputVars, pollVars, downVars,
     eventVars, ListInv, ActTypeOK, StageInv, Supervised, Terminal
<1>7. ASSUME NEW c \in Commands, Publish(c) PROVE ListInv'
  BY <1>7 DEF Publish, superVars, outputVars, pollVars, downVars, ListInv, ActTypeOK, StageInv,
     Supervised, Terminal
<1>8. ASSUME NEW c \in Commands, RetainPublished(c) PROVE ListInv'
  <2>1. /\ recent \in Seq(Commands) /\ Len(recent) <= MAX_RECENT_TASKS
        /\ \A i, k \in DOMAIN recent : recent[i] = recent[k] => i = k
        /\ \A i \in DOMAIN recent : recent[i] # c
    BY <1>8 DEF RetainPublished, ActTypes, ListInv
  <2>2. RetainRecent(c) /\ c \in records
    BY <1>8 DEF RetainPublished, ListInv
  <2>3. /\ recent' \in Seq(Commands) /\ Len(recent') <= MAX_RECENT_TASKS
        /\ \A i, k \in DOMAIN recent' : recent'[i] = recent'[k] => i = k
        /\ 1 \in DOMAIN recent' /\ recent'[1] = c
        /\ \A i \in DOMAIN recent' : i # 1 => \E k \in DOMAIN recent : recent'[i] = recent[k]
        /\ \A k \in DOMAIN recent : recent[k] \in records' => \E i \in DOMAIN recent' : recent'[i] = recent[k]
        /\ \A i \in DOMAIN recent' : recent'[i] \in records => recent'[i] \in records'
        /\ records' \subseteq records
        /\ \A x \in records : x \in records' \/ \E k \in DOMAIN recent : recent[k] = x
    BY <2>1, <2>2, Retained
  <2>4. /\ \A x \in Commands \ {c} : call'[x] = call[x] /\ supervisor'[x] = supervisor[x]
        /\ supervisor'[c] = "over" /\ call'[c] # "retaining" /\ call'[c] # "registered"
        /\ c \in published
        /\ UNCHANGED <<published, stop>>
    BY <1>8 DEF RetainPublished, StageInv, ActTypeOK, Supervised, superVars, outputVars, pollVars, downVars, eventVars
  <2>5. \A i \in DOMAIN recent' :
          /\ recent'[i] \in records' \cap published'
          /\ supervisor'[recent'[i]] = "over" /\ call'[recent'[i]] # "retaining"
    <3> TAKE i \in DOMAIN recent'
    <3>1. CASE i = 1
      BY <2>2, <2>3, <2>4, <3>1
    <3>2. CASE i # 1
      <4>1. PICK k \in DOMAIN recent : recent'[i] = recent[k]
        BY <2>3, <3>2
      <4>2. recent[k] \in Commands \ {c} /\ recent[k] \in records
        BY <2>1, <1>8 DEF ListInv
      <4> QED BY <2>3, <2>4, <4>1, <4>2 DEF ListInv
    <3> QED BY <3>1, <3>2
  <2>6. ASSUME NEW x \in Commands
        PROVE  /\ call'[x] \in {"registered", "retaining"} \/ Supervised(x)' \/ supervisor'[x] = "retaining"
                    => x \in records'
               /\ x \in records' /\ supervisor'[x] = "over" /\ call'[x] # "retaining"
                    => \E i \in DOMAIN recent' : recent'[i] = x
               /\ call'[x] = "over" /\ Supervised(x)' /\ x \notin published' => x \in stop'
    <3>1. CASE x = c
      BY <2>3, <2>4, <3>1 DEF Supervised
    <3>2. CASE x # c
      <4>1. call'[x] = call[x] /\ supervisor'[x] = supervisor[x] /\ (Supervised(x)' <=> Supervised(x))
        BY <2>4, <3>2 DEF Supervised
      <4>2. call[x] \in {"registered", "retaining"} \/ Supervised(x) \/ supervisor[x] = "retaining"
              => \A k \in DOMAIN recent : recent[k] # x
        BY DEF ListInv, StageInv, Supervised
      <4> QED BY <2>3, <2>4, <4>1, <4>2 DEF ListInv
    <3> QED BY <3>1, <3>2
  <2> QED BY <2>3, <2>5, <2>6 DEF ListInv
<1>9. ASSUME NEW c \in Commands, Return(c) PROVE ListInv'
  BY <1>9 DEF Return, listVars, superVars, outputVars, pollVars, downVars, eventVars, ListInv,
     ActTypeOK, StageInv, Supervised, Terminal
<1>10. ASSUME NEW c \in Commands, CancelCall(c) PROVE ListInv'
  BY <1>10 DEF CancelCall, listVars, outputVars, pollVars, downVars, eventVars, ListInv,
     ActTypeOK, StageInv, Supervised, Terminal
<1>11. ASSUME NEW c \in Commands, AbortCall(c) PROVE ListInv'
  BY <1>11 DEF AbortCall, StopUnlessOver, listVars, outputVars, pollVars, downVars, eventVars,
     ListInv, ActTypeOK, StageInv, Supervised, Terminal
<1>12. ASSUME NEW c \in Commands, Triggered(c) PROVE ListInv'
  BY <1>12 DEF Triggered, callVars, listVars, outputVars, pollVars, downVars, eventVars,
     ListInv, ActTypeOK, StageInv, Supervised, Terminal
<1>26. ASSUME NEW c \in Commands, WaitFails(c) PROVE ListInv'
  BY <1>26 DEF WaitFails, callVars, listVars, outputVars, pollVars, downVars, eventVars,
     ListInv, ActTypeOK, StageInv, Supervised, Terminal
<1>13. ASSUME NEW c \in Commands, CloseInput(c) PROVE ListInv'
  BY <1>13 DEF CloseInput, callVars, listVars, outputVars, downVars, eventVars, ListInv,
     ActTypeOK, StageInv, Supervised, Terminal
<1>14. ASSUME NEW c \in Commands, KillAndReap(c) PROVE ListInv'
  BY <1>14 DEF KillAndReap, AfterKill, callVars, listVars, outputVars, pollVars, downVars, eventVars,
     ListInv, ActTypeOK, StageInv, Supervised, Terminal
<1>15. ASSUME NEW c \in Commands, FinishRecord(c) PROVE ListInv'
  BY <1>15 DEF FinishRecord, Freed, CaptureJoined, Drained, pollVars, downVars, ListInv,
     ActTypeOK, StageInv, Supervised, Terminal
<1>16. ASSUME NEW c \in Commands, RetainFinished(c) PROVE ListInv'
  <2>1. /\ recent \in Seq(Commands) /\ Len(recent) <= MAX_RECENT_TASKS
        /\ \A i, k \in DOMAIN recent : recent[i] = recent[k] => i = k
        /\ \A i \in DOMAIN recent : recent[i] # c
    BY <1>16 DEF RetainFinished, ActTypes, ListInv
  <2>2. RetainRecent(c) /\ c \in records
    BY <1>16 DEF RetainFinished, ListInv
  <2>3. /\ recent' \in Seq(Commands) /\ Len(recent') <= MAX_RECENT_TASKS
        /\ \A i, k \in DOMAIN recent' : recent'[i] = recent'[k] => i = k
        /\ 1 \in DOMAIN recent' /\ recent'[1] = c
        /\ \A i \in DOMAIN recent' : i # 1 => \E k \in DOMAIN recent : recent'[i] = recent[k]
        /\ \A k \in DOMAIN recent : recent[k] \in records' => \E i \in DOMAIN recent' : recent'[i] = recent[k]
        /\ \A i \in DOMAIN recent' : recent'[i] \in records => recent'[i] \in records'
        /\ records' \subseteq records
        /\ \A x \in records : x \in records' \/ \E k \in DOMAIN recent : recent[k] = x
    BY <2>1, <2>2, Retained
  <2>4. /\ \A x \in Commands \ {c} : call'[x] = call[x] /\ supervisor'[x] = supervisor[x]
        /\ supervisor'[c] = "over" /\ call'[c] # "retaining" /\ call'[c] # "registered"
        /\ c \in published
        /\ UNCHANGED <<published, stop>>
    BY <1>16 DEF RetainFinished, StageInv, ActTypeOK, Supervised, callVars, outputVars, pollVars, downVars, eventVars
  <2>5. \A i \in DOMAIN recent' :
          /\ recent'[i] \in records' \cap published'
          /\ supervisor'[recent'[i]] = "over" /\ call'[recent'[i]] # "retaining"
    <3> TAKE i \in DOMAIN recent'
    <3>1. CASE i = 1
      BY <2>2, <2>3, <2>4, <3>1
    <3>2. CASE i # 1
      <4>1. PICK k \in DOMAIN recent : recent'[i] = recent[k]
        BY <2>3, <3>2
      <4>2. recent[k] \in Commands \ {c} /\ recent[k] \in records
        BY <2>1, <1>16 DEF ListInv
      <4> QED BY <2>3, <2>4, <4>1, <4>2 DEF ListInv
    <3> QED BY <3>1, <3>2
  <2>6. ASSUME NEW x \in Commands
        PROVE  /\ call'[x] \in {"registered", "retaining"} \/ Supervised(x)' \/ supervisor'[x] = "retaining"
                    => x \in records'
               /\ x \in records' /\ supervisor'[x] = "over" /\ call'[x] # "retaining"
                    => \E i \in DOMAIN recent' : recent'[i] = x
               /\ call'[x] = "over" /\ Supervised(x)' /\ x \notin published' => x \in stop'
    <3>1. CASE x = c
      BY <2>3, <2>4, <3>1 DEF Supervised
    <3>2. CASE x # c
      <4>1. call'[x] = call[x] /\ supervisor'[x] = supervisor[x] /\ (Supervised(x)' <=> Supervised(x))
        BY <2>4, <3>2 DEF Supervised
      <4>2. call[x] \in {"registered", "retaining"} \/ Supervised(x) \/ supervisor[x] = "retaining"
              => \A k \in DOMAIN recent : recent[k] # x
        BY DEF ListInv, StageInv, Supervised
      <4> QED BY <2>3, <2>4, <4>1, <4>2 DEF ListInv
    <3> QED BY <3>1, <3>2
  <2> QED BY <2>3, <2>5, <2>6 DEF ListInv
<1>17. ASSUME NEW c \in Commands, Stop(c) PROVE ListInv'
  BY <1>17 DEF Stop, Known, callVars, listVars, outputVars, pollVars, downVars, eventVars,
     ListInv, ActTypeOK, StageInv, Supervised, Terminal
<1>18. ASSUME NEW a \in Children, StopOwner(a) PROVE ListInv'
  BY <1>18 DEF StopOwner, StopAndJoin, callVars, listVars, outputVars, pollVars, eventVars,
     ListInv, ActTypeOK, StageInv, Supervised, Terminal
<1>19. ASSUME Shutdown PROVE ListInv'
  BY <1>19 DEF Shutdown, StopAndJoin, callVars, listVars, outputVars, pollVars, eventVars,
     ListInv, ActTypeOK, StageInv, Supervised, Terminal
<1>20. ASSUME UNCHANGED <<recent, records, supervisor, call, published, stop>> PROVE ListInv'
  BY <1>20 DEF ListInv, ActTypeOK, StageInv, Supervised, Terminal
<1>21. ASSUME NEW c \in Commands, ProgramWrites(c) \/ ProgramExits(c) \/ CaptureReads(c) \/
   CaptureAppends(c) \/ DrainTimesOut(c) \/ PollStarts(c) \/ InputWritten(c) \/ PollReturns(c)
   \/ PollCancelled(c)
      PROVE  ListInv'
  BY <1>21, <1>20 DEF ProgramWrites, callVars, listVars, superVars, pollVars, downVars,
     eventVars, ProgramExits, outputVars, CaptureReads, CaptureAppends, DrainTimesOut,
     PollStarts, InputWritten, PollReturns, PollCancelled
<1>22. ASSUME NEW j \in Joiners, NEW c \in Commands, JoinSupervisor(j, c) PROVE ListInv'
  BY <1>22, <1>20 DEF JoinSupervisor, callVars, listVars, outputVars, pollVars, eventVars
<1>23. ASSUME NEW j \in Joiners, Joined(j) PROVE ListInv'
  BY <1>23, <1>20 DEF Joined, callVars, listVars, superVars, outputVars, pollVars, eventVars
<1>24. ASSUME FlushEvents PROVE ListInv'
  BY <1>24, <1>20 DEF FlushEvents, callVars, listVars, superVars, outputVars, pollVars
<1>25. ASSUME RouteEvent PROVE ListInv'
  BY <1>25, <1>20 DEF RouteEvent, callVars, listVars, superVars, outputVars, pollVars
<1> QED BY <1>1, <1>2, <1>3, <1>4, <1>5, <1>6, <1>7, <1>8, <1>9, <1>10, <1>11, <1>12, <1>13,
   <1>14, <1>15, <1>16, <1>17, <1>18, <1>19, <1>21, <1>22, <1>23, <1>24, <1>25, <1>26 DEF
   ActivitiesNext, Calling, Capturing, Supervising, Joining

\* No piece of output is lost or added by a step.
LEMMA OutputKept ==
  ASSUME ActTypes, StageInv, OutputInv, ActivitiesNext
  PROVE  OutputInv'
<1>1. ASSUME NEW c \in Commands, Spawn(c) PROVE OutputInv'
  <2>1. /\ call[c] = "registered"
        /\ supervisor' = [supervisor EXCEPT ![c] = "watching"]
        /\ capture' = [capture EXCEPT ![c] = "reading"]
        /\ UNCHANGED <<written, pipe, output, incomplete, terminal>>
    BY <1>1 DEF Spawn
  <2>2. /\ \A d \in Commands \ {c} : supervisor'[d] = supervisor[d] /\ capture'[d] = capture[d]
        /\ supervisor'[c] = "watching" /\ capture'[c] = "reading"
    BY <2>1 DEF ActTypes, ActTypeOK
  <2>3. supervisor[c] = "none"
    BY <2>1 DEF StageInv
  <2>4. ~Terminal(c)
    BY <2>3 DEF StageInv
  <2>5. capture[c] = "none" /\ c \notin incomplete
    BY <2>3 DEF OutputInv
  <2>6. written[c] = pipe[c] + output[c] + (IF capture'[c] = "appending" THEN 1 ELSE 0)
    <3>1. written[c] = pipe[c] + output[c] + (IF capture[c] = "appending" THEN 1 ELSE 0)
      BY DEF OutputInv
    <3> QED BY <2>2, <2>5, <3>1
  <2> QED BY <2>1, <2>2, <2>4, <2>5, <2>6 DEF OutputInv, Terminal
<1>2. ASSUME NEW c \in Commands, ProgramWrites(c) PROVE OutputInv'
  <2>1. /\ written' = [written EXCEPT ![c] = @ + 1] /\ pipe' = [pipe EXCEPT ![c] = @ + 1]
        /\ Terminal(c) => c \in incomplete
        /\ UNCHANGED <<output, capture, incomplete, supervisor, terminal>>
    BY <1>2 DEF ProgramWrites, superVars
  <2>3. /\ \A d \in Commands \ {c} : written'[d] = written[d] /\ pipe'[d] = pipe[d]
        /\ written'[c] = written[c] + 1 /\ pipe'[c] = pipe[c] + 1
        /\ written[c] \in Nat /\ pipe[c] \in Nat /\ output[c] \in Nat
    BY <2>1 DEF ActTypes
  <2>4. /\ written'[c] = pipe'[c] + output[c] + (IF capture[c] = "appending" THEN 1 ELSE 0)
    <3>1. written[c] = pipe[c] + output[c] + (IF capture[c] = "appending" THEN 1 ELSE 0)
      BY DEF OutputInv
    <3> QED BY <2>3, <3>1
  <2> QED BY <2>1, <2>3, <2>4 DEF OutputInv, Terminal
<1>3. ASSUME NEW c \in Commands, CaptureReads(c) PROVE OutputInv'
  <2>1. /\ pipe' = [pipe EXCEPT ![c] = @ - 1] /\ capture' = [capture EXCEPT ![c] = "appending"]
        /\ capture[c] = "reading" /\ pipe[c] > 0
        /\ UNCHANGED <<written, output, incomplete, supervisor, terminal>>
    BY <1>3 DEF CaptureReads, superVars
  <2>2. /\ \A d \in Commands \ {c} : pipe'[d] = pipe[d] /\ capture'[d] = capture[d]
        /\ pipe'[c] = pipe[c] - 1 /\ capture'[c] = "appending"
        /\ written[c] \in Nat /\ pipe[c] \in Nat /\ output[c] \in Nat
    BY <2>1 DEF ActTypes
  <2>3. supervisor[c] # "none" /\ ~Terminal(c) /\ written[c] = pipe[c] + output[c]
    BY <2>1, <2>2 DEF OutputInv
  <2>4. written[c] = pipe'[c] + output[c] + (IF capture'[c] = "appending" THEN 1 ELSE 0)
    BY <2>2, <2>3
  <2> QED BY <2>1, <2>2, <2>3, <2>4 DEF OutputInv, Terminal
<1>4. ASSUME NEW c \in Commands, CaptureAppends(c) PROVE OutputInv'
  <2>1. /\ output' = [output EXCEPT ![c] = @ + 1] /\ capture[c] = "appending"
        /\ capture' = [capture EXCEPT ![c] = IF c \in incomplete THEN "over" ELSE "reading"]
        /\ UNCHANGED <<written, pipe, incomplete, supervisor, terminal>>
    BY <1>4 DEF CaptureAppends, superVars
  <2>2. /\ \A d \in Commands \ {c} : output'[d] = output[d] /\ capture'[d] = capture[d]
        /\ output'[c] = output[c] + 1 /\ capture'[c] = IF c \in incomplete THEN "over" ELSE "reading"
        /\ written[c] \in Nat /\ pipe[c] \in Nat /\ output[c] \in Nat
    BY <2>1 DEF ActTypes
  <2>3. supervisor[c] # "none" /\ ~Terminal(c) /\ written[c] = pipe[c] + output[c] + 1
    BY <2>1 DEF OutputInv
  <2>4. written[c] = pipe[c] + output'[c] + (IF capture'[c] = "appending" THEN 1 ELSE 0)
    BY <2>2, <2>3
  <2> QED BY <2>1, <2>2, <2>3, <2>4 DEF OutputInv, Terminal
<1>5. ASSUME NEW c \in Commands, Triggered(c) PROVE OutputInv'
  <2>1. /\ supervisor[c] = "watching"
        /\ \E place \in {"cleaning", "closing", "killing"} : supervisor' = [supervisor EXCEPT ![c] = place]
        /\ UNCHANGED <<written, pipe, output, capture, incomplete, terminal>>
    BY <1>5 DEF Triggered, outputVars
  <2>2. \A d \in Commands \ {c} : supervisor'[d] = supervisor[d]
    BY <2>1 DEF ActTypes, ActTypeOK
  <2>3. supervisor'[c] # "none"
    BY <2>1 DEF ActTypes, ActTypeOK
  <2>4. c \notin incomplete
    BY <2>1 DEF OutputInv
  <2> QED BY <2>1, <2>2, <2>3, <2>4 DEF OutputInv, Terminal
<1>6. ASSUME NEW c \in Commands, CloseInput(c) PROVE OutputInv'
  <2>1. /\ supervisor[c] \in {"closing", "cleaned"}
        /\ \E place \in {"killing", "draining"} : supervisor' = [supervisor EXCEPT ![c] = place]
        /\ UNCHANGED <<written, pipe, output, capture, incomplete, terminal>>
    BY <1>6 DEF CloseInput, outputVars
  <2>2. \A d \in Commands \ {c} : supervisor'[d] = supervisor[d]
    BY <2>1 DEF ActTypes, ActTypeOK
  <2>3. supervisor'[c] # "none"
    BY <2>1 DEF ActTypes, ActTypeOK
  <2>4. c \notin incomplete
    BY <2>1 DEF OutputInv
  <2> QED BY <2>1, <2>2, <2>3, <2>4 DEF OutputInv, Terminal
<1>7. ASSUME NEW c \in Commands, KillAndReap(c) PROVE OutputInv'
  <2>1. /\ supervisor[c] \in {"killing", "cleaning"}
        /\ \E place \in {"cleaned", "draining"} : supervisor' = [supervisor EXCEPT ![c] = place]
        /\ UNCHANGED <<written, pipe, output, capture, incomplete, terminal>>
    BY <1>7 DEF KillAndReap, AfterKill, outputVars
  <2>2. \A d \in Commands \ {c} : supervisor'[d] = supervisor[d]
    BY <2>1 DEF ActTypes, ActTypeOK
  <2>3. supervisor'[c] # "none"
    BY <2>1 DEF ActTypes, ActTypeOK
  <2>4. c \notin incomplete
    BY <2>1 DEF OutputInv
  <2> QED BY <2>1, <2>2, <2>3, <2>4 DEF OutputInv, Terminal
<1>19. ASSUME NEW c \in Commands, WaitFails(c) PROVE OutputInv'
  <2>1. /\ supervisor[c] = "watching"
        /\ \E place \in {"cleaning", "draining"} : supervisor' = [supervisor EXCEPT ![c] = place]
        /\ UNCHANGED <<written, pipe, output, capture, incomplete, terminal>>
    BY <1>19 DEF WaitFails, outputVars
  <2>2. \A d \in Commands \ {c} : supervisor'[d] = supervisor[d]
    BY <2>1 DEF ActTypes, ActTypeOK
  <2>3. supervisor'[c] # "none"
    BY <2>1 DEF ActTypes, ActTypeOK
  <2>4. c \notin incomplete
    BY <2>1 DEF OutputInv
  <2> QED BY <2>1, <2>2, <2>3, <2>4 DEF OutputInv, Terminal
<1>8. ASSUME NEW c \in Commands, DrainTimesOut(c) PROVE OutputInv'
  <2>1. /\ supervisor[c] = "draining" /\ incomplete' = incomplete \cup {c}
        /\ capture' = [capture EXCEPT ![c] = IF @ = "reading" THEN "over" ELSE @]
        /\ UNCHANGED <<written, pipe, output, supervisor, terminal>>
    BY <1>8 DEF DrainTimesOut, superVars
  <2>2. /\ \A d \in Commands \ {c} : capture'[d] = capture[d] /\ (d \in incomplete' <=> d \in incomplete)
        /\ c \in incomplete' /\ capture'[c] = (IF capture[c] = "reading" THEN "over" ELSE capture[c])
    BY <2>1 DEF ActTypes
  <2>3. ~Terminal(c)
    BY <2>1 DEF StageInv
  <2> QED BY <2>1, <2>2, <2>3 DEF OutputInv, Terminal
<1>9. ASSUME NEW c \in Commands, FinishRecord(c) PROVE OutputInv'
  <2>1. /\ supervisor[c] = "draining" /\ CaptureJoined(c)
        /\ capture' = [capture EXCEPT ![c] = IF @ = "reading" THEN "over" ELSE @]
        /\ terminal' = terminal \cup {c}
        /\ \E place \in {"retaining", "over"} : supervisor' = [supervisor EXCEPT ![c] = place]
        /\ UNCHANGED <<written, pipe, output, incomplete>>
    BY <1>9 DEF FinishRecord
  <2>2. capture[c] \in {"reading", "over"} /\ capture'[c] = "over"
    BY <2>1 DEF CaptureJoined, Drained, ActTypes
  <2>3. ~Terminal(c)
    BY <2>1 DEF StageInv
  <2>4. c \notin incomplete => pipe[c] = 0
    BY <2>1, <2>3 DEF CaptureJoined, Drained, OutputInv
  <2>5. supervisor'[c] \in {"retaining", "over"}
    BY <2>1 DEF ActTypes, ActTypeOK
  <2>6. \A d \in Commands \ {c} : /\ capture'[d] = capture[d] /\ supervisor'[d] = supervisor[d]
                                  /\ d \in terminal' <=> d \in terminal
    BY <2>1 DEF ActTypes, ActTypeOK
  <2> QED BY <2>1, <2>2, <2>4, <2>5, <2>6 DEF OutputInv, Terminal
<1>10. ASSUME NEW c \in Commands, RetainFinished(c) PROVE OutputInv'
  BY <1>10 DEF RetainFinished, RetainRecent, callVars, outputVars, pollVars, downVars,
     eventVars, OutputInv, ActTypes, ActTypeOK, StageInv, Terminal, Live
<1>11. ASSUME UNCHANGED <<written, pipe, output, capture, incomplete, supervisor, terminal>> PROVE OutputInv'
  BY <1>11 DEF OutputInv, ActTypes, ActTypeOK, StageInv, Terminal, Live
<1>12. ASSUME NEW c \in Commands, ReserveSlot(c) \/ RegisterRecord(c) \/ SpawnFails(c) \/
   SetSupervisor(c) \/ PublishRefused(c) \/ Publish(c) \/ RetainPublished(c) \/ Return(c) \/
   CancelCall(c) \/ AbortCall(c) \/ ProgramExits(c) \/ PollStarts(c) \/ InputWritten(c) \/
   PollReturns(c) \/ PollCancelled(c) \/ Stop(c)
      PROVE  OutputInv'
  BY <1>12, <1>11 DEF ReserveSlot, listVars, superVars, outputVars, pollVars, downVars,
     eventVars, RegisterRecord, SpawnFails, SetSupervisor, PublishRefused, Publish,
     RetainPublished, Return, CancelCall, AbortCall, ProgramExits, callVars, PollStarts,
     InputWritten, PollReturns, PollCancelled, Stop
<1>13. ASSUME NEW a \in Children, StopOwner(a) PROVE OutputInv'
  BY <1>13, <1>11 DEF StopOwner, callVars, listVars, outputVars, pollVars, eventVars
<1>14. ASSUME Shutdown PROVE OutputInv'
  BY <1>14, <1>11 DEF Shutdown, callVars, listVars, outputVars, pollVars, eventVars
<1>15. ASSUME NEW j \in Joiners, NEW c \in Commands, JoinSupervisor(j, c) PROVE OutputInv'
  BY <1>15, <1>11 DEF JoinSupervisor, callVars, listVars, outputVars, pollVars, eventVars
<1>16. ASSUME NEW j \in Joiners, Joined(j) PROVE OutputInv'
  BY <1>16, <1>11 DEF Joined, callVars, listVars, superVars, outputVars, pollVars, eventVars
<1>17. ASSUME FlushEvents PROVE OutputInv'
  BY <1>17, <1>11 DEF FlushEvents, callVars, listVars, superVars, outputVars, pollVars
<1>18. ASSUME RouteEvent PROVE OutputInv'
  BY <1>18, <1>11 DEF RouteEvent, callVars, listVars, superVars, outputVars, pollVars
<1> QED BY <1>1, <1>2, <1>3, <1>4, <1>5, <1>6, <1>7, <1>8, <1>9, <1>10, <1>12, <1>13, <1>14,
   <1>15, <1>16, <1>17, <1>18, <1>19 DEF ActivitiesNext, Calling, Capturing, Supervising, Joining

\* An event is of a command, or it is the flush.
LEMMA EventParts ==
  ASSUME NEW e \in Events
  PROVE  /\ e = <<e[1], e[2]>>
         /\ \/ e[1] \in {"Changed", "Finished"} /\ e[2] \in Commands
            \/ e = <<"Flush", nobody>> /\ e[1] = "Flush" /\ e[2] = nobody
         /\ e[2] \in Commands => e[2] # nobody
BY ActivitiesAssumption DEF Events

\* What is sent comes last.
LEMMA ChannelGrows ==
  ASSUME channel \in Seq(Events), NEW e \in Events, channel' = Append(channel, e)
  PROVE  /\ Len(channel) \in Nat /\ DOMAIN channel = 1..Len(channel)
         /\ DOMAIN channel' = 1..(Len(channel) + 1) /\ Len(channel') = Len(channel) + 1
         /\ \A i \in 1..Len(channel) : channel'[i] = channel[i] /\ channel[i] \in Events
         /\ channel'[Len(channel) + 1] = e
OBVIOUS

\* What is routed came first.
LEMMA ChannelShrinks ==
  ASSUME channel \in Seq(Events), channel # <<>>, channel' = Tail(channel)
  PROVE  /\ Len(channel) \in Nat \ {0} /\ DOMAIN channel = 1..Len(channel)
         /\ DOMAIN channel' = 1..(Len(channel) - 1) /\ Len(channel') = Len(channel) - 1
         /\ \A i \in 1..(Len(channel) - 1) : i + 1 \in 1..Len(channel) /\ channel'[i] = channel[i + 1]
         /\ \A i \in 2..Len(channel) : i - 1 \in 1..(Len(channel) - 1) /\ channel'[i - 1] = channel[i]
         /\ \A i \in 1..Len(channel) : channel[i] \in Events
         /\ Head(channel) = channel[1] /\ channel[1] \in Events
OBVIOUS

HasEnd(r) == \E i \in DOMAIN r : r[i] = "Finished"

\* Of the four reports, those that lack the end are two, and take one more.
LEMMA ReportsGrow ==
  ASSUME NEW r \in Reports
  PROVE  /\ ~HasEnd(r) => r = <<>> \/ r = <<"Changed">>
         /\ ~HasEnd(r) => Append(r, "Finished") \in Reports
         /\ r = <<>> => Append(r, "Changed") \in Reports /\ ~HasEnd(Append(r, "Changed"))
         /\ HasEnd(Append(r, "Finished"))
         /\ ~HasEnd(<<>>)
         /\ Append(<<>>, "Changed") # <<>>
<1>1. CASE r = <<>>
  BY <1>1 DEF Reports, HasEnd
<1>2. CASE r = <<"Changed">>
  <2>1. Append(r, "Finished") = <<"Changed", "Finished">>
    <3> DEFINE s == Append(<<"Changed">>, "Finished")
               t == <<"Changed", "Finished">>
    <3>1. s \in Seq({"Changed", "Finished"}) /\ t \in Seq({"Changed", "Finished"})
      OBVIOUS
    <3>2. Len(s) = 2 /\ s[1] = "Changed" /\ s[2] = "Finished"
      OBVIOUS
    <3>3. Len(t) = 2 /\ t[1] = "Changed" /\ t[2] = "Finished"
      OBVIOUS
    <3> HIDE DEF s, t
    <3>4. \A i \in 1..Len(s) : s[i] = t[i]
      BY <3>2, <3>3
    <3>5. s = t
      BY <3>1, <3>2, <3>3, <3>4, SeqEqual
    <3> QED BY <1>2, <3>5 DEF s, t
  <2>2. <<"Changed", "Finished">> \in Reports
    BY DEF Reports
  <2>3. DOMAIN r = {1} /\ r[1] = "Changed" /\ r # <<>>
    BY <1>2
  <2>4. ~HasEnd(r)
    BY <2>3 DEF HasEnd
  <2>5. LET q == <<"Changed", "Finished">> IN 2 \in DOMAIN q /\ q[2] = "Finished"
    OBVIOUS
  <2>6. HasEnd(Append(r, "Finished"))
    BY <2>1, <2>5 DEF HasEnd
  <2>7. ~HasEnd(<<>>) /\ Append(<<>>, "Changed") # <<>>
    BY DEF HasEnd
  <2> QED BY <1>2, <2>1, <2>2, <2>3, <2>4, <2>6, <2>7
<1>3. CASE r = <<"Changed", "Finished">>
  BY <1>3 DEF Reports, HasEnd
<1>4. CASE r = <<"Finished">>
  BY <1>4 DEF Reports, HasEnd
<1> QED BY <1>1, <1>2, <1>3, <1>4 DEF Reports

\* One more event of a command: its change when there was none, or its end.
LEMMA EventSent ==
  ASSUME channel \in Seq(Events), channel' \in Seq(Events), EventsInOrder,
         NEW c \in Commands, NEW x \in {"Changed", "Finished"},
         channel' = Append(channel, <<x, c>>), emitted' = emitted,
         ~Ended(c), x = "Changed" => emitted[c] = <<>>,
         \A i \in DOMAIN channel : channel[i][2] = c => channel[i][1] = "Changed" /\ x = "Finished"
  PROVE  \A d \in Commands :
           /\ emitted'[d] \in Reports /\ FollowsEmitted(d)'
           /\ (Ended(d) \/ Ending(d))' <=> Ended(d) \/ Ending(d) \/ (d = c /\ x = "Finished")
<1> SUFFICES ASSUME NEW d \in Commands
             PROVE  /\ emitted'[d] \in Reports /\ FollowsEmitted(d)'
                    /\ (Ended(d) \/ Ending(d))' <=> Ended(d) \/ Ending(d) \/ (d = c /\ x = "Finished")
  OBVIOUS
<1> DEFINE n == Len(channel)
<1>1. /\ n \in Nat /\ DOMAIN channel = 1..n /\ DOMAIN channel' = 1..(n + 1)
      /\ \A i \in 1..n : channel'[i] = channel[i]
      /\ channel'[n + 1] = <<x, c>>
  BY ChannelGrows DEF Events
<1>2. Ended(d)' <=> Ended(d)
  BY DEF Ended
<1>3. Ending(d)' <=> Ending(d) \/ (d = c /\ x = "Finished")
  <2>1. Ending(d)' <=> \E i \in DOMAIN channel' : channel'[i] = <<"Finished", d>>
    BY DEF Ending
  <2>2. Ending(d) <=> \E i \in DOMAIN channel : channel[i] = <<"Finished", d>>
    BY DEF Ending
  <2>3. channel'[n + 1] = <<"Finished", d>> <=> d = c /\ x = "Finished"
    BY <1>1
  <2> HIDE DEF n
  <2>4. n + 1 \in 1..(n + 1) /\ \A i \in 1..n : i \in 1..(n + 1)
    BY <1>1
  <2>5. \A i \in 1..(n + 1) : i \in 1..n \/ i = n + 1
    BY <1>1
  <2>6. ASSUME Ending(d)' PROVE Ending(d) \/ (d = c /\ x = "Finished")
    <3>1. PICK i \in 1..(n + 1) : channel'[i] = <<"Finished", d>>
      BY <1>1, <2>1, <2>6
    <3> QED BY <1>1, <2>2, <2>3, <2>5, <3>1
  <2>7. ASSUME Ending(d) PROVE Ending(d)'
    <3>1. PICK i \in 1..n : channel[i] = <<"Finished", d>>
      BY <1>1, <2>2, <2>7
    <3> QED BY <1>1, <2>1, <2>4, <3>1
  <2>8. ASSUME d = c, x = "Finished" PROVE Ending(d)'
    BY <1>1, <2>1, <2>3, <2>4, <2>8
  <2> QED BY <2>6, <2>7, <2>8
<1>4. FollowsEmitted(d)'
  <2> SUFFICES ASSUME NEW i \in 1..(n + 1), channel'[i][2] = d
               PROVE  /\ IF channel'[i][1] = "Changed" THEN emitted[d] = <<>> ELSE ~Ended(d)
                      /\ \A k \in 1..(i - 1) : channel'[k][2] = d =>
                           channel'[k][1] = "Changed" /\ channel'[i][1] = "Finished"
    BY <1>1, <1>2 DEF FollowsEmitted
  <2>1. CASE i \in 1..n
    <3>1. \A k \in 1..(i - 1) : k \in 1..n
      BY <1>1, <2>1
    <3> QED BY <1>1, <2>1, <3>1 DEF EventsInOrder, FollowsEmitted
  <2>2. CASE i = n + 1
    <3>1. d = c /\ channel'[i][1] = x
      BY <1>1, <2>2
    <3>2. \A k \in 1..(i - 1) : k \in 1..n
      BY <1>1, <2>2
    <3> QED BY <1>1, <3>1, <3>2
  <2> QED BY <1>1, <2>1, <2>2
<1> QED BY <1>2, <1>3, <1>4 DEF EventsInOrder

\* Nothing of these changed.
LEMMA EventsStay ==
  ASSUME EventInv, channel' = channel, emitted' = emitted, published' = published, terminal' = terminal
  PROVE  EventInv'
<1>1. \A c \in Commands :
        /\ Ended(c)' <=> Ended(c)
        /\ Ending(c)' <=> Ending(c)
        /\ FollowsEmitted(c)' <=> FollowsEmitted(c)
        /\ Terminal(c)' <=> Terminal(c)
  BY DEF Ended, Ending, FollowsEmitted, Terminal
<1> QED BY <1>1 DEF EventInv, EventsInOrder

\* Every published command has told its change and its end once, in this order.
LEMMA EventsKept ==
  ASSUME ActTypes, ActTypes', StageInv, EventInv, ActivitiesNext
  PROVE  EventInv'
<1> USE DEF Terminal
<1>0. channel \in Seq(Events) /\ channel' \in Seq(Events) /\ EventsInOrder
  BY DEF ActTypes, EventInv
<1>1. ASSUME NEW c \in Commands, Publish(c) PROVE EventInv'
  <2> DEFINE x == IF Terminal(c) THEN "Finished" ELSE "Changed"
  <2>1. c \notin published /\ emitted[c] = <<>> /\ \A i \in DOMAIN channel : channel[i][2] # c
    BY <1>1 DEF Publish, StageInv, EventInv
  <2>2. /\ channel' = Append(channel, <<x, c>>) /\ emitted' = emitted
        /\ published' = published \cup {c} /\ terminal' = terminal
    BY <1>1 DEF Publish, superVars
  <2>3. ~Ended(c) /\ ~Ending(c)
    BY <1>0, <2>1, ReportsGrow DEF Ended, Ending, HasEnd, EventsInOrder
  <2>4. x \in {"Changed", "Finished"} /\ (x = "Finished" <=> Terminal(c))
    OBVIOUS
  <2> HIDE DEF x
  <2>5. \A d \in Commands :
          /\ emitted'[d] \in Reports /\ FollowsEmitted(d)'
          /\ (Ended(d) \/ Ending(d))' <=> Ended(d) \/ Ending(d) \/ (d = c /\ x = "Finished")
    BY <1>0, <2>1, <2>2, <2>3, <2>4, EventSent
  <2>6. \A d \in Commands : (d \in published' /\ Terminal(d)') <=> (Ended(d) \/ Ending(d))'
    BY <2>2, <2>3, <2>4, <2>5 DEF EventInv, EventsInOrder
  <2>7. ASSUME NEW d \in Commands, d \notin published'
        PROVE  emitted'[d] = <<>> /\ \A i \in DOMAIN channel' : channel'[i][2] # d
    <3>1. d # c /\ emitted[d] = <<>> /\ \A i \in DOMAIN channel : channel[i][2] # d
      BY <2>2, <2>7 DEF EventInv
    <3>2. <<x, c>> \in Events
      BY <2>4 DEF Events
    <3> QED BY <1>0, <2>2, <3>1, <3>2, ChannelGrows
  <2> QED BY <2>5, <2>6, <2>7 DEF EventInv, EventsInOrder
<1>2. ASSUME NEW c \in Commands, FinishRecord(c) PROVE EventInv'
  <2>1. /\ ~Terminal(c) /\ published' = published /\ emitted' = emitted /\ terminal' = terminal \cup {c}
    BY <1>2 DEF FinishRecord, StageInv
  <2>2. CASE c \in published
    <3>1. channel' = Append(channel, <<"Finished", c>>)
      BY <1>2, <2>2 DEF FinishRecord
    <3>2. ~Ended(c) /\ ~Ending(c)
      BY <2>1 DEF EventInv, EventsInOrder
    <3>3. \A i \in DOMAIN channel : channel[i][2] = c => channel[i][1] = "Changed"
      <4> SUFFICES ASSUME NEW i \in DOMAIN channel, channel[i][2] = c, channel[i][1] # "Changed" PROVE FALSE
        OBVIOUS
      <4>1. channel[i] \in Events
        BY <1>0
      <4>2. channel[i] = <<"Finished", c>>
        BY <4>1, EventParts
      <4> QED BY <3>2, <4>2 DEF Ending
    <3>4. \A d \in Commands :
            /\ emitted'[d] \in Reports /\ FollowsEmitted(d)'
            /\ (Ended(d) \/ Ending(d))' <=> Ended(d) \/ Ending(d) \/ d = c
      BY <1>0, <2>1, <3>1, <3>2, <3>3, EventSent
    <3>5. \A d \in Commands : (d \in published' /\ Terminal(d)') <=> (Ended(d) \/ Ending(d))'
      BY <2>1, <2>2, <3>4 DEF EventInv, EventsInOrder
    <3>6. ASSUME NEW d \in Commands, d \notin published'
          PROVE  emitted'[d] = <<>> /\ \A i \in DOMAIN channel' : channel'[i][2] # d
      <4>1. d # c /\ emitted[d] = <<>> /\ \A i \in DOMAIN channel : channel[i][2] # d
        BY <2>1, <2>2, <3>6 DEF EventInv
      <4>2. <<"Finished", c>> \in Events
        BY DEF Events
      <4> QED BY <1>0, <2>1, <3>1, <4>1, <4>2, ChannelGrows
    <3> QED BY <3>4, <3>5, <3>6 DEF EventInv, EventsInOrder
  <2>3. CASE c \notin published
    <3>1. channel' = channel
      BY <1>2, <2>3 DEF FinishRecord
    <3>2. \A d \in Commands :
            /\ Ended(d)' <=> Ended(d)
            /\ Ending(d)' <=> Ending(d)
            /\ FollowsEmitted(d)' <=> FollowsEmitted(d)
      BY <2>1, <3>1 DEF Ended, Ending, FollowsEmitted
    <3>3. \A d \in Commands : (d \in published' /\ Terminal(d)') <=> (d \in published /\ Terminal(d))
      BY <2>1, <2>3
    <3> QED BY <2>1, <3>1, <3>2, <3>3 DEF EventInv, EventsInOrder
  <2> QED BY <2>2, <2>3
<1>3. ASSUME FlushEvents PROVE EventInv'
  <2> DEFINE flush == <<"Flush", nobody>>
  <2>1. /\ channel' = Append(channel, flush) /\ emitted' = emitted
        /\ published' = published /\ terminal' = terminal
    BY <1>3 DEF FlushEvents, listVars, superVars
  <2>2. flush \in Events /\ \A c \in Commands : flush[2] # c
    BY ActivitiesAssumption DEF Events
  <2>3. flush[1] # "Finished"
    OBVIOUS
  <2> HIDE DEF flush
  <2>4. /\ Len(channel) \in Nat /\ DOMAIN channel = 1..Len(channel)
        /\ DOMAIN channel' = 1..(Len(channel) + 1)
        /\ \A i \in 1..Len(channel) : channel'[i] = channel[i]
        /\ channel'[Len(channel) + 1] = flush
    BY <1>0, <2>1, <2>2, ChannelGrows
  <2>5. ASSUME NEW c \in Commands
        PROVE  /\ Ended(c)' <=> Ended(c)
               /\ Ending(c)' <=> Ending(c)
               /\ FollowsEmitted(c)' <=> FollowsEmitted(c)
    <3>1. Ended(c)' <=> Ended(c)
      BY <2>1 DEF Ended
    <3>2. Ending(c)' <=> \E i \in DOMAIN channel' : channel'[i] = <<"Finished", c>>
      BY DEF Ending
    <3>3. flush # <<"Finished", c>>
      BY <2>3
    <3>4. Ending(c)' <=> Ending(c)
      <4>1. ASSUME NEW i \in DOMAIN channel', channel'[i] = <<"Finished", c>> PROVE Ending(c)
        <5>1. i # Len(channel) + 1
          BY <2>4, <3>3, <4>1
        <5>2. i \in 1..Len(channel)
          BY <2>4, <5>1
        <5> QED BY <2>4, <4>1, <5>2 DEF Ending
      <4>2. ASSUME NEW i \in DOMAIN channel, channel[i] = <<"Finished", c>> PROVE Ending(c)'
        <5>1. i \in DOMAIN channel' /\ channel'[i] = channel[i]
          BY <2>4
        <5> QED BY <3>2, <4>2, <5>1
      <4> QED BY <3>2, <4>1, <4>2 DEF Ending
    <3>5. \A i \in 1..Len(channel) : \A k \in 1..(i - 1) : k \in 1..Len(channel)
      BY <2>4
    <3>6. FollowsEmitted(c)' <=> FollowsEmitted(c)
      BY <2>1, <2>2, <2>4, <3>1, <3>5 DEF FollowsEmitted
    <3> QED BY <3>1, <3>4, <3>6
  <2>6. \A c \in Commands : (\A i \in DOMAIN channel : channel[i][2] # c) =>
          \A i \in DOMAIN channel' : channel'[i][2] # c
    BY <2>2, <2>4
  <2> QED BY <2>1, <2>5, <2>6 DEF EventInv, EventsInOrder
<1>4. ASSUME RouteEvent PROVE EventInv'
  <2> DEFINE e == Head(channel)
             n == Len(channel)
  <2>1. channel # <<>> /\ channel' = Tail(channel) /\ published' = published /\ terminal' = terminal
    BY <1>4 DEF RouteEvent, listVars, superVars
  <2>2. /\ n \in Nat \ {0} /\ DOMAIN channel = 1..n /\ DOMAIN channel' = 1..(n - 1)
        /\ \A i \in 1..(n - 1) : i + 1 \in 1..n /\ channel'[i] = channel[i + 1]
        /\ \A i \in 2..n : i - 1 \in 1..(n - 1) /\ channel'[i - 1] = channel[i]
        /\ e = channel[1] /\ e \in Events
    BY <1>0, <2>1, ChannelShrinks
  <2>3. IF e[1] = "Flush" THEN emitted' = emitted
        ELSE /\ e[2] \in Commands /\ e[1] \in {"Changed", "Finished"}
             /\ emitted' = [emitted EXCEPT ![e[2]] = Append(@, e[1])]
    BY <1>4, <2>2, EventParts DEF RouteEvent
  <2>4. e[1] = "Flush" => \A c \in Commands : e[2] # c
    BY <2>2, EventParts
  <2>5. e = <<e[1], e[2]>>
    BY <2>2, EventParts
  <2> HIDE DEF e, n
  <2>6. ASSUME NEW c \in Commands
        PROVE  /\ emitted'[c] \in Reports
               /\ (Ended(c) \/ Ending(c))' <=> Ended(c) \/ Ending(c)
               /\ FollowsEmitted(c)'
               /\ c \notin published => emitted'[c] = <<>> /\ \A i \in DOMAIN channel' : channel'[i][2] # c
    <3>0. /\ emitted[c] \in Reports /\ FollowsEmitted(c)
          /\ c \notin published => emitted[c] = <<>> /\ \A i \in DOMAIN channel : channel[i][2] # c
      BY DEF EventInv, EventsInOrder
    <3>1. Ending(c)' <=> \E i \in DOMAIN channel' : channel'[i] = <<"Finished", c>>
      BY DEF Ending
    <3>2. Ending(c) <=> \E i \in DOMAIN channel : channel[i] = <<"Finished", c>>
      BY DEF Ending
    <3>3. Ending(c) <=> Ending(c)' \/ e = <<"Finished", c>>
      <4>1. ASSUME NEW i \in 1..n, channel[i] = <<"Finished", c>>
            PROVE  Ending(c)' \/ e = <<"Finished", c>>
        <5>1. CASE i = 1
          BY <2>2, <4>1, <5>1
        <5>2. CASE i # 1
          <6>1. i \in 2..n
            BY <2>2, <5>2
          <6> QED BY <2>2, <3>1, <4>1, <6>1
        <5> QED BY <5>1, <5>2
      <4>2. 1 \in 1..n
        BY <2>2
      <4> QED BY <2>2, <3>1, <3>2, <4>1, <4>2
    <3>4. \A i \in 1..(n - 1) : channel'[i][2] = c =>
            /\ IF channel'[i][1] = "Changed" THEN emitted[c] = <<>> ELSE ~Ended(c)
            /\ \A k \in 1..(i - 1) : channel'[k][2] = c => channel'[k][1] = "Changed" /\ channel'[i][1] = "Finished"
            /\ e[2] = c => e[1] = "Changed" /\ channel'[i][1] = "Finished"
      <4> SUFFICES ASSUME NEW i \in 1..(n - 1), channel'[i][2] = c
                   PROVE  /\ IF channel'[i][1] = "Changed" THEN emitted[c] = <<>> ELSE ~Ended(c)
                          /\ \A k \in 1..(i - 1) : channel'[k][2] = c =>
                               channel'[k][1] = "Changed" /\ channel'[i][1] = "Finished"
                          /\ e[2] = c => e[1] = "Changed" /\ channel'[i][1] = "Finished"
        OBVIOUS
      <4>1. i + 1 \in 1..n /\ channel[i + 1][2] = c /\ channel'[i] = channel[i + 1]
        BY <2>2
      <4>2. \A k \in 1..(i - 1) : k + 1 \in 1..((i + 1) - 1) /\ channel'[k] = channel[k + 1]
        BY <2>2
      <4>3. 1 \in 1..((i + 1) - 1)
        BY <2>2
      <4>4. /\ IF channel[i + 1][1] = "Changed" THEN emitted[c] = <<>> ELSE ~Ended(c)
            /\ \A k \in 1..((i + 1) - 1) : channel[k][2] = c =>
                 channel[k][1] = "Changed" /\ channel[i + 1][1] = "Finished"
        BY <2>2, <3>0, <4>1 DEF FollowsEmitted
      <4>5. \A k \in 1..(i - 1) : channel'[k][2] = c =>
              channel'[k][1] = "Changed" /\ channel'[i][1] = "Finished"
        BY <4>1, <4>2, <4>4
      <4> QED BY <2>2, <4>1, <4>3, <4>4, <4>5
    <3>5. CASE e[2] # c
      <4>1. emitted'[c] = emitted[c]
        BY <2>3, <3>5 DEF ActTypes
      <4>2. Ended(c)' <=> Ended(c)
        BY <4>1 DEF Ended
      <4>3. e # <<"Finished", c>>
        BY <2>5, <3>5
      <4>4. FollowsEmitted(c)'
        BY <2>2, <3>4, <4>1, <4>2 DEF FollowsEmitted
      <4>5. (Ended(c) \/ Ending(c))' <=> Ended(c) \/ Ending(c)
        BY <3>3, <4>2, <4>3
      <4>6. emitted'[c] \in Reports
        BY <3>0, <4>1
      <4>7. c \notin published => emitted'[c] = <<>> /\ \A i \in DOMAIN channel' : channel'[i][2] # c
        <5> SUFFICES ASSUME c \notin published
                     PROVE  emitted'[c] = <<>> /\ \A i \in DOMAIN channel' : channel'[i][2] # c
          OBVIOUS
        <5>1. emitted[c] = <<>> /\ \A i \in DOMAIN channel : channel[i][2] # c
          BY <3>0
        <5> QED BY <2>2, <4>1, <5>1
      <4> QED BY <4>4, <4>5, <4>6, <4>7
    <3>6. CASE e[2] = c
      <4>1. /\ e[1] \in {"Changed", "Finished"} /\ emitted'[c] = Append(emitted[c], e[1])
            /\ c \in published
        <5>1. 1 \in DOMAIN channel /\ channel[1][2] = c
          BY <2>2, <3>6
        <5>2. e[1] # "Flush"
          BY <2>4, <3>6
        <5>3. c \in published
          BY <3>0, <5>1
        <5>4. e[1] \in {"Changed", "Finished"} /\ emitted' = [emitted EXCEPT ![c] = Append(@, e[1])]
          BY <2>3, <3>6, <5>2
        <5>5. emitted'[c] = Append(emitted[c], e[1])
          BY <5>4 DEF ActTypes
        <5> QED BY <5>3, <5>4, <5>5
      <4>2. IF e[1] = "Changed" THEN emitted[c] = <<>> ELSE ~Ended(c)
        BY <2>2, <3>0, <3>6 DEF FollowsEmitted
      <4>3. CASE e[1] = "Changed"
        <5>1. emitted'[c] \in Reports /\ ~Ended(c)' /\ ~Ended(c)
          BY <3>0, <4>1, <4>2, <4>3, ReportsGrow DEF Ended, HasEnd
        <5>2. e # <<"Finished", c>>
          BY <4>3
        <5>3. FollowsEmitted(c)'
          BY <2>2, <3>4, <3>6, <5>1 DEF FollowsEmitted
        <5> QED BY <3>3, <4>1, <5>1, <5>2, <5>3
      <4>4. CASE e[1] = "Finished"
        <5>1. emitted'[c] \in Reports /\ Ended(c)'
          BY <3>0, <4>1, <4>2, <4>4, ReportsGrow DEF Ended, HasEnd
        <5>2. e = <<"Finished", c>>
          BY <2>5, <3>6, <4>4
        <5>3. \A i \in 1..(n - 1) : channel'[i][2] # c
          BY <3>4, <3>6, <4>4
        <5>4. FollowsEmitted(c)'
          BY <2>2, <5>3 DEF FollowsEmitted
        <5> QED BY <3>3, <4>1, <5>1, <5>2, <5>4
      <4> QED BY <4>1, <4>3, <4>4
    <3> QED BY <3>5, <3>6
  <2> QED BY <2>1, <2>6 DEF EventInv, EventsInOrder
<1>5. ASSUME UNCHANGED <<channel, emitted, published, terminal>> PROVE EventInv'
  BY <1>5, EventsStay
<1>6. ASSUME NEW c \in Commands, ReserveSlot(c) \/ RegisterRecord(c) \/ SpawnFails(c) \/
   Spawn(c) \/ SetSupervisor(c) \/ PublishRefused(c) \/ RetainPublished(c) \/ Return(c) \/
   CancelCall(c) \/ AbortCall(c) \/ ProgramWrites(c) \/ ProgramExits(c) \/ CaptureReads(c) \/
   CaptureAppends(c) \/ WaitFails(c) \/ Triggered(c) \/ CloseInput(c) \/ KillAndReap(c) \/ DrainTimesOut(c) \/
   RetainFinished(c) \/ PollStarts(c) \/ InputWritten(c) \/ PollReturns(c) \/ PollCancelled(c)
   \/ Stop(c)
      PROVE  EventInv'
  BY <1>6, <1>5 DEF ReserveSlot, listVars, superVars, outputVars, pollVars, downVars,
     eventVars, RegisterRecord, SpawnFails, Spawn, SetSupervisor, PublishRefused,
     RetainPublished, Return, CancelCall, AbortCall, ProgramWrites, callVars, ProgramExits,
     CaptureReads, CaptureAppends, WaitFails, Triggered, CloseInput, KillAndReap, DrainTimesOut,
     RetainFinished, PollStarts, InputWritten, PollReturns, PollCancelled, Stop
<1>7. ASSUME NEW a \in Children, StopOwner(a) PROVE EventInv'
  BY <1>7, <1>5 DEF StopOwner, callVars, listVars, outputVars, pollVars, eventVars
<1>8. ASSUME Shutdown PROVE EventInv'
  BY <1>8, <1>5 DEF Shutdown, callVars, listVars, outputVars, pollVars, eventVars
<1>9. ASSUME NEW j \in Joiners, NEW c \in Commands, JoinSupervisor(j, c) PROVE EventInv'
  BY <1>9, <1>5 DEF JoinSupervisor, callVars, listVars, outputVars, pollVars, eventVars
<1>10. ASSUME NEW j \in Joiners, Joined(j) PROVE EventInv'
  BY <1>10, <1>5 DEF Joined, callVars, listVars, superVars, outputVars, pollVars, eventVars
<1> QED BY <1>1, <1>2, <1>3, <1>4, <1>6, <1>7, <1>8, <1>9, <1>10 DEF ActivitiesNext, Calling,
   Capturing, Supervising, Joining

\* Who lives while the manager shuts down is waited for by shutdown or by its owner's end.
LEMMA JoinsKept ==
  ASSUME ActTypes, ActTypeOK, StageInv, ListInv, JoinInv, FlushInv, ActivitiesNext
  PROVE  JoinInv'
<1>1. ASSUME NEW c \in Commands, ReserveSlot(c) PROVE JoinInv'
  BY <1>1 DEF ReserveSlot, Counted, listVars, superVars, outputVars, pollVars, downVars,
     eventVars, JoinInv, ActTypeOK, Supervised, StageInv
<1>2. ASSUME NEW c \in Commands, RegisterRecord(c) PROVE JoinInv'
  BY <1>2 DEF RegisterRecord, Freed, Counted, superVars, outputVars, pollVars, downVars,
     eventVars, JoinInv, ActTypeOK, Supervised, StageInv
<1>3. ASSUME NEW c \in Commands, SpawnFails(c) PROVE JoinInv'
  BY <1>3 DEF SpawnFails, Freed, outputVars, pollVars, downVars, eventVars, JoinInv, ActTypeOK,
     Supervised, StageInv
<1>4. ASSUME NEW c \in Commands, Spawn(c) PROVE JoinInv'
  BY <1>4 DEF Spawn, listVars, downVars, eventVars, JoinInv, ActTypeOK, Supervised, StageInv
<1>5. ASSUME NEW c \in Commands, SetSupervisor(c) PROVE JoinInv'
  BY <1>5 DEF SetSupervisor, listVars, outputVars, pollVars, downVars, eventVars, JoinInv,
     ActTypeOK, Supervised, StageInv
<1>6. ASSUME NEW c \in Commands, PublishRefused(c) PROVE JoinInv'
  BY <1>6 DEF PublishRefused, StopUnlessOver, listVars, outputVars, pollVars, downVars,
     eventVars, JoinInv, ActTypeOK, Supervised, StageInv
<1>7. ASSUME NEW c \in Commands, Publish(c) PROVE JoinInv'
  BY <1>7 DEF Publish, superVars, outputVars, pollVars, downVars, JoinInv, ActTypeOK,
     Supervised, StageInv
<1>8. ASSUME NEW c \in Commands, RetainPublished(c) PROVE JoinInv'
  BY <1>8 DEF RetainPublished, RetainRecent, superVars, outputVars, pollVars, downVars,
     eventVars, JoinInv, ActTypeOK, Supervised, StageInv
<1>9. ASSUME NEW c \in Commands, Return(c) PROVE JoinInv'
  BY <1>9 DEF Return, listVars, superVars, outputVars, pollVars, downVars, eventVars, JoinInv,
     ActTypeOK, Supervised, StageInv
<1>10. ASSUME NEW c \in Commands, CancelCall(c) PROVE JoinInv'
  BY <1>10 DEF CancelCall, listVars, outputVars, pollVars, downVars, eventVars, JoinInv,
     ActTypeOK, Supervised, StageInv
<1>11. ASSUME NEW c \in Commands, AbortCall(c) PROVE JoinInv'
  BY <1>11 DEF AbortCall, StopUnlessOver, listVars, outputVars, pollVars, downVars, eventVars,
     JoinInv, ActTypeOK, Supervised, StageInv
<1>12. ASSUME NEW c \in Commands, Triggered(c) PROVE JoinInv'
  BY <1>12 DEF Triggered, callVars, listVars, outputVars, pollVars, downVars, eventVars,
     JoinInv, ActTypeOK, Supervised, StageInv
<1>25. ASSUME NEW c \in Commands, WaitFails(c) PROVE JoinInv'
  BY <1>25 DEF WaitFails, callVars, listVars, outputVars, pollVars, downVars, eventVars,
     JoinInv, ActTypeOK, Supervised, StageInv
<1>13. ASSUME NEW c \in Commands, CloseInput(c) PROVE JoinInv'
  BY <1>13 DEF CloseInput, callVars, listVars, outputVars, downVars, eventVars, JoinInv,
     ActTypeOK, Supervised, StageInv
<1>14. ASSUME NEW c \in Commands, KillAndReap(c) PROVE JoinInv'
  BY <1>14 DEF KillAndReap, AfterKill, callVars, listVars, outputVars, pollVars, downVars, eventVars,
     JoinInv, ActTypeOK, Supervised, StageInv
<1>15. ASSUME NEW c \in Commands, FinishRecord(c) PROVE JoinInv'
  BY <1>15 DEF FinishRecord, Freed, CaptureJoined, Drained, pollVars, downVars, JoinInv,
     ActTypeOK, Supervised, StageInv
<1>16. ASSUME NEW c \in Commands, RetainFinished(c) PROVE JoinInv'
  BY <1>16 DEF RetainFinished, RetainRecent, callVars, outputVars, pollVars, downVars,
     eventVars, JoinInv, ActTypeOK, Supervised, StageInv
<1>17. ASSUME NEW a \in Children, StopOwner(a) PROVE JoinInv'
  <2>1. a # "shutdown" /\ "shutdown" \in Joiners /\ a \in Joiners
    BY ActivitiesAssumption DEF Joiners
  <2>2. /\ joining' = [joining EXCEPT ![a] = {c \in records : OwnerOf[c] = a}]
        /\ UNCHANGED <<holding, handle, call, supervisor, shutting_down>>
    BY <1>17 DEF StopOwner, StopAndJoin, callVars
  <2>3. /\ joining'["shutdown"] = joining["shutdown"]
        /\ joining'[a] = {c \in records : OwnerOf[c] = a}
        /\ \A j \in Joiners : j # a => joining'[j] = joining[j]
    BY <2>1, <2>2 DEF ActTypes
  <2>4. \A c \in Commands : Supervised(c)' <=> Supervised(c)
    BY <2>2 DEF Supervised
  <2>5. \A j \in Joiners, c \in Commands : c \in joining'[j] /\ j \in Children => OwnerOf[c] = j
    BY <2>3 DEF JoinInv
  <2> QED BY <2>2, <2>3, <2>4, <2>5 DEF JoinInv
<1>18. ASSUME Shutdown PROVE JoinInv'
  <2>1. "shutdown" \in Joiners /\ "shutdown" \notin Children
    BY ActivitiesAssumption DEF Joiners
  <2>2. /\ shutting_down' = "joining" /\ joining' = [joining EXCEPT !["shutdown"] = records]
        /\ UNCHANGED <<holding, handle, call, supervisor>>
    BY <1>18 DEF Shutdown, StopAndJoin, callVars, superVars
  <2>3. joining'["shutdown"] = records /\ \A j \in Joiners : j # "shutdown" => joining'[j] = joining[j]
    BY <2>1, <2>2 DEF ActTypes
  <2>4. \A c \in Commands : Supervised(c)' <=> Supervised(c)
    BY <2>2 DEF Supervised
  <2>5. \A c \in Commands : call[c] = "registered" \/ Supervised(c) => c \in joining'["shutdown"]
    BY <2>3 DEF ListInv
  <2>6. \A j \in Joiners, c \in Commands : c \in joining'[j] /\ j \in Children => OwnerOf[c] = j
    BY <2>1, <2>3 DEF JoinInv
  <2> QED BY <2>2, <2>4, <2>5, <2>6 DEF JoinInv
<1>19. ASSUME NEW j \in Joiners, NEW c \in Commands, JoinSupervisor(j, c) PROVE JoinInv'
  <2>1. /\ c \in joining[j] /\ holding[j] = nobody /\ handle[c] \in {"Spawned", "Unavailable"}
        /\ handle' = [handle EXCEPT ![c] = "Unavailable"]
        /\ UNCHANGED <<call, supervisor, shutting_down>>
    BY <1>19 DEF JoinSupervisor, callVars, ActTypeOK
  <2>2. handle'[c] = "Unavailable" /\ \A d \in Commands : d # c => handle'[d] = handle[d]
    BY <2>1 DEF ActTypeOK
  <2>3. \A d \in Commands : Supervised(d)' <=> Supervised(d)
    BY <2>1 DEF Supervised
  <2>4. \A d \in Commands : d # nobody
    BY ActivitiesAssumption
  <2>5. "shutdown" \in Joiners /\ \A k \in Joiners : k # "shutdown" => k \in Children
    BY DEF Joiners
  <2>6. call[c] # "registered" /\ call[c] \notin {"idle", "admitted", "registered", "spawned"}
    BY <2>1 DEF JoinInv
  <2>7. CASE handle[c] = "Spawned"
    <3>1. joining' = joining /\ holding' = [holding EXCEPT ![j] = c]
      BY <1>19, <2>7 DEF JoinSupervisor
    <3>2. holding'[j] = c /\ \A k \in Joiners : k # j => holding'[k] = holding[k]
      BY <3>1 DEF ActTypes
    <3>3. \A k \in Joiners, d \in Commands : holding[k] = d => holding'[k] = d
      BY <2>1, <2>4, <3>2
    <3>4. \A k \in Joiners, d \in Commands : holding'[k] = d => handle'[d] = "Unavailable"
      BY <2>2, <3>2 DEF JoinInv
    <3>5. ASSUME NEW d \in Commands, handle'[d] = "Unavailable", Supervised(d)
          PROVE  \E k \in Joiners : holding'[k] = d
      BY <2>2, <3>2, <3>3, <3>5 DEF JoinInv
    <3>6. ASSUME NEW d \in Commands, shutting_down # "no", call[d] = "registered" \/ Supervised(d)
          PROVE  d \in joining["shutdown"] \/ \E a \in Children : holding'[a] = d
      BY <3>3, <3>6 DEF JoinInv, Joiners
    <3> QED BY <2>1, <2>2, <2>3, <2>6, <3>1, <3>4, <3>5, <3>6 DEF JoinInv
  <2>8. CASE handle[c] = "Unavailable"
    <3>1. holding' = holding /\ joining' = [joining EXCEPT ![j] = @ \ {c}]
      BY <1>19, <2>8 DEF JoinSupervisor
    <3>2. joining'[j] = joining[j] \ {c} /\ \A k \in Joiners : k # j => joining'[k] = joining[k]
      BY <3>1 DEF ActTypes
    <3>3. \A d \in Commands : handle'[d] = handle[d]
      BY <2>2, <2>8
    <3>4. \A k \in Joiners : joining'[k] \subseteq joining[k]
      BY <3>2
    <3>5. ASSUME NEW d \in Commands, shutting_down # "no", call[d] = "registered" \/ Supervised(d)
          PROVE  d \in joining'["shutdown"] \/ \E a \in Children : holding[a] = d
      <4>1. CASE d \in joining["shutdown"] /\ d \notin joining'["shutdown"]
        <5>1. j = "shutdown" /\ d = c
          BY <2>5, <3>2, <4>1
        <5>2. PICK k \in Joiners : holding[k] = d
          BY <2>6, <2>8, <3>5, <5>1 DEF JoinInv
        <5> QED BY <2>1, <2>4, <2>5, <5>1, <5>2
      <4> QED BY <3>5, <4>1 DEF JoinInv
    <3> QED BY <2>1, <2>3, <2>5, <3>1, <3>3, <3>4, <3>5 DEF JoinInv
  <2> QED BY <2>1, <2>7, <2>8
<1>20. ASSUME NEW j \in Joiners, Joined(j) PROVE JoinInv'
  <2>1. /\ holding[j] # nobody /\ supervisor[holding[j]] = "over"
        /\ joining' = [joining EXCEPT ![j] = @ \ {holding[j]}]
        /\ holding' = [holding EXCEPT ![j] = nobody]
        /\ UNCHANGED <<handle, call, supervisor, shutting_down>>
    BY <1>20 DEF Joined, callVars, superVars
  <2>2. /\ joining'[j] = joining[j] \ {holding[j]} /\ holding'[j] = nobody
        /\ \A k \in Joiners : k # j => joining'[k] = joining[k] /\ holding'[k] = holding[k]
    BY <2>1 DEF ActTypes
  <2>3. \A d \in Commands : Supervised(d)' <=> Supervised(d)
    BY <2>1 DEF Supervised
  <2>4. \A d \in Commands : call[d] = "registered" \/ Supervised(d) => d # holding[j]
    BY <2>1 DEF StageInv, Supervised
  <2>5. \A k \in Joiners : joining'[k] \subseteq joining[k]
    BY <2>2
  <2>6. \A k \in Joiners, d \in Commands : holding'[k] = d => holding[k] = d
    BY <2>2, ActivitiesAssumption
  <2>7. \A k \in Joiners, d \in Commands : holding[k] = d /\ d # holding[j] => holding'[k] = d
    BY <2>2
  <2>8. "shutdown" \in Joiners /\ Children \subseteq Joiners
    BY DEF Joiners
  <2>9. ASSUME NEW d \in Commands, handle[d] = "Unavailable", Supervised(d)
        PROVE  \E k \in Joiners : holding'[k] = d
    BY <2>4, <2>7, <2>9 DEF JoinInv
  <2>10. ASSUME NEW d \in Commands, shutting_down # "no", call[d] = "registered" \/ Supervised(d)
         PROVE  d \in joining'["shutdown"] \/ \E a \in Children : holding'[a] = d
    <3>1. CASE d \in joining["shutdown"]
      BY <2>2, <2>4, <2>8, <2>10, <3>1
    <3>2. CASE \E a \in Children : holding[a] = d
      BY <2>4, <2>7, <2>8, <2>10, <3>2
    <3> QED BY <2>10, <3>1, <3>2 DEF JoinInv
  <2> QED BY <2>1, <2>3, <2>5, <2>6, <2>8, <2>9, <2>10 DEF JoinInv
<1>21. ASSUME FlushEvents PROVE JoinInv'
  BY <1>21 DEF FlushEvents, callVars, listVars, superVars, outputVars, pollVars, JoinInv,
     ActTypeOK, Supervised, StageInv
<1>22. ASSUME RouteEvent PROVE JoinInv'
  <2>1. channel # <<>> /\ UNCHANGED <<holding, joining, handle, call, supervisor>>
    BY <1>22 DEF RouteEvent, callVars, superVars
  <2>2. CASE shutting_down' = shutting_down
    BY <2>1, <2>2 DEF JoinInv, Supervised
  <2>3. CASE shutting_down' # shutting_down
    <3>1. Head(channel)[1] = "Flush"
      BY <1>22, <2>3 DEF RouteEvent
    <3>2. 1 \in DOMAIN channel /\ Head(channel) = channel[1] /\ channel[1] \in Events
      BY <2>1 DEF ActTypes
    <3>3. shutting_down = "flushing"
      BY <3>1, <3>2, EventParts DEF FlushInv
    <3> QED BY <2>1, <3>3 DEF JoinInv, Supervised
  <2> QED BY <2>2, <2>3
<1>23. ASSUME UNCHANGED <<holding, joining, handle, call, supervisor, shutting_down>> PROVE JoinInv'
  BY <1>23 DEF JoinInv, ActTypeOK, Supervised, StageInv
<1>24. ASSUME NEW c \in Commands, ProgramWrites(c) \/ ProgramExits(c) \/ CaptureReads(c) \/
   CaptureAppends(c) \/ DrainTimesOut(c) \/ PollStarts(c) \/ InputWritten(c) \/ PollReturns(c)
   \/ PollCancelled(c) \/ Stop(c)
      PROVE  JoinInv'
  BY <1>24, <1>23 DEF ProgramWrites, callVars, listVars, superVars, pollVars, downVars,
     eventVars, ProgramExits, outputVars, CaptureReads, CaptureAppends, DrainTimesOut,
     PollStarts, InputWritten, PollReturns, PollCancelled, Stop
<1> QED BY <1>1, <1>2, <1>3, <1>4, <1>5, <1>6, <1>7, <1>8, <1>9, <1>10, <1>11, <1>12, <1>13,
   <1>14, <1>15, <1>16, <1>17, <1>18, <1>19, <1>20, <1>21, <1>22, <1>24, <1>25 DEF ActivitiesNext,
   Calling, Capturing, Supervising, Joining

\* Nothing of these changed.
LEMMA FlushStays ==
  ASSUME FlushInv, channel' = channel, emitted' = emitted, published' = published,
         shutting_down' = shutting_down
  PROVE  FlushInv'
<1>1. \A c \in Commands : Ended(c)' <=> Ended(c)
  BY DEF Ended
<1>2. \A c \in published : Ended(c)' <=> Ended(c)
  BY DEF Ended
<1> QED BY <1>2 DEF FlushInv

\* An end that was reported stays, and one more report may be it.
LEMMA EndStays ==
  ASSUME NEW r \in Seq({"Changed", "Finished"}), NEW x \in {"Changed", "Finished"}
  PROVE  /\ HasEnd(r) => HasEnd(Append(r, x))
         /\ x = "Finished" => HasEnd(Append(r, x))
<1>1. /\ DOMAIN r = 1..Len(r) /\ DOMAIN Append(r, x) = 1..(Len(r) + 1) /\ Len(r) \in Nat
      /\ \A i \in 1..Len(r) : Append(r, x)[i] = r[i]
      /\ Append(r, x)[Len(r) + 1] = x
  OBVIOUS
<1>2. Len(r) + 1 \in 1..(Len(r) + 1) /\ \A i \in 1..Len(r) : i \in 1..(Len(r) + 1)
  BY <1>1
<1> QED BY <1>1, <1>2 DEF HasEnd

\* The flush stays behind the ends of the main agent's commands.
LEMMA FlushKept ==
  ASSUME ActTypes, StageInv, EventInv, JoinInv, FlushInv, ActivitiesNext
  PROVE  FlushInv'
<1> DEFINE flush == <<"Flush", nobody>>
           n == Len(channel)
<1>0. /\ channel \in Seq(Events) /\ flush \in Events
      /\ n \in Nat /\ DOMAIN channel = 1..n
      /\ \A c \in Commands, x \in {"Changed", "Finished"} : <<x, c>> \in Events /\ <<x, c>> # flush
  BY DEF ActTypes, Events
<1>1. ASSUME NEW c \in Commands, Publish(c) PROVE FlushInv'
  <2>1. /\ shutting_down = "no" /\ shutting_down' = "no"
        /\ \E x \in {"Changed", "Finished"} : channel' = Append(channel, <<x, c>>)
    BY <1>1 DEF Publish, downVars
  <2>2. PICK x \in {"Changed", "Finished"} : channel' = Append(channel, <<x, c>>)
    BY <2>1
  <2>3. <<x, c>> \in Events /\ <<x, c>> # flush
    BY <1>0
  <2>4. /\ DOMAIN channel' = 1..(n + 1) /\ channel'[n + 1] = <<x, c>>
        /\ \A i \in 1..n : channel'[i] = channel[i]
    BY <1>0, <2>2, <2>3, ChannelGrows
  <2>5. \A i \in 1..n : channel[i] # flush
    BY <1>0, <2>1 DEF FlushInv
  <2>6. \A i \in DOMAIN channel' : channel'[i] # flush
    <3> SUFFICES ASSUME NEW i \in 1..(n + 1) PROVE channel'[i] # flush
      BY <2>4
    <3>1. i \in 1..n \/ i = n + 1
      BY <1>0
    <3> QED BY <2>3, <2>4, <2>5, <3>1
  <2> QED BY <2>1, <2>6 DEF FlushInv
<1>2. ASSUME NEW c \in Commands, FinishRecord(c) PROVE FlushInv'
  <2>1. /\ UNCHANGED <<emitted, published, shutting_down>>
        /\ channel' = channel \/ channel' = Append(channel, <<"Finished", c>>)
    BY <1>2 DEF FinishRecord, downVars
  <2>2. CASE channel' = channel
    BY <2>1, <2>2, FlushStays
  <2>3. CASE channel' = Append(channel, <<"Finished", c>>)
    <3>1. /\ DOMAIN channel' = 1..(n + 1) /\ channel'[n + 1] # flush
          /\ \A i \in 1..n : channel'[i] = channel[i]
      BY <1>0, <2>3, ChannelGrows
    <3>2. \A d \in published : Ended(d)' <=> Ended(d)
      BY <2>1 DEF Ended
    <3>3. ASSUME NEW i \in DOMAIN channel', channel'[i] = flush
          PROVE  /\ shutting_down' = "flushing"
                 /\ \A k \in DOMAIN channel' : channel'[k] = channel'[i] => k = i
                 /\ \A d \in published : ~Child(d) =>
                      Ended(d)' \/ \E k \in 1..(i - 1) : channel'[k] = <<"Finished", d>>
      <4>1. \A k \in DOMAIN channel' : channel'[k] = flush => k \in 1..n
        <5> SUFFICES ASSUME NEW k \in 1..(n + 1), channel'[k] = flush PROVE k \in 1..n
          BY <3>1
        <5>1. k # n + 1
          BY <3>1
        <5> QED BY <1>0, <5>1
      <4>2. i \in 1..n /\ channel[i] = flush
        BY <3>1, <3>3, <4>1
      <4>3. /\ shutting_down = "flushing"
            /\ \A k \in 1..n : channel[k] = channel[i] => k = i
            /\ \A d \in published : ~Child(d) =>
                 Ended(d) \/ \E k \in 1..(i - 1) : channel[k] = <<"Finished", d>>
        BY <1>0, <4>2 DEF FlushInv
      <4>4. \A k \in 1..(i - 1) : k \in 1..n
        BY <1>0, <4>2
      <4>5. \A k \in DOMAIN channel' : channel'[k] = channel'[i] => k = i
        BY <3>1, <3>3, <4>1, <4>2, <4>3
      <4>6. \A d \in published : ~Child(d) =>
              Ended(d)' \/ \E k \in 1..(i - 1) : channel'[k] = <<"Finished", d>>
        BY <3>1, <3>2, <4>3, <4>4
      <4> QED BY <2>1, <4>3, <4>5, <4>6
    <3>4. shutting_down = "down" => \A d \in published : ~Child(d) => Ended(d)
      BY DEF FlushInv
    <3> QED BY <2>1, <3>2, <3>3, <3>4 DEF FlushInv, Child
  <2> QED BY <2>1, <2>2, <2>3
<1>3. ASSUME Shutdown PROVE FlushInv'
  <2>1. /\ shutting_down = "no" /\ shutting_down' = "joining"
        /\ channel' = channel
    BY <1>3 DEF Shutdown, eventVars
  <2> QED BY <2>1 DEF FlushInv
<1>4. ASSUME FlushEvents PROVE FlushInv'
  <2>1. /\ shutting_down = "joining" /\ joining["shutdown"] = {} /\ shutting_down' = "flushing"
        /\ channel' = Append(channel, flush) /\ emitted' = emitted /\ published' = published
    BY <1>4 DEF FlushEvents, listVars
  <2>2. /\ DOMAIN channel' = 1..(n + 1) /\ \A i \in 1..n : channel'[i] = channel[i]
    BY <1>0, <2>1, ChannelGrows
  <2>3. \A i \in 1..n : channel'[i] # flush
    BY <1>0, <2>1, <2>2 DEF FlushInv
  <2>4. \A i \in DOMAIN channel' : channel'[i] = flush => i = n + 1
    <3> SUFFICES ASSUME NEW i \in 1..(n + 1), channel'[i] = flush PROVE i = n + 1
      BY <2>2
    <3> QED BY <1>0, <2>3
  <2>5. ASSUME NEW c \in published, ~Child(c)
        PROVE  Ended(c)' \/ \E k \in 1..n : channel'[k] = <<"Finished", c>>
    <3>1. c \in Commands
      BY <2>5 DEF ActTypes
    <3>2. \A a \in Children : holding[a] # c
      <4> SUFFICES ASSUME NEW a \in Children, holding[a] = c PROVE FALSE
        OBVIOUS
      <4>1. a \in Joiners /\ c # nobody
        BY <3>1, ActivitiesAssumption DEF Joiners
      <4>2. c \in joining[a]
        BY <4>1 DEF ActTypes, ActTypeOK
      <4> QED BY <2>5, <3>1, <4>1, <4>2 DEF JoinInv, Child
    <3>3. ~Supervised(c)
      BY <2>1, <3>1, <3>2 DEF JoinInv
    <3>4. Terminal(c)
      BY <2>5, <3>1, <3>3 DEF StageInv, Supervised, ActTypes, ActTypeOK
    <3>5. Ended(c) \/ Ending(c)
      BY <2>5, <3>1, <3>4 DEF EventInv, EventsInOrder
    <3> QED BY <1>0, <2>1, <2>2, <3>5 DEF Ended, Ending
  <2>6. ASSUME NEW i \in DOMAIN channel', channel'[i] = flush
        PROVE  /\ \A k \in DOMAIN channel' : channel'[k] = channel'[i] => k = i
               /\ \A c \in published' : ~Child(c) =>
                    Ended(c)' \/ \E k \in 1..(i - 1) : channel'[k] = <<"Finished", c>>
    <3>1. i = n + 1 /\ published' = published
      BY <2>1, <2>4, <2>6
    <3>2. n \in Nat
      BY <1>0
    <3>3. i - 1 = n
      BY <3>1, <3>2
    <3>4. \A k \in DOMAIN channel' : channel'[k] = channel'[i] => k = i
      BY <2>4, <2>6, <3>1
    <3> QED BY <2>5, <3>1, <3>3, <3>4
  <2> QED BY <2>1, <2>6 DEF FlushInv, Child
<1>5. ASSUME RouteEvent PROVE FlushInv'
  <2> DEFINE e == Head(channel)
  <2>1. channel # <<>> /\ channel' = Tail(channel) /\ published' = published
    BY <1>5 DEF RouteEvent, listVars
  <2>2. /\ n \in Nat \ {0} /\ DOMAIN channel' = 1..(n - 1)
        /\ \A i \in 1..(n - 1) : i + 1 \in 1..n /\ channel'[i] = channel[i + 1]
        /\ \A i \in 2..n : i - 1 \in 1..(n - 1) /\ channel'[i - 1] = channel[i]
        /\ e = channel[1] /\ e \in Events
    BY <1>0, <2>1, ChannelShrinks
  <2>3. 1 \in 1..n /\ published \subseteq Commands
    BY <2>2 DEF ActTypes
  <2>4. IF e = flush THEN shutting_down' = "down" /\ emitted' = emitted
        ELSE /\ e[2] \in Commands /\ e[1] \in {"Changed", "Finished"} /\ shutting_down' = shutting_down
             /\ emitted' = [emitted EXCEPT ![e[2]] = Append(@, e[1])]
    BY <1>5, <2>2, EventParts DEF RouteEvent
  <2> HIDE DEF e
  <2>5. ASSUME NEW c \in Commands
        PROVE  (Ended(c) => Ended(c)') /\ (e = <<"Finished", c>> => Ended(c)')
    <3>1. CASE e = flush \/ e[2] # c
      <4>1. emitted'[c] = emitted[c]
        BY <2>4, <3>1 DEF ActTypes
      <4>2. e # <<"Finished", c>>
        BY <1>0, <3>1
      <4> QED BY <4>1, <4>2 DEF Ended
    <3>2. CASE e # flush /\ e[2] = c
      <4>1. emitted' = [emitted EXCEPT ![c] = Append(@, e[1])] /\ e[1] \in {"Changed", "Finished"}
        BY <2>4, <3>2
      <4>2. emitted'[c] = Append(emitted[c], e[1]) /\ emitted[c] \in Seq({"Changed", "Finished"})
        BY <4>1 DEF ActTypes
      <4> QED BY <4>1, <4>2, EndStays DEF Ended, HasEnd
    <3> QED BY <3>1, <3>2
  <2>6. CASE e = flush
    <3>1. /\ \A k \in 1..n : channel[k] = flush => k = 1
          /\ \A c \in published : ~Child(c) => Ended(c) \/ \E k \in 1..(1 - 1) : channel[k] = <<"Finished", c>>
      <4>1. 1 \in DOMAIN channel /\ channel[1] = flush
        BY <1>0, <2>2, <2>3, <2>6
      <4>2. /\ \A k \in DOMAIN channel : channel[k] = channel[1] => k = 1
            /\ \A c \in published : ~Child(c) =>
                 Ended(c) \/ \E k \in 1..(1 - 1) : channel[k] = <<"Finished", c>>
        BY <4>1 DEF FlushInv
      <4> QED BY <1>0, <4>1, <4>2
    <3>2. \A c \in published : ~Child(c) => Ended(c)'
      BY <2>3, <2>5, <3>1
    <3>3. \A i \in DOMAIN channel' : channel'[i] # flush
      <4> SUFFICES ASSUME NEW i \in 1..(n - 1), channel'[i] = flush PROVE FALSE
        BY <2>2
      <4>1. i + 1 \in 1..n /\ channel[i + 1] = flush
        BY <2>2
      <4>2. i + 1 # 1
        BY <2>2
      <4> QED BY <3>1, <4>1, <4>2
    <3> QED BY <2>1, <3>2, <3>3 DEF FlushInv, Child
  <2>7. CASE e # flush
    <3>1. ASSUME NEW i \in DOMAIN channel', channel'[i] = flush
          PROVE  /\ shutting_down' = "flushing"
                 /\ \A k \in DOMAIN channel' : channel'[k] = channel'[i] => k = i
                 /\ \A c \in published : ~Child(c) =>
                      Ended(c)' \/ \E k \in 1..(i - 1) : channel'[k] = <<"Finished", c>>
      <4>1. i \in 1..(n - 1) /\ i + 1 \in 1..n /\ channel[i + 1] = flush
        BY <2>2, <3>1
      <4>2. /\ shutting_down = "flushing"
            /\ \A k \in 1..n : channel[k] = flush => k = i + 1
            /\ \A c \in published : ~Child(c) =>
                 Ended(c) \/ \E k \in 1..((i + 1) - 1) : channel[k] = <<"Finished", c>>
        BY <1>0, <4>1 DEF FlushInv
      <4>3. ASSUME NEW k \in 1..(n - 1), channel'[k] = flush PROVE k = i
        <5>1. k + 1 \in 1..n /\ channel[k + 1] = flush
          BY <2>2, <4>3
        <5>2. k + 1 = i + 1
          BY <4>2, <5>1
        <5> QED BY <4>1, <5>2
      <4>4. ASSUME NEW c \in published, ~Child(c), ~Ended(c)'
            PROVE  \E k \in 1..(i - 1) : channel'[k] = <<"Finished", c>>
        <5>1. PICK k \in 1..((i + 1) - 1) : channel[k] = <<"Finished", c>>
          BY <2>3, <2>5, <4>2, <4>4
        <5>2. k # 1
          BY <2>2, <2>3, <2>5, <4>4, <5>1
        <5>3. k \in 2..n /\ k - 1 \in 1..(i - 1)
          BY <4>1, <5>2
        <5>4. channel'[k - 1] = <<"Finished", c>>
          BY <2>2, <5>1, <5>3
        <5> QED BY <5>3, <5>4
      <4> QED BY <2>2, <2>4, <2>7, <3>1, <4>2, <4>3, <4>4
    <3>2. shutting_down' = "down" => \A c \in published : ~Child(c) => Ended(c)'
      BY <2>3, <2>4, <2>5, <2>7 DEF FlushInv
    <3> QED BY <2>1, <3>1, <3>2 DEF FlushInv, Child
  <2> QED BY <2>6, <2>7
<1>6. ASSUME UNCHANGED <<channel, shutting_down, published, emitted>> PROVE FlushInv'
  BY <1>6, FlushStays
<1>7. ASSUME NEW c \in Commands, ReserveSlot(c) \/ RegisterRecord(c) \/ SpawnFails(c) \/
   Spawn(c) \/ SetSupervisor(c) \/ PublishRefused(c) \/ RetainPublished(c) \/ Return(c) \/
   CancelCall(c) \/ AbortCall(c) \/ ProgramWrites(c) \/ ProgramExits(c) \/ CaptureReads(c) \/
   CaptureAppends(c) \/ WaitFails(c) \/ Triggered(c) \/ CloseInput(c) \/ KillAndReap(c) \/ DrainTimesOut(c) \/
   RetainFinished(c) \/ PollStarts(c) \/ InputWritten(c) \/ PollReturns(c) \/ PollCancelled(c)
   \/ Stop(c)
      PROVE  FlushInv'
  BY <1>7, <1>6 DEF ReserveSlot, listVars, superVars, outputVars, pollVars, downVars,
     eventVars, RegisterRecord, SpawnFails, Spawn, SetSupervisor, PublishRefused,
     RetainPublished, Return, CancelCall, AbortCall, ProgramWrites, callVars, ProgramExits,
     CaptureReads, CaptureAppends, WaitFails, Triggered, CloseInput, KillAndReap, DrainTimesOut,
     RetainFinished, PollStarts, InputWritten, PollReturns, PollCancelled, Stop
<1>8. ASSUME NEW a \in Children, StopOwner(a) PROVE FlushInv'
  BY <1>8, <1>6 DEF StopOwner, callVars, listVars, outputVars, pollVars, eventVars
<1>9. ASSUME NEW j \in Joiners, NEW c \in Commands, JoinSupervisor(j, c) PROVE FlushInv'
  BY <1>9, <1>6 DEF JoinSupervisor, callVars, listVars, outputVars, pollVars, eventVars
<1>10. ASSUME NEW j \in Joiners, Joined(j) PROVE FlushInv'
  BY <1>10, <1>6 DEF Joined, callVars, listVars, superVars, outputVars, pollVars, eventVars
<1> QED BY <1>1, <1>2, <1>3, <1>4, <1>5, <1>7, <1>8, <1>9, <1>10 DEF ActivitiesNext, Calling,
   Capturing, Supervising, Joining

\* Nothing has been issued, started, sent or stopped at first.
LEMMA Initially ==
  ASSUME ActivitiesInit
  PROVE  ActivityInv
<1>1. ActTypeOK
  BY DEF ActivitiesInit, ActTypeOK
<1>2. ActTypes
  <2>1. issued \subseteq Commands
    BY DEF ActivitiesInit
  <2> QED BY <1>1, <2>1 DEF ActivitiesInit, ActTypes
<1>3. StageInv
  BY DEF ActivitiesInit, StageInv, Terminal, Live, Watched, GivenUp
<1>4. PermitInv
  <2>1. Cardinality(permit) = 0 /\ \A owners : Permits(owners) = 0
    BY FS_EmptySet DEF ActivitiesInit, Permits
  <2>2. SlotsMatchPermits
    BY <2>1, ActivitiesAssumption DEF ActivitiesInit, SlotsMatchPermits
  <2> QED BY <2>2 DEF ActivitiesInit, PermitInv, Supervised
<1>5. ListInv
  BY ActivitiesAssumption DEF ActivitiesInit, ListInv, Supervised
<1>6. OutputInv
  BY DEF ActivitiesInit, OutputInv, Terminal
<1>7. EventInv
  BY DEF ActivitiesInit, EventInv, EventsInOrder, FollowsEmitted, Reports, Ended, Ending, Terminal
<1>8. JoinInv
  BY ActivitiesAssumption DEF ActivitiesInit, JoinInv, Supervised, Joiners
<1>9. FlushInv
  BY DEF ActivitiesInit, FlushInv
<1> QED BY <1>2, <1>3, <1>4, <1>5, <1>6, <1>7, <1>8, <1>9 DEF ActivityInv

\* Each step keeps the whole of it.
LEMMA Stepwise ==
  ASSUME ActivityInv, [ActivitiesNext]_activityVars
  PROVE  ActivityInv'
<1> USE DEF ActivityInv
<1>0. ActTypeOK
  BY DEF ActTypes
<1>1. CASE ActivitiesNext
  <2>1. ActTypes'
    BY <1>1, TypesKept
  <2>2. StageInv'
    BY <1>0, <1>1, StageKept
  <2>3. PermitInv'
    BY <1>0, <1>1, <2>2, PermitsKept
  <2>4. ListInv'
    BY <1>0, <1>1, ListKept
  <2>5. OutputInv'
    BY <1>1, OutputKept
  <2>6. EventInv'
    BY <1>1, <2>1, EventsKept
  <2>7. JoinInv'
    BY <1>0, <1>1, JoinsKept
  <2>8. FlushInv'
    BY <1>1, FlushKept
  <2> QED BY <2>1, <2>2, <2>3, <2>4, <2>5, <2>6, <2>7, <2>8
<1>2. CASE UNCHANGED activityVars
  <2> USE <1>2 DEF activityVars, callVars, listVars, superVars, processVars, outputVars, pollVars, downVars, eventVars
  <2>1. ActTypes'
    BY DEF ActTypes, ActTypeOK
  <2>2. StageInv'
    BY DEF StageInv, Live, Watched, GivenUp, Terminal
  <2>3. PermitInv'
    BY DEF PermitInv, SlotsMatchPermits, Permits, Supervised
  <2>4. ListInv'
    BY DEF ListInv, Supervised
  <2>5. OutputInv'
    BY DEF OutputInv, Terminal
  <2>6. EventInv'
    BY EventsStay
  <2>7. JoinInv'
    BY DEF JoinInv, Supervised
  <2>8. FlushInv'
    BY FlushStays
  <2> QED BY <2>1, <2>2, <2>3, <2>4, <2>5, <2>6, <2>7, <2>8
<1> QED BY <1>1, <1>2

\* The stages of a command, its permit, its place in the lists, its output, its
\* events and those who join it go together in every reachable state.
THEOREM ActivitiesCorrect == ActivitiesSpec => []ActivityInv
<1>1. ActivitiesInit => ActivityInv
  BY Initially
<1>2. ActivityInv /\ [ActivitiesNext]_activityVars => ActivityInv'
  BY Stepwise
<1> QED BY <1>1, <1>2, PTL DEF ActivitiesSpec

\* No process is forgotten: LiveIsAccounted, of the counters and permits, the
\* list a stop or shutdown reads, and the recent ones, whatever the limits are.
THEOREM LiveIsAccountedAlways == ActivitiesSpec => []LiveIsAccounted
<1>1. ActivityInv => LiveIsAccounted
  <2> SUFFICES ASSUME ActivityInv PROVE LiveIsAccounted
    OBVIOUS
  <2>1. ActTypeOK /\ SlotsMatchPermits
    BY DEF ActivityInv, ActTypes, PermitInv
  <2>2. LiveIsListed
    <3> SUFFICES ASSUME NEW c \in Commands, Live(c), ~GivenUp(c) PROVE c \in permit /\ c \in records
      BY DEF LiveIsListed
    <3>1. Supervised(c)
      BY DEF ActivityInv, StageInv, Watched, Supervised
    <3> QED BY <3>1 DEF ActivityInv, PermitInv, ListInv
  <2>3. AbandonedIsStopped
    BY DEF ActivityInv, StageInv, ListInv, Supervised, AbandonedIsStopped
  <2>4. RecentBounded
    <3>1. /\ Len(recent) <= MAX_RECENT_TASKS
          /\ \A i \in DOMAIN recent : recent[i] \in records
          /\ \A i, k \in DOMAIN recent : recent[i] = recent[k] => i = k
      BY DEF ActivityInv, ListInv
    <3>2. \A c \in Commands : c \in records /\ supervisor[c] = "over" /\ call[c] = "over" =>
            \E i \in DOMAIN recent : recent[i] = c
      BY DEF ActivityInv, ListInv
    <3>3. records \subseteq Commands
      BY DEF ActivityInv, ActTypes, ActTypeOK
    <3> QED BY <3>1, <3>2, <3>3 DEF RecentBounded
  <2> QED BY <2>1, <2>2, <2>3, <2>4 DEF LiveIsAccounted
<1> QED BY <1>1, ActivitiesCorrect, PTL

\* Only the capture adds to an output, and it is over when the command is.
LEMMA OutputEnds ==
  ASSUME ActivityInv, ActivitiesNext, NEW c \in Commands, Terminal(c)
  PROVE  output'[c] = output[c]
<1>1. capture[c] = "over" /\ output \in [Commands -> Nat]
  BY DEF ActivityInv, OutputInv, ActTypes
<1>2. ASSUME NEW d \in Commands, CaptureAppends(d) PROVE output'[c] = output[c]
  BY <1>1, <1>2 DEF CaptureAppends
<1>3. ASSUME NEW d \in Commands,
             ReserveSlot(d) \/ Calling(d) \/ CancelCall(d) \/ AbortCall(d) \/ ProgramWrites(d)
             \/ ProgramExits(d) \/ CaptureReads(d) \/ WaitFails(d)
      PROVE  output' = output
  BY <1>3 DEF ReserveSlot, Calling, RegisterRecord, SpawnFails, Spawn, SetSupervisor, PublishRefused, Publish,
     RetainPublished, Return, CancelCall, AbortCall, ProgramWrites, ProgramExits, CaptureReads, WaitFails, outputVars
<1>4. ASSUME NEW d \in Commands,
             Supervising(d) \/ PollStarts(d) \/ InputWritten(d) \/ PollReturns(d) \/ PollCancelled(d) \/ Stop(d)
      PROVE  output' = output
  BY <1>4 DEF Supervising, Triggered, CloseInput, KillAndReap, DrainTimesOut, FinishRecord, RetainFinished,
     PollStarts, InputWritten, PollReturns, PollCancelled, Stop, outputVars
<1>5. ASSUME \/ \E a \in Children : StopOwner(a)
             \/ \E j \in Joiners : Joining(j)
             \/ Shutdown \/ FlushEvents \/ RouteEvent
      PROVE  output' = output
  BY <1>5 DEF StopOwner, Joining, Joined, JoinSupervisor, Shutdown, FlushEvents, RouteEvent, outputVars
<1> QED BY <1>2, <1>3, <1>4, <1>5 DEF ActivitiesNext, Capturing

\* An end is final: FinishedIsComplete, of the output a command leaves, which
\* grows no more, and of its change and its end on their way to the clients.
THEOREM FinishedIsCompleteAlways == ActivitiesSpec => FinishedIsComplete
<1>1. ActivityInv => OutputIsWhole /\ EventsInOrder
  <2> SUFFICES ASSUME ActivityInv, NEW c \in Commands, Terminal(c)
               PROVE  capture[c] = "over" /\ (c \notin incomplete => output[c] = written[c])
    BY DEF ActivityInv, EventInv, OutputIsWhole
  <2>1. /\ capture[c] = "over" /\ (c \notin incomplete => pipe[c] = 0)
        /\ written[c] = pipe[c] + output[c] + (IF capture[c] = "appending" THEN 1 ELSE 0)
        /\ output[c] \in Nat
    BY DEF ActivityInv, OutputInv, ActTypes
  <2> QED BY <2>1
<1>2. ActivityInv /\ [ActivitiesNext]_activityVars =>
        [\A c \in Commands : Terminal(c) => output'[c] = output[c]]_activityVars
  BY OutputEnds
<1> QED BY <1>1, <1>2, ActivitiesCorrect, PTL DEF ActivitiesSpec, FinishedIsComplete, NothingAfterTheEnd

\* After shutdown nothing lives but what the end of its owner has taken over and what
\* the code has given up, and the ends of the main agent's published commands have been passed on.
THEOREM ShutdownReapsAlways == ActivitiesSpec => []ShutdownReaps
<1>1. ActivityInv => ShutdownReaps
  <2> SUFFICES ASSUME ActivityInv, shutting_down = "down", NEW c \in Commands
               PROVE  /\ Live(c) => GivenUp(c) \/ \E a \in Children : holding[a] = c
                      /\ c \in published /\ ~Child(c) => Ended(c)
    BY DEF ShutdownReaps
  <2>1. joining["shutdown"] = {}
    BY DEF ActivityInv, JoinInv
  <2>2. Live(c) /\ ~GivenUp(c) => Supervised(c)
    BY DEF ActivityInv, StageInv, Watched, Supervised
  <2>3. Live(c) /\ ~GivenUp(c) => \E a \in Children : holding[a] = c
    BY <2>1, <2>2 DEF ActivityInv, JoinInv
  <2>4. c \in published /\ ~Child(c) => Ended(c)
    BY DEF ActivityInv, FlushInv
  <2> QED BY <2>3, <2>4
<1> QED BY <1>1, ActivitiesCorrect, PTL
================================================================================
