------------------------ MODULE SubmissionQueue_proofs ------------------------
(***************************************************************************)
(* Theorems about SubmissionQueue for every number of callers, cancellers, *)
(* worker tasks and submissions, and about the mutexes of the core state   *)
(* that its operations nest: NoDeadlock of StateLocks for any number of    *)
(* threads, and for any set of operations whose scripts take the mutexes   *)
(* in one order.  The order is a numbering of the mutexes; MCLockOrder has *)
(* the numbering of the code and lets TLC evaluate FollowsOrder on every   *)
(* script.                                                                 *)
(***************************************************************************)
EXTENDS SubmissionQueue, StateLocks, SequenceTheorems, FiniteSetTheorems, WellFoundedInduction, TLAPS

\* What enqueueing and popping do to a sequence of ids.
LEMMA AppendId ==
  ASSUME NEW q \in Seq(Ids), NEW i \in Ids
  PROVE  /\ Append(q, i) \in Seq(Ids)
         /\ Len(Append(q, i)) = Len(q) + 1
         /\ Append(q, i) # <<>>
         /\ \A k \in 1..Len(q) : Append(q, i)[k] = q[k]
         /\ Append(q, i)[Len(q) + 1] = i
  BY AppendProperties

LEMMA PopId ==
  ASSUME NEW q \in Seq(Ids), q # <<>>
  PROVE  /\ Head(q) \in Ids
         /\ Tail(q) \in Seq(Ids)
         /\ Head(q) = q[1]
         /\ Len(q) \in Nat /\ Len(q) >= 1
         /\ Len(Tail(q)) = Len(q) - 1
         /\ \A k \in 1..Len(Tail(q)) : Tail(q)[k] = q[k + 1]
  BY HeadTailProperties, EmptySeq, LenProperties

--------------------------------------------------------------------------------
LEMMA TypeInit == Init => TypeOK
<1> SUFFICES ASSUME Init PROVE TypeOK
  OBVIOUS
<1>1. pending \in Seq(Ids)
  BY EmptySeq DEF Init
<1>2. next_submission \in 1..(MaxSubmissions + 1)
  BY QueueAssumption DEF Init, FirstId
<1> QED
  BY <1>1, <1>2 DEF Init, TypeOK

LEMMA TypeStep == TypeOK /\ [Next]_vars => TypeOK'
<1> SUFFICES ASSUME TypeOK, [Next]_vars PROVE TypeOK'
  OBVIOUS
<1> USE QueueAssumption DEF TypeOK
<1>1. ASSUME NEW s \in Submitters, Submit(s) PROVE TypeOK'
  <2>1. CASE SubmitCheck(s)
    BY <2>1 DEF SubmitCheck, queueVars, workerVars, ownerVars
  <2>2. CASE SubmitReject(s)
    BY <2>2 DEF SubmitReject, queueVars, workerVars, ownerVars
  <2>3. CASE SubmitLockSlot(s)
    BY <2>3 DEF SubmitLockSlot, queueVars, workerVars, ownerVars
  <2>4. CASE SubmitEnqueue(s)
    <3>1. next_submission \in Ids
      BY <2>4 DEF SubmitEnqueue
    <3>2. pending' \in Seq(Ids)
      BY <2>4, <3>1, AppendId DEF SubmitEnqueue
    <3>3. next_submission' \in 1..(MaxSubmissions + 1)
      BY <2>4, <3>1 DEF SubmitEnqueue, Ids
    <3> QED
      BY <2>4, <3>1, <3>2, <3>3 DEF SubmitEnqueue, workerVars, ownerVars
  <2>5. CASE SubmitRefused(s)
    BY <2>5 DEF SubmitRefused, queueVars, workerVars, ownerVars
  <2>6. CASE SubmitSpawn(s)
    BY <2>6 DEF SubmitSpawn, StoredHandle, queueVars, ownerVars
  <2> QED BY <1>1, <2>1, <2>2, <2>3, <2>4, <2>5, <2>6 DEF Submit
<1>2. ASSUME NEW c \in Cancellers, Cancel(c) PROVE TypeOK'
  <2>1. CASE CancelLookup(c)
    <3>1. \A found \in CancelTargets : found \in SUBSET Ids
      BY DEF CancelTargets
    <3> QED BY <2>1, <3>1 DEF CancelLookup, queueVars, workerVars, ownerVars
  <2>2. CASE CancelOne(c)
    BY <2>2 DEF CancelOne, CancelActive, queueVars, workerVars, ownerVars
  <2>3. CASE WriteEnds(c)
    BY <2>3 DEF WriteEnds, queueVars, workerVars, ownerVars
  <2> QED BY <1>2, <2>1, <2>2, <2>3 DEF Cancel
<1>3. ASSUME NEW w \in Workers, Worker(w) PROVE TypeOK'
  <2>1. CASE WorkerPop(w)
    BY <2>1, PopId DEF WorkerPop, ownerVars
  <2>2. CASE WorkerExit(w)
    BY <2>2 DEF WorkerExit, ownerVars
  <2>3. CASE RunSkipped(w)
    BY <2>3 DEF RunSkipped, queueVars, ownerVars, Terminal
  <2>4. CASE RunStart(w)
    BY <2>4 DEF RunStart, queueVars, ownerVars
  <2>5. CASE RunReturn(w)
    BY <2>5 DEF RunReturn, Outcomes, queueVars, ownerVars
  <2>6. CASE WorkerFinish(w)
    BY <2>6 DEF WorkerFinish, CurrentAfter, StillActive, ownerVars
  <2>7. CASE WorkerPublish(w)
    <3>1. stage' \in [Ids -> {"none", "accepted", "started"} \cup Terminal]
      BY <2>7 DEF WorkerPublish
    <3> QED BY <2>7, <3>1 DEF WorkerPublish, AfterPublish, queueVars, ownerVars
  <2>8. CASE RunWrites(w) \/ WriteEnds(w)
    BY <2>8 DEF RunWrites, WriteEnds, queueVars, workerVars, ownerVars
  <2> QED BY <1>3, <2>1, <2>2, <2>3, <2>4, <2>5, <2>6, <2>7, <2>8 DEF Worker
<1>4. CASE Shutdown
  <2>1. CASE BeginShutdown
    BY <2>1 DEF BeginShutdown, queueVars, workerVars
  <2>2. CASE ShutdownList
    BY <2>2 DEF ShutdownList, queueVars, workerVars
  <2>3. CASE ShutdownCancelOne
    BY <2>3 DEF ShutdownCancelOne, CancelActive, queueVars, workerVars
  <2>4. CASE ShutdownServices
    BY <2>4 DEF ShutdownServices, OwnerGoesOn, queueVars, workerVars
  <2>5. CASE ShutdownTakeWorker
    BY <2>5 DEF ShutdownTakeWorker, queueVars, workerVars
  <2>6. CASE ShutdownJoin
    BY <2>6 DEF ShutdownJoin, OwnerGoesOn, queueVars, workerVars
  <2>7. CASE ShutdownOver
    BY <2>7 DEF ShutdownOver, queueVars, workerVars
  <2>8. CASE ShutdownAbort
    BY <2>8 DEF ShutdownAbort, queueVars, ownerVars
  <2>9. CASE WriteEnds(Owner)
    BY <2>9 DEF WriteEnds, queueVars, workerVars, ownerVars
  <2> QED BY <1>4, <2>1, <2>2, <2>3, <2>4, <2>5, <2>6, <2>7, <2>8, <2>9 DEF Shutdown
<1>5. CASE UNCHANGED vars
  BY <1>5 DEF vars, queueVars, workerVars, ownerVars
<1> QED BY <1>1, <1>2, <1>3, <1>4, <1>5 DEF Next

\* The variables of the queue keep their ranges (core/queue.rs:18-23).
THEOREM TypeCorrect == Spec => []TypeOK
  BY TypeInit, TypeStep, PTL DEF Spec

--------------------------------------------------------------------------------
(* The inductive invariant, one lemma per topic.                           *)

LEMMA QueueInvInit == Init => QueueInv
<1> SUFFICES ASSUME Init PROVE QueueInv
  OBVIOUS
<1>1. pending = <<>> /\ Len(pending) = 0
  BY DEF Init
<1>2. OwnershipInv
  BY <1>1 DEF Init, OwnershipInv, OneWorker, SlotNamesTheWorker
<1>3. ShutdownInv
  BY DEF Init, ShutdownInv
<1>4. PendingInv
  BY <1>1 DEF Init, PendingInv, FirstPending, FirstId
<1>5. HeldInv
  BY DEF Init, HeldInv, Busy
<1>6. StageInv
  BY <1>1 DEF Init, StageInv, FirstPending, FirstId, Ids, Terminal
<1> QED
  BY <1>2, <1>3, <1>4, <1>5, <1>6 DEF QueueInv

\* Every action but the enqueueing one and the pop leaves the pending ids and
\* the next id alone.
LEMMA PendingStep ==
  TypeOK /\ PendingInv /\ [Next]_vars => PendingInv'
<1> SUFFICES ASSUME TypeOK, PendingInv, [Next]_vars PROVE PendingInv'
  OBVIOUS
<1>0. /\ pending \in Seq(Ids) /\ Len(pending) \in Nat
      /\ next_submission \in Nat
  BY LenProperties, QueueAssumption DEF TypeOK
<1>1. ASSUME NEW s \in Submitters, SubmitEnqueue(s) PROVE PendingInv'
  <2>1. /\ pending' = Append(pending, next_submission)
        /\ next_submission' = next_submission + 1
        /\ next_submission \in Ids
    BY <1>1 DEF SubmitEnqueue
  <2>2. Len(pending') = Len(pending) + 1
    BY <1>0, <2>1, AppendId
  <2>3. ASSUME NEW k \in 1..Len(pending')
        PROVE  pending'[k] = next_submission' - Len(pending') + k - 1
    <3>1. CASE k \in 1..Len(pending)
      <4>1. pending'[k] = pending[k]
        BY <3>1, <1>0, <2>1, AppendId
      <4> QED BY <4>1, <3>1, <1>0, <2>1, <2>2 DEF PendingInv, FirstPending
    <3>2. CASE k = Len(pending) + 1
      BY <3>2, <1>0, <2>1, <2>2, AppendId
    <3> QED BY <3>1, <3>2, <2>2, <1>0
  <2> QED BY <2>1, <2>2, <2>3, <1>0 DEF PendingInv, FirstPending
<1>2. ASSUME NEW w \in Workers, WorkerPop(w) PROVE PendingInv'
  <2>1. /\ pending # <<>>
        /\ pending' = Tail(pending)
        /\ next_submission' = next_submission
    BY <1>2 DEF WorkerPop
  <2>2. /\ Len(pending') = Len(pending) - 1
        /\ Len(pending) >= 1
        /\ \A k \in 1..Len(pending') : pending'[k] = pending[k + 1]
    BY <1>0, <2>1, PopId
  <2> QED BY <1>0, <2>1, <2>2 DEF PendingInv, FirstPending
<1>3. CASE UNCHANGED <<pending, next_submission>>
  BY <1>3 DEF PendingInv, FirstPending
<1>4. \/ \E s \in Submitters : SubmitEnqueue(s)
      \/ \E w \in Workers : WorkerPop(w)
      \/ UNCHANGED <<pending, next_submission>>
  BY DEF Next, Submit, Cancel, Worker, Shutdown, vars, queueVars, SubmitCheck,
     SubmitReject, SubmitLockSlot, SubmitRefused, SubmitSpawn, CancelLookup,
     CancelOne, WorkerExit, RunSkipped, RunStart, RunReturn, WorkerFinish,
     WorkerPublish, BeginShutdown, ShutdownList, ShutdownCancelOne,
     ShutdownServices, ShutdownTakeWorker, ShutdownJoin, ShutdownAbort, ShutdownOver,
     RunWrites, WriteEnds
<1> QED BY <1>1, <1>2, <1>3, <1>4

LEMMA OwnershipStep ==
  TypeOK /\ OwnershipInv /\ ShutdownInv /\ [Next]_vars => OwnershipInv'
<1> SUFFICES ASSUME TypeOK, OwnershipInv, ShutdownInv, [Next]_vars
             PROVE  OwnershipInv'
  OBVIOUS
<1> USE QueueAssumption
     DEF TypeOK, OwnershipInv, OneWorker, SlotNamesTheWorker, queueVars,
         workerVars, ownerVars
<1>1. ASSUME NEW s \in Submitters, Submit(s) PROVE OwnershipInv'
  <2>1. CASE SubmitCheck(s)
    BY <2>1 DEF SubmitCheck
  <2>2. CASE SubmitReject(s)
    BY <2>2 DEF SubmitReject
  <2>3. CASE SubmitLockSlot(s)
    BY <2>3 DEF SubmitLockSlot
  <2>4. CASE SubmitEnqueue(s)
    <3>1. /\ submitter[s] = "enqueueing"
          /\ worker_running' = TRUE
          /\ UNCHANGED <<submission_worker, wpc, spc, taken>>
      BY <2>4 DEF SubmitEnqueue
    <3>2. CASE worker_running
      <4>1. submitter' = [submitter EXCEPT ![s] = "idle"] /\ slot_owner' = None
        BY <2>4, <3>2 DEF SubmitEnqueue, NeedsWorker
      <4>2. \A t \in Submitters : submitter[t] = "spawning" => submitter'[t] = "spawning"
        BY <3>1, <4>1
      <4>3. \A t \in Submitters : submitter'[t] \in {"enqueueing", "spawning"} =>
              t # s /\ slot_owner = t /\ slot_owner = s
        BY <3>1, <4>1
      <4> QED BY <3>1, <3>2, <4>1, <4>2, <4>3
    <3>3. CASE ~worker_running
      <4>1. submitter' = [submitter EXCEPT ![s] = "spawning"] /\ slot_owner' = slot_owner
        BY <2>4, <3>3 DEF SubmitEnqueue, NeedsWorker
      <4> QED BY <3>1, <3>3, <4>1
    <3> QED BY <3>2, <3>3
  <2>5. CASE SubmitRefused(s)
    BY <2>5 DEF SubmitRefused
  <2>6. CASE SubmitSpawn(s)
    BY <2>6 DEF SubmitSpawn, StoredHandle
  <2> QED BY <1>1, <2>1, <2>2, <2>3, <2>4, <2>5, <2>6 DEF Submit
<1>2. ASSUME NEW c \in Cancellers, Cancel(c) PROVE OwnershipInv'
  <2>1. UNCHANGED <<pending, worker_running, submission_worker, slot_owner,
                    submitter, wpc, spc, taken>>
    BY <1>2 DEF Cancel, CancelLookup, CancelOne, CancelActive, WriteEnds
  <2> QED BY <2>1
<1>3. ASSUME NEW w \in Workers, Worker(w) PROVE OwnershipInv'
  <2>1. CASE WorkerPop(w)
    BY <2>1, PopId DEF WorkerPop
  <2>2. CASE WorkerExit(w)
    BY <2>2 DEF WorkerExit
  <2>3. CASE RunSkipped(w)
    BY <2>3 DEF RunSkipped
  <2>4. CASE RunStart(w)
    BY <2>4 DEF RunStart
  <2>5. CASE RunReturn(w)
    BY <2>5 DEF RunReturn
  <2>6. CASE WorkerFinish(w)
    BY <2>6 DEF WorkerFinish
  <2>7. CASE WorkerPublish(w)
    BY <2>7 DEF WorkerPublish, AfterPublish
  <2>8. CASE RunWrites(w) \/ WriteEnds(w)
    BY <2>8 DEF RunWrites, WriteEnds
  <2> QED BY <1>3, <2>1, <2>2, <2>3, <2>4, <2>5, <2>6, <2>7, <2>8 DEF Worker
<1>4. CASE Shutdown
  <2>1. CASE ShutdownTakeWorker
    BY <2>1 DEF ShutdownTakeWorker, SlotFree, ShutdownInv, Stopping
  <2>2. CASE ShutdownAbort
    BY <2>2 DEF ShutdownAbort, Stopping
  <2>3. CASE \/ BeginShutdown \/ ShutdownList \/ ShutdownCancelOne \/ ShutdownServices
             \/ ShutdownJoin \/ ShutdownOver \/ WriteEnds(Owner)
    BY <2>3 DEF BeginShutdown, ShutdownList, ShutdownCancelOne, ShutdownServices, ShutdownJoin,
       OwnerGoesOn, ShutdownOver, WriteEnds, Stopping
  <2> QED BY <1>4, <2>1, <2>2, <2>3 DEF Shutdown
<1>5. CASE UNCHANGED vars
  BY <1>5 DEF vars
<1> QED BY <1>1, <1>2, <1>3, <1>4, <1>5 DEF Next

LEMMA ShutdownStep ==
  TypeOK /\ OwnershipInv /\ ShutdownInv /\ [Next]_vars => ShutdownInv'
<1> SUFFICES ASSUME TypeOK, OwnershipInv, ShutdownInv, [Next]_vars
             PROVE  ShutdownInv'
  OBVIOUS
<1> USE QueueAssumption DEF TypeOK, ShutdownInv, Stopping, queueVars, workerVars, ownerVars
<1>1. ASSUME NEW s \in Submitters, Submit(s) PROVE ShutdownInv'
  BY <1>1 DEF Submit, SubmitCheck, SubmitReject, SubmitLockSlot, SubmitEnqueue,
     SubmitRefused, SubmitSpawn, Admitted, NeedsWorker
<1>2. ASSUME NEW c \in Cancellers, Cancel(c) PROVE ShutdownInv'
  BY <1>2 DEF Cancel, CancelLookup, CancelOne, CancelActive, WriteEnds
<1>3. ASSUME NEW w \in Workers, Worker(w) PROVE ShutdownInv'
  BY <1>3 DEF Worker, WorkerPop, WorkerExit, RunSkipped, RunStart, RunReturn,
     WorkerFinish, WorkerPublish, StillActive, AfterPublish, RunWrites, WriteEnds
<1>4. CASE Shutdown
  <2>1. CASE \/ BeginShutdown \/ ShutdownList \/ ShutdownCancelOne \/ ShutdownServices
             \/ ShutdownAbort \/ ShutdownOver \/ WriteEnds(Owner)
    BY <2>1 DEF BeginShutdown, ShutdownList, ShutdownCancelOne, CancelActive, ShutdownServices,
       OwnerGoesOn, ShutdownAbort, ShutdownOver, WriteEnds
  <2>2. CASE ShutdownTakeWorker
    BY <2>2 DEF ShutdownTakeWorker, SlotFree, OwnershipInv
  <2>3. CASE ShutdownJoin
    BY <2>3 DEF ShutdownJoin, OwnerGoesOn, WorkerJoined, OwnershipInv, SlotNamesTheWorker
  <2> QED BY <1>4, <2>1, <2>2, <2>3 DEF Shutdown
<1>5. CASE UNCHANGED vars
  BY <1>5 DEF vars
<1> QED BY <1>1, <1>2, <1>3, <1>4, <1>5 DEF Next

LEMMA HeldStep ==
  TypeOK /\ QueueInv /\ [Next]_vars => HeldInv'
<1> SUFFICES ASSUME TypeOK, QueueInv, [Next]_vars PROVE HeldInv'
  OBVIOUS
<1> USE QueueAssumption DEF TypeOK, QueueInv, HeldInv, Busy, queueVars,
        workerVars, ownerVars
<1>0. /\ pending \in Seq(Ids) /\ Len(pending) \in Nat
      /\ next_submission \in Nat /\ FirstPending \in Nat
      /\ FirstPending <= next_submission
  BY LenProperties DEF PendingInv, FirstPending
<1>1. ASSUME NEW s \in Submitters, Submit(s) PROVE HeldInv'
  <2>1. CASE SubmitEnqueue(s)
    <3>1. /\ next_submission \in Ids
          /\ next_submission' = next_submission + 1
          /\ pending' = Append(pending, next_submission)
          /\ active' = active \cup {next_submission}
          /\ stage' = [stage EXCEPT ![next_submission] = "accepted"]
          /\ UNCHANGED <<current, cancelled, wpc, wid, wout>>
      BY <2>1 DEF SubmitEnqueue
    <3>2. FirstPending' = FirstPending
      BY <1>0, <3>1, AppendId DEF FirstPending
    <3>3. FirstPending - 1 # next_submission
      BY <1>0
    <3>4. ASSUME NEW w \in Workers, wpc[w] \in Busy
          PROVE  /\ wid[w] # next_submission
                 /\ stage'[wid[w]] = stage[wid[w]]
      BY <3>1, <3>3, <3>4
    <3> QED BY <3>1, <3>2, <3>4
  <2>2. CASE SubmitSpawn(s)
    BY <2>2 DEF SubmitSpawn, FirstPending
  <2>3. CASE \/ SubmitCheck(s) \/ SubmitReject(s) \/ SubmitLockSlot(s)
             \/ SubmitRefused(s)
    BY <2>3 DEF SubmitCheck, SubmitReject, SubmitLockSlot, SubmitRefused,
       FirstPending
  <2> QED BY <1>1, <2>1, <2>2, <2>3 DEF Submit
<1>2. ASSUME NEW c \in Cancellers, Cancel(c) PROVE HeldInv'
  <2>1. /\ cancelled \subseteq cancelled'
        /\ UNCHANGED <<pending, next_submission, current, active, wpc, wid,
                       wout, stage>>
    BY <1>2 DEF Cancel, CancelLookup, CancelOne, CancelActive, WriteEnds
  <2> QED BY <2>1 DEF FirstPending
<1>3. ASSUME NEW w \in Workers, Worker(w) PROVE HeldInv'
  <2>0. \A v \in Workers : wpc[v] # "idle" /\ wpc[w] # "idle" => v = w
    BY DEF OwnershipInv, OneWorker
  <2>1. CASE WorkerPop(w)
    <3>1. /\ current' = Head(pending) /\ pending' = Tail(pending)
          /\ pending # <<>>
          /\ wpc' = [wpc EXCEPT ![w] = "popped"]
          /\ wid' = [wid EXCEPT ![w] = Head(pending)]
          /\ wpc[w] \in {"spawned", "draining"}
          /\ UNCHANGED <<active, next_submission, cancelled, wout, stage>>
      BY <2>1 DEF WorkerPop
    <3>2. /\ Head(pending) = FirstPending
          /\ Head(pending) \in Ids
          /\ FirstPending' = FirstPending + 1
          /\ FirstPending < next_submission
      BY <1>0, <3>1, PopId DEF PendingInv, FirstPending
    <3>3. stage[FirstPending] = "accepted" /\ FirstPending \in active
      BY <3>2, <1>0 DEF StageInv
    <3> QED BY <2>0, <3>1, <3>2, <3>3, <1>0
  <2>2. CASE WorkerExit(w)
    BY <2>0, <2>2 DEF WorkerExit, FirstPending
  <2>3. CASE RunSkipped(w)
    BY <2>0, <2>3 DEF RunSkipped, FirstPending
  <2>4. CASE RunStart(w)
    <3>1. wid[w] \in Ids
      <4>1. FirstPending - 1 \in Nat
        BY <1>0 DEF PendingInv, FirstPending
      <4>2. wid[w] = FirstPending - 1 /\ wid[w] = current
        BY <2>4 DEF RunStart
      <4> QED BY <4>1, <4>2
    <3> QED BY <2>0, <2>4, <3>1 DEF RunStart, FirstPending
  <2>5. CASE RunReturn(w)
    BY <2>0, <2>5 DEF RunReturn, Outcomes, FirstPending
  <2>6. CASE WorkerFinish(w)
    BY <2>0, <2>6 DEF WorkerFinish, CurrentAfter, StillActive, FirstPending
  <2>7. CASE WorkerPublish(w)
    BY <2>0, <2>7 DEF WorkerPublish, AfterPublish, FirstPending
  <2>8. CASE RunWrites(w) \/ WriteEnds(w)
    BY <2>8 DEF RunWrites, WriteEnds, FirstPending
  <2> QED BY <1>3, <2>1, <2>2, <2>3, <2>4, <2>5, <2>6, <2>7, <2>8 DEF Worker
<1>4. CASE Shutdown
  <2>1. CASE ShutdownAbort
    BY <2>1 DEF ShutdownAbort, FirstPending
  <2>2. CASE \/ BeginShutdown \/ ShutdownList \/ ShutdownCancelOne \/ ShutdownServices
             \/ ShutdownTakeWorker \/ ShutdownJoin \/ ShutdownOver \/ WriteEnds(Owner)
    <3>1. /\ cancelled \subseteq cancelled'
          /\ UNCHANGED <<pending, next_submission, current, active, wpc, wid,
                         wout, stage>>
      BY <2>2 DEF BeginShutdown, ShutdownList, ShutdownCancelOne, CancelActive, ShutdownServices,
         OwnerGoesOn, ShutdownTakeWorker, ShutdownJoin, ShutdownOver, WriteEnds
    <3> QED BY <3>1 DEF FirstPending
  <2> QED BY <1>4, <2>1, <2>2 DEF Shutdown
<1>5. CASE UNCHANGED vars
  BY <1>5 DEF vars, FirstPending
<1> QED BY <1>1, <1>2, <1>3, <1>4, <1>5 DEF Next

\* Popping moves the boundary between what has ended and what is pending by one.
LEMMA PoppedStage ==
  ASSUME StageInv, FirstPending \in Nat \ {0}, next_submission \in Nat, \A i \in Ids : i \in Nat,
         FirstPending' = FirstPending + 1, FirstPending < next_submission,
         UNCHANGED <<active, next_submission, cancelled, stage>>,
         \A i \in Ids : i = FirstPending - 1 => stage[i] \in Terminal,
         \E w \in Workers : wpc'[w] \in Busy
  PROVE  StageInv'
  BY DEF StageInv

LEMMA StageStep ==
  TypeOK /\ QueueInv /\ [Next]_vars => StageInv'
<1> SUFFICES ASSUME TypeOK, QueueInv, [Next]_vars PROVE StageInv'
  OBVIOUS
<1> USE QueueAssumption DEF TypeOK, QueueInv, StageInv, Busy, queueVars,
        workerVars, ownerVars
<1>0. /\ pending \in Seq(Ids) /\ Len(pending) \in Nat
      /\ next_submission \in Nat /\ FirstPending \in Nat \ {0}
      /\ FirstPending <= next_submission
      /\ \A i \in Ids : i \in Nat
      /\ "accepted" \notin Terminal /\ "started" \notin Terminal /\ "none" \notin Terminal
  BY LenProperties DEF PendingInv, FirstPending, Ids, Terminal
<1>1. ASSUME NEW s \in Submitters, Submit(s) PROVE StageInv'
  <2>1. CASE SubmitEnqueue(s)
    <3>1. /\ next_submission \in Ids
          /\ next_submission' = next_submission + 1
          /\ pending' = Append(pending, next_submission)
          /\ active' = active \cup {next_submission}
          /\ stage' = [stage EXCEPT ![next_submission] = "accepted"]
          /\ UNCHANGED <<cancelled, wpc, spc>>
      BY <2>1 DEF SubmitEnqueue, ownerVars
    <3>2. FirstPending' = FirstPending
      BY <1>0, <3>1, AppendId DEF FirstPending
    <3> QED BY <1>0, <3>1, <3>2
  <2>2. CASE SubmitSpawn(s)
    <3>1. UNCHANGED <<pending, next_submission, active, cancelled, spc, stage>>
      BY <2>2 DEF SubmitSpawn
    <3>2. \A w \in Workers : wpc[w] = "idle"
      BY <2>2 DEF SubmitSpawn, OwnershipInv, OneWorker
    <3>3. spc \notin Stopping
      BY <2>2 DEF SubmitSpawn, ShutdownInv
    <3> QED BY <3>1, <3>2, <3>3 DEF FirstPending
  <2>3. CASE \/ SubmitCheck(s) \/ SubmitReject(s) \/ SubmitLockSlot(s)
             \/ SubmitRefused(s)
    BY <2>3 DEF SubmitCheck, SubmitReject, SubmitLockSlot, SubmitRefused,
       FirstPending
  <2> QED BY <1>1, <2>1, <2>2, <2>3 DEF Submit
<1>2. ASSUME NEW c \in Cancellers, Cancel(c) PROVE StageInv'
  <2>1. /\ cancelled \subseteq cancelled'
        /\ UNCHANGED <<pending, next_submission, active, wpc, spc, stage>>
    BY <1>2 DEF Cancel, CancelLookup, CancelOne, CancelActive, WriteEnds
  <2> QED BY <2>1 DEF FirstPending
<1>3. ASSUME NEW w \in Workers, Worker(w) PROVE StageInv'
  <2>0. \A v \in Workers : wpc[v] # "idle" /\ wpc[w] # "idle" => v = w
    BY DEF OwnershipInv, OneWorker
  <2>1. CASE WorkerPop(w)
    <3>1. /\ pending' = Tail(pending) /\ pending # <<>>
          /\ wpc' = [wpc EXCEPT ![w] = "popped"]
          /\ wpc[w] \in {"spawned", "draining"}
          /\ UNCHANGED <<active, next_submission, cancelled, spc, stage>>
      BY <2>1 DEF WorkerPop, ownerVars
    <3>2. FirstPending' = FirstPending + 1 /\ FirstPending < next_submission
      BY <1>0, <3>1, PopId DEF FirstPending
    <3>3. /\ ~\E v \in Workers : wpc[v] \in Busy
          /\ wpc'[w] \in Busy
      BY <2>0, <3>1
    <3>4. \A i \in Ids : i = FirstPending - 1 => stage[i] \in Terminal
      BY <3>1, <3>3
    <3>5. \E v \in Workers : wpc'[v] \in Busy
      BY <3>3
    <3>6. StageInv
      OBVIOUS
    <3> HIDE DEF TypeOK, QueueInv, StageInv, Busy
    <3> QED BY <1>0, <3>1, <3>2, <3>4, <3>5, <3>6, PoppedStage
  <2>2. CASE WorkerExit(w)
    <3>1. /\ wpc' = [wpc EXCEPT ![w] = "idle"]
          /\ wpc[w] \in {"spawned", "draining"}
          /\ UNCHANGED <<pending, active, next_submission, cancelled, spc, stage>>
      BY <2>2 DEF WorkerExit, ownerVars
    <3>2. ~\E v \in Workers : wpc[v] \in Busy
      BY <2>0, <3>1
    <3>3. \A i \in Ids : i = FirstPending - 1 => stage[i] \in Terminal
      BY <3>1, <3>2
    <3> QED BY <3>1, <3>3 DEF FirstPending
  <2>3. CASE RunSkipped(w) \/ RunReturn(w)
    <3>1. /\ wpc[w] \in Busy /\ wpc'[w] \in Busy
          /\ UNCHANGED <<pending, active, next_submission, cancelled, spc, stage>>
      BY <2>3 DEF RunSkipped, RunReturn
    <3> QED BY <3>1 DEF FirstPending
  <2>4. CASE RunStart(w)
    <3>1. /\ wpc[w] \in Busy /\ wpc'[w] \in Busy
          /\ stage' = [stage EXCEPT ![wid[w]] = "started"]
          /\ UNCHANGED <<pending, active, next_submission, cancelled, spc>>
      BY <2>4 DEF RunStart
    <3>2. wid[w] = FirstPending - 1
      BY <3>1 DEF HeldInv
    <3>3. FirstPending' = FirstPending
      BY <3>1 DEF FirstPending
    <3> QED BY <1>0, <3>1, <3>2, <3>3
  <2>6. CASE WorkerFinish(w)
    <3>1. /\ wpc[w] = "returned" /\ wpc'[w] \in Busy
          /\ active' = active \ {wid[w]}
          /\ UNCHANGED <<pending, next_submission, cancelled, spc, stage>>
      BY <2>6 DEF WorkerFinish, StillActive
    <3>2. wid[w] = FirstPending - 1
      BY <3>1 DEF HeldInv
    <3>3. FirstPending' = FirstPending
      BY <3>1 DEF FirstPending
    <3> QED BY <1>0, <3>1, <3>2, <3>3
  <2>7. CASE WorkerPublish(w)
    <3>1. /\ wpc[w] = "publishing"
          /\ wpc' = [wpc EXCEPT ![w] = "draining"]
          /\ stage' = [stage EXCEPT ![wid[w]] = wout[w]]
          /\ UNCHANGED <<pending, active, next_submission, cancelled, spc>>
      BY <2>7 DEF WorkerPublish, AfterPublish
    <3>2. /\ wid[w] = FirstPending - 1 /\ wid[w] \notin active
          /\ wout[w] \in Terminal
          /\ wout[w] = "cancelled" => wid[w] \in cancelled
      BY <3>1 DEF HeldInv
    <3>3. FirstPending' = FirstPending
      BY <3>1 DEF FirstPending
    <3> QED BY <1>0, <3>1, <3>2, <3>3
  <2>8. CASE RunWrites(w) \/ WriteEnds(w)
    BY <2>8 DEF RunWrites, WriteEnds, FirstPending
  <2> QED BY <1>3, <2>1, <2>2, <2>3, <2>4, <2>6, <2>7, <2>8 DEF Worker
<1>4. CASE Shutdown
  <2>1. CASE ShutdownAbort
    <3>1. /\ spc \in Stopping /\ spc' = spc
          /\ taken \in Workers
          /\ wpc' = [wpc EXCEPT ![taken] = "idle"]
          /\ wpc[taken] # "idle"
          /\ UNCHANGED <<pending, active, next_submission, cancelled, stage>>
      BY <2>1 DEF ShutdownAbort, Stopping
    <3>2. \A v \in Workers : wpc'[v] = "idle"
      BY <3>1 DEF OwnershipInv, OneWorker
    <3> QED BY <3>1, <3>2 DEF FirstPending
  <2>2. CASE \/ BeginShutdown \/ ShutdownList \/ ShutdownCancelOne \/ ShutdownServices
             \/ ShutdownTakeWorker \/ ShutdownJoin \/ ShutdownOver \/ WriteEnds(Owner)
    <3>1. /\ cancelled \subseteq cancelled'
          /\ spc \in Stopping => spc' \in Stopping
          /\ UNCHANGED <<pending, next_submission, active, wpc, stage>>
      BY <2>2 DEF BeginShutdown, ShutdownList, ShutdownCancelOne, CancelActive, ShutdownServices,
         OwnerGoesOn, ShutdownTakeWorker, ShutdownJoin, ShutdownOver, WriteEnds, Stopping
    <3> QED BY <3>1 DEF FirstPending
  <2> QED BY <1>4, <2>1, <2>2 DEF Shutdown
<1>5. CASE UNCHANGED vars
  BY <1>5 DEF vars, FirstPending
<1> QED BY <1>1, <1>2, <1>3, <1>4, <1>5 DEF Next

\* The queue keeps its invariant (core/queue.rs:129-293, core.rs:533-597).
THEOREM QueueCorrect == Spec => []QueueInv
<1>1. TypeOK /\ QueueInv /\ [Next]_vars => QueueInv'
  BY PendingStep, OwnershipStep, ShutdownStep, HeldStep, StageStep DEF QueueInv
<1> QED BY <1>1, QueueInvInit, TypeCorrect, PTL DEF Spec

--------------------------------------------------------------------------------
(* What follows from it.                                                   *)

\* One worker task at a time, so one submission mutates the session
\* (docs/architecture.md, item 8).
THEOREM OneWorkerAlways == Spec => []OneWorker
<1>1. QueueInv => OneWorker
  BY DEF QueueInv, OwnershipInv
<1> QED BY <1>1, QueueCorrect, PTL

\* No accepted submission is left without a worker (queue.rs:163-168, 254-257).
THEOREM NoLostWakeup == Spec => []PendingIsServed
<1>1. QueueInv => PendingIsServed
  BY DEF QueueInv, OwnershipInv, PendingIsServed
<1> QED BY <1>1, QueueCorrect, PTL

\* A terminal event is published only after the snapshot has dropped the
\* submission (snapshot.rs:35-39, queue.rs:277-292).
THEOREM TerminalIsGoneAlways == Spec => []TerminalIsGone
<1>1. TypeOK /\ QueueInv => TerminalIsGone
  <2> SUFFICES ASSUME TypeOK, QueueInv, NEW i \in Ids, stage[i] \in Terminal
               PROVE  /\ i \notin active /\ i # current
                      /\ \A k \in DOMAIN pending : pending[k] # i
    BY DEF TerminalIsGone
  <2>1. i \notin active
    BY DEF QueueInv, StageInv
  <2>2. i # current
    BY <2>1, QueueAssumption DEF QueueInv, HeldInv, Ids
  <2>3. ASSUME NEW k \in DOMAIN pending, pending[k] = i PROVE FALSE
    <3>1. /\ Len(pending) \in Nat /\ next_submission \in Nat
          /\ k \in 1..Len(pending) /\ i \in Nat
      BY LenProperties DEF TypeOK, Ids
    <3>2. FirstPending <= i /\ i < next_submission
      BY <2>3, <3>1 DEF QueueInv, PendingInv, FirstPending
    <3> QED BY <2>1, <3>2 DEF QueueInv, StageInv
  <2> QED BY <2>1, <2>2, <2>3
<1> QED BY <1>1, QueueCorrect, TypeCorrect, PTL

\* Nothing runs and nothing shows after the Shutdown event (core.rs:576-597).
THEOREM QuietAfterShutdownAlways == Spec => []QuietAfterShutdown
<1>1. TypeOK /\ QueueInv => QuietAfterShutdown
  <2> SUFFICES ASSUME TypeOK, QueueInv, spc = "over"
               PROVE  /\ \A w \in Workers : wpc[w] = "idle"
                      /\ SnapshotActive = {}
                      /\ SnapshotQueued = {}
    BY DEF QuietAfterShutdown
  <2>1. active \subseteq cancelled /\ \A w \in Workers : wpc[w] = "idle"
    BY DEF QueueInv, ShutdownInv, Stopping
  <2>2. SnapshotActive = {}
    BY <2>1 DEF QueueInv, HeldInv, SnapshotActive
  <2>3. ASSUME NEW k \in DOMAIN pending PROVE pending[k] \in active
    <3>1. /\ Len(pending) \in Nat /\ next_submission \in Nat
          /\ k \in 1..Len(pending) /\ pending[k] \in Ids
      BY LenProperties, ElementOfSeq DEF TypeOK
    <3>2. FirstPending <= pending[k] /\ pending[k] < next_submission
      BY <3>1 DEF QueueInv, PendingInv, FirstPending
    <3> QED BY <3>1, <3>2 DEF QueueInv, StageInv
  <2> QED BY <2>1, <2>2, <2>3 DEF SnapshotQueued
<1> QED BY <1>1, QueueCorrect, TypeCorrect, PTL

\* What shutdown joins or aborts is the task that runs (queue.rs:106-113, 214-227).
THEOREM SlotNamesTheWorkerAlways == Spec => []SlotNamesTheWorker
<1>1. QueueInv => SlotNamesTheWorker
  BY DEF QueueInv, OwnershipInv
<1> QED BY <1>1, QueueCorrect, PTL

\* Events tell the truth: terminal ones about what is shown and cancelled, the
\* Shutdown event about what runs (agent.rs:86-95, queue.rs:272-292).
THEOREM EventsAreTrueAlways == Spec => []EventsAreTrue
<1>1. QueueInv => CancelledWasRequested
  BY DEF QueueInv, StageInv, CancelledWasRequested
<1>2. TerminalIsGone /\ CancelledWasRequested /\ QuietAfterShutdown => EventsAreTrue
  BY DEF EventsAreTrue
<1> QED BY <1>1, <1>2, QueueCorrect, TerminalIsGoneAlways, QuietAfterShutdownAlways, PTL

--------------------------------------------------------------------------------
(* The queue implements the contract.                                      *)

LEMMA ContractInit == Init => Contract!CInit
  BY DEF Init, Contract!CInit, Contract!Ids, Ids

\* Below the submission a worker holds everything has ended.
LEMMA HeldIsNext ==
  ASSUME TypeOK, QueueInv, NEW w \in Workers, wpc[w] \in Busy
  PROVE  /\ wid[w] \in Ids
         /\ Contract!EarlierEnded(wid[w])
         /\ spc # "over"
<1>1. /\ Len(pending) \in Nat /\ next_submission \in Nat
      /\ FirstPending - 1 \in Nat
  BY LenProperties DEF TypeOK, QueueInv, PendingInv, FirstPending
<1>2. wid[w] = FirstPending - 1
  BY DEF QueueInv, HeldInv
<1>3. wid[w] \in Ids
  BY <1>1, <1>2, QueueAssumption DEF TypeOK
<1>4. Contract!EarlierEnded(wid[w])
  <2> SUFFICES ASSUME NEW j \in Ids, j < FirstPending - 1
               PROVE  stage[j] \in Terminal
    BY <1>2 DEF Contract!EarlierEnded, Contract!Ids, Contract!Terminal, Ids, Terminal
  <2> QED BY DEF QueueInv, StageInv
<1>5. spc # "over"
  BY DEF QueueInv, ShutdownInv, Stopping, Busy
<1> QED BY <1>3, <1>4, <1>5

LEMMA ContractStep ==
  TypeOK /\ QueueInv /\ [Next]_vars => [Contract!CNext]_(Contract!cvars)
<1> SUFFICES ASSUME TypeOK, QueueInv, [Next]_vars
             PROVE  Contract!CNext \/ UNCHANGED Contract!cvars
  OBVIOUS
<1> USE DEF queueVars, workerVars, ownerVars, Contract!cvars
<1>1. ASSUME NEW s \in Submitters, SubmitEnqueue(s) PROVE Contract!CNext
  <2>1. /\ next_submission \in Ids
        /\ stage' = [stage EXCEPT ![next_submission] = "accepted"]
        /\ ~is_shutdown /\ UNCHANGED <<is_shutdown, spc>>
    BY <1>1 DEF SubmitEnqueue, Admitted
  <2>2. spc # "over"
    BY <2>1 DEF QueueInv, ShutdownInv
  <2>3. stage[next_submission] = "none"
    BY <2>1 DEF QueueInv, StageInv, Ids
  <2>4. ASSUME NEW j \in Ids, j < next_submission PROVE stage[j] # "none"
    <3>1. /\ Len(pending) \in Nat /\ next_submission \in Nat /\ j \in Nat
      BY LenProperties DEF TypeOK, Ids
    <3>2. CASE j >= FirstPending
      BY <2>4, <3>2 DEF QueueInv, StageInv
    <3>3. CASE j < FirstPending - 1
      BY <3>3 DEF QueueInv, StageInv, Terminal
    <3>4. CASE j = FirstPending - 1
      <4>1. CASE stage[j] \in Terminal
        BY <4>1 DEF Terminal
      <4>2. CASE \E w \in Workers : wpc[w] \in Busy
        BY <3>4, <4>2 DEF QueueInv, HeldInv, Busy
      <4>3. CASE spc \in Stopping
        BY <4>3, <2>1 DEF QueueInv, ShutdownInv, Stopping
      <4> QED BY <3>4, <4>1, <4>2, <4>3 DEF QueueInv, StageInv
    <3> QED BY <3>1, <3>2, <3>3, <3>4 DEF FirstPending
  <2>5. Contract!Accept(next_submission)
    BY <2>1, <2>2, <2>3, <2>4 DEF Contract!Accept, Contract!Ids, Ids
  <2> QED BY <2>1, <2>5 DEF Contract!CNext, Contract!Ids, Ids
<1>2. ASSUME NEW w \in Workers, RunStart(w) PROVE Contract!CNext
  <2>1. /\ wpc[w] \in Busy /\ stage[wid[w]] = "accepted"
        /\ stage' = [stage EXCEPT ![wid[w]] = "started"]
        /\ UNCHANGED <<is_shutdown, spc>>
    BY <1>2 DEF RunStart, Busy, QueueInv, HeldInv
  <2>2. Contract!Start(wid[w])
    BY <2>1, HeldIsNext DEF Contract!Start
  <2> QED BY <2>1, <2>2, HeldIsNext DEF Contract!CNext, Contract!Ids, Ids
<1>3. ASSUME NEW w \in Workers, WorkerPublish(w) PROVE Contract!CNext
  <2>1. /\ wpc[w] \in Busy /\ wout[w] \in Terminal
        /\ \/ stage[wid[w]] = "started"
           \/ stage[wid[w]] = "accepted" /\ wout[w] = "cancelled"
        /\ stage' = [stage EXCEPT ![wid[w]] = wout[w]]
        /\ UNCHANGED <<is_shutdown, spc>>
    BY <1>3 DEF WorkerPublish, Busy, QueueInv, HeldInv, TypeOK
  <2>2. Contract!End(wid[w], wout[w])
    BY <2>1, HeldIsNext DEF Contract!End
  <2> QED BY <2>1, <2>2, HeldIsNext
          DEF Contract!CNext, Contract!Ids, Contract!Terminal, Ids, Terminal
<1>4. CASE Shutdown
  <2>1. CASE BeginShutdown
    BY <2>1 DEF BeginShutdown, Contract!CNext, Contract!Close
  <2>2. CASE ShutdownOver
    BY <2>2 DEF ShutdownOver, QueueInv, ShutdownInv, TypeOK, Contract!CNext, Contract!Finish
  <2>3. CASE \/ ShutdownList \/ ShutdownCancelOne \/ ShutdownServices \/ ShutdownTakeWorker
             \/ ShutdownJoin \/ ShutdownAbort \/ WriteEnds(Owner)
    BY <2>3 DEF ShutdownList, ShutdownCancelOne, ShutdownServices, ShutdownTakeWorker, ShutdownJoin,
       OwnerGoesOn, ShutdownAbort, WriteEnds
  <2> QED BY <1>4, <2>1, <2>2, <2>3 DEF Shutdown
<1>5. ASSUME NEW s \in Submitters,
             \/ SubmitCheck(s) \/ SubmitReject(s) \/ SubmitLockSlot(s)
             \/ SubmitRefused(s) \/ SubmitSpawn(s)
      PROVE  UNCHANGED Contract!cvars
  BY <1>5 DEF SubmitCheck, SubmitReject, SubmitLockSlot, SubmitRefused, SubmitSpawn
<1>6. ASSUME NEW c \in Cancellers, Cancel(c) PROVE UNCHANGED Contract!cvars
  BY <1>6 DEF Cancel, CancelLookup, CancelOne, CancelActive, WriteEnds
<1>7. ASSUME NEW w \in Workers,
             \/ WorkerPop(w) \/ WorkerExit(w) \/ RunSkipped(w) \/ RunReturn(w)
             \/ WorkerFinish(w) \/ RunWrites(w) \/ WriteEnds(w)
      PROVE  UNCHANGED Contract!cvars
  BY <1>7 DEF WorkerPop, WorkerExit, RunSkipped, RunReturn, WorkerFinish, RunWrites, WriteEnds
<1>8. CASE UNCHANGED vars
  BY <1>8 DEF vars
<1> QED BY <1>1, <1>2, <1>3, <1>4, <1>5, <1>6, <1>7, <1>8
        DEF Next, Submit, Worker

\* What a lossless subscriber sees is what SubmissionContract allows: FIFO, at
\* most one terminal event, none after Shutdown (queue.rs:41-293, core.rs:533-597).
THEOREM QueueImplementsContract == Spec => ContractHolds
<1>1. Spec => Contract!CInit /\ [][Contract!CNext]_(Contract!cvars)
  BY ContractInit, ContractStep, TypeCorrect, QueueCorrect, PTL DEF Spec
<1> QED BY <1>1 DEF ContractHolds, Contract!CSpec

--------------------------------------------------------------------------------
(* The locks of the core state.                                            *)

\* What a step of a script takes and drops are mutexes.
LEMMA LockStepTyping ==
  ASSUME NEW script \in LockSteps, NEW k \in 1..Len(script)
  PROVE  script[k].takes \subseteq Mutexes
<1> DEFINE LockStep == [takes : SUBSET Mutexes, drops : SUBSET Mutexes]
<1>1. script[k] \in LockStep
  <2>1. script \in Seq(LockStep)
    BY DEF LockSteps
  <2> HIDE DEF LockStep
  <2> QED BY <2>1
<1> QED BY <1>1

\* What a thread holds after one more step of its script, as Step computes it.
LEMMA HeldAtNext ==
  ASSUME NEW operation, Script[operation] \in LockSteps,
         NEW steps \in 0..(Len(Script[operation]) - 1)
  PROVE  HeldAt(operation, steps + 1) =
           (HeldAt(operation, steps) \cup Script[operation][steps + 1].takes)
             \ Script[operation][steps + 1].drops
<1> DEFINE next == Script[operation][steps + 1]
<1>1. steps + 1 \in 1..Len(Script[operation])
  BY DEF LockSteps
<1>2. next.takes \subseteq Mutexes
  BY <1>1, LockStepTyping
<1>3. ASSUME NEW mutex \in HeldAt(operation, steps + 1)
      PROVE  mutex \in (HeldAt(operation, steps) \cup next.takes) \ next.drops
  <2>1. PICK j \in 1..(steps + 1) :
          /\ mutex \in Script[operation][j].takes
          /\ \A i \in j..(steps + 1) : mutex \notin Script[operation][i].drops
    BY <1>3 DEF HeldAt
  <2>2. mutex \notin next.drops
    BY <2>1
  <2>3. CASE j = steps + 1
    BY <2>1, <2>2, <2>3
  <2>4. CASE j # steps + 1
    <3>1. j \in 1..steps /\ \A i \in j..steps : i \in j..(steps + 1)
      BY <2>4
    <3> QED BY <1>3, <2>1, <2>2, <3>1 DEF HeldAt
  <2> QED BY <2>3, <2>4
<1>4. ASSUME NEW mutex \in (HeldAt(operation, steps) \cup next.takes) \ next.drops
      PROVE  mutex \in HeldAt(operation, steps + 1)
  <2>1. mutex \in Mutexes /\ mutex \notin next.drops
    BY <1>2, <1>4 DEF HeldAt
  <2>2. CASE mutex \in next.takes
    <3>1. \A i \in (steps + 1)..(steps + 1) : i = steps + 1
      OBVIOUS
    <3> QED BY <2>1, <2>2, <3>1 DEF HeldAt
  <2>3. CASE mutex \in HeldAt(operation, steps)
    <3>1. PICK j \in 1..steps :
            /\ mutex \in Script[operation][j].takes
            /\ \A i \in j..steps : mutex \notin Script[operation][i].drops
      BY <2>3 DEF HeldAt
    <3>2. j \in 1..(steps + 1)
          /\ \A i \in j..(steps + 1) : i \in j..steps \/ i = steps + 1
      OBVIOUS
    <3> QED BY <2>1, <3>1, <3>2 DEF HeldAt
  <2> QED BY <1>4, <2>2, <2>3
<1> QED BY <1>3, <1>4

\* At the start of a script nothing is held.
LEMMA HeldAtStart == ASSUME NEW operation PROVE HeldAt(operation, 0) = {}
BY DEF HeldAt

\* No operation is called "nothing".
LEMMA OperationsAreNamed == "nothing" \notin Operations
BY OperationsAssumption DEF AllOperations, Script

--------------------------------------------------------------------------------
\* What a thread holds is what its script says it holds at its position, in
\* every interleaving.
LEMMA GuardsInvIsInductive ==
  ASSUME NEW rank,
         \A operation \in Operations : FollowsOrder(operation, rank),
         GuardsInv, [LocksNext]_lockVars
  PROVE  GuardsInv'
<1> USE DEF GuardsInv
<1>1. ASSUME NEW t \in Threads, Call(t) PROVE GuardsInv'
  <2>1. PICK operation \in Operations : calling' = [calling EXCEPT ![t] = operation]
    BY <1>1 DEF Call
  <2>2. at' = at /\ held' = held /\ calling[t] = "nothing"
    BY <1>1 DEF Call
  <2>3. at[t] = 0 /\ held[t] = {}
    BY <2>2 DEF LocksTypeOK
  <2>4. Len(Script[operation]) \in Nat
    BY DEF FollowsOrder, LockSteps
  <2>5. \A u \in Threads : calling'[u] = IF u = t THEN operation ELSE calling[u]
    BY <2>1 DEF LocksTypeOK
  <2>6. calling' \in [Threads -> Operations \cup {"nothing"}]
    BY <2>1 DEF LocksTypeOK
  <2>7. LocksTypeOK'
    BY <2>2, <2>3, <2>4, <2>5, <2>6, OperationsAreNamed DEF LocksTypeOK
  <2> QED BY <2>2, <2>3, <2>5, <2>7, HeldAtStart
<1>2. ASSUME NEW t \in Threads, Step(t) PROVE GuardsInv'
  <2> DEFINE operation == calling[t]
             steps == at[t]
  <2>1. /\ operation \in Operations
        /\ steps \in 0..Len(Script[operation])
        /\ steps # Len(Script[operation])
    BY <1>2 DEF Step, Finished, LocksTypeOK
  <2>2. Script[operation] \in LockSteps
    BY <2>1 DEF FollowsOrder
  <2>3. steps \in 0..(Len(Script[operation]) - 1)
    BY <2>1, <2>2 DEF LockSteps
  <2>4. /\ calling' = calling
        /\ at' = [at EXCEPT ![t] = steps + 1]
        /\ held' = [held EXCEPT ![t] = HeldAt(operation, steps + 1)]
    BY <1>2, <2>2, <2>3, HeldAtNext DEF Step, NextStep, LocksTypeOK
  <2>5. HeldAt(operation, steps + 1) \in SUBSET Mutexes
    BY DEF HeldAt
  <2>6. steps + 1 \in 0..Len(Script[operation]) /\ steps + 1 \in Nat
    BY <2>2, <2>3 DEF LockSteps
  <2>7. operation # "nothing"
    BY <2>1, OperationsAreNamed
  <2>8. LocksTypeOK'
    BY <2>4, <2>5, <2>6, <2>7 DEF LocksTypeOK
  <2> QED BY <2>4, <2>6, <2>8 DEF LocksTypeOK
<1>3. ASSUME NEW t \in Threads, Return(t) PROVE GuardsInv'
  <2>1. /\ calling[t] \in Operations
        /\ at[t] = Len(Script[calling[t]])
    BY <1>3 DEF Return, Finished, LocksTypeOK
  <2>2. held[t] = {}
    BY <1>3, <2>1, OperationsAreNamed DEF FollowsOrder
  <2>3. /\ calling' = [calling EXCEPT ![t] = "nothing"]
        /\ at' = [at EXCEPT ![t] = 0]
        /\ held' = held
    BY <1>3 DEF Return
  <2>4. LocksTypeOK'
    BY <2>2, <2>3 DEF LocksTypeOK
  <2> QED BY <2>3, <2>4 DEF LocksTypeOK
<1>4. CASE UNCHANGED lockVars
  BY <1>4 DEF lockVars, LocksTypeOK
<1> QED BY <1>1, <1>2, <1>3, <1>4 DEF LocksNext

\* A set of numbered mutexes in which each has a higher one is empty: the sets
\* of numbers above would descend for ever.
LEMMA NoEndlessAscent ==
  ASSUME NEW size \in Nat, NEW rank \in [Mutexes -> 1..size],
         NEW waited \in SUBSET Mutexes, waited # {}
  PROVE  \E mutex \in waited : \A other \in waited : ~(rank[mutex] < rank[other])
<1> DEFINE Above(mutex) == {n \in 1..size : rank[mutex] < n}
           family == {Above(mutex) : mutex \in waited}
           order == StrictSubsetOrdering(1..size)
           subsets == FiniteSubsetsOf(1..size)
<1>1. IsWellFoundedOn(order, subsets)
  BY FS_StrictSubsetOrderingWellFounded
<1>2. subsets = SUBSET (1..size)
  <2>1. IsFiniteSet(1..size)
    BY FS_Interval
  <2> QED BY <2>1, FS_FiniteSubsetsOfFinite
<1>3. family \subseteq subsets /\ family # {}
  <2>1. \A mutex \in waited : Above(mutex) \in SUBSET (1..size)
    OBVIOUS
  <2> HIDE DEF Above, subsets
  <2> QED BY <1>2, <2>1
<1>4. PICK least \in family : \A other \in family : ~(<<other, least>> \in order)
  <2> HIDE DEF family, order, subsets
  <2> QED BY <1>1, <1>3, WFMin
<1>5. PICK mutex \in waited : least = Above(mutex)
  BY <1>4
<1>6. ASSUME NEW other \in waited, rank[mutex] < rank[other] PROVE FALSE
  <2>1. rank[other] \in Above(mutex) /\ rank[other] \notin Above(other)
    BY <1>6
  <2>2. Above(other) \subseteq Above(mutex) /\ Above(other) # Above(mutex)
    BY <1>6, <2>1
  <2>3. <<Above(other), Above(mutex)>> \in order
    BY <2>2 DEF StrictSubsetOrdering
  <2> QED BY <1>4, <1>5, <2>3
<1> QED BY <1>6

\* A wait ascends: whoever holds what a thread wants, itself wants only
\* mutexes of a higher rank.
LEMMA WaitsAscend ==
  ASSUME NEW rank, \A operation \in Operations : FollowsOrder(operation, rank),
         GuardsInv, NEW t \in Threads, NEW mutex \in held[t], NEW wanted \in Wanted(t)
  PROVE  wanted \in Mutexes /\ rank[mutex] < rank[wanted]
<1>1. /\ calling[t] \in Operations
      /\ at[t] \in 0..Len(Script[calling[t]])
      /\ at[t] # Len(Script[calling[t]])
      /\ wanted \in Script[calling[t]][at[t] + 1].takes
  BY DEF Wanted, Finished, NextStep, GuardsInv, LocksTypeOK
<1>2. FollowsOrder(calling[t], rank)
  BY <1>1
<1>3. /\ at[t] \in 0..(Len(Script[calling[t]]) - 1)
      /\ at[t] + 1 \in 1..Len(Script[calling[t]])
  BY <1>1, <1>2 DEF FollowsOrder, LockSteps
<1>4. mutex \in HeldAt(calling[t], at[t])
  BY <1>1, OperationsAreNamed DEF GuardsInv
<1>5. wanted \in Mutexes
  BY <1>1, <1>2, <1>3, LockStepTyping DEF FollowsOrder
<1> QED BY <1>1, <1>2, <1>3, <1>4, <1>5 DEF FollowsOrder

\* Threads that follow one order never wait for each other in a circle.
LEMMA OrderExcludesDeadlock ==
  ASSUME NEW size \in Nat, NEW rank \in [Mutexes -> 1..size],
         \A operation \in Operations : FollowsOrder(operation, rank), GuardsInv
  PROVE  NoDeadlock
<1> SUFFICES ASSUME NEW group \in SUBSET Threads, group # {},
                    \A t \in group : \E holder \in group : Wanted(t) \cap held[holder] # {}
             PROVE  FALSE
  BY DEF NoDeadlock, GuardsInv
<1> DEFINE waited == {mutex \in Mutexes : \E holder \in group :
                        mutex \in held[holder] /\ Wanted(holder) # {}}
<1>1. ASSUME NEW t \in group
      PROVE  \E mutex \in waited : mutex \in Wanted(t)
  <2>1. PICK holder \in group : Wanted(t) \cap held[holder] # {}
    OBVIOUS
  <2>2. Wanted(holder) # {}
    OBVIOUS
  <2>3. held[holder] \subseteq Mutexes
    BY DEF GuardsInv, LocksTypeOK
  <2> QED BY <2>1, <2>2, <2>3
<1>2. waited # {}
  BY <1>1
<1>3. PICK mutex \in waited : \A other \in waited : ~(rank[mutex] < rank[other])
  <2> HIDE DEF waited
  <2> QED BY <1>2, NoEndlessAscent DEF waited
<1>4. PICK holder \in group : mutex \in held[holder]
  OBVIOUS
<1>5. PICK other \in waited : other \in Wanted(holder)
  BY <1>1
<1>6. rank[mutex] < rank[other]
  BY <1>4, <1>5, WaitsAscend
<1> QED BY <1>3, <1>5, <1>6

--------------------------------------------------------------------------------
\* However many threads call into the core, and whichever operations that follow
\* one lock order they call, no group of them waits on itself (core/queue.rs,
\* core/snapshot.rs, core/session_api.rs, core/model_selection.rs, core/agent.rs).
THEOREM LockOrderPreventsDeadlock ==
  ASSUME NEW size \in Nat, NEW rank \in [Mutexes -> 1..size],
         \A operation \in Operations : FollowsOrder(operation, rank)
  PROVE  LocksSpec => []NoDeadlock
<1>1. LocksInit => GuardsInv
  BY DEF LocksInit, GuardsInv, LocksTypeOK
<1>2. GuardsInv /\ [LocksNext]_lockVars => GuardsInv'
  BY GuardsInvIsInductive
<1>3. GuardsInv => NoDeadlock
  BY OrderExcludesDeadlock
<1> QED BY <1>1, <1>2, <1>3, PTL DEF LocksSpec
================================================================================
