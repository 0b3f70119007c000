---------------------------- MODULE SubmissionQueue ----------------------------
(***************************************************************************)
(* core/queue.rs with the admission and shutdown paths of core.rs and the  *)
(* life of a worker task around agent.rs::run_submission.                  *)
(*                                                                         *)
(* Threads: callers of submit, callers of the cancel operations, the       *)
(* queue's worker tasks, and the runtime owner that runs shutdown_services.*)
(* A critical section of the queue mutex without an await is one step.     *)
(* The submission_worker mutex is held across steps, so it is a variable.  *)
(* What a run does between SubmissionStarted and its outcome (turns,       *)
(* tools, compaction) is left to other modules: here it takes any time and *)
(* ends with an outcome the code can give it.                              *)
(***************************************************************************)
EXTENDS Naturals, Sequences

CONSTANTS
  MaxSubmissions,  \* bound: submissions one behaviour may accept
  Submitters,      \* callers of submit
  Cancellers,      \* callers of cancel, cancel_current, cancel_all
  Workers,         \* identities of worker tasks, reused once a task has ended
  None             \* no task, no caller, no submission

Owner == "owner"  \* the runtime owner, as one who writes

ASSUME QueueAssumption ==
  /\ MaxSubmissions \in Nat
  /\ None \notin Submitters
  /\ None \notin Workers
  /\ None \notin Nat
  /\ Owner \notin Workers

Ids == 1..MaxSubmissions

Terminal == {"completed", "cancelled", "failed"}

VARIABLES
  pending,            \* SubmissionQueue.pending
  current,            \* SubmissionQueue.current
  worker_running,     \* SubmissionQueue.worker_running
  active,             \* keys of CoreState.active
  cancelled,          \* submissions whose ActiveSubmission.cancelled is set
  writing,            \* who awaits a write to the stdin of a process, which has no
                      \* deadline: cancellers, workers and the runtime owner
  next_submission,    \* CoreState.next_submission
  is_shutdown,        \* CoreState.is_shutdown
  submission_worker,  \* CoreState.submission_worker, the join handle
  slot_owner,         \* who holds the submission_worker mutex
  submitter,          \* where each caller of submit is
  todo,               \* submissions each canceller still has to cancel
  wpc,                \* where each worker task is
  wid,                \* the submission a worker task popped
  wout,               \* the terminal event a worker task will publish
  spc,                \* where the runtime owner is in shutdown_services
  stodo,              \* its cancel_all_submissions list
  taken,              \* the handle finish_submission_worker took
  stage               \* history: the last event published per submission

queueVars  == <<pending, current, worker_running, active, next_submission>>
workerVars == <<wpc, wid, wout>>
ownerVars  == <<spc, stodo, taken>>
vars == <<queueVars, cancelled, writing, is_shutdown, submission_worker, slot_owner,
          submitter, todo, workerVars, ownerVars, stage>>

--------------------------------------------------------------------------------
\* next_submission starts at one.
FirstId == 1

Init ==
  /\ pending = <<>>
  /\ current = None
  /\ worker_running = FALSE
  /\ active = {}
  /\ cancelled = {}
  /\ writing = {}
  /\ next_submission = FirstId
  /\ is_shutdown = FALSE
  /\ submission_worker = None
  /\ slot_owner = None
  /\ submitter = [s \in Submitters |-> "idle"]
  /\ todo = [c \in Cancellers |-> {}]
  /\ wpc = [w \in Workers |-> "idle"]
  /\ wid = [w \in Workers |-> None]
  /\ wout = [w \in Workers |-> None]
  /\ spc = "serving"
  /\ stodo = {}
  /\ taken = None
  /\ stage = [i \in Ids |-> "none"]

--------------------------------------------------------------------------------
(* submit_with_attachments                                                 *)

\* The first ensure_running; the awaits that follow (model selection, image
\* validation, a catalog refresh) may take any time.
SubmitCheck(s) ==
  /\ submitter[s] = "idle"
  /\ ~is_shutdown
  /\ submitter' = [submitter EXCEPT ![s] = "validating"]
  /\ UNCHANGED <<queueVars, cancelled, writing, is_shutdown, submission_worker,
                 slot_owner, todo, workerVars, ownerVars, stage>>

\* Blocked instructions, no model, an unsupported image, or a dropped future.
SubmitReject(s) ==
  /\ submitter[s] = "validating"
  /\ submitter' = [submitter EXCEPT ![s] = "idle"]
  /\ UNCHANGED <<queueVars, cancelled, writing, is_shutdown, submission_worker,
                 slot_owner, todo, workerVars, ownerVars, stage>>

SubmitLockSlot(s) ==
  /\ submitter[s] = "validating"
  /\ slot_owner = None
  /\ slot_owner' = s
  /\ submitter' = [submitter EXCEPT ![s] = "enqueueing"]
  /\ UNCHANGED <<queueVars, cancelled, writing, is_shutdown, submission_worker,
                 todo, workerVars, ownerVars, stage>>

\* The ensure_running repeated under the queue mutex.  Mutant: left out.
AdmittedUnchecked == TRUE
Admitted == ~is_shutdown

\* Whoever finds no worker running has to start one.  Mutants: everybody starts
\* one; only the first submission does.
NeedsWorkerAlways == TRUE
NeedsWorkerOnce == next_submission = FirstId
NeedsWorker == ~worker_running

\* enqueue_submission, one critical section of the queue mutex that also
\* publishes SubmissionAccepted.  A caller that need not start a worker
\* returns and releases the slot.
SubmitEnqueue(s) ==
  /\ submitter[s] = "enqueueing"
  /\ Admitted
  /\ next_submission \in Ids
  /\ LET id == next_submission IN
       /\ next_submission' = id + 1
       /\ active' = active \cup {id}
       /\ stage' = [stage EXCEPT ![id] = "accepted"]
       /\ pending' = Append(pending, id)
  /\ worker_running' = TRUE
  /\ IF NeedsWorker
     THEN /\ submitter' = [submitter EXCEPT ![s] = "spawning"]
          /\ UNCHANGED slot_owner
     ELSE /\ submitter' = [submitter EXCEPT ![s] = "idle"]
          /\ slot_owner' = None
  /\ UNCHANGED <<current, cancelled, writing, is_shutdown, submission_worker, todo,
                 workerVars, ownerVars>>

\* The second ensure_running, under the queue mutex, finds the core closed.
SubmitRefused(s) ==
  /\ submitter[s] = "enqueueing"
  /\ ~Admitted
  /\ submitter' = [submitter EXCEPT ![s] = "idle"]
  /\ slot_owner' = None
  /\ UNCHANGED <<queueVars, cancelled, writing, is_shutdown, submission_worker, todo,
                 workerVars, ownerVars, stage>>

\* The new handle replaces that of an ended task.  Mutant: the slot keeps the
\* first handle it was given.
StoredHandleFirst(w) == IF submission_worker = None THEN w ELSE submission_worker
StoredHandle(w) == w

\* The caller that found worker_running false spawns the next worker task,
\* stores its handle and releases the slot.
SubmitSpawn(s) ==
  /\ submitter[s] = "spawning"
  /\ \E w \in Workers :
       /\ wpc[w] = "idle"
       /\ wpc' = [wpc EXCEPT ![w] = "spawned"]
       /\ submission_worker' = StoredHandle(w)
  /\ submitter' = [submitter EXCEPT ![s] = "idle"]
  /\ slot_owner' = None
  /\ UNCHANGED <<queueVars, cancelled, writing, is_shutdown, todo, wid, wout,
                 ownerVars, stage>>

--------------------------------------------------------------------------------
(* cancel_submission, cancel_current_submission, cancel_all_submissions:   *)
(* each looks its submissions up under a lock, releases it, and cancels    *)
(* them one by one.                                                        *)

\* cancel(id) is refused after shutdown; the other two are not.
CancelTargets == {{i} : i \in IF is_shutdown THEN {} ELSE active}
                 \cup {active} \cup {{current} \ {None}}

CancelLookup(c) ==
  /\ todo[c] = {}
  /\ \E found \in CancelTargets : todo' = [todo EXCEPT ![c] = found]
  /\ UNCHANGED <<queueVars, cancelled, writing, is_shutdown, submission_worker,
                 slot_owner, submitter, workerVars, ownerVars, stage>>

FirstOf(found, i) == i \in found /\ \A j \in found : i <= j

\* cancel_active_submission, called by t: who is first to cancel a submission that
\* has a request tells its provider, which may not read.
CancelActive(t, i) ==
  /\ t \notin writing
  /\ cancelled' = cancelled \cup {i}
  /\ \/ UNCHANGED writing
     \/ /\ i \notin cancelled /\ \E w \in Workers : wpc[w] = "running" /\ wid[w] = i
        /\ writing' = writing \cup {t}

\* The write is taken, or fails because its process is gone.  It need not happen.
WriteEnds(t) ==
  /\ t \in writing
  /\ writing' = writing \ {t}
  /\ UNCHANGED <<queueVars, cancelled, is_shutdown, submission_worker, slot_owner, submitter, todo,
                 workerVars, ownerVars, stage>>

CancelOne(c) ==
  /\ \E i \in todo[c] :
       /\ FirstOf(todo[c], i)
       /\ CancelActive(c, i)
       /\ todo' = [todo EXCEPT ![c] = @ \ {i}]
  /\ UNCHANGED <<queueVars, is_shutdown, submission_worker, slot_owner,
                 submitter, workerVars, ownerVars, stage>>

--------------------------------------------------------------------------------
(* drain_submission_queue                                                  *)

\* Take the oldest submission, one critical section of the queue mutex.
WorkerPop(w) ==
  /\ wpc[w] \in {"spawned", "draining"}
  /\ pending # <<>>
  /\ current' = Head(pending)
  /\ pending' = Tail(pending)
  /\ wpc' = [wpc EXCEPT ![w] = "popped"]
  /\ wid' = [wid EXCEPT ![w] = Head(pending)]
  /\ UNCHANGED <<worker_running, active, next_submission, cancelled, writing, is_shutdown,
                 submission_worker, slot_owner, submitter, todo, wout, ownerVars,
                 stage>>

\* The queue is empty: the task gives up ownership and ends.
WorkerExit(w) ==
  /\ wpc[w] \in {"spawned", "draining"}
  /\ pending = <<>>
  /\ current' = None
  /\ worker_running' = FALSE
  /\ wpc' = [wpc EXCEPT ![w] = "idle"]
  /\ UNCHANGED <<pending, active, next_submission, cancelled, writing, is_shutdown,
                 submission_worker, slot_owner, submitter, todo, wid, wout,
                 ownerVars, stage>>

\* run_submission returns at once when the submission is already cancelled.
RunSkipped(w) ==
  /\ wpc[w] = "popped"
  /\ wid[w] \in cancelled
  /\ wpc' = [wpc EXCEPT ![w] = "returned"]
  /\ wout' = [wout EXCEPT ![w] = "cancelled"]
  /\ UNCHANGED <<queueVars, cancelled, writing, is_shutdown, submission_worker,
                 slot_owner, submitter, todo, wid, ownerVars, stage>>

RunStart(w) ==
  /\ wpc[w] = "popped"
  /\ wid[w] \notin cancelled
  /\ wpc' = [wpc EXCEPT ![w] = "running"]
  /\ stage' = [stage EXCEPT ![wid[w]] = "started"]
  /\ UNCHANGED <<queueVars, cancelled, writing, is_shutdown, submission_worker,
                 slot_owner, submitter, todo, wid, wout, ownerVars>>

\* The terminal events run_submission may return for submission i.
Outcomes(i) == {o \in Terminal : o = "cancelled" => i \in cancelled}

\* The outcome of run_submission.  A turn that ended before the cancellation
\* was seen still completes; a failed automatic compaction is Failed even when
\* it failed because of the cancellation; any other error of a cancelled
\* submission is Cancelled.
RunReturn(w) ==
  /\ wpc[w] = "running" /\ w \notin writing
  /\ \E outcome \in Outcomes(wid[w]) : wout' = [wout EXCEPT ![w] = outcome]
  /\ wpc' = [wpc EXCEPT ![w] = "returned"]
  /\ UNCHANGED <<queueVars, cancelled, writing, is_shutdown, submission_worker,
                 slot_owner, submitter, todo, wid, ownerVars, stage>>

\* Starting a chat, refreshing credentials, cancelling a request and writing to a
\* terminal do not select on cancellation.
RunWrites(w) ==
  /\ wpc[w] = "running" /\ w \notin writing
  /\ writing' = writing \cup {w}
  /\ UNCHANGED <<queueVars, cancelled, is_shutdown, submission_worker, slot_owner, submitter, todo,
                 workerVars, ownerVars, stage>>

\* The active map without a finished submission.  Mutant: never pruned.
StillActiveUnpruned(i) == active
StillActive(i) == active \ {i}

\* The current submission once i is finished.
CurrentAfter(i) == IF current = i THEN None ELSE current

\* finish_submission, one critical section of the queue mutex.
WorkerFinish(w) ==
  /\ wpc[w] = "returned"
  /\ current' = CurrentAfter(wid[w])
  /\ active' = StillActive(wid[w])
  /\ wpc' = [wpc EXCEPT ![w] = "publishing"]
  /\ UNCHANGED <<pending, worker_running, next_submission, cancelled, writing, is_shutdown,
                 submission_worker, slot_owner, submitter, todo, wid, wout,
                 ownerVars, stage>>

\* The loop goes on with the next submission.  Mutant: the task ends instead.
AfterPublishEnds == "idle"
AfterPublish == "draining"

WorkerPublish(w) ==
  /\ wpc[w] = "publishing"
  /\ stage' = [stage EXCEPT ![wid[w]] = wout[w]]
  /\ wpc' = [wpc EXCEPT ![w] = AfterPublish]
  /\ wid' = [wid EXCEPT ![w] = None]
  /\ wout' = [wout EXCEPT ![w] = None]
  /\ UNCHANGED <<queueVars, cancelled, writing, is_shutdown, submission_worker,
                 slot_owner, submitter, todo, ownerVars>>

--------------------------------------------------------------------------------
(* begin_shutdown on the caller's side, shutdown_services on the owner's.  *)

\* close_admission under the queue mutex, then the shutdown watch.
BeginShutdown ==
  /\ spc = "serving"
  /\ is_shutdown' = TRUE
  /\ spc' = "requested"
  /\ UNCHANGED <<queueVars, cancelled, writing, submission_worker, slot_owner, submitter,
                 todo, workerVars, stodo, taken, stage>>

\* cancel_all_submissions lists the active submissions.
ShutdownList ==
  /\ spc = "requested"
  /\ stodo' = active
  /\ spc' = "cancelling"
  /\ UNCHANGED <<queueVars, cancelled, writing, is_shutdown, submission_worker, slot_owner,
                 submitter, todo, workerVars, taken, stage>>

ShutdownCancelOne ==
  /\ spc = "cancelling"
  /\ \E i \in stodo : /\ FirstOf(stodo, i)
                      /\ CancelActive(Owner, i)
                      /\ stodo' = stodo \ {i}
  /\ UNCHANGED <<queueVars, is_shutdown, submission_worker, slot_owner, submitter,
                 todo, workerVars, spc, taken, stage>>

\* The owner goes on to place, where it may have to write.
OwnerGoesOn(place) ==
  /\ Owner \notin writing
  /\ spc' = place
  /\ writing' \in {writing, writing \cup {Owner}}

\* Compaction, agents, questions and the tool dispatcher are shut down: requests
\* are cancelled and the inputs of terminals closed.
ShutdownServices ==
  /\ spc = "cancelling"
  /\ stodo = {}
  /\ OwnerGoesOn("services")
  /\ UNCHANGED <<queueVars, cancelled, is_shutdown, submission_worker, slot_owner, submitter, todo,
                 workerVars, stodo, taken, stage>>

\* Taking the handle waits for the slot mutex.
SlotFree == slot_owner = None

\* finish_submission_worker takes the handle out of the slot.
ShutdownTakeWorker ==
  /\ spc = "services"
  /\ Owner \notin writing
  /\ SlotFree
  /\ taken' = submission_worker
  /\ submission_worker' = None
  /\ spc' = "joining"
  /\ UNCHANGED <<queueVars, cancelled, writing, is_shutdown, slot_owner, submitter, todo,
                 workerVars, stodo, stage>>

\* The join waits for the task.
WorkerJoined == taken # None => wpc[taken] = "idle"

\* There was no worker task, or it ended in time.  host.shutdown follows.
ShutdownJoin ==
  /\ spc = "joining"
  /\ WorkerJoined
  /\ OwnerGoesOn("host")
  /\ UNCHANGED <<queueVars, cancelled, is_shutdown, submission_worker, slot_owner,
                 submitter, todo, workerVars, stodo, taken, stage>>

\* The Shutdown event.
ShutdownOver ==
  /\ spc = "host"
  /\ Owner \notin writing
  /\ spc' = "over"
  /\ UNCHANGED <<queueVars, cancelled, writing, is_shutdown, submission_worker, slot_owner,
                 submitter, todo, workerVars, stodo, taken, stage>>

\* Five seconds passed: the task is aborted, which takes effect where it is
\* suspended, before its first poll or inside run_submission, in a write too.
ShutdownAbort ==
  /\ spc = "joining"
  /\ taken # None
  /\ wpc[taken] \in {"spawned", "running"}
  /\ wpc' = [wpc EXCEPT ![taken] = "idle"]
  /\ wid' = [wid EXCEPT ![taken] = None]
  /\ writing' = writing \ {taken}
  /\ UNCHANGED <<queueVars, cancelled, is_shutdown, submission_worker, slot_owner,
                 submitter, todo, wout, ownerVars, stage>>

--------------------------------------------------------------------------------
Submit(s) == \/ SubmitCheck(s) \/ SubmitReject(s) \/ SubmitLockSlot(s)
             \/ SubmitEnqueue(s) \/ SubmitRefused(s) \/ SubmitSpawn(s)

Cancel(c) == CancelLookup(c) \/ CancelOne(c) \/ WriteEnds(c)

Worker(w) == \/ WorkerPop(w) \/ WorkerExit(w) \/ RunSkipped(w) \/ RunStart(w)
             \/ RunWrites(w) \/ RunReturn(w) \/ WorkerFinish(w) \/ WorkerPublish(w)
             \/ WriteEnds(w)

Shutdown == \/ BeginShutdown \/ ShutdownList \/ ShutdownCancelOne \/ ShutdownServices
            \/ ShutdownTakeWorker \/ ShutdownJoin \/ ShutdownAbort \/ ShutdownOver
            \/ WriteEnds(Owner)

Next == \/ \E s \in Submitters : Submit(s)
        \/ \E c \in Cancellers : Cancel(c)
        \/ \E w \in Workers : Worker(w)
        \/ Shutdown

Spec == Init /\ [][Next]_vars

(***************************************************************************)
(* Scheduling.  A task that can run is polled, a caller holding the slot   *)
(* mutex has no await before it releases it, and the owner's waits are     *)
(* bounded by timeouts but for its writes.  Nothing forces a running       *)
(* submission to end (a question waits for its user) until it is           *)
(* cancelled; then it unwinds after finitely many writes (strong           *)
(* fairness), if they end.  No write need end, and nobody need call.       *)
(***************************************************************************)
RunReturnCancelled(w) == wid[w] \in cancelled /\ RunReturn(w)

Fairness ==
  /\ \A s \in Submitters :
       WF_vars(SubmitEnqueue(s) \/ SubmitRefused(s) \/ SubmitSpawn(s))
  /\ \A c \in Cancellers : WF_vars(CancelOne(c))
  /\ \A w \in Workers :
       /\ WF_vars(WorkerPop(w) \/ WorkerExit(w))
       /\ WF_vars(RunSkipped(w) \/ RunStart(w))
       /\ SF_vars(RunReturnCancelled(w))
       /\ WF_vars(WorkerFinish(w) \/ WorkerPublish(w))
  /\ WF_vars(ShutdownList \/ ShutdownCancelOne \/ ShutdownServices)
  /\ WF_vars(ShutdownTakeWorker)
  /\ WF_vars(ShutdownJoin \/ ShutdownAbort \/ ShutdownOver)

FairSpec == Spec /\ Fairness

--------------------------------------------------------------------------------
(* Properties                                                              *)

\* The ranges of the variables.
TypeOK ==
  /\ pending \in Seq(Ids)
  /\ current \in Ids \cup {None}
  /\ worker_running \in BOOLEAN
  /\ active \in SUBSET Ids
  /\ cancelled \in SUBSET Ids
  /\ writing \in SUBSET (Cancellers \cup Workers \cup {Owner})
  /\ next_submission \in 1..(MaxSubmissions + 1)
  /\ is_shutdown \in BOOLEAN
  /\ submission_worker \in Workers \cup {None}
  /\ slot_owner \in Submitters \cup {None}
  /\ submitter \in [Submitters -> {"idle", "validating", "enqueueing", "spawning"}]
  /\ todo \in [Cancellers -> SUBSET Ids]
  /\ wpc \in [Workers -> {"idle", "spawned", "draining", "popped", "running",
                          "returned", "publishing"}]
  /\ wid \in [Workers -> Ids \cup {None}]
  /\ wout \in [Workers -> Terminal \cup {None}]
  /\ \A w \in Workers : wpc[w] \in {"returned", "publishing"} => wout[w] \in Terminal
  /\ spc \in {"serving", "requested", "cancelling", "services", "joining", "host", "over"}
  /\ stodo \in SUBSET Ids
  /\ taken \in Workers \cup {None}
  /\ stage \in [Ids -> {"none", "accepted", "started"} \cup Terminal]

\* "Exactly one submission mutates session history at a time": although a new
\* worker task may be spawned whenever the old one gives up the queue, there is
\* never more than one task alive, and none next to a caller about to spawn one.
OneWorker ==
  /\ \A v, w \in Workers : wpc[v] # "idle" /\ wpc[w] # "idle" => v = w
  /\ \A s \in Submitters, w \in Workers : submitter[s] = "spawning" => wpc[w] = "idle"

\* From the join on the worker may be aborted.
Stopping == {"joining", "host", "over"}

\* No lost wakeup: accepted work always has a worker, or a caller that is about
\* to spawn one, until shutdown joins the worker.
PendingIsServed ==
  pending # <<>> /\ spc \notin Stopping =>
    \/ \E w \in Workers : wpc[w] # "idle"
    \/ \E s \in Submitters : submitter[s] = "spawning"

\* The worker slot names the live task, so shutdown joins or aborts the task
\* that runs and not an earlier one.
SlotNamesTheWorker ==
  \A w \in Workers : wpc[w] # "idle" => w \in {submission_worker, taken}

\* snapshot(): the running submission, then the queued ones, the cancelled
\* ones hidden.
SnapshotActive == {current} \ ({None} \cup cancelled)
SnapshotQueued == {pending[k] : k \in DOMAIN pending} \ cancelled

\* "A terminal submission event is published only after" the snapshot stopped
\* naming the submission, and from then on no cancellation finds it.
TerminalIsGone ==
  \A i \in Ids : stage[i] \in Terminal =>
    /\ i \notin active
    /\ i # current
    /\ \A k \in DOMAIN pending : pending[k] # i

\* After the Shutdown event no task runs a submission, and the snapshot shows
\* none, even when the worker had to be aborted in the middle of one.
QuietAfterShutdown ==
  spc = "over" => /\ \A w \in Workers : wpc[w] = "idle"
                  /\ SnapshotActive = {}
                  /\ SnapshotQueued = {}

\* A submission ends as Cancelled only if somebody cancelled it.
CancelledWasRequested ==
  \A i \in Ids : stage[i] = "cancelled" => i \in cancelled

\* What an event announces is so, now and later: a submission whose terminal
\* event is out is neither shown nor found by a cancellation any more, it ended
\* as Cancelled only if somebody cancelled it, and after the Shutdown event
\* nothing runs and nothing shows.
EventsAreTrue == TerminalIsGone /\ CancelledWasRequested /\ QuietAfterShutdown

\* A lossless subscriber sees what SubmissionContract says: ids accepted in
\* order, run in that order one at a time, ended at most once, nothing accepted
\* once shutdown is requested, nothing at all after the Shutdown event.
Contract == INSTANCE SubmissionContract
              WITH open <- ~is_shutdown, over <- spc = "over"
ContractHolds == Contract!CSpec

\* The worker has i and awaits a write, which no cancellation ends.
HeldUp(i) == \E w \in Workers \cap writing : wid[w] = i

\* A cancelled submission ends, given that everything before it is cancelled
\* too, unless shutdown aborts the worker first or the worker is held up for ever
\* with it or with one before it.
CancelledWorkEnds ==
  \A i \in Ids :
    <>[](i \in active /\ (\A j \in active : j <= i => j \in cancelled)
           => spc \in Stopping \/ \E j \in 1..i : HeldUp(j))

\* A shutdown request is followed by the Shutdown event, unless the owner awaits a
\* write for ever; a worker that does cannot keep it from ending.
ShutdownCompletes == <>[](is_shutdown => spc = "over" \/ Owner \in writing)

\* Nobody waits for ever but for a process that does not read its stdin: cancelled
\* work ends, and shutdown does.
WorkEnds == CancelledWorkEnds /\ ShutdownCompletes

--------------------------------------------------------------------------------
(* The inductive invariant behind the safety properties, by topic.         *)

Busy == {"popped", "running", "returned", "publishing"}

\* Ids below it have been popped, ids from it up to next_submission are pending.
FirstPending == next_submission - Len(pending)

\* The mutex of the slot and the flag of the queue give the worker role to one
\* task or to one caller about to spawn it.
OwnershipInv ==
  /\ \A s \in Submitters :
       submitter[s] \in {"enqueueing", "spawning"} => slot_owner = s
  /\ \A s \in Submitters : submitter[s] = "spawning" => worker_running
  /\ \A w \in Workers : wpc[w] # "idle" => worker_running
  /\ worker_running => \/ \E w \in Workers : wpc[w] # "idle"
                       \/ \E s \in Submitters : submitter[s] = "spawning"
                       \/ spc \in Stopping
  /\ pending # <<>> => worker_running
  /\ OneWorker
  /\ SlotNamesTheWorker

\* How far shutdown has got and what it has already excluded.
ShutdownInv ==
  /\ is_shutdown <=> spc # "serving"
  /\ spc \in {"serving", "requested", "cancelling", "services"} => taken = None
  /\ spc \in Stopping =>
       /\ submission_worker = None
       /\ stodo = {}
       /\ \A s \in Submitters : submitter[s] # "spawning"
  /\ spc \in {"cancelling", "services"} \cup Stopping => active \subseteq cancelled \cup stodo
  /\ spc = "services" => stodo = {}
  /\ spc \in {"host", "over"} => \A w \in Workers : wpc[w] = "idle"

\* Pending ids are consecutive and end at the last one handed out.
PendingInv ==
  /\ Len(pending) < next_submission
  /\ \A k \in 1..Len(pending) : pending[k] = FirstPending + k - 1

\* A worker holds the submission just below the pending ones.
HeldInv ==
  /\ current # None => current = FirstPending - 1 /\ current \in active
  /\ \A w \in Workers :
       /\ wpc[w] \in Busy => wid[w] = FirstPending - 1
       /\ wpc[w] = "popped" => stage[wid[w]] = "accepted"
       /\ wpc[w] = "running" => stage[wid[w]] = "started"
       /\ wpc[w] \in {"popped", "running", "returned"} => current = wid[w]
       /\ wpc[w] = "publishing" => current = None /\ wid[w] \notin active
       /\ wpc[w] \in {"returned", "publishing"} =>
            /\ wout[w] = "cancelled" => wid[w] \in cancelled
            /\ \/ stage[wid[w]] = "started"
               \/ stage[wid[w]] = "accepted" /\ wout[w] = "cancelled"

\* Which stage a submission has, by where its id stands.
StageInv ==
  \A i \in Ids :
    /\ i >= next_submission => stage[i] = "none" /\ i \notin active
    /\ FirstPending <= i /\ i < next_submission => stage[i] = "accepted" /\ i \in active
    /\ i < FirstPending - 1 => stage[i] \in Terminal
    /\ i = FirstPending - 1 =>
         \/ stage[i] \in Terminal
         \/ \E w \in Workers : wpc[w] \in Busy
         \/ spc \in Stopping /\ \A w \in Workers : wpc[w] = "idle"
    /\ stage[i] \in Terminal => i \notin active
    /\ stage[i] = "cancelled" => i \in cancelled

\* Everything the queue keeps true; the safety properties above follow from it.
QueueInv == OwnershipInv /\ ShutdownInv /\ PendingInv /\ HeldInv /\ StageInv
================================================================================
