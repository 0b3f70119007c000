------------------------------ MODULE Activities ------------------------------
(***************************************************************************)
(* Local commands under supervision (tools/activity.rs and its parts): a   *)
(* call starts a process, waits for it or publishes it in the background,  *)
(* polls read it, its owner's end and shutdown stop and join it.           *)
(***************************************************************************)
EXTENDS Naturals, SequencesExt, FiniteSets

CONSTANTS
  Commands, OwnerOf, Children, \* a command's owner: "main" or a child agent
  Ttys,                        \* commands on a pseudo-terminal, with an input
  Backgrounds, Timed,          \* started with run_in_background, with a timeout
  MAX_ACTIVE_TASKS, MAX_ACTIVE_CHILD_TASKS, MAX_ACTIVE_TASKS_PER_CHILD, MAX_RECENT_TASKS,
  MaxOutput,                   \* bound: pieces a program writes
  Accidents                    \* bound: commands of a behaviour among which a system call fails

nobody == "nobody"

ASSUME ActivitiesAssumption ==
  /\ IsFiniteSet(Commands) /\ nobody \notin Commands
  /\ OwnerOf \in [Commands -> {"main"} \cup Children] /\ Children \cap {"main", "shutdown"} = {}
  /\ MAX_ACTIVE_TASKS \in Nat /\ MAX_ACTIVE_CHILD_TASKS \in Nat /\ MAX_ACTIVE_TASKS_PER_CHILD \in Nat
  /\ MAX_RECENT_TASKS \in Nat \ {0} /\ MaxOutput \in Nat
  /\ Accidents \subseteq SUBSET Commands

Joiners == Children \cup {"shutdown"}

VARIABLES
  issued,     \* bound: the commands of a behaviour, which write and are polled if alone
  call,       \* the tool call that starts the command
  permit,     \* commands whose record holds a permit
  admission,  \* the counters: all, of children, of each child
  records, recent,
  published, terminal_event_sent,
  terminal, stop, \* the commands whose status is final, and those told to stop
  supervisor, \* the supervising task
  handle,     \* SupervisorTask
  process, cleanup_failed, \* commands whose end says that they were not seen to die
  written, pipe, capture, output, incomplete, \* pieces written, in the pipe, captured
  input,      \* ActivityInput, "writing" while a writer has its lock
  poll, session_open,
  shutting_down, joining, holding, \* whom a joiner still waits for, whose handle it took
  channel, emitted

callVars == <<issued, call, permit, admission>>
listVars == <<records, recent, published, terminal_event_sent>>
superVars == <<terminal, stop, supervisor, handle>>
outputVars == <<written, pipe, capture, output, incomplete>>
pollVars == <<input, poll, session_open>>
downVars == <<shutting_down, joining, holding>>
eventVars == <<channel, emitted>>
processVars == <<process, cleanup_failed>>
activityVars == <<callVars, listVars, superVars, processVars, outputVars, pollVars, downVars, eventVars>>

Alone == Cardinality(issued) = 1

ActivitiesInit ==
  /\ issued \in {{}, Commands} \cup {{c} : c \in Commands}
  /\ call = [c \in Commands |-> "idle"]
  /\ permit = {}
  /\ admission = [active |-> 0, active_children |-> 0, per_child |-> [a \in Children |-> 0]]
  /\ records = {} /\ recent = <<>> /\ published = {} /\ terminal_event_sent = {}
  /\ terminal = {} /\ stop = {}
  /\ supervisor = [c \in Commands |-> "none"]
  /\ handle = [c \in Commands |-> "Pending"]
  /\ process = [c \in Commands |-> "none"] /\ cleanup_failed = {}
  /\ written = [c \in Commands |-> 0] /\ pipe = written /\ output = written
  /\ capture = [c \in Commands |-> "none"] /\ incomplete = {}
  /\ input = [c \in Commands |-> "Closed"]
  /\ poll = [c \in Commands |-> "idle"]
  /\ session_open = Commands
  /\ shutting_down = "no"
  /\ joining = [j \in Joiners |-> {}]
  /\ holding = [j \in Joiners |-> nobody]
  /\ channel = <<>> /\ emitted = [c \in Commands |-> <<>>]

Terminal(c) == c \in terminal
Child(c) == OwnerOf[c] \in Children

----------------------------------------------------------------------------
(* The call                                                                *)

HasSlot(c) ==
  /\ admission.active < MAX_ACTIVE_TASKS
  /\ Child(c) => /\ admission.active_children < MAX_ACTIVE_CHILD_TASKS
                 /\ admission.per_child[OwnerOf[c]] < MAX_ACTIVE_TASKS_PER_CHILD

Counted(c, change) ==
  [active |-> admission.active + change,
   active_children |-> IF Child(c) THEN admission.active_children + change ELSE admission.active_children,
   per_child |-> [a \in Children |-> IF a = OwnerOf[c] THEN admission.per_child[a] + change
                                     ELSE admission.per_child[a]]]

ReserveSlot(c) ==
  /\ call[c] = "idle" /\ c \in issued
  /\ issued' = issued
  /\ IF HasSlot(c)
     THEN /\ call' = [call EXCEPT ![c] = "admitted"]
          /\ permit' = permit \cup {c}
          /\ admission' = Counted(c, 1)
     ELSE /\ call' = [call EXCEPT ![c] = "over"]
          /\ UNCHANGED <<permit, admission>>
  /\ UNCHANGED <<listVars, superVars, processVars, outputVars, pollVars, downVars, eventVars>>

FreedTotalOnly(c) == permit' = permit \ {c} /\ admission' = [admission EXCEPT !.active = @ - 1]

\* Dropping the permit frees the slot.
Freed(c) == permit' = permit \ {c} /\ admission' = Counted(c, -1)

RegisterUnchecked(c) ==
  /\ call[c] = "admitted"
  /\ IF TRUE
     THEN /\ call' = [call EXCEPT ![c] = "registered"]
          /\ records' = records \cup {c}
          /\ UNCHANGED <<permit, admission>>
     ELSE /\ call' = [call EXCEPT ![c] = "over"]
          /\ Freed(c)
          /\ UNCHANGED records
  /\ UNCHANGED <<issued, recent, published, terminal_event_sent, superVars, processVars, outputVars, pollVars,
                 downVars, eventVars>>

RegisterRecord(c) ==
  /\ call[c] = "admitted"
  /\ IF shutting_down = "no"
     THEN /\ call' = [call EXCEPT ![c] = "registered"]
          /\ records' = records \cup {c}
          /\ UNCHANGED <<permit, admission>>
     ELSE /\ call' = [call EXCEPT ![c] = "over"]
          /\ Freed(c)
          /\ UNCHANGED records
  /\ UNCHANGED <<issued, recent, published, terminal_event_sent, superVars, processVars, outputVars, pollVars,
                 downVars, eventVars>>

\* A shell on a pseudo-terminal runs already when its reader or writer cannot be
\* had: it is dropped as it is.
SpawnFails(c) ==
  /\ call[c] = "registered"
  /\ \/ UNCHANGED process
     \/ issued \in Accidents /\ c \in Ttys /\ process' = [process EXCEPT ![c] = "running"]
  /\ call' = [call EXCEPT ![c] = "over"]
  /\ records' = records \ {c}
  /\ handle' = [handle EXCEPT ![c] = "Unavailable"]
  /\ Freed(c)
  /\ UNCHANGED <<issued, recent, published, terminal_event_sent, terminal, stop, supervisor, cleanup_failed,
                 outputVars, pollVars, downVars, eventVars>>

Spawn(c) ==
  /\ call[c] = "registered"
  /\ call' = [call EXCEPT ![c] = "spawned"]
  /\ process' = [process EXCEPT ![c] = "running"]
  /\ supervisor' = [supervisor EXCEPT ![c] = "watching"]
  /\ capture' = [capture EXCEPT ![c] = "reading"]
  /\ input' = [input EXCEPT ![c] = IF c \in Ttys THEN "Pty" ELSE "Closed"]
  /\ UNCHANGED <<issued, permit, admission, listVars, terminal, stop, handle, cleanup_failed, written, pipe, output,
                 incomplete, poll, session_open, downVars, eventVars>>

SetSupervisorLate(c) ==
  /\ call[c] = "spawned"
  /\ UNCHANGED handle
  /\ call' = [call EXCEPT ![c] = IF c \in Backgrounds THEN "promoting" ELSE "waiting"]
  /\ UNCHANGED <<issued, permit, admission, listVars, terminal, stop, supervisor, processVars, outputVars, pollVars,
                 downVars, eventVars>>

SetSupervisor(c) ==
  /\ call[c] = "spawned"
  /\ handle' = [handle EXCEPT ![c] = "Spawned"]
  /\ call' = [call EXCEPT ![c] = IF c \in Backgrounds THEN "promoting" ELSE "waiting"]
  /\ UNCHANGED <<issued, permit, admission, listVars, terminal, stop, supervisor, processVars, outputVars, pollVars,
                 downVars, eventVars>>

StopUnlessOver(c) == stop' = IF Terminal(c) THEN stop ELSE stop \cup {c}

\* A background command is published at once, a waiting one at its deadline.
\* While the manager shuts down neither is.
PublishRefused(c) ==
  /\ call[c] \in {"promoting", "waiting"} /\ shutting_down # "no"
  /\ StopUnlessOver(c)
  /\ call' = [call EXCEPT ![c] = IF @ = "promoting" THEN "over" ELSE "stopping"]
  /\ UNCHANGED <<issued, permit, admission, listVars, terminal, supervisor, handle, processVars, outputVars, pollVars,
                 downVars, eventVars>>

Publish(c) ==
  /\ call[c] \in {"promoting", "waiting"} /\ shutting_down = "no"
  /\ published' = published \cup {c}
  /\ records' = records \cup {c}
  /\ IF Terminal(c)
     THEN /\ terminal_event_sent' = terminal_event_sent \cup {c}
          /\ channel' = Append(channel, <<"Finished", c>>)
          /\ call' = [call EXCEPT ![c] = "retaining"]
     ELSE /\ channel' = Append(channel, <<"Changed", c>>)
          /\ call' = [call EXCEPT ![c] = "delivering"]
          /\ UNCHANGED terminal_event_sent
  /\ UNCHANGED <<issued, permit, admission, recent, superVars, processVars, outputVars, pollVars, downVars, emitted>>

\* retain_recent: the newest first and once (as every id is), the oldest forgotten.
RetainRecent(c) ==
  LET all == <<c>> \o RemoveFirst(recent, c) IN
  /\ recent' = SubSeq(all, 1, IF Len(all) < MAX_RECENT_TASKS THEN Len(all) ELSE MAX_RECENT_TASKS)
  /\ records' = records \ {all[i] : i \in (MAX_RECENT_TASKS + 1)..Len(all)}

RetainPublished(c) ==
  /\ call[c] = "retaining"
  /\ call' = [call EXCEPT ![c] = "delivering"]
  /\ RetainRecent(c)
  /\ UNCHANGED <<issued, permit, admission, published, terminal_event_sent, superVars, processVars, outputVars, pollVars,
                 downVars, eventVars>>

\* The call returns what there is: to a published command at once, to a waiting
\* or stopping one when it is over.
Return(c) ==
  /\ call[c] = "delivering" \/ (call[c] \in {"waiting", "stopping"} /\ Terminal(c))
  /\ call' = [call EXCEPT ![c] = "over"]
  /\ UNCHANGED <<issued, permit, admission, listVars, superVars, processVars, outputVars, pollVars, downVars, eventVars>>

\* A cancelled call stops the command and waits for it; an aborted one, its
\* future dropped, only stops it.
CancelCall(c) ==
  /\ call[c] = "waiting"
  /\ stop' = stop \cup {c}
  /\ call' = [call EXCEPT ![c] = "stopping"]
  /\ UNCHANGED <<issued, permit, admission, listVars, terminal, supervisor, handle, processVars, outputVars, pollVars,
                 downVars, eventVars>>

AbortCall(c) ==
  /\ call[c] \in {"waiting", "stopping"}
  /\ StopUnlessOver(c)
  /\ call' = [call EXCEPT ![c] = "over"]
  /\ UNCHANGED <<issued, permit, admission, listVars, terminal, supervisor, handle, processVars, outputVars, pollVars,
                 downVars, eventVars>>

----------------------------------------------------------------------------
(* The process, its output and its supervisor                              *)

\* Whose output has come to its end has closed it.
ProgramWrites(c) ==
  /\ process[c] = "running" /\ (Terminal(c) => c \in incomplete)
  /\ Alone /\ written[c] < MaxOutput
  /\ written' = [written EXCEPT ![c] = @ + 1]
  /\ pipe' = [pipe EXCEPT ![c] = @ + 1]
  /\ UNCHANGED <<callVars, listVars, superVars, processVars, capture, output, incomplete, pollVars, downVars,
                 eventVars>>

ProgramExits(c) ==
  /\ process[c] = "running"
  /\ process' = [process EXCEPT ![c] = "exited"]
  /\ UNCHANGED <<callVars, listVars, superVars, cleanup_failed, outputVars, pollVars, downVars, eventVars>>

\* capture_stream: a read, then the append under the state lock.
CaptureReads(c) ==
  /\ capture[c] = "reading" /\ pipe[c] > 0
  /\ pipe' = [pipe EXCEPT ![c] = @ - 1]
  /\ capture' = [capture EXCEPT ![c] = "appending"]
  /\ UNCHANGED <<callVars, listVars, superVars, processVars, written, output, incomplete, pollVars, downVars,
                 eventVars>>

CaptureAppends(c) ==
  /\ capture[c] = "appending"
  /\ output' = [output EXCEPT ![c] = @ + 1]
  /\ capture' = [capture EXCEPT ![c] = IF c \in incomplete THEN "over" ELSE "reading"]
  /\ UNCHANGED <<callVars, listVars, superVars, processVars, written, pipe, incomplete, pollVars, downVars,
                 eventVars>>

\* wait_for_trigger: the exit, a stop or the command's timeout.  A
\* pseudo-terminal's input is closed before the process is killed.
Triggered(c) ==
  /\ supervisor[c] = "watching"
  /\ \/ /\ process[c] = "exited"
        /\ supervisor' = [supervisor EXCEPT ![c] = "cleaning"]
     \/ /\ c \in stop \/ (Alone /\ c \in Timed)
        /\ supervisor' = [supervisor EXCEPT ![c] = IF c \in Ttys THEN "closing" ELSE "killing"]
  /\ UNCHANGED <<callVars, listVars, terminal, stop, handle, processVars, outputVars, pollVars, downVars, eventVars>>

CloseInput(c) ==
  /\ supervisor[c] \in {"closing", "cleaned"} /\ input[c] # "writing"
  /\ input' = [input EXCEPT ![c] = "Closed"]
  /\ supervisor' = [supervisor EXCEPT ![c] = IF @ = "closing" THEN "killing" ELSE "draining"]
  /\ UNCHANGED <<callVars, listVars, terminal, stop, handle, processVars, outputVars, poll, session_open,
                 downVars, eventVars>>

\* The wait for the leader fails: a pipe command ends there, unkilled; the rest of a
\* terminal's group is killed as after an exit.
WaitFails(c) ==
  /\ issued \in Accidents /\ supervisor[c] = "watching"
  /\ cleanup_failed' = cleanup_failed \cup {c}
  /\ supervisor' = [supervisor EXCEPT ![c] = IF c \in Ttys THEN "cleaning" ELSE "draining"]
  /\ UNCHANGED <<callVars, listVars, terminal, stop, handle, process, outputVars, pollVars, downVars, eventVars>>

AfterKill(c) == IF supervisor[c] = "cleaning" /\ c \in Ttys THEN "cleaned" ELSE "draining"

\* The group is killed and reaped.  If the kill fails, or nothing is reaped within
\* PROCESS_REAP_TIMEOUT, the supervisor goes on all the same, and the end says so
\* but for a terminal whose leader has exited.
KillAndReap(c) ==
  /\ supervisor[c] \in {"killing", "cleaning"}
  /\ supervisor' = [supervisor EXCEPT ![c] = AfterKill(c)]
  /\ \/ /\ process' = [process EXCEPT ![c] = "gone"]
        /\ UNCHANGED cleanup_failed
     \/ /\ issued \in Accidents
        /\ cleanup_failed' = IF AfterKill(c) = "cleaned" THEN cleanup_failed ELSE cleanup_failed \cup {c}
        /\ UNCHANGED process
  /\ UNCHANGED <<callVars, listVars, terminal, stop, handle, outputVars, pollVars, downVars, eventVars>>

DrainedEarly(c) == capture[c] = "reading"

\* drain_streams: to the end of the output, unless someone the process left behind
\* holds it open beyond the timeout; the aborted capture is joined.
Drained(c) == pipe[c] = 0 /\ capture[c] = "reading"

DrainTimesOut(c) ==
  /\ supervisor[c] = "draining" /\ c \notin incomplete
  /\ incomplete' = incomplete \cup {c}
  /\ capture' = [capture EXCEPT ![c] = IF @ = "reading" THEN "over" ELSE @]
  /\ UNCHANGED <<callVars, listVars, superVars, processVars, written, pipe, output, pollVars, downVars, eventVars>>

CaptureJoined(c) == capture[c] = "over" \/ (Drained(c) /\ c \notin incomplete)

\* finish_record, under the locks of the records and of the state.
FinishRecord(c) ==
  /\ supervisor[c] = "draining" /\ CaptureJoined(c)
  /\ capture' = [capture EXCEPT ![c] = IF @ = "reading" THEN "over" ELSE @]
  /\ terminal' = terminal \cup {c}
  /\ Freed(c)
  /\ IF c \in published
     THEN /\ terminal_event_sent' = terminal_event_sent \cup {c}
          /\ channel' = Append(channel, <<"Finished", c>>)
          /\ supervisor' = [supervisor EXCEPT ![c] = "retaining"]
          /\ UNCHANGED records
     ELSE /\ records' = records \ {c}
          /\ supervisor' = [supervisor EXCEPT ![c] = "over"]
          /\ UNCHANGED <<terminal_event_sent, channel>>
  /\ UNCHANGED <<issued, call, recent, published, stop, handle, processVars, written, pipe, output, incomplete,
                 pollVars, downVars, emitted>>

RetainFinished(c) ==
  /\ supervisor[c] = "retaining"
  /\ supervisor' = [supervisor EXCEPT ![c] = "over"]
  /\ RetainRecent(c)
  /\ UNCHANGED <<callVars, published, terminal_event_sent, terminal, stop, handle, processVars, outputVars, pollVars,
                 downVars, eventVars>>

----------------------------------------------------------------------------
(* Polls                                                                   *)

Known(c) == c \in records /\ c \in published

\* interact_record: with input it writes first, holding the input's lock.
PollStarts(c) ==
  /\ Alone /\ poll[c] = "idle" /\ call[c] = "over" /\ Known(c) /\ c \in session_open
  /\ \/ poll' = [poll EXCEPT ![c] = "waiting"] /\ UNCHANGED input
     \/ /\ input[c] = "Pty"
        /\ input' = [input EXCEPT ![c] = "writing"]
        /\ poll' = [poll EXCEPT ![c] = "writing"]
  /\ UNCHANGED <<callVars, listVars, superVars, processVars, outputVars, session_open, downVars, eventVars>>

\* The write ends when the program reads it, in an error when the program is gone,
\* and not before: it has no deadline.
InputWritten(c) ==
  /\ poll[c] = "writing"
  /\ input' = [input EXCEPT ![c] = "Pty"]
  /\ \/ process[c] # "gone" /\ poll' = [poll EXCEPT ![c] = "waiting"]
     \/ process[c] # "running" /\ poll' = [poll EXCEPT ![c] = "idle"]
  /\ UNCHANGED <<callVars, listVars, superVars, processVars, outputVars, session_open, downVars, eventVars>>

PollReturns(c) ==
  /\ poll[c] = "waiting"
  /\ poll' = [poll EXCEPT ![c] = "idle"]
  /\ session_open' = IF Terminal(c) THEN session_open \ {c} ELSE session_open
  /\ UNCHANGED <<callVars, listVars, superVars, processVars, outputVars, input, downVars, eventVars>>

PollCancelled(c) ==
  /\ poll[c] = "waiting"
  /\ poll' = [poll EXCEPT ![c] = "idle"]
  /\ UNCHANGED <<callVars, listVars, superVars, processVars, outputVars, input, session_open, downVars,
                 eventVars>>

----------------------------------------------------------------------------
(* Stop, the owner's end and shutdown                                      *)

Stop(c) ==
  /\ Known(c) /\ ~Terminal(c)
  /\ stop' = stop \cup {c}
  /\ UNCHANGED <<callVars, listVars, terminal, supervisor, handle, processVars, outputVars, pollVars, downVars, eventVars>>

StopAndJoin(joiner, set) ==
  /\ joining' = [joining EXCEPT ![joiner] = set]
  /\ stop' = stop \cup {c \in set : ~Terminal(c)}

\* stop_owner: the child's own task has ended.
StopOwner(a) ==
  /\ \A c \in Commands : OwnerOf[c] = a => call[c] \in {"idle", "over"} /\ poll[c] = "idle"
  /\ joining[a] = {} /\ {c \in records : OwnerOf[c] = a /\ ~Terminal(c)} # {}
  /\ StopAndJoin(a, {c \in records : OwnerOf[c] = a})
  /\ UNCHANGED <<callVars, listVars, terminal, supervisor, handle, processVars, outputVars, pollVars, shutting_down,
                 holding, eventVars>>

\* shutdown: the flag and the list in one lock.
Shutdown ==
  /\ shutting_down = "no"
  /\ shutting_down' = "joining"
  /\ StopAndJoin("shutdown", records)
  /\ UNCHANGED <<callVars, listVars, terminal, supervisor, handle, processVars, outputVars, pollVars, holding, eventVars>>

\* join_supervisor: the first joiner takes the handle and waits, others do not wait.
JoinSupervisor(j, c) ==
  /\ c \in joining[j] /\ holding[j] = nobody /\ handle[c] # "Pending"
  /\ handle' = [handle EXCEPT ![c] = "Unavailable"]
  /\ IF handle[c] = "Spawned"
     THEN holding' = [holding EXCEPT ![j] = c] /\ UNCHANGED joining
     ELSE joining' = [joining EXCEPT ![j] = @ \ {c}] /\ UNCHANGED holding
  /\ UNCHANGED <<callVars, listVars, terminal, stop, supervisor, processVars, outputVars, pollVars, shutting_down,
                 eventVars>>

Joined(j) ==
  /\ holding[j] # nobody
  /\ supervisor[holding[j]] = "over"
  /\ joining' = [joining EXCEPT ![j] = @ \ {holding[j]}]
  /\ holding' = [holding EXCEPT ![j] = nobody]
  /\ UNCHANGED <<callVars, listVars, superVars, processVars, outputVars, pollVars, shutting_down, eventVars>>

\* flush_events: through the router, behind every event sent before.
FlushEvents ==
  /\ shutting_down = "joining" /\ joining["shutdown"] = {}
  /\ shutting_down' = "flushing"
  /\ channel' = Append(channel, <<"Flush", nobody>>)
  /\ UNCHANGED <<callVars, listVars, superVars, processVars, outputVars, pollVars, joining, holding, emitted>>

RouteEvent ==
  /\ channel # <<>>
  /\ channel' = Tail(channel)
  /\ IF Head(channel)[1] = "Flush" THEN shutting_down' = "down" /\ UNCHANGED emitted
     ELSE emitted' = [emitted EXCEPT ![Head(channel)[2]] = Append(@, Head(channel)[1])] /\ UNCHANGED shutting_down
  /\ UNCHANGED <<callVars, listVars, superVars, processVars, outputVars, pollVars, joining, holding>>

----------------------------------------------------------------------------
Calling(c) ==
  \/ RegisterRecord(c) \/ SpawnFails(c) \/ Spawn(c) \/ SetSupervisor(c)
  \/ PublishRefused(c) \/ Publish(c) \/ RetainPublished(c) \/ Return(c)
Capturing(c) == CaptureReads(c) \/ CaptureAppends(c)
Supervising(c) ==
  Triggered(c) \/ CloseInput(c) \/ KillAndReap(c) \/ DrainTimesOut(c) \/ FinishRecord(c) \/ RetainFinished(c)
Joining(j) == Joined(j) \/ \E c \in Commands : JoinSupervisor(j, c)

ActivitiesNext ==
  \/ \E c \in Commands :
       \/ ReserveSlot(c) \/ Calling(c) \/ CancelCall(c) \/ AbortCall(c)
       \/ ProgramWrites(c) \/ ProgramExits(c) \/ Capturing(c) \/ Supervising(c) \/ WaitFails(c)
       \/ PollStarts(c) \/ InputWritten(c) \/ PollReturns(c) \/ PollCancelled(c) \/ Stop(c)
  \/ \E a \in Children : StopOwner(a)
  \/ \E j \in Joiners : Joining(j)
  \/ Shutdown \/ FlushEvents \/ RouteEvent

ActivitiesSpec == ActivitiesInit /\ [][ActivitiesNext]_activityVars

\* The runtime runs its tasks, deadlines pass, and the input's lock is not kept from
\* one who waits while others have it in turn.  No program must exit or read its
\* input, and no command need have a timeout.
ActivitiesFairness ==
  /\ \A c \in Commands :
       /\ WF_activityVars(Calling(c)) /\ WF_activityVars(Capturing(c))
       /\ WF_activityVars(process[c] = "gone" /\ InputWritten(c))
       /\ WF_activityVars((supervisor[c] # "watching" \/ c \in stop \/ process[c] # "running") /\ Supervising(c))
       /\ SF_activityVars(CloseInput(c))
  /\ \A j \in Joiners : WF_activityVars(Joining(j))
  /\ WF_activityVars(FlushEvents) /\ WF_activityVars(RouteEvent)

----------------------------------------------------------------------------
(* Properties                                                              *)

ActTypeOK ==
  /\ call \in [Commands -> {"idle", "admitted", "registered", "spawned", "promoting", "waiting", "stopping",
                            "retaining", "delivering", "over"}]
  /\ supervisor \in [Commands -> {"none", "watching", "closing", "killing", "cleaning", "cleaned", "draining",
                                  "retaining", "over"}]
  /\ handle \in [Commands -> {"Pending", "Spawned", "Unavailable"}]
  /\ process \in [Commands -> {"none", "running", "exited", "gone"}]
  /\ cleanup_failed \subseteq Commands
  /\ permit \subseteq Commands /\ records \subseteq Commands /\ terminal \subseteq Commands /\ stop \subseteq Commands
  /\ \A j \in Joiners : joining[j] \subseteq Commands /\ holding[j] \in joining[j] \cup {nobody}

Live(c) == process[c] \in {"running", "exited"}
Watched(c) == supervisor[c] \in {"watching", "closing", "killing", "cleaning"}

\* What the code gives up although it may live: what could not be killed or reaped,
\* as its end says; what a shell left behind on its terminal when it exited; and a shell
\* that was started but could not be connected to its terminal.
GivenUp(c) ==
  /\ ~Watched(c)
  /\ c \in cleanup_failed \/ (c \in Ttys /\ (process[c] = "exited" \/ supervisor[c] = "none"))
Permits(owners) == Cardinality({c \in permit : OwnerOf[c] \in owners})

SlotsMatchPermits ==
  /\ admission.active = Cardinality(permit) /\ admission.active <= MAX_ACTIVE_TASKS
  /\ admission.active_children = Permits(Children) /\ admission.active_children <= MAX_ACTIVE_CHILD_TASKS
  /\ \A a \in Children : /\ admission.per_child[a] = Permits({a})
                         /\ admission.per_child[a] <= MAX_ACTIVE_TASKS_PER_CHILD

LiveIsListed == \A c \in Commands : Live(c) => (c \in permit /\ c \in records) \/ GivenUp(c)

AbandonedIsStopped ==
  \A c \in Commands :
    Live(c) /\ c \notin published /\ call[c] = "over" => c \in stop \/ supervisor[c] # "watching"

RecentBounded ==
  /\ Len(recent) <= MAX_RECENT_TASKS
  /\ \A i, k \in DOMAIN recent : recent[i] \in records /\ (recent[i] = recent[k] => i = k)
  /\ \A c \in records :
       Terminal(c) /\ supervisor[c] = "over" /\ call[c] = "over" => \E i \in DOMAIN recent : recent[i] = c

Reports == {<<>>, <<"Changed">>, <<"Changed", "Finished">>, <<"Finished">>}
Ended(c) == \E i \in DOMAIN emitted[c] : emitted[c][i] = "Finished"
Ending(c) == \E i \in DOMAIN channel : channel[i] = <<"Finished", c>>

\* The events on their way follow those emitted, a change before an end.
FollowsEmitted(c) ==
  \A i \in DOMAIN channel : channel[i][2] = c =>
    /\ IF channel[i][1] = "Changed" THEN emitted[c] = <<>> ELSE ~Ended(c)
    /\ \A k \in 1..(i - 1) : channel[k][2] = c => channel[k][1] = "Changed" /\ channel[i][1] = "Finished"

EventsInOrder ==
  \A c \in Commands :
    /\ emitted[c] \in Reports
    /\ (c \in published /\ Terminal(c)) <=> (Ended(c) \/ Ending(c))
    /\ FollowsEmitted(c)

OutputIsWhole ==
  \A c \in Commands : Terminal(c) => /\ capture[c] = "over"
                                    /\ (c \notin incomplete => output[c] = written[c])
NothingAfterTheEnd == [][\A c \in Commands : Terminal(c) => output'[c] = output[c]]_activityVars

ShutdownReaps ==
  shutting_down = "down" =>
    \A c \in Commands :
      /\ Live(c) => GivenUp(c) \/ \E a \in Children : holding[a] = c
      /\ c \in published /\ ~Child(c) => Ended(c)

\* A stop closes the input before it kills (pty.rs:147), an end once more, and the
\* input is the writer's for as long as what lives does not read.
WaitsForReader(c) == supervisor[c] \in {"closing", "cleaned"} /\ input[c] = "writing" /\ Live(c)

ShutdownEnds ==
  <>[](shutting_down \in {"joining", "flushing"} => \E c \in Commands : WaitsForReader(c))

\* No process is forgotten.  The counters are the permits in circulation and
\* within their limits (docs/architecture.md:88); a process holds one and is in the
\* list a stop or shutdown reads for as long as it lives, whoever gave up its call,
\* was refused its promotion or was evicted meanwhile, unless it is one of the three
\* kinds the code gives up; one that nobody published and nobody waits for is
\* told to stop; and a terminal one stays listed only while it is one of the recent ones.
LiveIsAccounted ==
  ActTypeOK /\ SlotsMatchPermits /\ LiveIsListed /\ AbandonedIsStopped /\ RecentBounded

\* An end is final.  The output it came with lacks nothing the program wrote
\* unless it says so, and is not added to; of a published command the router
\* passes on at most one change, then at most one end, and the end of every
\* command that is over.
FinishedIsComplete == [](OutputIsWhole /\ EventsInOrder) /\ NothingAfterTheEnd

\* Shutdown ends: so what it stops does, and what its joins wait for, whether the
\* kill works or not.  The one thing that keeps it for ever is a program that does
\* not read what a poll writes to its terminal.  After it nothing lives but what the
\* end of its owner has taken over and what the code has given up, and the main
\* agent's commands have passed on their end.
ShutdownReapsAll == []ShutdownReaps /\ ShutdownEnds
----------------------------------------------------------------------------
(***************************************************************************)
(* The inductive invariant behind them.                                    *)
(***************************************************************************)
Events == ({"Changed", "Finished"} \X Commands) \cup {<<"Flush", nobody>>}

ActTypes ==
  /\ ActTypeOK
  /\ admission \in [active : Int, active_children : Int, per_child : [Children -> Int]]
  /\ issued \subseteq Commands /\ recent \in Seq(Commands)
  /\ published \subseteq Commands /\ incomplete \subseteq Commands
  /\ written \in [Commands -> Nat] /\ pipe \in [Commands -> Nat] /\ output \in [Commands -> Nat]
  /\ capture \in [Commands -> {"none", "reading", "appending", "over"}]
  /\ shutting_down \in {"no", "joining", "flushing", "down"}
  /\ joining \in [Joiners -> SUBSET Commands] /\ holding \in [Joiners -> Commands \cup {nobody}]
  /\ channel \in Seq(Events) /\ emitted \in [Commands -> Seq({"Changed", "Finished"})]

\* From the spawn to the final status.
Supervised(c) == supervisor[c] \in {"watching", "closing", "killing", "cleaning", "cleaned", "draining"}

\* The call, the supervisor, the process and the capture of a command go together.
StageInv ==
  \A c \in Commands :
    /\ call[c] \in {"idle", "admitted", "registered"} => supervisor[c] = "none"
    /\ call[c] \in {"spawned", "promoting", "waiting", "stopping", "retaining", "delivering"}
         => supervisor[c] # "none"
    /\ process[c] = "none" => supervisor[c] = "none"
    /\ supervisor[c] = "none" /\ process[c] # "none" => c \in Ttys /\ call[c] = "over" /\ Live(c)
    /\ Watched(c) => Live(c)
    /\ supervisor[c] = "cleaning" => process[c] = "exited" \/ c \in cleanup_failed
    /\ Live(c) => Watched(c) \/ GivenUp(c)
    /\ Terminal(c) <=> supervisor[c] \in {"retaining", "over"}
    /\ c \in published => call[c] \in {"retaining", "delivering", "over"} /\ supervisor[c] # "none"
    /\ call[c] \in {"retaining", "delivering"} => c \in published
    /\ supervisor[c] = "retaining" => c \in published /\ call[c] # "retaining"
    /\ call[c] = "retaining" => supervisor[c] = "over"

\* A permit lives from admission to the end or the failure of the command.
PermitInv ==
  /\ SlotsMatchPermits
  /\ \A c \in Commands : c \in permit <=> call[c] \in {"admitted", "registered"} \/ Supervised(c)

\* Only what is over is forgotten; what is over and listed is recent.
ListInv ==
  /\ Len(recent) <= MAX_RECENT_TASKS
  /\ \A i, k \in DOMAIN recent : recent[i] = recent[k] => i = k
  /\ \A i \in DOMAIN recent :
       /\ recent[i] \in records \cap published
       /\ supervisor[recent[i]] = "over" /\ call[recent[i]] # "retaining"
  /\ \A c \in Commands :
       /\ call[c] \in {"registered", "retaining"} \/ Supervised(c) \/ supervisor[c] = "retaining" => c \in records
       /\ c \in records /\ supervisor[c] = "over" /\ call[c] # "retaining" => \E i \in DOMAIN recent : recent[i] = c
       /\ call[c] = "over" /\ Supervised(c) /\ c \notin published => c \in stop

\* What was written is in the pipe, in the hands of the capture, or captured.
OutputInv ==
  \A c \in Commands :
    /\ written[c] = pipe[c] + output[c] + (IF capture[c] = "appending" THEN 1 ELSE 0)
    /\ c \in incomplete => supervisor[c] \in {"draining", "retaining", "over"}
    /\ supervisor[c] = "none" => capture[c] = "none"
    /\ capture[c] = "over" => c \in incomplete \/ Terminal(c)
    /\ Terminal(c) => capture[c] = "over" /\ (c \notin incomplete => pipe[c] = 0)

EventInv ==
  /\ EventsInOrder
  /\ \A c \in Commands : c \notin published =>
       emitted[c] = <<>> /\ \A i \in DOMAIN channel : channel[i][2] # c

\* Whom shutdown has yet to wait for.  A supervisor's handle has one taker.
JoinInv ==
  /\ \A j \in Joiners, c \in Commands :
       /\ holding[j] = c => handle[c] = "Unavailable"
       /\ c \in joining[j] /\ j \in Children => OwnerOf[c] = j
  /\ \A c \in Commands :
       /\ call[c] \in {"idle", "admitted", "registered", "spawned"} => handle[c] = "Pending"
       /\ handle[c] = "Unavailable" /\ Supervised(c) => \E j \in Joiners : holding[j] = c
       /\ shutting_down # "no" /\ (call[c] = "registered" \/ Supervised(c)) =>
            c \in joining["shutdown"] \/ \E a \in Children : holding[a] = c
  /\ shutting_down # "joining" => joining["shutdown"] = {}

\* The flush is behind the end of every published command of the main agent.
FlushInv ==
  /\ \A i \in DOMAIN channel : channel[i] = <<"Flush", nobody>> =>
       /\ shutting_down = "flushing"
       /\ \A k \in DOMAIN channel : channel[k] = channel[i] => k = i
       /\ \A c \in published : ~Child(c) =>
            Ended(c) \/ \E k \in 1..(i - 1) : channel[k] = <<"Finished", c>>
  /\ shutting_down = "down" => \A c \in published : ~Child(c) => Ended(c)

ActivityInv ==
  ActTypes /\ StageInv /\ PermitInv /\ ListInv /\ OutputInv /\ EventInv /\ JoinInv /\ FlushInv
================================================================================
