------------------------------ MODULE ProviderHost ------------------------------
(***************************************************************************)
(* The host of one provider's subprocess: providers/host.rs, host/process.rs*)
(* and host/router.rs, with the collector of a chat in core/turn/stream.rs *)
(* and the protocol loop of the provider SDK (serve.ts) at the other end.  *)
(*                                                                         *)
(* A call is one request, chat or cancellation of a chat, and its own id.  *)
(* It is at one await or one critical section at a time.  Processes are    *)
(* numbered in the order they are started; only the process in the map     *)
(* (current) gets new requests.  Pipes are modelled at their reading ends: *)
(* the provider has a message when it is written, unless the provider      *)
(* hangs with its stdin full, and it may write up to the moment the reader *)
(* task reads the end of its stdout.                                       *)
(***************************************************************************)
EXTENDS Naturals, Sequences, FiniteSets

CONSTANTS
  Calls,
  Kinds,         \* what each call may be: request, chat or cancel
  MaxProcesses,  \* bound: processes one behaviour starts
  MaxFaults,     \* bound: failed starts, deaths, hangs and lines that are not protocol
  None

ASSUME HostAssumption ==
  /\ MaxProcesses \in Nat \ {0} /\ MaxFaults \in Nat
  /\ None \notin Calls \cup Nat \cup {"result", "error"}
  /\ Kinds \in [Calls -> SUBSET {"request", "chat", "cancel"}]

Processes == 1..MaxProcesses

VARIABLES
  is_shutdown, current,  \* LifecycleState: the flag and the process in the map
  failed,                \* TransportState.failure is set, per process
  pending, streams,      \* TransportState: calls with a response and a stream route
  io,                    \* holder of the lock on a process' stdin
  child,                 \* the operating system's process
  reader,                \* what the reader task is doing
  calls,
  stopping,              \* where ProviderHost.shutdown is, and the process it took
  hung, accepted, told,  \* the provider: it does not read, chats and requests it
                         \* was sent, chats it was sent a chat.cancel for
  faults                 \* how many of MaxFaults have happened

lifeVars == <<is_shutdown, current, stopping>>
routeVars == <<failed, pending, streams>>
providerVars == <<hung, accepted, told, faults>>
hostVars == <<lifeVars, routeVars, io, child, reader, calls, providerVars>>

Responses == {"result", "error"}
Terminal == {"completed", "failed"}

Fresh == [kind |-> "new", at |-> "new", job |-> "send", id |-> None, proc |-> None, got |-> None,
          events |-> <<>>, response |-> FALSE, completed |-> FALSE, cancelled |-> FALSE,
          cancels |-> 0, idle |-> FALSE]

HostInit ==
  /\ is_shutdown = FALSE /\ current = None
  /\ failed = [p \in Processes |-> FALSE]
  /\ pending = [p \in Processes |-> {}] /\ streams = [p \in Processes |-> {}]
  /\ io = [p \in Processes |-> None]
  /\ child = [p \in Processes |-> "none"]
  /\ reader = [p \in Processes |-> [at |-> "reading", id |-> None, what |-> None]]
  /\ calls = [c \in Calls |-> [Fresh EXCEPT !.id = c]]
  /\ stopping = [at |-> "up", proc |-> None]
  /\ hung = [p \in Processes |-> FALSE]
  /\ accepted = [p \in Processes |-> {}] /\ told = [p \in Processes |-> {}]
  /\ faults = 0

At(c, place) == calls[c].at = place
Go(c, place) == calls' = [calls EXCEPT ![c].at = place]
Update(c, s) == calls' = [calls EXCEPT ![c] = s]
Proc(c) == calls[c].proc
Alive(p) == child[p] = "running"
Usable(p) == p # None /\ ~failed[p]

Killed(p) == child' = [child EXCEPT ![p] = "killed"]

\* A call returns; its receivers are dropped.
Returned(s) ==
  [Fresh EXCEPT !.kind = s.kind, !.at = "done", !.id = s.id, !.cancelled = s.cancelled,
                !.completed = s.completed /\ s.response]

GivesUp(s, times) == Returned(s)

\* A chat that did not complete has its request cancelled, twice if it saw its
\* cancellation flag; what becomes of a cancellation is ignored.
CancelsItself(s, times) ==
  [Fresh EXCEPT !.kind = s.kind, !.at = "pick", !.job = "cancel", !.id = s.id,
                !.cancelled = s.cancelled, !.cancels = times]
Ended(s) == IF s.cancels > 1 THEN CancelsItself(s, s.cancels - 1) ELSE Returned(s)

----------------------------------------------------------------------------
(* process_for                                                             *)

\* The collector of a chat has published its request id.
Collecting(s) == s.kind = "chat" /\ (s.at = "wait" \/ (s.at \in {"fail", "kill"} /\ s.idle))

Begin(c, kind) ==
  /\ At(c, "new")
  /\ \/ /\ kind # "cancel"
        /\ Update(c, [calls[c] EXCEPT !.kind = kind, !.at = "pick"])
     \/ \E t \in Calls : \* cancel_active_submission: once for a turn
          LET s == [calls[c] EXCEPT !.kind = kind, !.job = "cancel", !.id = t] IN
          /\ kind = "cancel" /\ calls[t].kind = "chat" /\ ~calls[t].cancelled /\ ~At(t, "done")
          /\ calls' = [calls EXCEPT ![t].cancelled = TRUE,
               ![c] = IF Collecting(calls[t]) THEN [s EXCEPT !.at = "pick"] ELSE Returned(s)]
  /\ UNCHANGED <<lifeVars, routeVars, io, child, reader, providerVars>>

Unstarted == {p \in Processes : child[p] = "none" /\ \A q \in 1..(p - 1) : child[q] # "none"}

\* Without a usable process one is started, which may fail.
PickProcess(c) ==
  LET s == calls[c] IN
  /\ At(c, "pick")
  /\ \/ ~is_shutdown /\ Usable(current)
        /\ Update(c, [s EXCEPT !.at = "enter", !.proc = current]) /\ UNCHANGED <<child, faults>>
     \/ /\ is_shutdown \/ (~Usable(current) /\ Unstarted = {})
        /\ Update(c, Ended(s)) /\ UNCHANGED <<child, faults>>
     \/ /\ ~is_shutdown /\ ~Usable(current)
        /\ \/ faults < MaxFaults /\ faults' = faults + 1 /\ Update(c, Ended(s)) /\ UNCHANGED child
           \/ \E p \in Unstarted :
                /\ child' = [child EXCEPT ![p] = "running"]
                /\ Update(c, [s EXCEPT !.at = "publish", !.proc = p]) /\ UNCHANGED faults
  /\ UNCHANGED <<lifeVars, routeVars, io, reader, hung, accepted, told>>

\* The loser of a start race shuts its process down: nobody else knows it.
Publish(c) ==
  LET p == Proc(c) IN
  /\ At(c, "publish")
  /\ IF is_shutdown \/ Usable(current)
     THEN /\ failed' = [failed EXCEPT ![p] = TRUE]
          /\ Killed(p)
          /\ Update(c, IF is_shutdown THEN Ended(calls[c])
                       ELSE [calls[c] EXCEPT !.at = "enter", !.proc = current])
          /\ UNCHANGED current
     ELSE current' = p /\ Go(c, "enter") /\ UNCHANGED <<failed, child>>
  /\ UNCHANGED <<is_shutdown, stopping, pending, streams, io, reader, providerVars>>

----------------------------------------------------------------------------
(* send_request, send_chat, cancel and the ordered write to stdin            *)

RegisterUnchecked(c) ==
  LET p == Proc(c) IN
  /\ At(c, "enter") /\ calls[c].job = "send"
  /\ pending' = [pending EXCEPT ![p] = @ \cup {c}]
  /\ streams' = IF calls[c].kind = "chat" THEN [streams EXCEPT ![p] = @ \cup {c}] ELSE streams
  /\ Go(c, "write")
  /\ UNCHANGED <<lifeVars, failed, io, child, reader, providerVars>>

Register(c) ==
  LET p == Proc(c) IN
  /\ At(c, "enter") /\ calls[c].job = "send"
  /\ IF failed[p] THEN Update(c, Returned(calls[c])) /\ UNCHANGED <<pending, streams>>
     ELSE /\ pending' = [pending EXCEPT ![p] = @ \cup {c}]
          /\ streams' = IF calls[c].kind = "chat" THEN [streams EXCEPT ![p] = @ \cup {c}] ELSE streams
          /\ Go(c, "write")
  /\ UNCHANGED <<lifeVars, failed, io, child, reader, providerVars>>

\* What is sent along the routes when a process fails or a chat is cancelled;
\* a call that has returned has dropped its receivers.
Listening(s) == s.job = "send" /\ s.at # "done"
Delivered(rs, ss) ==
  [c \in Calls |-> IF ~Listening(calls[c]) THEN calls[c]
                   ELSE [calls[c] EXCEPT !.got = IF c \in rs THEN "error" ELSE @,
                                         !.events = IF c \in ss THEN Append(@, "error") ELSE @]]

\* ProviderProcess::cancel: the routes go, then the provider is notified.
Unroute(c) ==
  LET p == Proc(c)
      t == calls[c].id
      after == Delivered(pending[p] \cap {t}, streams[p] \cap {t}) IN
  /\ At(c, "enter") /\ calls[c].job = "cancel"
  /\ pending' = [pending EXCEPT ![p] = @ \ {t}]
  /\ streams' = [streams EXCEPT ![p] = @ \ {t}]
  /\ calls' = [after EXCEPT ![c] = IF failed[p] THEN Ended(@) ELSE [@ EXCEPT !.at = "write"]]
  /\ UNCHANGED <<lifeVars, failed, io, child, reader, providerVars>>

Blocks(p) == Alive(p) /\ hung[p]

WriteKeepsLock(c) ==
  LET p == Proc(c)
      s == calls[c] IN
  /\ At(c, "write") /\ io[p] \in {None, c} /\ ~Blocks(p)
  /\ IF ~Alive(p) THEN Go(c, "fail") /\ io' = [io EXCEPT ![p] = c] /\ UNCHANGED <<accepted, told>>
     ELSE /\ io' = [io EXCEPT ![p] = None]
          /\ IF s.job = "send"
             THEN Go(c, "wait") /\ accepted' = [accepted EXCEPT ![p] = @ \cup {c}] /\ UNCHANGED told
             ELSE Update(c, Ended(s)) /\ told' = [told EXCEPT ![p] = @ \cup {s.id}] /\ UNCHANGED accepted
  /\ UNCHANGED <<lifeVars, routeVars, child, reader, hung, faults>>

\* write_message fails on a pipe that is closed or has no reader.
Write(c) ==
  LET p == Proc(c)
      s == calls[c] IN
  /\ At(c, "write") /\ io[p] \in {None, c} /\ ~Blocks(p)
  /\ IF ~Alive(p) THEN Go(c, "fail") /\ UNCHANGED <<accepted, told>>
     ELSE IF s.job = "send"
     THEN Go(c, "wait") /\ accepted' = [accepted EXCEPT ![p] = @ \cup {c}] /\ UNCHANGED told
     ELSE Update(c, Ended(s)) /\ told' = [told EXCEPT ![p] = @ \cup {s.id}] /\ UNCHANGED accepted
  /\ io' = [io EXCEPT ![p] = None]
  /\ UNCHANGED <<lifeVars, routeVars, child, reader, hung, faults>>

\* With the pipe full it waits and keeps the lock.
BlockOnWrite(c) ==
  /\ At(c, "write") /\ io[Proc(c)] = None /\ Blocks(Proc(c))
  /\ io' = [io EXCEPT ![Proc(c)] = c]
  /\ UNCHANGED <<lifeVars, routeVars, child, reader, calls, providerVars>>

----------------------------------------------------------------------------
(* Failing a process                                                       *)

\* fail_pending: the first failure is kept, and every route gets it.
FailPending(p) ==
  /\ failed' = [failed EXCEPT ![p] = TRUE]
  /\ pending' = [pending EXCEPT ![p] = {}]
  /\ streams' = [streams EXCEPT ![p] = {}]

\* begin_termination, under the lock of stdin.
Terminate(p) == io[p] = None /\ Killed(p)

AfterFailure(s) == IF s.idle THEN CancelsItself(s, 1) ELSE Ended(s)

FailProcess(c) ==
  LET p == Proc(c)
      after == Delivered(pending[p], streams[p]) IN
  /\ At(c, "fail")
  /\ IF failed[p] THEN Update(c, AfterFailure(calls[c])) /\ UNCHANGED routeVars
     ELSE FailPending(p) /\ calls' = [after EXCEPT ![c].at = "kill"]
  /\ UNCHANGED <<lifeVars, io, child, reader, providerVars>>

KillProcess(c) ==
  /\ At(c, "kill")
  /\ Terminate(Proc(c))
  /\ Update(c, AfterFailure(calls[c]))
  /\ UNCHANGED <<lifeVars, routeVars, io, reader, providerVars>>

----------------------------------------------------------------------------
(* Waiting: request_with_timeout and collect_stream                          *)

\* The call's own state is all that changes.
Becomes(c, s) == Update(c, s) /\ UNCHANGED <<lifeVars, routeVars, io, child, reader, providerVars>>

TakeAnswer(c) ==
  /\ At(c, "wait") /\ calls[c].kind = "request" /\ calls[c].got # None
  /\ Becomes(c, Returned(calls[c]))

\* A request's deadline fails the process it was sent to.
Deadline(c) ==
  /\ At(c, "wait") /\ calls[c].kind = "request" /\ calls[c].got = None
  /\ Becomes(c, [calls[c] EXCEPT !.at = "fail"])

\* A turn is over with both the response and the completed event.
Collected(s) == IF s.response /\ s.completed THEN Returned(s) ELSE s

TakeResponse(c) ==
  LET s == calls[c] IN
  /\ At(c, "wait") /\ s.kind = "chat" /\ ~s.cancelled /\ ~s.response /\ s.got # None
  /\ Becomes(c, IF s.got = "error" THEN CancelsItself(s, 1) ELSE Collected([s EXCEPT !.response = TRUE]))

TakeEvent(c) ==
  LET s == calls[c] IN
  /\ At(c, "wait") /\ s.kind = "chat" /\ ~s.cancelled /\ s.events # <<>>
  /\ Becomes(c, IF Head(s.events) \in {"failed", "error"} THEN CancelsItself(s, 1)
                ELSE Collected([s EXCEPT !.events = Tail(@),
                                         !.completed = @ \/ Head(s.events) = "completed"]))

SeeCancellation(c) ==
  /\ At(c, "wait") /\ calls[c].kind = "chat" /\ calls[c].cancelled
  /\ Becomes(c, CancelsItself(calls[c], 2))

\* Silence for stream_idle: fail_provider fails the process in the map by now.
Idle(c) ==
  LET s == calls[c] IN
  /\ At(c, "wait") /\ s.kind = "chat" /\ ~s.cancelled
  /\ s.events = <<>> /\ (s.got = None \/ s.response)
  /\ Becomes(c, IF current = None THEN CancelsItself(s, 1)
                ELSE [s EXCEPT !.at = "fail", !.proc = current, !.idle = TRUE])

----------------------------------------------------------------------------
(* The reader task, and the provider that writes what it reads               *)

Reading(p) == child[p] # "none" /\ reader[p].at = "reading"
Routing(p) == reader[p].at = "routing"

\* A frame for a call that has no route (any more) is dropped.
ReadResponse(p, c, what) ==
  /\ what \in Responses /\ Reading(p) /\ c \in accepted[p] \cap pending[p]
  /\ pending' = [pending EXCEPT ![p] = @ \ {c}]
  /\ calls' = IF Listening(calls[c]) THEN [calls EXCEPT ![c].got = what] ELSE calls
  /\ UNCHANGED <<lifeVars, failed, streams, io, child, reader, providerVars>>

\* Text passes along the route and changes nothing here.  A terminal event
\* removes the route under the lock, and is sent after it.
ReadEvent(p, c, what) ==
  /\ what \in Terminal /\ Reading(p) /\ c \in accepted[p] \cap streams[p]
  /\ streams' = [streams EXCEPT ![p] = @ \ {c}]
  /\ reader' = [reader EXCEPT ![p] = [at |-> "routing", id |-> c, what |-> what]]
  /\ UNCHANGED <<lifeVars, failed, pending, io, child, calls, providerVars>>

SendEvent(p) ==
  LET c == reader[p].id IN
  /\ Routing(p)
  /\ calls' = IF Listening(calls[c]) THEN [calls EXCEPT ![c].events = Append(@, reader[p].what)] ELSE calls
  /\ reader' = [reader EXCEPT ![p] = [at |-> "reading", id |-> None, what |-> None]]
  /\ UNCHANGED <<lifeVars, routeVars, io, child, providerVars>>

\* fail_and_reap, on the end of stdout or a line that is not protocol.
ReadFailure(p) ==
  /\ Reading(p)
  /\ \/ ~Alive(p) /\ UNCHANGED faults
     \/ faults < MaxFaults /\ faults' = faults + 1
  /\ IF failed[p] THEN reader' = [reader EXCEPT ![p].at = "ended"] /\ UNCHANGED <<routeVars, calls>>
     ELSE /\ FailPending(p)
          /\ calls' = Delivered(pending[p], streams[p])
          /\ reader' = [reader EXCEPT ![p].at = "failing"]
  /\ UNCHANGED <<lifeVars, io, child, hung, accepted, told>>

ReaderKills(p) ==
  /\ reader[p].at = "failing"
  /\ Terminate(p)
  /\ reader' = [reader EXCEPT ![p].at = "ended"]
  /\ UNCHANGED <<lifeVars, routeVars, io, calls, providerVars>>

\* The provider ends, or no longer reads its stdin.
Die(p) ==
  /\ Alive(p) /\ faults < MaxFaults
  /\ faults' = faults + 1
  /\ child' = [child EXCEPT ![p] = "exited"]
  /\ UNCHANGED <<lifeVars, routeVars, io, reader, calls, hung, accepted, told>>

Hang(p) ==
  /\ Alive(p) /\ ~hung[p] /\ faults < MaxFaults
  /\ faults' = faults + 1
  /\ hung' = [hung EXCEPT ![p] = TRUE]
  /\ UNCHANGED <<lifeVars, routeVars, io, child, reader, calls, accepted, told>>

Recover(p) ==
  /\ Alive(p) /\ hung[p]
  /\ hung' = [hung EXCEPT ![p] = FALSE]
  /\ UNCHANGED <<lifeVars, routeVars, io, child, reader, calls, accepted, told, faults>>

----------------------------------------------------------------------------
(* ProviderHost::shutdown                                                  *)

Stop(place) == stopping' = [stopping EXCEPT !.at = place]

Shutdown ==
  /\ stopping.at = "up"
  /\ is_shutdown' = TRUE /\ current' = None
  /\ stopping' = [at |-> IF current = None THEN "down" ELSE "notice", proc |-> current]
  /\ UNCHANGED <<routeVars, io, child, reader, calls, providerVars>>

\* misy.shutdown is written if the process has not failed, and may block.
Notify ==
  LET p == stopping.proc IN
  /\ stopping.at = "notice"
  /\ IF failed[p] /\ io[p] # "host" THEN Stop("fail") /\ UNCHANGED io
     ELSE /\ io[p] \in {None, "host"}
          /\ IF Blocks(p) THEN io' = [io EXCEPT ![p] = "host"] /\ UNCHANGED stopping
             ELSE io' = [io EXCEPT ![p] = None] /\ Stop("fail")
  /\ UNCHANGED <<is_shutdown, current, routeVars, child, reader, calls, providerVars>>

FailStopped ==
  LET p == stopping.proc IN
  /\ stopping.at = "fail"
  /\ FailPending(p) /\ calls' = Delivered(pending[p], streams[p])
  /\ Stop("kill")
  /\ UNCHANGED <<is_shutdown, current, io, child, reader, providerVars>>

\* The wait for the reaper is bounded.
KillStopped ==
  /\ stopping.at = "kill"
  /\ Terminate(stopping.proc) /\ Stop("down")
  /\ UNCHANGED <<is_shutdown, current, routeVars, io, reader, calls, providerVars>>

----------------------------------------------------------------------------

CallStep(c) ==
  \/ PickProcess(c) \/ Publish(c) \/ Register(c) \/ Unroute(c) \/ Write(c) \/ BlockOnWrite(c)
  \/ FailProcess(c) \/ KillProcess(c) \/ TakeAnswer(c) \/ Deadline(c)
  \/ TakeResponse(c) \/ TakeEvent(c) \/ SeeCancellation(c) \/ Idle(c)

ReaderStep(p) == SendEvent(p) \/ ReaderKills(p) \/ (~Alive(p) /\ ReadFailure(p))
StopStep == Notify \/ FailStopped \/ KillStopped

HostNext ==
  \/ \E c \in Calls : \E kind \in Kinds[c] : Begin(c, kind)
  \/ \E c \in Calls : CallStep(c)
  \/ Shutdown \/ StopStep
  \/ \E p \in Processes :
       \/ SendEvent(p) \/ ReaderKills(p) \/ ReadFailure(p) \/ Die(p) \/ Hang(p) \/ Recover(p)
       \/ \E c \in Calls, what \in Responses \cup Terminal : ReadResponse(p, c, what) \/ ReadEvent(p, c, what)

HostSpec == HostInit /\ [][HostNext]_hostVars

\* Tasks run.  A provider may hang for good without dying.
FairHostSpec ==
  /\ HostSpec
  /\ \A c \in Calls : WF_hostVars(CallStep(c))
  /\ \A p \in Processes : WF_hostVars(ReaderStep(p))
  /\ WF_hostVars(StopStep)

----------------------------------------------------------------------------
(* Properties                                                              *)

HostTypeOK ==
  /\ current \in Processes \cup {None}
  /\ child \in [Processes -> {"none", "running", "exited", "killed"}]
  /\ io \in [Processes -> Calls \cup {"host", None}]
  /\ \A p \in Processes : pending[p] \subseteq Calls /\ streams[p] \subseteq Calls

WaiterIsRouted ==
  \A c \in Calls : At(c, "wait") =>
    LET p == Proc(c) IN
    /\ calls[c].got # None \/ (c \in pending[p] /\ ~failed[p])
    /\ calls[c].kind = "chat" =>
         \/ calls[c].completed
         \/ \E i \in 1..Len(calls[c].events) : calls[c].events[i] \in Terminal \cup {"error"}
         \/ c \in streams[p] /\ ~failed[p]
         \/ Routing(p) /\ reader[p].id = c /\ reader[p].what \in Terminal

ProcessesAreOwned ==
  \A p \in Processes : child[p] \in {"running", "exited"} =>
    \/ p = current
    \/ \E c \in Calls : Proc(c) = p /\ calls[c].at \in {"publish", "kill"}
    \/ stopping.proc = p /\ stopping.at \in {"notice", "fail", "kill"}
    \/ reader[p].at = "failing"

\* A chat that did not complete goes on nowhere: its provider was told to
\* cancel it, or the process it ran in has failed.
AbandonedIsCancelled ==
  \A c \in Calls : At(c, "done") /\ calls[c].kind = "chat" /\ ~calls[c].completed =>
    \A p \in Processes : c \in accepted[p] => failed[p] \/ c \in told[p] \/ is_shutdown

NoStaleRoute ==
  \A p \in Processes : ~is_shutdown => \A c \in pending[p] \cup streams[p] : ~At(c, "done")

DownIsDown ==
  stopping.at = "down" => \A p \in Processes : Alive(p) =>
    failed[p] \/ \E c \in Calls : Proc(c) = p /\ At(c, "publish")

\* A message is being written into the full stdin of a live provider.
Jammed(p) == Blocks(p) /\ io[p] # None

\* Every wait on a provider is bounded (host.rs:26) but one: the calls of a
\* behaviour all return in the end, with an answer or without, and shutdown ends
\* with no process left, unless a provider hangs for good with its stdin full.  It
\* then holds for ever the calls that write to it and those, the shutdown and the
\* reader among them, that have come to kill it, and nobody else.
EveryCallEnds ==
  /\ \A c \in Calls :
       <>[](At(c, "new") \/ At(c, "done") \/ (calls[c].at \in {"write", "kill"} /\ Jammed(Proc(c))))
  /\ <>[](is_shutdown =>
            /\ stopping.at = "down" \/ (stopping.at \in {"notice", "kill"} /\ Jammed(stopping.proc))
            /\ \A p \in Processes : child[p] \in {"none", "killed"} \/ Jammed(p))

\* Routes and processes have owners.  A call that waits will be told: it has its
\* answer, or a route in a process that has not failed, so neither a failure nor
\* the race of a registration with one leaves a waiter to its deadline; a call
\* that has returned leaves no route behind.  No process is left running: it is
\* the one in the map, or somebody is on the way to publish it, to kill it or to
\* shut it down; and when shutdown has returned nobody gets one again.
NothingIsLeft ==
  HostTypeOK /\ WaiterIsRouted /\ NoStaleRoute /\ ProcessesAreOwned /\ DownIsDown

----------------------------------------------------------------------------
(***************************************************************************)
(* The inductive invariant behind them.                                    *)
(***************************************************************************)
CallType ==
  [kind : {"new", "request", "chat", "cancel"},
   at : {"new", "pick", "publish", "enter", "write", "wait", "fail", "kill", "done"},
   job : {"send", "cancel"}, id : Calls, proc : Processes \cup {None},
   got : Responses \cup {None}, events : Seq(Terminal \cup {"error"}),
   response : BOOLEAN, completed : BOOLEAN, cancelled : BOOLEAN, cancels : Nat, idle : BOOLEAN]

StateType ==
  /\ is_shutdown \in BOOLEAN /\ current \in Processes \cup {None}
  /\ stopping \in [at : {"up", "notice", "fail", "kill", "down"}, proc : Processes \cup {None}]
  /\ failed \in [Processes -> BOOLEAN]
  /\ pending \in [Processes -> SUBSET Calls] /\ streams \in [Processes -> SUBSET Calls]
  /\ accepted \in [Processes -> SUBSET Calls] /\ told \in [Processes -> SUBSET Calls]
  /\ io \in [Processes -> Calls \cup {"host", None}]
  /\ child \in [Processes -> {"none", "running", "exited", "killed"}]
  /\ hung \in [Processes -> BOOLEAN]
  /\ reader \in [Processes -> [at : {"reading", "routing", "failing", "ended"},
                               id : Calls \cup {None}, what : Terminal \cup {None}]]
  /\ calls \in [Calls -> CallType]
  /\ faults \in Nat

\* Where a call holds a process.
HoldsProcess == {"publish", "enter", "write", "wait", "fail", "kill"}

Unpublished(p) == \E c \in Calls : calls[c].at = "publish" /\ calls[c].proc = p
Killer(p) == \/ \E c \in Calls : calls[c].at = "kill" /\ calls[c].proc = p
             \/ reader[p].at = "failing"
             \/ stopping.at = "kill" /\ stopping.proc = p

\* Who may have taken the process in the map out of it.
MapInv ==
  /\ is_shutdown <=> stopping.at # "up"
  /\ is_shutdown => current = None
  /\ stopping.at \in {"notice", "fail", "kill"} => stopping.proc \in Processes /\ child[stopping.proc] # "none"
  /\ stopping.at = "kill" => failed[stopping.proc]
  /\ current # None => child[current] # "none"

\* The process in the map is the only one that has not failed, but for those
\* that are not in it yet and the one that shutdown took out of it.
OwnedInv(p) ==
  /\ child[p] = "none" => ~failed[p] /\ reader[p].at = "reading" /\ accepted[p] = {}
  /\ failed[p] => pending[p] = {} /\ streams[p] = {}
  /\ reader[p].at = "failing" => failed[p]
  /\ reader[p].at = "routing" => reader[p].id \in accepted[p] /\ reader[p].what \in Terminal
  /\ child[p] # "none" =>
       IF failed[p] THEN child[p] = "killed" \/ Killer(p)
       ELSE /\ child[p] # "killed"
            /\ \/ p = current \/ Unpublished(p)
               \/ stopping.proc = p /\ stopping.at \in {"notice", "fail"}

ProcessInv == MapInv /\ \A p \in Processes : OwnedInv(p)

\* A call has a process while it works with one.
HoldingInv(c) ==
  LET p == calls[c].proc IN
  /\ p # None <=> calls[c].at \in HoldsProcess
  /\ p # None => child[p] # "none"
  /\ calls[c].at = "kill" => failed[p]

\* Until a process is published nobody else has it.
UnknownInv(c) ==
  LET p == calls[c].proc IN
  calls[c].at = "publish" =>
    /\ p # current /\ pending[p] = {} /\ streams[p] = {} /\ accepted[p] = {}
    /\ stopping.at # "up" => stopping.proc # p
    /\ \A d \in Calls : d # c => calls[d].proc # p

HolderInv == \A c \in Calls : HoldingInv(c) /\ UnknownInv(c)

\* A call never had a route, has one, or had one.
Routed(c) == \E p \in Processes : c \in pending[p] \cup streams[p] \/ (reader[p].at = "routing" /\ reader[p].id = c)
Sent(c) == \E p \in Processes : c \in accepted[p]

KindInv(c) ==
  LET s == calls[c] IN
  /\ s.kind = "new" <=> s.at = "new"
  /\ s.kind = "cancel" /\ s.at # "done" => s.job = "cancel"
  /\ s.at \in {"new", "wait"} => s.job = "send"
  /\ s.kind # "cancel" => s.id = c /\ (s.job = "cancel" => s.kind = "chat")
  /\ s.cancels > 0 => s.job = "cancel" /\ s.kind = "chat"
  /\ s.idle => s.kind = "chat" /\ s.at \in {"fail", "kill"}
  /\ s.job = "cancel" => ~s.idle
  /\ s.kind = "cancel" \/ (s.job = "send" /\ s.at \in {"new", "pick", "publish", "enter"})
       => ~Routed(c) /\ ~Sent(c) /\ s.got = None /\ s.events = <<>> /\ ~s.completed /\ ~s.response

\* It has them in one process, which is the one it works with.
PathInv(c) ==
  LET s == calls[c] IN
  \A p \in Processes : c \in pending[p] \cup streams[p] =>
    /\ \A q \in Processes : c \in pending[q] \cup streams[q] => q = p
    /\ s.proc \in {p, None}
    /\ child[p] # "none" /\ (p = current \/ is_shutdown)
    /\ s.at = "done" => is_shutdown
    /\ s.job = "cancel" => s.at \notin {"write", "fail", "kill"}

\* Nothing came along a route that is still there.
RouteInv(c) ==
  LET s == calls[c] IN
  /\ \A p \in Processes : c \in pending[p] => s.got = None /\ ~s.response
  /\ \A p \in Processes : c \in streams[p] => s.events = <<>> /\ ~s.completed /\ s.kind = "chat"
  /\ \A p, q \in Processes : reader[p].at = "routing" /\ reader[p].id = c => c \notin streams[q]
  /\ s.response => s.got # None

\* The call that waits, or is about to.
TiedInv(c) ==
  LET s == calls[c] IN
  s.at \in {"write", "wait"} /\ s.job = "send" =>
    /\ s.got # None \/ c \in pending[s.proc]
    /\ s.kind = "chat" => \/ s.completed \/ s.events # <<>> \/ c \in streams[s.proc]
                          \/ reader[s.proc].at = "routing" /\ reader[s.proc].id = c

\* What became of a chat the provider has.
ChatInv(c) ==
  LET s == calls[c] IN
  s.kind = "chat" => \A p \in Processes : c \in accepted[p] /\ ~failed[p] /\ ~is_shutdown =>
    /\ p = current /\ s.proc \in {p, None}
    /\ s.job = "send" => s.at \notin {"write"} /\ (s.at \in {"fail", "kill"} => s.idle)
    /\ s.at = "done" => s.completed \/ c \in told[p]

CallInv == \A c \in Calls : KindInv(c) /\ PathInv(c) /\ RouteInv(c) /\ TiedInv(c) /\ ChatInv(c)

HostInv == StateType /\ ProcessInv /\ HolderInv /\ CallInv
================================================================================
