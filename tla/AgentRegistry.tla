------------------------------ MODULE AgentRegistry ------------------------------
(***************************************************************************)
(* core/agents: the registry of child agents, their records, the tool      *)
(* handlers that act on them, and the task each child runs in.             *)
(*                                                                         *)
(* Threads: the main submission and every child (an owner runs its tool    *)
(* calls one after the other), a client that stops agents, clients that    *)
(* call discard_agent_state and may drop its future, and the owner task    *)
(* that runs shutdown_services.  One step is one critical section of the   *)
(* records, mailbox, recent or record mutexes; the sections of one call    *)
(* that nothing can tell apart are joined.                                 *)
(*                                                                         *)
(* Task names and roles, the profile chain and its fallback, transcripts   *)
(* and token counts are left out; what a turn does besides agent tools is  *)
(* any time that passes.  A path is the set of agents on it.               *)
(***************************************************************************)
EXTENDS Naturals, Sequences, FiniteSets, SequencesExt

CONSTANTS
  MaxAgents,     \* bound: agents one behaviour may register
  Main,          \* the main submission, parent of the root agents
  Client,        \* the client's stop operations
  Discarders,    \* the sweeps: calls of discard_agent_state, each once, and
  Shutdown,      \* the one of shutdown_services, which discards nothing
  Settings       \* the limits and bounds a behaviour may have

Agents == 1..MaxAgents

SettingType == [agents : 1..MaxAgents,          \* bound: agents registered
                live : Nat,                     \* max_threads - 1, the root-inclusive limit
                mailbox : Nat,                  \* MAX_MAILBOX_RESULTS
                recent : Nat \ {0},             \* MAX_RECENT_AGENTS
                turns : Nat,                    \* MAX_MODEL_TURNS
                messages : Nat,                 \* bound: messages sent to one agent
                children : Nat,                 \* bound: agents one owner spawns
                spawners : SUBSET (Agents \cup {Main}),  \* whose role allows spawn_agent
                waiters : SUBSET (Agents \cup {Main}),   \* whose role allows agent_wait
                stoppable : SUBSET (Agents \cup {Main}), \* bound: the owners stops may name
                discarders : SUBSET Discarders]          \* bound: the sweeps that happen

ASSUME RegistryAssumption ==
  /\ MaxAgents \in Nat
  /\ Main \notin Nat /\ Client \notin Nat
  /\ Settings \subseteq SettingType

Owners == {Main} \cup Agents
NoAgent == 0

Terminal == {"completed", "failed", "stopped"}

VARIABLES
  setting,     \* chosen once
  records,     \* ids in the registry map
  rec,         \* the record of every id ever registered, kept alive by its task
  next_id,
  generation,
  accepting,
  mailbox,
  recent,
  cancelled,   \* owners whose ActiveSubmission is cancelled
  pc,          \* where the task of every owner is
  child,       \* the agent an owner is spawning or waiting for
  turns,       \* remaining_turns of a child's task
  outcome,     \* the status a child's task has settled on
  filter,      \* the ids an owner's agent_wait asked for
  woken,       \* owners whose Notified future has fired
  deaf,        \* owners that subscribed after their cancellation was sent
  stopping,    \* agents a stop still has to cancel, per agent task and client
  sweep,       \* where each discarder is
  swept,       \* the list of agents it works on
  delivered,   \* history: results handed to a model, by agent
  sent,        \* history: messages accepted, by agent
  handled      \* history: messages that reached the history of a model turn

regVars   == <<records, rec, next_id, generation, accepting, mailbox, recent>>
taskVars  == <<cancelled, pc, child, turns, outcome>>
waitVars  == <<filter, woken, deaf>>
sweepVars == <<sweep, swept>>
histVars  == <<delivered, sent, handled>>
vars == <<setting, regVars, taskVars, waitVars, stopping, sweepVars, histVars>>

NoRecord == [gen |-> 0, parent |-> Main, path |-> {}, background |-> FALSE,
             status |-> "none", active |-> FALSE, inbox |-> 0, inbox_open |-> FALSE,
             permit |-> FALSE, pending |-> FALSE]

Init ==
  /\ setting \in Settings
  /\ records = {}
  /\ rec = [a \in Agents |-> NoRecord]
  /\ next_id = 1
  /\ generation = 1
  /\ accepting = TRUE
  /\ mailbox = <<>>
  /\ recent = <<>>
  /\ cancelled = {}
  /\ pc = [o \in Owners |-> IF o = Main THEN "turn" ELSE "none"]
  /\ child = [o \in Owners |-> NoAgent]
  /\ turns = [a \in Agents |-> setting.turns]
  /\ outcome = [a \in Agents |-> "none"]
  /\ filter = [o \in Owners |-> {}]
  /\ woken = {}
  /\ deaf = {}
  /\ stopping = [k \in Agents \cup {Client} |-> {}]
  /\ sweep = [k \in Discarders |-> "idle"]
  /\ swept = [k \in Discarders |-> {}]
  /\ delivered = [a \in Agents |-> 0]
  /\ sent = [a \in Agents |-> 0]
  /\ handled = [a \in Agents |-> 0]

--------------------------------------------------------------------------------
(* Vec::retain and VecDeque::retain: the elements that stay, in their      *)
(* order; without recursion, so that what it keeps can be proved for lists *)
(* of any length.                                                          *)

\* The k-th of a set of positions.
Nth(positions, k) ==
  CHOOSE i \in positions : Cardinality({j \in positions : j <= i}) = k

Without(list, elements) ==
  LET kept == {i \in DOMAIN list : list[i] \notin elements} IN
  [k \in 1..Cardinality(kept) |-> list[Nth(kept, k)]]

--------------------------------------------------------------------------------
(* AgentRegistry::record, list, and the permits                            *)

\* Present in the map and of the current generation.
Visible(a) == a \in records /\ rec[a].gen = generation

Running(a) == rec[a].status = "running"

\* Cancels the agent if its task has been attached.
CancelIfAttached(a) ==
  cancelled' = IF rec[a].active THEN cancelled \cup {a} ELSE cancelled

\* The live permit belongs to a spawn in progress and then to the record until
\* the agent is terminal.
LiveHeld == Cardinality({a \in Agents : Running(a)})
            + Cardinality({o \in Owners : pc[o] \in {"reserved", "reserved_bg"}})

\* The mailbox permit stays with the record until the result is consumed or the
\* last handle on the record is gone.
MailboxHeld == Cardinality({a \in Agents : rec[a].permit /\ (a \in records \/ pc[a] # "done")})
               + Cardinality({o \in Owners : pc[o] = "reserved_bg"})

\* ensure_running: CoreState::close_admission has not been called.
EnsureRunning == \A k \in Discarders : k = Shutdown => sweep[k] = "idle"

--------------------------------------------------------------------------------
(* dispatch_tools, spawn and register                                      *)

Moves(o, place) == pc' = [pc EXCEPT ![o] = place]

\* The next tool call of an owner's turn, refused once it is cancelled.
ToolDispatch(o) ==
  /\ pc[o] = "turn"
  /\ o \notin cancelled
  /\ Moves(o, "tool")
  /\ UNCHANGED <<regVars, cancelled, child, turns, outcome, waitVars, stopping,
                 sweepVars, histVars>>

\* Every other tool, and every agent tool that returns an error at once.
ToolReturn(o) ==
  /\ pc[o] = "tool"
  /\ Moves(o, "turn")
  /\ UNCHANGED <<regVars, cancelled, child, turns, outcome, waitVars, stopping,
                 sweepVars, histVars>>

LiveRoom == LiveHeld < setting.live

\* register finds admission open and takes both permits, or returns an error
\* that gives the first one back.
MailboxRoom == MailboxHeld < setting.mailbox

SpawnReserve(o) ==
  /\ pc[o] = "tool"
  /\ o \in setting.spawners
  /\ Cardinality({a \in 1..next_id - 1 : rec[a].parent = o}) < setting.children
  /\ accepting
  /\ LiveRoom
  /\ \/ Moves(o, "reserved")
     \/ MailboxRoom /\ Moves(o, "reserved_bg")
  /\ UNCHANGED <<regVars, cancelled, child, turns, outcome, waitVars, stopping,
                 sweepVars, histVars>>

\* An invalid or already used task name: both permits are dropped.
SpawnRefused(o) ==
  /\ pc[o] \in {"reserved", "reserved_bg"}
  /\ Moves(o, "turn")
  /\ UNCHANGED <<regVars, cancelled, child, turns, outcome, waitVars, stopping,
                 sweepVars, histVars>>

\* The path of a new agent: below its parent, or below the root if that is gone.
PathUnder(o, id) == (IF o \in records THEN rec[o].path ELSE {}) \cup {id}

\* The record enters the map, still without an ActiveSubmission, and
\* ActivityChanged makes its id known.
SpawnInsert(o) ==
  /\ pc[o] \in {"reserved", "reserved_bg"}
  /\ next_id <= setting.agents
  /\ rec' = [rec EXCEPT ![next_id] =
       [gen |-> generation, parent |-> o, path |-> PathUnder(o, next_id),
        background |-> pc[o] = "reserved_bg", status |-> "running", active |-> FALSE,
        inbox |-> 0, inbox_open |-> TRUE, permit |-> pc[o] = "reserved_bg",
        pending |-> FALSE]]
  /\ records' = records \cup {next_id}
  /\ next_id' = next_id + 1
  /\ child' = [child EXCEPT ![o] = next_id]
  /\ Moves(o, "inserted")
  /\ UNCHANGED <<generation, accepting, mailbox, recent, cancelled, turns, outcome,
                 waitVars, stopping, sweepVars, histVars>>

\* attach_active, and the child's task is spawned.  A synchronous spawn waits.
SpawnAttach(o) ==
  /\ pc[o] = "inserted"
  /\ LET a == child[o] IN
       /\ rec' = [rec EXCEPT ![a].active = TRUE]
       /\ pc' = [pc EXCEPT ![a] = "turn",
                           ![o] = IF rec[a].background THEN "turn" ELSE "sync"]
       /\ child' = [child EXCEPT ![o] = IF rec[a].background THEN NoAgent ELSE a]
  /\ UNCHANGED <<records, next_id, generation, accepting, mailbox, recent, cancelled,
                 turns, outcome, waitVars, stopping, sweepVars, histVars>>

\* wait_for_sync: the child is terminal, and its result is the tool's result.
SyncReturn(o) ==
  /\ pc[o] \in {"sync", "cleanup"}
  /\ ~Running(child[o])
  /\ Moves(o, "turn")
  /\ child' = [child EXCEPT ![o] = NoAgent]
  /\ UNCHANGED <<regVars, cancelled, turns, outcome, waitVars, stopping, sweepVars,
                 histVars>>

\* The parent was cancelled or thirty minutes have passed: the child is
\* cancelled and gets five seconds.
SyncCancel(o) ==
  /\ pc[o] = "sync"
  /\ CancelIfAttached(child[o])
  /\ Moves(o, "cleanup")
  /\ UNCHANGED <<regVars, child, turns, outcome, waitVars, stopping, sweepVars,
                 histVars>>

\* The child did not end in time: AgentTimedOut.
SyncTimeout(o) ==
  /\ pc[o] = "cleanup"
  /\ Running(child[o])
  /\ Moves(o, "turn")
  /\ child' = [child EXCEPT ![o] = NoAgent]
  /\ UNCHANGED <<regVars, cancelled, turns, outcome, waitVars, stopping, sweepVars,
                 histVars>>

--------------------------------------------------------------------------------
(* agent_wait                                                              *)

\* Every id of a filter must be known; no filter asks for every agent.  The
\* watch receiver treats a cancellation sent before it subscribed as seen.
WaitStart(o) ==
  /\ pc[o] = "tool"
  /\ o \in setting.waiters
  /\ \E ids \in {Agents} \cup {{a} : a \in {b \in Agents : Visible(b)}} :
       filter' = [filter EXCEPT ![o] = ids]
  /\ deaf' = IF o \in cancelled THEN deaf \cup {o} ELSE deaf
  /\ Moves(o, "wait")
  /\ UNCHANGED <<regVars, cancelled, child, turns, outcome, woken, stopping, sweepVars,
                 histVars>>

\* What a consumer takes out of the mailbox; results of unknown agents are
\* dropped with it.
MailboxRest(ids) == Without(mailbox, ids)

\* consume_mailbox under the mailbox mutex, after a new Notified future.
WaitCheck(o) ==
  /\ pc[o] = "wait"
  /\ LET ready == {a \in Agents : a \in filter[o] /\ Visible(a)
                                  /\ \E k \in DOMAIN mailbox : mailbox[k] = a} IN
       /\ mailbox' = MailboxRest(filter[o])
       /\ rec' = [a \in Agents |-> IF a \in ready
                                   THEN [rec[a] EXCEPT !.pending = FALSE, !.permit = FALSE]
                                   ELSE rec[a]]
       /\ delivered' = [a \in Agents |-> IF a \in ready THEN delivered[a] + 1 ELSE delivered[a]]
       /\ IF ready # {}
          THEN /\ Moves(o, "turn")
               /\ filter' = [filter EXCEPT ![o] = {}]
               /\ woken' = woken \ {o}
               /\ deaf' = deaf \ {o}
          ELSE Moves(o, "looked") /\ UNCHANGED waitVars
  /\ UNCHANGED <<records, next_id, generation, accepting, recent, cancelled, child,
                 turns, outcome, stopping, sweepVars, sent, handled>>

\* Nothing is there: select on the future, the cancellation and the deadline.
WaitSleep(o) ==
  /\ pc[o] = "looked"
  /\ Moves(o, "asleep")
  /\ UNCHANGED <<regVars, cancelled, child, turns, outcome, waitVars, stopping,
                 sweepVars, histVars>>

\* The future fired: look again, with a new future.
WaitWoken(o) ==
  /\ pc[o] = "asleep"
  /\ o \in woken
  /\ Moves(o, "wait")
  /\ woken' = woken \ {o}
  /\ UNCHANGED <<regVars, cancelled, child, turns, outcome, filter, deaf, stopping,
                 sweepVars, histVars>>

WaitEnds(o) ==
  /\ Moves(o, "turn")
  /\ filter' = [filter EXCEPT ![o] = {}]
  /\ woken' = woken \ {o}
  /\ deaf' = deaf \ {o}
  /\ UNCHANGED <<regVars, cancelled, child, turns, outcome, stopping, sweepVars,
                 histVars>>

WaitTimedOut(o) == pc[o] = "asleep" /\ WaitEnds(o)

\* changed() reports a cancellation that was sent after the subscription.
WaitCancelled(o) == pc[o] = "asleep" /\ o \in cancelled \ deaf /\ WaitEnds(o)

\* notify_waiters reaches every future that exists.  Mutant: the future is made
\* after the look at the mailbox.
NotifiedAsleep == {o \in Owners : pc[o] = "asleep"}
Notified == {o \in Owners : pc[o] \in {"wait", "looked", "asleep"}}

--------------------------------------------------------------------------------
(* agent_message, agent_stop, stop_agent, stop_activity                    *)

\* Mutant: a message to a closed inbox is accepted.
InboxAcceptsAny(a) == Running(a)
InboxAccepts(a) == Running(a) /\ rec[a].inbox_open

\* An owner's tool sends a message.
MessageAccept(o, a) ==
  /\ pc[o] = "tool"
  /\ sent[a] < setting.messages
  /\ Visible(a)
  /\ InboxAccepts(a)
  /\ rec' = [rec EXCEPT ![a].inbox = @ + 1]
  /\ sent' = [sent EXCEPT ![a] = @ + 1]
  /\ Moves(o, "turn")
  /\ UNCHANGED <<records, next_id, generation, accepting, mailbox, recent, cancelled,
                 child, turns, outcome, waitVars, stopping, sweepVars, delivered,
                 handled>>
\* AgentRegistry::stop of a running agent.
StopAgent(a) ==
  /\ Visible(a)
  /\ Running(a)
  /\ CancelIfAttached(a)
  /\ UNCHANGED <<regVars, pc, child, turns, outcome, waitVars, stopping, sweepVars,
                 histVars>>

\* The visible agents below a path, and the one on it.
Subtree(a, with_root) ==
  {b \in Agents : Visible(b) /\ rec[a].path \subseteq rec[b].path /\ (with_root \/ b # a)}

\* stop_tree lists its targets.  The model's agent_stop and the client's
\* stop_activity both end here.
StopTree(a) ==
  /\ stopping[Client] = {}
  /\ Visible(a)
  /\ stopping' = [stopping EXCEPT ![Client] = {b \in Subtree(a, TRUE) : Running(b)}]
  /\ UNCHANGED <<regVars, taskVars, waitVars, sweepVars, histVars>>

\* The next target of a listing.
StopNext(k) ==
  /\ \E b \in stopping[k] :
       /\ IF Visible(b) THEN CancelIfAttached(b) ELSE UNCHANGED cancelled
       /\ stopping' = [stopping EXCEPT ![k] = @ \ {b}]
  /\ UNCHANGED <<regVars, pc, child, turns, outcome, waitVars, sweepVars, histVars>>

\* The user cancels the main submission; the next one has its own flag.
CancelMain ==
  /\ Main \notin cancelled
  /\ cancelled' = cancelled \cup {Main}
  /\ UNCHANGED <<regVars, pc, child, turns, outcome, waitVars, stopping, sweepVars,
                 histVars>>

NextMain ==
  /\ Main \in cancelled
  /\ EnsureRunning
  /\ pc[Main] = "turn"
  /\ cancelled' = cancelled \ {Main}
  /\ UNCHANGED <<regVars, pc, child, turns, outcome, waitVars, stopping, sweepVars,
                 histVars>>

--------------------------------------------------------------------------------
(* run_child and finish_child                                              *)

\* run_turns ended well with some turns left: the inbox decides.
TurnOk(a) ==
  /\ pc[a] = "turn"
  /\ \E left \in 0..setting.turns :
       /\ left < turns[a]
       /\ turns' = [turns EXCEPT ![a] = left]
       /\ IF left > 0 /\ rec[a].inbox > 0
          THEN /\ rec' = [rec EXCEPT ![a].inbox = 0]
               /\ handled' = [handled EXCEPT ![a] = @ + rec[a].inbox]
               /\ UNCHANGED <<pc, outcome>>
          ELSE /\ rec' = [rec EXCEPT ![a].inbox_open = FALSE]
               /\ outcome' = [outcome EXCEPT ![a] = "completed"]
               /\ Moves(a, "commands")
               /\ UNCHANGED handled
  /\ UNCHANGED <<records, next_id, generation, accepting, mailbox, recent, cancelled,
                 child, waitVars, stopping, sweepVars, delivered, sent>>

\* run_turns failed: the turn budget, every profile, or a cancellation.
TurnFailed(a) ==
  /\ pc[a] = "turn"
  /\ outcome' = [outcome EXCEPT ![a] = IF a \in cancelled THEN "stopped" ELSE "failed"]
  /\ Moves(a, "commands")
  /\ UNCHANGED <<regVars, cancelled, child, turns, waitVars, stopping, sweepVars,
                 histVars>>

\* The agent's commands have been reaped; stop_descendants lists its targets.
\* Mutant: descendants are left alone.
OrphansLeft(a) == {}
Descendants(a) == {b \in Subtree(a, FALSE) : Running(b)}

FinishDescendants(a) ==
  /\ pc[a] = "commands"
  /\ stopping' = [stopping EXCEPT ![a] = IF Visible(a) THEN Descendants(a) ELSE {}]
  /\ Moves(a, "descendants")
  /\ UNCHANGED <<regVars, cancelled, child, turns, outcome, waitVars, sweepVars, histVars>>

\* AgentRecord::finish.
DescendantsHandled(a) == stopping[a] = {}

FinishRecord(a) ==
  /\ pc[a] = "descendants"
  /\ DescendantsHandled(a)
  /\ rec' = [rec EXCEPT ![a].status = outcome[a], ![a].active = FALSE,
                        ![a].inbox = 0, ![a].inbox_open = FALSE]
  /\ Moves(a, "finished")
  /\ UNCHANGED <<records, next_id, generation, accepting, mailbox, recent, cancelled,
                 child, turns, outcome, waitVars, stopping, sweepVars, histVars>>

\* mark_mailbox_pending.
FinishMark(a) ==
  /\ pc[a] = "finished"
  /\ IF rec[a].permit
     THEN rec' = [rec EXCEPT ![a].pending = TRUE] /\ Moves(a, "marked")
     ELSE UNCHANGED rec /\ Moves(a, "mailed")
  /\ UNCHANGED <<records, next_id, generation, accepting, mailbox, recent, cancelled,
                 child, turns, outcome, waitVars, stopping, sweepVars, histVars>>

FinishPush(a) ==
  /\ pc[a] = "marked"
  /\ mailbox' = Append(mailbox, a)
  /\ Moves(a, "pushed")
  /\ UNCHANGED <<records, rec, next_id, generation, accepting, recent, cancelled, child,
                 turns, outcome, waitVars, stopping, sweepVars, histVars>>

FinishNotify(a) ==
  /\ pc[a] = "pushed"
  /\ woken' = woken \cup Notified
  /\ Moves(a, "mailed")
  /\ UNCHANGED <<regVars, cancelled, child, turns, outcome, filter, deaf, stopping,
                 sweepVars, histVars>>

\* May an expired entry's record go?  Mutant: a pending result does not pin it.
RemovableAlways(a) == a \in records
Removable(a) == a \in records /\ ~rec[a].pending

\* How many entries the loop of retain_recent pops: it stops when the list is
\* short enough, or at a pinned entry, which it moves to the front.  Mutant:
\* the limit is not looked at.
ExpiredNone(list) == 0
Expired(list) ==
  Min({n \in 0..Len(list) : \/ Len(list) - n <= setting.recent
                            \/ ~Removable(list[Len(list) - n])})

FinishRetain(a) ==
  /\ pc[a] = "mailed"
  /\ LET list == <<a>> \o Without(recent, {a})
         kept == Len(list) - Expired(list)
         rest == SubSeq(list, 1, kept) IN
       /\ recent' = IF kept > setting.recent THEN <<Last(rest)>> \o Front(rest) ELSE rest
       /\ records' = records \ {list[k] : k \in kept + 1 .. Len(list)}
  /\ Moves(a, "done")
  /\ UNCHANGED <<rec, next_id, generation, accepting, mailbox, cancelled, child, turns,
                 outcome, waitVars, stopping, sweepVars, histVars>>

--------------------------------------------------------------------------------
(* discard_agent_state and shutdown_services                               *)

SweepTo(k, place) == sweep' = [sweep EXCEPT ![k] = place]

\* A discard is let in; shutdown lets no call in from here on and cancels the
\* submissions.
SweepCheck(k) ==
  /\ sweep[k] = "idle"
  /\ EnsureRunning
  /\ cancelled' = IF k = Shutdown THEN cancelled \cup {Main} ELSE cancelled
  /\ SweepTo(k, "checked")
  /\ UNCHANGED <<regVars, pc, child, turns, outcome, waitVars, stopping, swept, histVars>>

\* AgentRegistry::close_admission.
SweepClose(k) ==
  /\ sweep[k] = "checked"
  /\ accepting' = FALSE
  /\ SweepTo(k, "closed")
  /\ UNCHANGED <<records, rec, next_id, generation, mailbox, recent, taskVars, waitVars,
                 stopping, swept, histVars>>

\* stop_all lists the agents of this generation.
SweepList(k) ==
  /\ sweep[k] = "closed"
  /\ swept' = [swept EXCEPT ![k] = {a \in Agents : Visible(a)}]
  /\ SweepTo(k, "cancelling")
  /\ UNCHANGED <<regVars, taskVars, waitVars, stopping, histVars>>

\* stop_all cancels those that are running.
SweepCancel(k) ==
  /\ sweep[k] = "cancelling"
  /\ cancelled' = cancelled \cup {a \in swept[k] : Running(a) /\ rec[a].active}
  /\ SweepTo(k, "waiting")
  /\ UNCHANGED <<regVars, pc, child, turns, outcome, waitVars, stopping, swept, histVars>>

\* All of them are terminal.
SweepStopped(k) ==
  /\ sweep[k] = "waiting"
  /\ \A a \in swept[k] : ~Running(a)
  /\ SweepTo(k, "stopped")
  /\ UNCHANGED <<regVars, taskVars, waitVars, stopping, swept, histVars>>

\* The client drops the future of its discard while that waits for the agents:
\* nothing reopens admission.
SweepDropped(k) ==
  /\ k # Shutdown
  /\ sweep[k] = "waiting"
  /\ SweepTo(k, "dropped")
  /\ UNCHANGED <<regVars, taskVars, waitVars, stopping, swept, histVars>>

\* A discard opens admission again when it returns; shutdown does not.
Reopened(k) == IF k = Shutdown THEN accepting ELSE TRUE

\* Five seconds were not enough.
SweepTimeout(k) ==
  /\ sweep[k] = "waiting"
  /\ \E a \in swept[k] : Running(a)
  /\ accepting' = Reopened(k)
  /\ SweepTo(k, "failed")
  /\ UNCHANGED <<records, rec, next_id, generation, mailbox, recent, taskVars, waitVars,
                 stopping, swept, histVars>>

\* discard_current: the ids of this generation ...
DiscardList(k) ==
  /\ k # Shutdown
  /\ sweep[k] = "stopped"
  /\ swept' = [swept EXCEPT ![k] = {a \in Agents : Visible(a)}]
  /\ SweepTo(k, "listed")
  /\ UNCHANGED <<regVars, taskVars, waitVars, stopping, histVars>>

\* ... leave the map,
DiscardRecords(k) ==
  /\ sweep[k] = "listed"
  /\ records' = records \ swept[k]
  /\ SweepTo(k, "unlisted")
  /\ UNCHANGED <<rec, next_id, generation, accepting, mailbox, recent, taskVars, waitVars,
                 stopping, swept, histVars>>

\* the mailbox,
DiscardMailbox(k) ==
  /\ sweep[k] = "unlisted"
  /\ mailbox' = Without(mailbox, swept[k])
  /\ SweepTo(k, "unmailed")
  /\ UNCHANGED <<records, rec, next_id, generation, accepting, recent, taskVars, waitVars,
                 stopping, swept, histVars>>

\* and the recent list, a new generation begins, and admission opens again.
DiscardGeneration(k) ==
  /\ sweep[k] = "unmailed"
  /\ recent' = Without(recent, swept[k])
  /\ generation' = generation + 1
  /\ accepting' = TRUE
  /\ SweepTo(k, "discarded")
  /\ UNCHANGED <<records, rec, next_id, mailbox, taskVars, waitVars, stopping, swept, histVars>>

--------------------------------------------------------------------------------
Spawn(o) == /\ UNCHANGED setting
            /\ \/ ToolDispatch(o) \/ ToolReturn(o) \/ SpawnReserve(o) \/ SpawnRefused(o)
               \/ SpawnInsert(o) \/ SpawnAttach(o)
               \/ SyncReturn(o) \/ SyncCancel(o) \/ SyncTimeout(o)

Wait(o) == /\ UNCHANGED setting
           /\ \/ WaitStart(o) \/ WaitCheck(o) \/ WaitSleep(o) \/ WaitWoken(o)
              \/ WaitTimedOut(o) \/ WaitCancelled(o)

Stop == /\ UNCHANGED setting
        /\ \/ \E a \in Agents \cap setting.stoppable : StopAgent(a) \/ StopTree(a)
           \/ \E k \in Agents \cup {Client} : StopNext(k)
           \/ Main \in setting.stoppable /\ (CancelMain \/ NextMain)

Finish(a) == \/ FinishDescendants(a) \/ FinishRecord(a) \/ FinishMark(a)
             \/ FinishPush(a) \/ FinishNotify(a) \/ FinishRetain(a)

RunChild(a) == UNCHANGED setting /\ (TurnOk(a) \/ TurnFailed(a) \/ Finish(a))

Sweep(k) == /\ k \in setting.discarders
            /\ UNCHANGED setting
            /\ \/ SweepCheck(k) \/ SweepClose(k) \/ SweepList(k) \/ SweepCancel(k)
               \/ SweepStopped(k) \/ SweepDropped(k) \/ SweepTimeout(k) \/ DiscardList(k) \/ DiscardRecords(k)
               \/ DiscardMailbox(k) \/ DiscardGeneration(k)

Next == \/ \E o \in Owners : Spawn(o) \/ Wait(o)
        \/ \E o \in Owners, a \in Agents : UNCHANGED setting /\ MessageAccept(o, a)
        \/ \E a \in Agents : RunChild(a)
        \/ Stop
        \/ \E k \in Discarders : Sweep(k)

Spec == Init /\ [][Next]_vars

--------------------------------------------------------------------------------
(* Properties                                                              *)

Places == {"none", "turn", "tool", "reserved", "reserved_bg", "inserted",
           "sync", "cleanup", "wait", "looked", "asleep", "commands", "descendants", "finished",
           "marked", "pushed", "mailed", "done"}

SweepPlaces == {"idle", "checked", "closed", "cancelling", "waiting", "dropped", "stopped",
                "listed", "unlisted", "unmailed", "discarded", "failed"}

RecordType == [gen : Nat, parent : Owners, path : SUBSET Agents, background : BOOLEAN,
               status : {"none", "running"} \cup Terminal, active : BOOLEAN,
               inbox : Nat, inbox_open : BOOLEAN, permit : BOOLEAN, pending : BOOLEAN]

\* The fields of AgentRecordState and AgentRegistryInner have their types, and
\* every task is in a place it can be in.
TypeOK ==
  /\ setting \in Settings
  /\ records \subseteq Agents
  /\ rec \in [Agents -> RecordType]
  /\ next_id \in 1..MaxAgents + 1
  /\ generation \in Nat \ {0}
  /\ accepting \in BOOLEAN
  /\ mailbox \in Seq(Agents) /\ recent \in Seq(Agents)
  /\ cancelled \subseteq Owners
  /\ pc \in [Owners -> Places]
  /\ child \in [Owners -> Agents \cup {NoAgent}]
  /\ turns \in [Agents -> 0..setting.turns]
  /\ outcome \in [Agents -> {"none"} \cup Terminal]
  /\ filter \in [Owners -> SUBSET Agents]
  /\ woken \subseteq Owners /\ deaf \subseteq Owners
  /\ stopping \in [Agents \cup {Client} -> SUBSET Agents]
  /\ sweep \in [Discarders -> SweepPlaces]
  /\ swept \in [Discarders -> SUBSET Agents]
  /\ delivered \in [Agents -> Nat] /\ sent \in [Agents -> Nat] /\ handled \in [Agents -> Nat]

Mailed(a) == \E k \in DOMAIN mailbox : mailbox[k] = a
Ended(a) == rec[a].status \in Terminal

\* The agents whose records a discard has dropped.
Discarded ==
  UNION {swept[k] : k \in {k \in Discarders : sweep[k] \in {"unlisted", "unmailed", "discarded"}}}

\* Registered in the present conversation, and not dropped by a discard of it.
Current(a) == rec[a].gen = generation /\ a \notin Discarded

\* "Eight lossless mailbox slots".  Every result in the mailbox still owns the
\* place that was reserved for it when its agent was admitted, so the mailbox
\* never holds more results than it has places however spawns, finishes and
\* waits interleave, but for those a discard overtook between the end of their
\* agent and the push; a visible record that pins its activity has its result
\* there, but for the moment between the mark and the push of finish; and the
\* result of a background agent of the current conversation that has finished is
\* there or was handed to exactly one agent_wait, never twice and never before
\* its agent is terminal.
ResultNotLost ==
  /\ \A k \in DOMAIN mailbox : LET a == mailbox[k] IN
       rec[a].permit /\ rec[a].pending /\ a \in records \cup Discarded
  /\ \A j, k \in DOMAIN mailbox : mailbox[j] = mailbox[k] => j = k
  /\ Cardinality(Range(mailbox) \ Discarded) <= setting.mailbox
  /\ \A a \in Agents :
       /\ Visible(a) /\ rec[a].pending => Mailed(a) \/ pc[a] = "marked"
       /\ delivered[a] <= 1
       /\ delivered[a] = 1 => Ended(a) /\ ~Mailed(a)
       /\ rec[a].background /\ Current(a) /\ pc[a] \in {"pushed", "mailed", "done"}
            => (Mailed(a) <=> delivered[a] = 0)

\* Admission is closed only while a discard is between its close and its return,
\* after one whose future was dropped there, or by shutdown.
KeepsClosed(k) ==
  IF k = Shutdown THEN sweep[k] \notin {"idle", "checked"}
                  ELSE sweep[k] \notin {"idle", "checked", "discarded", "failed"}

AdmissionReopens == ~accepting => \E k \in Discarders : KeepsClosed(k)

\* The limits of registry.rs: 8 results, 20 recent agents.
Ample == 2 * setting.mailbox < setting.recent

\* retain_recent keeps the registry bounded although pending results pin their
\* records: but for what a discard dropped, the map holds the agents that have
\* not got there yet and the recent list, and until a first discard that list
\* overshoots by no more than the results that can be pending, although every
\* call pops no further than the first pinned entry.  The live permits are never
\* overdrawn, and a discard_agent_state that returns opens admission again, also
\* when the agents do not end in time: closed for good it is only by shutdown, or
\* by a discard whose caller dropped its future.
RegistryBounded ==
  /\ TypeOK /\ AdmissionReopens
  /\ Cardinality({a \in Agents : Running(a)}) <= setting.live
  /\ LET kept == {a \in 1..next_id - 1 : pc[a] # "done"} \cup Range(recent) IN
       records \subseteq kept /\ kept \ records \subseteq Discarded
  /\ \A k \in DOMAIN recent : pc[recent[k]] = "done"
  /\ Ample /\ Discarded = {} => Len(recent) <= setting.recent + setting.mailbox

\* No wake-up of agent_wait is lost between the look at the mailbox and the
\* sleep: a sleeping waiter whose result has arrived has been woken, or the
\* finisher that pushed it has yet to notify.
WaiterNotLost ==
  \A o \in Owners :
    pc[o] = "asleep" /\ (\E a \in filter[o] : Mailed(a))
      => o \in woken \/ \E b \in Agents : pc[b] = "pushed"

\* A message is accepted only while its agent will still look at its inbox: one
\* that completes with model turns to spare has put every message it accepted
\* before the model, since decide_inbox closes the inbox where it finds it empty.
InboxSettled ==
  \A a \in Agents :
    rec[a].status = "completed" /\ turns[a] > 0 => handled[a] = sent[a]

\* "Stopping a parent cancels its descendants": when a parent is terminal, every
\* child it spawned is terminal or has its cancellation, so that the tree below a
\* terminal agent ends level by level, also where a cancelled child was still
\* spawning when its parent listed the tree.
ChildrenFollowParent ==
  \A a \in Agents :
    LET parent == rec[a].parent IN
    parent \in Agents /\ Ended(parent) /\ Current(parent) /\ Current(a)
      => a \in cancelled \/ Ended(a)

--------------------------------------------------------------------------------
(***************************************************************************)
(* The inductive invariant behind the properties.                          *)
(***************************************************************************)
Registered == 1..next_id - 1

RunPlaces == {"turn", "tool", "reserved", "reserved_bg", "inserted", "sync", "cleanup",
              "wait", "looked", "asleep", "commands", "descendants"}
EndPlaces == {"finished", "marked", "pushed", "mailed", "done"}
Pushed == {"pushed", "mailed", "done"}

\* Ids are given in order, and the task of a registered agent is where its
\* record says.
RecordInv ==
  /\ \A a \in Agents \ Registered :
       rec[a] = NoRecord /\ pc[a] = "none" /\ delivered[a] = 0 /\ sent[a] = 0 /\ handled[a] = 0
  /\ records \cup Range(mailbox) \cup Range(recent) \subseteq Registered
  /\ \A k \in Discarders : swept[k] \subseteq Registered
  /\ \A a \in Registered :
       /\ rec[a].gen <= generation
       /\ pc[a] \in {"none"} \cup RunPlaces => Running(a)
       /\ pc[a] \in EndPlaces => Ended(a)
       /\ pc[a] \in {"commands", "descendants"} => outcome[a] \in Terminal

\* An agent between its record and its task has one owner that will start it.
AttachInv ==
  \A o \in Owners :
    /\ pc[o] \in {"inserted", "sync", "cleanup"} => child[o] \in Registered
    /\ pc[o] = "inserted" =>
         /\ pc[child[o]] = "none"
         /\ \A p \in Owners : pc[p] = "inserted" /\ child[p] = child[o] => p = o

\* What a parent passes on: its path, and its cancellation once it has listed
\* its descendants.
Spawner(a) == rec[a].parent \in Agents

Placed(a) ==
  /\ pc[a] = "none" => pc[rec[a].parent] = "inserted" /\ child[rec[a].parent] = a
  /\ pc[a] \in RunPlaces => rec[a].active

Descends(a) ==
  Spawner(a) =>
    /\ rec[a].parent < a /\ rec[rec[a].parent].gen <= rec[a].gen
    /\ rec[rec[a].parent].gen = rec[a].gen /\ rec[a].parent \notin Discarded
         => rec[rec[a].parent].path \subseteq rec[a].path

Follows(a) ==
  Spawner(a) /\ Running(a) /\ Current(rec[a].parent) /\ Current(a)
    => \/ a \in cancelled
       \/ pc[rec[a].parent] \in ({"none"} \cup RunPlaces) \ {"descendants"}
       \/ pc[rec[a].parent] = "descendants" /\ a \in stopping[rec[a].parent]

TreeInv == \A a \in Registered : Placed(a) /\ Descends(a) /\ Follows(a)

\* A mailbox place goes from admission over the mark and the push to one reader.
MailboxOnce == \A j, k \in DOMAIN mailbox : mailbox[j] = mailbox[k] => j = k

PermitOf(a) ==
  /\ delivered[a] \in {0, 1}
  /\ delivered[a] = 1 => pc[a] \in Pushed
  /\ rec[a].permit <=> rec[a].background /\ delivered[a] = 0
  /\ rec[a].pending <=> rec[a].permit /\ pc[a] \in {"marked"} \cup Pushed
  /\ pc[a] = "marked" => rec[a].permit
  /\ Mailed(a) => rec[a].permit /\ pc[a] \in Pushed /\ a \in records \cup Discarded
  /\ rec[a].background /\ Current(a) /\ pc[a] \in Pushed /\ delivered[a] = 0 => Mailed(a)

PermitInv == MailboxOnce /\ \A a \in Agents : PermitOf(a)

\* Where a registered agent is listed.
ListInv ==
  /\ \A a \in records : pc[a] # "done" \/ a \in Range(recent)
  /\ \A a \in Registered : pc[a] # "done" \/ a \in Range(recent) => a \in records \cup Discarded
  /\ records \cap Discarded = {}
  /\ \A a \in Range(recent) : pc[a] = "done"
  /\ \A j, k \in DOMAIN recent : recent[j] = recent[k] => j = k

RoomInv == LiveHeld <= setting.live /\ MailboxHeld <= setting.mailbox

\* The list has grown beyond its limit by at most as many entries as pinned ones
\* were moved from its back to its front, each with the new entry that made it
\* move; the pinned ones left in the back are those that may still do so.
PinnedBehind(n) ==
  {a \in Agents : rec[a].pending /\ \E k \in n + 1 .. Len(recent) : recent[k] = a}

RecentInv ==
  Ample /\ Discarded = {} =>
    \E moved \in 0..setting.mailbox :
      /\ 2 * moved <= Len(recent)
      /\ Len(recent) <= setting.recent + moved
      /\ Cardinality(PinnedBehind(2 * moved)) + moved <= setting.mailbox

WakeInv ==
  \A o \in Owners :
    pc[o] \in {"looked", "asleep"} /\ (\E a \in filter[o] : Mailed(a))
      => o \in woken \/ \E b \in Agents : pc[b] = "pushed"

\* Until the inbox is closed every accepted message is in it or was handled.
InboxInv ==
  \A a \in Registered :
    /\ pc[a] \in ({"none"} \cup RunPlaces) \ {"commands", "descendants"}
         => rec[a].inbox_open /\ handled[a] + rec[a].inbox = sent[a]
    /\ pc[a] \in {"commands", "descendants"} /\ outcome[a] = "completed"
         => ~rec[a].inbox_open /\ (turns[a] > 0 => handled[a] = sent[a])
    /\ rec[a].status = "completed" /\ turns[a] > 0 => handled[a] = sent[a]

RegistryInv ==
  /\ TypeOK /\ RecordInv /\ AttachInv /\ TreeInv /\ PermitInv /\ ListInv /\ RoomInv
  /\ RecentInv /\ WakeInv /\ InboxInv /\ AdmissionReopens
================================================================================
