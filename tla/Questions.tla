-------------------------------- MODULE Questions --------------------------------
(***************************************************************************)
(* core/questions.rs: the registry of questions a tool asks the user, with *)
(* the callers that answer or dismiss them, the cancellation of the asking *)
(* turn, shutdown_services, and a client that projects the registry from   *)
(* events and snapshots.                                                   *)
(*                                                                         *)
(* A step is one critical section of the registry mutex, one emitted event *)
(* or one send on a oneshot channel.  The texts of a question are left     *)
(* out: an answer is one the registry accepts or one it finds invalid.     *)
(***************************************************************************)
EXTENDS Naturals, FiniteSets

CONSTANTS
  Submissions,   \* root turns that ask
  Agents,        \* child agents that ask
  Callers,       \* API callers of answer_question and dismiss_question
  Tui,           \* the caller that also keeps a projection of the registry
  MaxAsks,       \* bound: questions one behaviour registers
  MaxDismisses,  \* MAX_DISMISSES
  None           \* no question, no source

ASSUME QuestionAssumption ==
  /\ MaxAsks \in Nat
  /\ MaxDismisses \in Nat \ {0}
  /\ Submissions \cap Agents = {}
  /\ Tui \in Callers
  /\ None \notin Nat /\ None \notin Submissions \cup Agents
  /\ IsFiniteSet(Submissions \cup Agents)

Sources == Submissions \cup Agents
Ids == 1..MaxAsks
Verdicts == {"answered", "dismissed", "cancelled"}

IdleCall == [at |-> "idle", id |-> None, says |-> "answered"]
IdleTool == [at |-> "idle", id |-> None]

VARIABLES
  pending,    \* keys of QuestionRegistryState.pending
  asker,      \* PendingQuestion.request.source of every id given out
  next_id,    \* QuestionRegistry.next_id
  dismisses,  \* QuestionRegistryState.dismisses
  channel,    \* the oneshot of each question: open, or what was sent on it
  tool,       \* where each source's dispatch is, and its question
  call,       \* where each API caller is, its question and what it says
  cancelled,  \* sources whose turn was cancelled
  stage,      \* how far shutdown_services has got
  drained,    \* what take_all returned and shutdown has not sent yet
  announced,  \* the drained question whose event was emitted
  unseen,     \* the client has events it has not received
  seen,       \* the client's last snapshot of the registry
  accepted,   \* history: what an API call was told it did to a question
  outcome     \* history: what the tool returned for a question

registry == <<pending, asker, next_id, dismisses>>
ending   == <<stage, drained, announced>>
client   == <<unseen, seen>>
vars == <<registry, channel, tool, call, cancelled, ending, client, accepted, outcome>>

Init ==
  /\ pending = {}
  /\ asker = [i \in Ids |-> None]
  /\ next_id = 1
  /\ dismisses = [s \in Sources |-> 0]
  /\ channel = [i \in Ids |-> "open"]
  /\ tool = [s \in Sources |-> IdleTool]
  /\ call = [c \in Callers |-> IdleCall]
  /\ cancelled = {}
  /\ stage = "running" /\ drained = {} /\ announced = None
  /\ unseen = FALSE /\ seen = {}
  /\ accepted = [i \in Ids |-> "none"]
  /\ outcome = [i \in Ids |-> "none"]

\* One QuestionRequested or QuestionResolved event.
Emit == unseen' = TRUE

--------------------------------------------------------------------------------
(* The tool: dispatch_tools looks at the cancellation and then dispatches. *)

Admitted == {s \in Sources : tool[s].at = "admitted"}
Admit(s) ==
  /\ tool[s].at = "idle" /\ s \notin cancelled
  /\ next_id + Cardinality(Admitted) \in Ids  \* bound
  /\ tool' = [tool EXCEPT ![s].at = "admitted"]
  /\ UNCHANGED <<registry, channel, call, cancelled, ending, client, accepted, outcome>>

\* register: refused for a source that dismissed too often.
TooOften(s) == dismisses[s] >= MaxDismisses
RefuseAsk(s) ==
  /\ tool[s].at = "admitted" /\ TooOften(s)
  /\ tool' = [tool EXCEPT ![s].at = "idle"]
  /\ UNCHANGED <<registry, channel, call, cancelled, ending, client, accepted, outcome>>

Ask(s) ==
  /\ tool[s].at = "admitted" /\ ~TooOften(s)
  /\ pending' = pending \cup {next_id}
  /\ asker' = [asker EXCEPT ![next_id] = s]
  /\ next_id' = next_id + 1
  /\ tool' = [tool EXCEPT ![s] = [at |-> "announce", id |-> next_id]]
  /\ UNCHANGED <<dismisses, channel, call, cancelled, ending, client, accepted, outcome>>

AnnounceAsk(s) ==
  /\ tool[s].at = "announce"
  /\ tool' = [tool EXCEPT ![s].at = "poll"]
  /\ Emit
  /\ UNCHANGED <<registry, channel, call, cancelled, ending, seen, accepted, outcome>>

\* wait_for_cancellation looks at the flag before it waits for a change.
\* Mutant: the select listens to the response only.
FlagSeenNever(s) == FALSE
FlagSeen(s) == s \in cancelled

\* The first poll of the select finds nothing and the task is suspended.
Suspend(s) ==
  /\ tool[s].at = "poll" /\ ~FlagSeen(s) /\ channel[tool[s].id] = "open"
  /\ tool' = [tool EXCEPT ![s].at = "select"]
  /\ UNCHANGED <<registry, channel, call, cancelled, ending, client, accepted, outcome>>

Return(s, what) ==
  /\ tool' = [tool EXCEPT ![s] = IdleTool]
  /\ outcome' = [outcome EXCEPT ![tool[s].id] = what]

\* The select takes the response; so does the wait that follows a lost claim.
TakeResponse(s) ==
  /\ tool[s].at \in {"poll", "select", "await"} /\ channel[tool[s].id] # "open"
  /\ Return(s, channel[tool[s].id])
  /\ UNCHANGED <<registry, channel, call, cancelled, ending, client, accepted>>

\* take_cancel found the question, or somebody else has claimed it and the
\* tool waits for what they say.  Mutant: it returns cancelled at once.
LostClaimGivesUp == "emit"
LostClaim == "await"
CancelSeen(s) ==
  /\ tool[s].at \in {"poll", "select"} /\ FlagSeen(s)
  /\ pending' = pending \ {tool[s].id}
  /\ tool' = [tool EXCEPT ![s].at = IF tool[s].id \in pending THEN "emit" ELSE LostClaim]
  /\ UNCHANGED <<asker, next_id, dismisses, channel, call, cancelled, ending, client, accepted, outcome>>

AnnounceCancel(s) ==
  /\ tool[s].at = "emit"
  /\ Return(s, "cancelled")
  /\ channel' = [channel EXCEPT ![tool[s].id] = "cancelled"]
  /\ Emit
  /\ UNCHANGED <<registry, call, cancelled, ending, seen, accepted>>

\* The task is aborted at an await; nobody takes its question back.
Abort(s) ==
  /\ tool[s].at \in {"select", "await"} /\ s \in cancelled
  /\ stage = IF s \in Agents THEN "closed" ELSE "joining"
  /\ tool' = [tool EXCEPT ![s] = [at |-> "aborted", id |-> None]]
  /\ UNCHANGED <<registry, channel, call, cancelled, ending, client, accepted, outcome>>

--------------------------------------------------------------------------------
(* answer_question and dismiss_question.                                   *)

\* ensure_running, before the registry is locked.  A call that names an
\* unknown question or gives an invalid answer changes nothing: those that
\* are unknown only once the registry is locked remain (RejectCall).
Call(c, i, says) ==
  /\ call[c].at = "idle" /\ stage = "running"
  /\ i \in pending /\ (c = Tui => i \in seen)
  /\ call' = [call EXCEPT ![c] = [at |-> "checked", id |-> i, says |-> says]]
  /\ UNCHANGED <<registry, channel, tool, cancelled, ending, client, accepted, outcome>>

\* UnknownQuestion: claimed or cancelled meanwhile.
RejectCall(c) ==
  /\ call[c].at = "checked" /\ call[c].id \notin pending
  /\ call' = [call EXCEPT ![c] = IdleCall]
  /\ UNCHANGED <<registry, channel, tool, cancelled, ending, client, accepted, outcome>>

\* An accepted answer takes the question out.  Mutant: it only looks.
RemainingKept(i) == pending
Remaining(i) == pending \ {i}
Claim(c) ==
  LET i == call[c].id IN
  /\ call[c].at = "checked" /\ i \in pending
  /\ pending' = Remaining(i)
  /\ dismisses' = [dismisses EXCEPT ![asker[i]] =
                     IF call[c].says = "answered" THEN 0 ELSE @ + 1]
  /\ accepted' = [accepted EXCEPT ![i] = call[c].says]
  /\ call' = [call EXCEPT ![c].at = "emit"]
  /\ UNCHANGED <<asker, next_id, channel, tool, cancelled, ending, client, outcome>>

AnnounceClaim(c) ==
  /\ call[c].at = "emit"
  /\ call' = [call EXCEPT ![c].at = "send"]
  /\ Emit
  /\ UNCHANGED <<registry, channel, tool, cancelled, ending, seen, accepted, outcome>>

Send(c) ==
  /\ call[c].at = "send"
  /\ channel' = [channel EXCEPT ![call[c].id] = call[c].says]
  /\ call' = [call EXCEPT ![c] = IdleCall]
  /\ seen' = IF c = Tui THEN pending ELSE seen
  /\ UNCHANGED <<registry, tool, cancelled, ending, unseen, accepted, outcome>>

\* pump_events of the client takes a snapshot at each event of a question; a
\* step is the last one of a tick.
Pump ==
  /\ unseen /\ call[Tui].at = "idle"
  /\ unseen' = FALSE
  /\ seen' = pending
  /\ UNCHANGED <<registry, channel, tool, call, cancelled, ending, accepted, outcome>>

--------------------------------------------------------------------------------
(* Cancellation and shutdown_services.                                     *)

Cancel(s) ==
  /\ s \notin cancelled
  /\ cancelled' = cancelled \cup {s}
  /\ UNCHANGED <<registry, channel, tool, call, ending, client, accepted, outcome>>

CloseAdmission ==
  /\ stage = "running"
  /\ stage' = "closed"
  /\ UNCHANGED <<registry, channel, tool, call, cancelled, drained, announced, client, accepted, outcome>>

\* take_all, once every submission is cancelled and the agents have ended.
Drained == pending
TakeAll ==
  /\ stage = "closed" /\ cancelled = Sources
  /\ \A s \in Agents : tool[s].at \in {"idle", "aborted"}
  /\ stage' = "draining"
  /\ drained' = Drained
  /\ pending' = pending \ Drained
  /\ UNCHANGED <<asker, next_id, dismisses, channel, tool, call, cancelled, announced, client, accepted, outcome>>

AnnounceDrained(i) ==
  /\ stage = "draining" /\ announced = None /\ i \in drained
  /\ announced' = i
  /\ Emit
  /\ UNCHANGED <<registry, channel, tool, call, cancelled, stage, drained, seen, accepted, outcome>>

SendDrained ==
  /\ announced # None
  /\ channel' = [channel EXCEPT ![announced] = "cancelled"]
  /\ drained' = drained \ {announced}
  /\ announced' = None
  /\ UNCHANGED <<registry, tool, call, cancelled, stage, client, accepted, outcome>>

DrainEnds ==
  /\ stage = "draining" /\ drained = {}
  /\ stage' = "joining"
  /\ UNCHANGED <<registry, channel, tool, call, cancelled, drained, announced, client, accepted, outcome>>

\* finish_submission_worker: the root turn has ended or was aborted.
Joined ==
  /\ stage = "joining"
  /\ \A s \in Submissions : tool[s].at \in {"idle", "aborted"}
  /\ stage' = "down"
  /\ UNCHANGED <<registry, channel, tool, call, cancelled, drained, announced, client, accepted, outcome>>

ToolStep(s) == RefuseAsk(s) \/ Ask(s) \/ AnnounceAsk(s) \/ Suspend(s) \/ TakeResponse(s) \/ CancelSeen(s) \/ AnnounceCancel(s)
CallStep(c) == RejectCall(c) \/ Claim(c) \/ AnnounceClaim(c) \/ Send(c)
ShutdownStep ==
  \/ TakeAll \/ SendDrained \/ DrainEnds \/ Joined
  \/ \E i \in Ids : AnnounceDrained(i)

Next ==
  \/ \E s \in Sources : Admit(s) \/ ToolStep(s) \/ Abort(s) \/ Cancel(s)
  \/ \E c \in Callers : CallStep(c) \/ \E i \in Ids, v \in {"answered", "dismissed"} : Call(c, i, v)
  \/ Pump
  \/ CloseAdmission
  \/ ShutdownStep

Spec == Init /\ [][Next]_vars

\* The runtime polls woken tasks, an API call is not left half way, and
\* shutdown cancels every turn; users need not ask, answer or cancel.
FairSpec ==
  /\ Spec
  /\ \A s \in Sources : WF_vars(ToolStep(s))
  /\ WF_vars(\E c \in Callers : CallStep(c))
  /\ WF_vars(stage # "running" /\ \E s \in Sources : Cancel(s))
  /\ WF_vars(ShutdownStep)

--------------------------------------------------------------------------------
(* Properties.                                                             *)

TypeOK ==
  /\ pending \subseteq Ids /\ drained \subseteq Ids
  /\ asker \in [Ids -> Sources \cup {None}]
  /\ next_id \in 1..MaxAsks + 1
  /\ dismisses \in [Sources -> 0..MaxDismisses]
  /\ channel \in [Ids -> Verdicts \cup {"open"}]
  /\ tool \in [Sources -> [at : {"idle", "admitted", "announce", "poll", "select", "await", "emit", "aborted"},
                           id : Ids \cup {None}]]
  /\ call \in [Callers -> [at : {"idle", "checked", "emit", "send"}, id : Ids \cup {None},
                           says : {"answered", "dismissed"}]]
  /\ cancelled \subseteq Sources
  /\ stage \in {"running", "closed", "draining", "joining", "down"}
  /\ announced \in Ids \cup {None}
  /\ unseen \in BOOLEAN /\ seen \subseteq Ids
  /\ accepted \in [Ids -> Verdicts \cup {"none"}]
  /\ outcome \in [Ids -> Verdicts \cup {"none"}]

\* Who still owes question i a message on its channel.
Debtors(i) ==
  {c \in Callers : call[c].at \in {"emit", "send"} /\ call[c].id = i}
  \cup {s \in Sources : tool[s].at = "emit" /\ tool[s].id = i}

OwnedOnce ==
  \A i \in Ids : i < next_id =>
    LET owners == Cardinality(Debtors(i)) + (IF i \in pending THEN 1 ELSE 0)
                    + (IF i \in drained THEN 1 ELSE 0)
    IN owners = IF channel[i] = "open" THEN 1 ELSE 0

\* answer_question and dismiss_question returned Ok: the tool says the same,
\* also when the turn was cancelled meanwhile.
AcceptedIsDelivered ==
  \A i \in Ids : outcome[i] # "none" =>
    outcome[i] = IF accepted[i] = "none" THEN "cancelled" ELSE accepted[i]

ClientSettles ==
  (/\ ~unseen
   /\ \A s \in Sources : tool[s].at \notin {"announce", "emit"}
   /\ \A c \in Callers : call[c].at # "emit"
   /\ call[Tui].at # "send"
   /\ drained \ {announced} = {})
  => seen = pending

NothingAskedAfterShutdown ==
  stage = "down" => pending = {} /\ \A s \in Sources : tool[s].at \in {"idle", "aborted"}

CancelledAskReturns ==
  \A s \in Sources : (s \in cancelled /\ tool[s].at # "idle") ~> (tool[s].at \in {"idle", "aborted"})

ShutdownPassesQuestions == (stage = "closed") ~> (stage = "down")

\* A question that was asked is in exactly one place until its channel has
\* an answer: in the registry, with one caller or its own tool, or with
\* shutdown.  Two owners would answer twice, none would hang the turn.  After
\* the Shutdown event none is pending and no tool waits; and a client that takes
\* a snapshot at every event agrees with the registry whenever nothing is under
\* way between a change and its event.
OneOwner == TypeOK /\ OwnedOnce /\ NothingAskedAfterShutdown /\ ClientSettles

\* A cancelled turn gets its question tool back, whoever answers meanwhile, and
\* shutdown is not held up by a question.
QuestionsEnd == CancelledAskReturns /\ ShutdownPassesQuestions

--------------------------------------------------------------------------------
(* The inductive invariant behind OneOwner and AcceptedIsDelivered.        *)

Resolving(c) == call[c].at \in {"emit", "send"}
Waits(s) == tool[s].at \in {"announce", "poll", "select"}

InHand(c, i) == Resolving(c) /\ call[c].id = i
InTool(s, i) == tool[s].at = "emit" /\ tool[s].id = i

\* A tool past the registration and a caller past its check hold an id given
\* out, the tool one of its own.
HeldInv ==
  /\ \A s \in Sources : Waits(s) \/ tool[s].at \in {"await", "emit"} =>
       tool[s].id \in Ids /\ tool[s].id < next_id /\ asker[tool[s].id] = s
  /\ \A c \in Callers : call[c].at # "idle" => call[c].id \in Ids /\ call[c].id < next_id

\* What is admitted has an id left.
RoomInv == next_id + Cardinality(Admitted) <= MaxAsks + 1

\* A pending question has a tool that waits for it or was aborted, is the only
\* one of its source, and the source may still dismiss it.
PendingInv ==
  \A i \in pending :
    /\ asker[i] \in Sources
    /\ (Waits(asker[i]) /\ tool[asker[i]].id = i) \/ tool[asker[i]].at = "aborted"
    /\ dismisses[asker[i]] < MaxDismisses
    /\ \A j \in pending : asker[j] = asker[i] => j = i

\* The four places of an open question exclude each other.
OwnerInv ==
  /\ \A i \in pending \cup drained : i < next_id /\ channel[i] = "open" /\ accepted[i] = "none"
  /\ pending \cap drained = {}
  /\ \A c \in Callers : Resolving(c) =>
       /\ channel[call[c].id] = "open" /\ accepted[call[c].id] = call[c].says
       /\ call[c].id \notin pending \cup drained
       /\ \A d \in Callers : Resolving(d) /\ call[d].id = call[c].id => d = c
  /\ \A s \in Sources : tool[s].at = "emit" =>
       /\ channel[tool[s].id] = "open" /\ accepted[tool[s].id] = "none"
       /\ tool[s].id \notin pending \cup drained

\* ... and leave none out.
PlaceInv ==
  \A i \in Ids : i < next_id /\ channel[i] = "open" =>
    \/ i \in pending \cup drained
    \/ \E c \in Callers : InHand(c, i)
    \/ \E s \in Sources : InTool(s, i)

\* What was sent is what was accepted, or else a cancellation, and what the
\* tool returned is what was sent.
ResultInv ==
  \A i \in Ids :
    /\ i >= next_id => channel[i] = "open" /\ accepted[i] = "none"
    /\ channel[i] # "open" => channel[i] = IF accepted[i] = "none" THEN "cancelled" ELSE accepted[i]
    /\ outcome[i] # "none" => channel[i] # "open" /\ outcome[i] = channel[i]

\* Shutdown holds questions only while it drains.  From then on every source is
\* cancelled, so that a question asked late never gets as far as the wait.
ShutdownInv ==
  /\ announced # None => announced \in drained
  /\ drained # {} => stage = "draining"
  /\ stage \in {"draining", "joining", "down"} =>
       /\ cancelled = Sources
       /\ \A s \in Agents : tool[s].at \in {"idle", "aborted"}
       /\ \A i \in pending : tool[asker[i]].at \in {"announce", "poll"}
  /\ stage = "down" => \A s \in Submissions : tool[s].at \in {"idle", "aborted"}

\* Without an event on its way the client's snapshot differs from the registry
\* only by the questions whose event is still to come.
ViewInv ==
  ~unseen =>
    /\ \A i \in pending \ seen : tool[asker[i]].at = "announce"
    /\ \A i \in seen \ pending :
         \/ \E c \in Callers : call[c].at = "emit" /\ call[c].id = i
         \/ \E s \in Sources : InTool(s, i)
         \/ i \in drained \ {announced}

QuestionInv ==
  TypeOK /\ HeldInv /\ RoomInv /\ PendingInv /\ OwnerInv /\ PlaceInv /\ ResultInv /\ ShutdownInv /\ ViewInv
================================================================================
