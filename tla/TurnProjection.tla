----------------------------- MODULE TurnProjection -----------------------------
(***************************************************************************)
(* tui/state/events.rs, turns.rs and transcript.rs: the transcript and the *)
(* spinner as a projection of the core's events.  The client keeps two     *)
(* views of a turn that can disagree: the events, which it handles one by  *)
(* one and possibly late, and the snapshot, which it takes of the core as  *)
(* it is when an event is handled or a key is pressed.                     *)
(*                                                                         *)
(* The core is reduced to what the client sees of it: SubmissionQueue has  *)
(* the queue.  Rows of notices, tool results and compactions are left out. *)
(***************************************************************************)
EXTENDS Naturals, Sequences, FiniteSets, SequencesExt

CONSTANTS
  MaxSubmissions,  \* bound: submissions
  MaxParts,        \* bound: deltas and tool calls of one turn
  MaxSwitches,     \* bound: session switches
  Nobody           \* no submission

ASSUME ProjectionAssumption ==
  /\ {MaxSubmissions, MaxParts, MaxSwitches} \subseteq Nat
  /\ Nobody \notin Nat

VARIABLES
  waiting,           \* submissions of the core's queue
  current,           \* SubmissionQueue.current
  turn,              \* of the worker: none, claimed, running, or the outcome it has yet to emit
  parts,             \* what the current turn has emitted
  events,            \* the client's lossless subscription
  home,              \* the conversation of each submission
  used,              \* history: turns that called a tool
  conversation,      \* the number of the current conversation
  active,            \* UiState.snapshot.active_submission
  spinner,           \* UiState.submission_started_at is set
  had_tool,          \* UiState.turn_had_tool_activity
  terminal_turn,     \* UiState.terminal_turn
  response,          \* UiState.response_submission
  prompt_text,       \* submissions with a text in UiState.prompt_text
  transcript         \* UiState.transcript: kind and submission of each row

coreOfTurns == <<waiting, current, turn, parts, used>>
turnView == <<active, spinner, had_tool, terminal_turn>>
turnVars == <<coreOfTurns, events, home, conversation, turnView, response, prompt_text, transcript>>

Event(kind, s) == [kind |-> kind, of |-> s]
Outcomes == {"completed", "cancelled", "failed"}
NoTurn == [of |-> Nobody, had_tool |-> FALSE]

TurnInit ==
  /\ waiting = <<>> /\ current = Nobody /\ turn = [at |-> "none", of |-> Nobody] /\ parts = 0
  /\ events = <<>> /\ home = <<>> /\ used = {} /\ conversation = 0
  /\ active = Nobody /\ spinner = FALSE /\ had_tool = FALSE /\ terminal_turn = NoTurn
  /\ response = Nobody /\ prompt_text = {} /\ transcript = <<>>

--------------------------------------------------------------------------------
(* The core.                                                               *)

Emit(kind, s) == events' = Append(events, Event(kind, s))
At(state, s) == turn' = [at |-> state, of |-> s]

\* enqueue_submission: accepted and queued under one lock.
Accept ==
  /\ Len(home) < MaxSubmissions  \* bound
  /\ LET s == Len(home) + 1
     IN waiting' = Append(waiting, s) /\ Emit("accepted", s)
  /\ home' = Append(home, conversation)
  /\ UNCHANGED <<current, turn, parts, used>>

\* drain_submission_queue and run_submission, as far as they are seen.
Claim ==
  /\ turn.at = "none" /\ waiting # <<>>
  /\ current' = Head(waiting) /\ waiting' = Tail(waiting)
  /\ At("claimed", Head(waiting)) /\ parts' = 0
  /\ UNCHANGED <<events, home, used>>
Start ==
  /\ turn.at = "claimed" /\ At("running", turn.of) /\ Emit("started", turn.of)
  /\ UNCHANGED <<waiting, current, parts, home, used>>
Part ==
  /\ turn.at = "running" /\ parts < MaxParts  \* bound
  /\ parts' = parts + 1
  /\ \/ Emit("text", turn.of) /\ UNCHANGED used
     \/ Emit("tool", turn.of) /\ used' = used \cup {turn.of}
  /\ UNCHANGED <<waiting, current, turn, home>>
FinishTurn ==
  /\ turn.at \in {"claimed", "running"}
  /\ \E outcome \in IF turn.at = "claimed" THEN {"cancelled"} ELSE Outcomes : At(outcome, turn.of)
  /\ current' = Nobody
  /\ UNCHANGED <<waiting, parts, events, home, used>>
EmitTerminal ==
  /\ turn.at \in Outcomes
  /\ Emit(turn.at, turn.of) /\ At("none", Nobody)
  /\ UNCHANGED <<waiting, current, parts, home, used>>

CoreStep ==
  /\ Accept \/ Claim \/ Start \/ Part \/ FinishTurn \/ EmitTerminal
  /\ UNCHANGED <<conversation, turnView, response, prompt_text, transcript>>

--------------------------------------------------------------------------------
(* The client.                                                             *)

\* capture_turn_transition, when the snapshot shows another submission than
\* before: the turn that ended keeps whether it used a tool.
FlagAfter == FALSE
Captured ==
  IF active = Nobody THEN terminal_turn ELSE [of |-> active, had_tool |-> had_tool]

\* apply_snapshot with what the core is now.
Refreshed ==
  [active |-> current,
   spinner |-> IF current = active THEN spinner ELSE current # Nobody,
   had_tool |-> IF current = active THEN had_tool ELSE FlagAfter,
   terminal_turn |-> IF current = active THEN terminal_turn ELSE Captured]
Show(v) ==
  /\ active' = v.active /\ spinner' = v.spinner
  /\ had_tool' = v.had_tool /\ terminal_turn' = v.terminal_turn

\* note_acceptance: the text of the prompt is kept for its start.
\* Mutant: its row is pushed at once.
AcceptedRowAtOnce(s) == Append(transcript, Event("prompt", s))
AcceptedRow(s) == transcript
NoteAcceptance(s) ==
  /\ Show(Refreshed)
  /\ prompt_text' = prompt_text \cup {s}
  /\ transcript' = AcceptedRow(s)
  /\ UNCHANGED response

\* start_submission.
StartsSpinner(v, s) == v.active = s
StartSubmission(s) ==
  LET v == Refreshed
  IN /\ Show([v EXCEPT !.spinner = @ \/ StartsSpinner(v, s),
                       !.had_tool = @ /\ v.active # s])
     /\ transcript' = IF s \in prompt_text THEN Append(transcript, Event("prompt", s)) ELSE transcript
     /\ response' = s
     /\ UNCHANGED prompt_text

\* append_assistant_text: a delta joins the row of the delta before it.
TextDelta(s) ==
  /\ transcript' = IF response = s /\ transcript # <<>> /\ Last(transcript).kind = "text"
                   THEN transcript ELSE Append(transcript, Event("text", s))
  /\ response' = s
  /\ UNCHANGED <<turnView, prompt_text>>

ToolCall(s) ==
  /\ had_tool' = (had_tool \/ active = s)
  /\ transcript' = Append(transcript, Event("tool", s))
  /\ UNCHANGED <<active, spinner, terminal_turn, response, prompt_text>>

\* complete_turn, and the terminal events that push no separator.
Completed(s) ==
  LET v == Refreshed
      worked == v.terminal_turn = [of |-> s, had_tool |-> TRUE]
  IN /\ Show([v EXCEPT !.terminal_turn = NoTurn])
     /\ transcript' = IF worked THEN Append(transcript, Event("separator", s)) ELSE transcript
     /\ UNCHANGED <<response, prompt_text>>
Interrupted(kind, s) ==
  /\ Show([Refreshed EXCEPT !.terminal_turn = NoTurn])
  /\ transcript' = Append(transcript, Event(kind, s))
  /\ UNCHANGED <<response, prompt_text>>

\* pump_events: one event of the subscription.  A pump ends when it finds no
\* event, or after MAX_EVENTS_PER_TICK, so a key may come between any two.
HandleEvent ==
  /\ events # <<>> /\ events' = Tail(events)
  /\ LET e == Head(events)
     IN CASE e.kind = "accepted" -> NoteAcceptance(e.of)
          [] e.kind = "started" -> StartSubmission(e.of)
          [] e.kind = "text" -> TextDelta(e.of)
          [] e.kind = "tool" -> ToolCall(e.of)
          [] e.kind = "completed" -> Completed(e.of)
          [] OTHER -> Interrupted(e.kind, e.of)
  /\ UNCHANGED <<coreOfTurns, home, conversation>>

\* Escape, Ctrl+C and other keys take a snapshot between two events.
RefreshByKey ==
  /\ Show(Refreshed)
  /\ UNCHANGED <<coreOfTurns, events, home, conversation, response, prompt_text, transcript>>

\* start_new_session and resume_session: the core allows it when nothing is
\* queued or running; clear_conversation, then a snapshot.
SwitchConversation ==
  /\ conversation < MaxSwitches  \* bound
  /\ waiting = <<>> /\ current = Nobody
  /\ conversation' = conversation + 1
  /\ transcript' = <<>> /\ prompt_text' = {} /\ response' = Nobody
  /\ active' = Nobody /\ spinner' = FALSE /\ had_tool' = FALSE
  /\ terminal_turn' = IF active = Nobody THEN NoTurn ELSE [of |-> active, had_tool |-> FALSE]
  /\ UNCHANGED <<coreOfTurns, events, home>>

ClientStep == HandleEvent \/ RefreshByKey \/ SwitchConversation

TurnNext == CoreStep \/ ClientStep

--------------------------------------------------------------------------------
(* Properties.                                                             *)

Here(s) == home[s] = conversation
PromptBefore(s, i) ==
  \E j \in 1..(i - 1) :
    /\ transcript[j] = Event("prompt", s)
    /\ \A k \in (j + 1)..(i - 1) : transcript[k].kind # "prompt"

OutputUnderItsPrompt ==
  \A i \in DOMAIN transcript :
    Here(transcript[i].of) /\ transcript[i].kind \in {"text", "tool", "separator"}
    => PromptBefore(transcript[i].of, i)

SeparatorOnlyAfterTools ==
  \A i \in DOMAIN transcript : transcript[i].kind = "separator" => transcript[i].of \in used

SpinnerEnds ==
  current = Nobody /\ events = <<>> /\ turn.at = "none" => ~spinner /\ active = Nobody

\* However late the client is with the events, and however far its snapshots
\* are ahead of them, no assistant output is misplaced: what a turn of this
\* conversation said and did stands under its own prompt, and a turn ends with
\* the separator of work only when it called a tool.  A client that has handled
\* every event of a core at rest shows no spinner and no active turn.
TranscriptFollowsTurns == OutputUnderItsPrompt /\ SeparatorOnlyAfterTools /\ SpinnerEnds

--------------------------------------------------------------------------------
(* The inductive invariant behind it: what the queue of events and the     *)
(* client's state say together of a turn.                                  *)

Submissions == 1..Len(home)
Places == {"none", "claimed", "running"} \cup Outcomes
EventKinds == {"accepted", "started", "text", "tool"} \cup Outcomes
RowKinds == {"prompt", "text", "tool", "separator", "cancelled", "failed"}

ProjectionType ==
  /\ waiting \in Seq(Submissions) /\ current \in Submissions \cup {Nobody}
  /\ turn \in [at : Places, of : Submissions \cup {Nobody}] /\ (turn.at # "none" => turn.of \in Submissions)
  /\ events \in Seq([kind : EventKinds, of : Submissions])
  /\ transcript \in Seq([kind : RowKinds, of : Submissions])
  /\ home \in Seq(Nat) /\ conversation \in Nat /\ \A s \in Submissions : home[s] <= conversation
  /\ active \in Submissions \cup {Nobody} /\ {spinner, had_tool} \subseteq BOOLEAN
  /\ terminal_turn \in [of : Submissions \cup {Nobody}, had_tool : BOOLEAN]

\* The text of a prompt is known when its turn starts.
IsAnnounced(s, n) == s \in prompt_text \/ \E j \in 1..(n - 1) : events[j] = Event("accepted", s)
PromptIsKnown ==
  /\ \A s \in Submissions : Here(s) => IsAnnounced(s, Len(events) + 1)
  /\ \A i \in DOMAIN events : events[i].kind = "started" /\ Here(events[i].of) => IsAnnounced(events[i].of, i)

\* Once the first n - 1 events are handled, the last prompt shown is that of s.
Leads(s, n) ==
  \/ \E j \in 1..(n - 1) : /\ events[j] = Event("started", s)
                           /\ \A k \in (j + 1)..(n - 1) : events[k].kind # "started"
  \/ /\ PromptBefore(s, Len(transcript) + 1)
     /\ \A k \in 1..(n - 1) : events[k].kind # "started"
OutputIsLed ==
  /\ \A i \in DOMAIN events :
       events[i].kind \in {"text", "tool", "completed"} /\ Here(events[i].of) => Leads(events[i].of, i)
  /\ turn.at \in {"running", "completed"} /\ Here(turn.of) => Leads(turn.of, Len(events) + 1)

\* A tool flag is that of a turn that called a tool.
FlagsAreOfTools ==
  /\ had_tool => active \in used
  /\ terminal_turn.had_tool => terminal_turn.of \in used
  /\ \A i \in DOMAIN events : events[i].kind = "tool" => events[i].of \in used

\* An event that makes the client look at the core again is on its way.
LooksAgain ==
  /\ spinner => active # Nobody
  /\ active # current => \/ turn.at \in {"claimed"} \cup Outcomes
                         \/ \E i \in DOMAIN events : events[i].kind \notin {"text", "tool"}
  /\ current # Nobody => current = turn.of /\ turn.at \in {"claimed", "running"}

ProjectionInv ==
  /\ ProjectionType /\ PromptIsKnown /\ OutputIsLed /\ FlagsAreOfTools /\ LooksAgain
  /\ OutputUnderItsPrompt /\ SeparatorOnlyAfterTools
================================================================================
