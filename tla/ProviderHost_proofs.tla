--------------------------- MODULE ProviderHost_proofs ---------------------------
(***************************************************************************)
(* Theorems about ProviderHost for every set of calls and any number of    *)
(* processes and faults.                                                   *)
(***************************************************************************)
EXTENDS ProviderHost, TLAPS

\* None is no process, no call and no answer.
LEMMA NoneIsNothing ==
  None \notin Calls /\ None \notin Processes /\ None \notin Responses
BY HostAssumption DEF Processes, Responses

--------------------------------------------------------------------------------
(* What becomes of a call's record s, as the record r.                     *)

Identity(r, s) == r.kind = s.kind /\ r.id = s.id
Place(r, s) ==
  r.at = s.at /\ r.job = s.job /\ r.proc = s.proc /\ r.cancels = s.cancels /\ r.idle = s.idle
Progress(r, s) == r.response = s.response /\ r.completed = s.completed

\* The call goes on at another place, perhaps with another process.
MovesOn(r, s, place, p, idle) ==
  /\ Identity(r, s) /\ Progress(r, s) /\ r.got = s.got /\ r.events = s.events
  /\ r.job = s.job /\ r.cancels = s.cancels
  /\ r.at = place /\ r.proc = p /\ r.idle = idle

\* The call has nothing to wait for.
AtRest(r) ==
  /\ r.at = "done" /\ r.job = "send" /\ r.proc = None /\ r.cancels = 0 /\ r.idle = FALSE
  /\ r.got = None /\ r.events = <<>> /\ r.response = FALSE

\* The call returns.
Returns(r, s) ==
  Identity(r, s) /\ AtRest(r) /\ r.completed = (s.completed /\ s.response)

\* The call becomes the cancellation of its own chat.
Cancels(r, s) ==
  /\ Identity(r, s) /\ r.at = "pick" /\ r.job = "cancel" /\ r.proc = None /\ r.idle = FALSE
  /\ r.got = None /\ r.events = <<>> /\ r.response = FALSE /\ r.completed = FALSE

\* A cancellation is over: the call returns, or cancels its chat once more.
Ends(r, s) == Returns(r, s) \/ (Cancels(r, s) /\ s.cancels > 1)

\* The call is told of the end of its routes, and is at the place given.
Hears(r, s, response, event, place) ==
  /\ Identity(r, s) /\ Progress(r, s)
  /\ r.at = place /\ r.job = s.job /\ r.proc = s.proc /\ r.cancels = s.cancels /\ r.idle = s.idle
  /\ IF response /\ Listening(s) THEN r.got = "error" ELSE r.got = s.got
  /\ IF event /\ Listening(s) THEN r.events # <<>> ELSE r.events = s.events

\* No other call changes.
Only(c) == \A d \in Calls : d # c => calls'[d] = calls[d]

\* An update of a call's place, process and idle mark is what MovesOn says.
LEMMA Moved ==
  ASSUME NEW s \in CallType,
         NEW place \in {"pick", "publish", "enter", "write", "wait", "fail", "kill"},
         NEW p \in Processes \cup {None}, NEW idle \in BOOLEAN
  PROVE  /\ [s EXCEPT !.at = place, !.proc = p, !.idle = idle] \in CallType
         /\ MovesOn([s EXCEPT !.at = place, !.proc = p, !.idle = idle], s, place, p, idle)
         /\ [s EXCEPT !.at = place, !.proc = p] \in CallType
         /\ MovesOn([s EXCEPT !.at = place, !.proc = p], s, place, p, s.idle)
         /\ [s EXCEPT !.at = place] \in CallType
         /\ MovesOn([s EXCEPT !.at = place], s, place, s.proc, s.idle)
<1>1. /\ [s EXCEPT !.at = place, !.proc = p, !.idle = idle] \in CallType
      /\ [s EXCEPT !.at = place, !.proc = p] \in CallType
      /\ [s EXCEPT !.at = place] \in CallType
  <2> DEFINE there == [s EXCEPT !.at = place]
             held == [there EXCEPT !.proc = p]
  <2>1. there \in CallType
    BY SMTT(40) DEF CallType
  <2>2. /\ [s EXCEPT !.at = place, !.proc = p] = held
        /\ [s EXCEPT !.at = place, !.proc = p, !.idle = idle] = [held EXCEPT !.idle = idle]
    OBVIOUS
  <2> HIDE DEF there
  <2>3. held \in CallType
    BY <2>1, SMTT(40) DEF CallType
  <2>4. there = [s EXCEPT !.at = place]
    BY DEF there
  <2> HIDE DEF held
  <2>5. [held EXCEPT !.idle = idle] \in CallType
    BY <2>3, SMTT(40) DEF CallType
  <2> QED BY <2>1, <2>2, <2>3, <2>4, <2>5
<1>2. MovesOn([s EXCEPT !.at = place, !.proc = p, !.idle = idle], s, place, p, idle)
  BY DEF CallType, MovesOn, Identity, Progress, AtRest
<1>3. MovesOn([s EXCEPT !.at = place, !.proc = p], s, place, p, s.idle)
  BY DEF CallType, MovesOn, Identity, Progress, AtRest
<1>4. MovesOn([s EXCEPT !.at = place], s, place, s.proc, s.idle)
  BY DEF CallType, MovesOn, Identity, Progress, AtRest
<1> QED BY <1>1, <1>2, <1>3, <1>4

\* The fields of Fresh.
LEMMA FreshFields ==
  Fresh \in [kind : {"new"}, at : {"new"}, job : {"send"}, id : {None}, proc : {None}, got : {None},
             events : Seq(Terminal \cup {"error"}), response : BOOLEAN, completed : BOOLEAN,
             cancelled : BOOLEAN, cancels : Nat, idle : BOOLEAN]
<1>1. <<>> \in Seq(Terminal \cup {"error"})
  OBVIOUS
<1> QED BY <1>1 DEF Fresh

\* Returned (a call's receivers are dropped) is what Returns says.
LEMMA HasReturned ==
  ASSUME NEW s \in CallType
  PROVE  Returned(s) \in CallType /\ Returns(Returned(s), s)
<1> DEFINE complete == s.completed /\ s.response
<1>1. /\ s.kind \in {"new", "request", "chat", "cancel"} /\ s.id \in Calls
      /\ complete \in BOOLEAN /\ s.cancelled \in BOOLEAN
  BY DEF CallType
<1>2. Returned(s) = [Fresh EXCEPT !.kind = s.kind, !.at = "done", !.id = s.id,
                                  !.cancelled = s.cancelled, !.completed = complete]
  BY DEF Returned
<1>3. Returns(Returned(s), s)
  BY DEF Returned, Fresh, Returns, Identity, Progress, AtRest
<1> HIDE DEF complete
<1>4. Returned(s) \in CallType
  BY <1>1, <1>2, FreshFields DEF CallType
<1> QED BY <1>3, <1>4

\* CancelsItself (the cancellation a chat sends for itself) is what Cancels says.
LEMMA HasCancelled ==
  ASSUME NEW s \in CallType, NEW n \in Nat
  PROVE  CancelsItself(s, n) \in CallType /\ Cancels(CancelsItself(s, n), s)
<1>1. /\ s.kind \in {"new", "request", "chat", "cancel"} /\ s.id \in Calls
      /\ s.cancelled \in BOOLEAN
  BY DEF CallType
<1>2. CancelsItself(s, n) \in CallType
  BY <1>1, FreshFields DEF CancelsItself, CallType
<1>3. Cancels(CancelsItself(s, n), s)
  BY <1>1 DEF CancelsItself, Fresh, Cancels, Identity, Progress, AtRest
<1> QED BY <1>2, <1>3

\* Ended (the end of a cancellation) is what Ends says.
LEMMA HasEnded ==
  ASSUME NEW s \in CallType
  PROVE  Ended(s) \in CallType /\ Ends(Ended(s), s)
<1>1. CASE s.cancels > 1
  <2>1. s.cancels \in Nat /\ s.cancels - 1 \in Nat
    BY <1>1 DEF CallType
  <2>2. Ended(s) = CancelsItself(s, s.cancels - 1)
    BY <1>1 DEF Ended
  <2> QED BY <1>1, <2>1, <2>2, HasCancelled DEF Ends
<1>2. CASE ~(s.cancels > 1)
  BY <1>2, HasReturned DEF Ended, Ends
<1> QED BY <1>1, <1>2

\* Delivered (the error sent along the routes of a failed process) is what Hears says,
\* for every call.
LEMMA HasHeard ==
  ASSUME StateType, NEW rs \in SUBSET Calls, NEW ss \in SUBSET Calls
  PROVE  /\ Delivered(rs, ss) \in [Calls -> CallType]
         /\ \A c \in Calls : Hears(Delivered(rs, ss)[c], calls[c], c \in rs, c \in ss, calls[c].at)
<1> SUFFICES ASSUME NEW c \in Calls
             PROVE  /\ Delivered(rs, ss)[c] \in CallType
                    /\ Hears(Delivered(rs, ss)[c], calls[c], c \in rs, c \in ss, calls[c].at)
  <2>1. Delivered(rs, ss) = [c \in Calls |-> Delivered(rs, ss)[c]]
    BY DEF Delivered
  <2> QED BY <2>1
<1> DEFINE s == calls[c]
           got == IF c \in rs THEN "error" ELSE s.got
           events == IF c \in ss THEN Append(s.events, "error") ELSE s.events
<1>1. s \in CallType
  BY DEF StateType
<1>2. Delivered(rs, ss)[c] = IF ~Listening(s) THEN s ELSE [s EXCEPT !.got = got, !.events = events]
  BY DEF Delivered
<1>3. got \in Responses \cup {None} /\ (c \in rs => got = "error") /\ (c \notin rs => got = s.got)
  BY <1>1 DEF CallType, Responses
<1>4. /\ events \in Seq(Terminal \cup {"error"}) /\ (c \in ss => events # <<>>)
      /\ (c \notin ss => events = s.events)
  <2>1. s.events \in Seq(Terminal \cup {"error"}) /\ "error" \in Terminal \cup {"error"}
    BY <1>1 DEF CallType
  <2> QED BY <2>1
<1> HIDE DEF got, events
<1>5. CASE ~Listening(s)
  BY <1>1, <1>2, <1>5 DEF Hears, Identity, Progress, AtRest
<1>6. CASE Listening(s)
  <2>1. Delivered(rs, ss)[c] = [s EXCEPT !.got = got, !.events = events]
    BY <1>2, <1>6
  <2>2. Delivered(rs, ss)[c] \in CallType
    BY <1>1, <1>3, <1>4, <2>1 DEF CallType
  <2> QED BY <1>1, <1>3, <1>4, <1>6, <2>1, <2>2 DEF CallType, Hears, Identity, Progress, AtRest
<1> QED BY <1>5, <1>6

\* An update of one call leaves the others.
LEMMA Updated ==
  ASSUME StateType, NEW c \in Calls, NEW r \in CallType, Update(c, r)
  PROVE  calls' \in [Calls -> CallType] /\ calls'[c] = r /\ Only(c)
BY DEF StateType, Update, Only

--------------------------------------------------------------------------------
(* What a step does to the rest of the state, field by field.               *)
LifeKept == is_shutdown' = is_shutdown /\ current' = current /\ stopping' = stopping
RoutesKept == failed' = failed /\ pending' = pending /\ streams' = streams
SentKept == accepted' = accepted /\ told' = told
ChildKept == child' = child /\ reader' = reader
OthersKept == LifeKept /\ RoutesKept /\ SentKept /\ ChildKept

\* One process' entry of a function changes.
Sets(new, old, p, value) == new[p] = value /\ \A q \in Processes : q # p => new[q] = old[q]

\* FailPending, and what it sends along the routes.
FailsRoutes(p) ==
  /\ Sets(failed', failed, p, TRUE) /\ Sets(pending', pending, p, {}) /\ Sets(streams', streams, p, {})
Heard(d, p, place) == Hears(calls'[d], calls[d], d \in pending[p], d \in streams[p], place)

--------------------------------------------------------------------------------
(* The effects of the steps.                                                *)
Begins(c) ==
  /\ OthersKept /\ Only(c)
  /\ calls[c].at = "new" /\ calls'[c].at = "pick" /\ calls'[c].kind \in {"request", "chat"}
  /\ LET r == calls'[c]  s == calls[c] IN
     /\ r.id = s.id /\ r.job = s.job /\ r.proc = s.proc /\ r.cancels = s.cancels /\ r.idle = s.idle
     /\ Progress(r, s) /\ r.got = s.got /\ r.events = s.events

\* A cancellation of the chat t, which may have nothing to send.
BeginsCancel(c, t) ==
  /\ OthersKept /\ \A d \in Calls : d \notin {c, t} => calls'[d] = calls[d]
  /\ t # c /\ calls[t].kind = "chat" /\ calls[c].at = "new"
  /\ LET r == calls'[t]  s == calls[t] IN
     Identity(r, s) /\ Place(r, s) /\ Progress(r, s) /\ r.got = s.got /\ r.events = s.events
  /\ LET r == calls'[c]  s == calls[c] IN
     /\ r.kind = "cancel" /\ r.id = t
     /\ \/ /\ r.at = "pick" /\ r.job = "cancel" /\ r.proc = s.proc /\ r.cancels = s.cancels
           /\ r.idle = s.idle /\ Progress(r, s) /\ r.got = s.got /\ r.events = s.events
        \/ AtRest(r) /\ r.completed = (s.completed /\ s.response)

Enters(c) ==
  /\ OthersKept /\ Only(c) /\ calls[c].at = "pick"
  /\ ~is_shutdown /\ current # None /\ ~failed[current]
  /\ MovesOn(calls'[c], calls[c], "enter", current, calls[c].idle)

FindsNone(c) ==
  /\ OthersKept /\ Only(c) /\ calls[c].at = "pick" /\ Ends(calls'[c], calls[c])
  /\ ~is_shutdown => current = None \/ failed[current]

Starts(c, p) ==
  /\ LifeKept /\ RoutesKept /\ SentKept /\ reader' = reader /\ Only(c)
  /\ calls[c].at = "pick" /\ ~is_shutdown /\ (current # None => failed[current])
  /\ child[p] = "none" /\ Sets(child', child, p, "running")
  /\ MovesOn(calls'[c], calls[c], "publish", p, calls[c].idle)

\* The process p that c started is not wanted.
PublishLost(c, p) ==
  /\ LifeKept /\ pending' = pending /\ streams' = streams /\ SentKept /\ reader' = reader /\ Only(c)
  /\ calls[c].at = "publish" /\ calls[c].proc = p
  /\ Sets(failed', failed, p, TRUE) /\ Sets(child', child, p, "killed")
  /\ \/ is_shutdown /\ Ends(calls'[c], calls[c])
     \/ /\ ~is_shutdown /\ current # None /\ ~failed[current]
        /\ MovesOn(calls'[c], calls[c], "enter", current, calls[c].idle)

PublishWon(c, p) ==
  /\ is_shutdown' = is_shutdown /\ stopping' = stopping /\ RoutesKept /\ SentKept /\ ChildKept /\ Only(c)
  /\ calls[c].at = "publish" /\ calls[c].proc = p
  /\ ~is_shutdown /\ (current # None => failed[current]) /\ current' = p
  /\ MovesOn(calls'[c], calls[c], "enter", p, calls[c].idle)

RegisterRefused(c, p) ==
  /\ OthersKept /\ Only(c) /\ calls[c].at = "enter" /\ calls[c].job = "send"
  /\ calls[c].proc = p /\ failed[p] /\ Returns(calls'[c], calls[c])

Registers(c, p) ==
  /\ LifeKept /\ failed' = failed /\ SentKept /\ ChildKept /\ Only(c)
  /\ calls[c].at = "enter" /\ calls[c].job = "send" /\ calls[c].proc = p /\ ~failed[p]
  /\ Sets(pending', pending, p, pending[p] \cup {c})
  /\ IF calls[c].kind = "chat" THEN Sets(streams', streams, p, streams[p] \cup {c})
     ELSE streams' = streams
  /\ MovesOn(calls'[c], calls[c], "write", p, calls[c].idle)

\* The routes of the chat t go, and it is told.
Unroutes(c, p, t) ==
  /\ LifeKept /\ failed' = failed /\ SentKept /\ ChildKept
  /\ calls[c].at = "enter" /\ calls[c].job = "cancel" /\ calls[c].proc = p /\ calls[c].id = t
  /\ Sets(pending', pending, p, pending[p] \ {t}) /\ Sets(streams', streams, p, streams[p] \ {t})
  /\ \A d \in Calls : d # c =>
       Hears(calls'[d], calls[d], d \in pending[p] \cap {t}, d \in streams[p] \cap {t}, calls[d].at)
  /\ IF failed[p] THEN Ends(calls'[c], calls[c])
     ELSE MovesOn(calls'[c], calls[c], "write", p, calls[c].idle)

WriteBroken(c, p) ==
  /\ OthersKept /\ Only(c) /\ calls[c].at = "write" /\ calls[c].proc = p
  /\ child[p] # "running"
  /\ MovesOn(calls'[c], calls[c], "fail", p, calls[c].idle)

Sends(c, p) ==
  /\ LifeKept /\ RoutesKept /\ told' = told /\ ChildKept /\ Only(c)
  /\ calls[c].at = "write" /\ calls[c].proc = p /\ child[p] = "running" /\ calls[c].job = "send"
  /\ Sets(accepted', accepted, p, accepted[p] \cup {c})
  /\ MovesOn(calls'[c], calls[c], "wait", p, calls[c].idle)

Tells(c, p, t) ==
  /\ LifeKept /\ RoutesKept /\ accepted' = accepted /\ ChildKept /\ Only(c)
  /\ calls[c].at = "write" /\ calls[c].proc = p /\ child[p] = "running" /\ calls[c].job = "cancel"
  /\ calls[c].id = t /\ Sets(told', told, p, told[p] \cup {t})
  /\ Ends(calls'[c], calls[c])

\* A call that failed its process goes on: an idle chat cancels itself.
Resumes(c) ==
  \/ calls[c].idle /\ Cancels(calls'[c], calls[c])
  \/ ~calls[c].idle /\ Ends(calls'[c], calls[c])

FoundFailed(c, p) ==
  /\ OthersKept /\ Only(c) /\ calls[c].at = "fail" /\ calls[c].proc = p /\ failed[p] /\ Resumes(c)

Fails(c, p) ==
  /\ LifeKept /\ FailsRoutes(p) /\ SentKept /\ ChildKept
  /\ calls[c].at = "fail" /\ calls[c].proc = p /\ ~failed[p]
  /\ \A d \in Calls : Heard(d, p, IF d = c THEN "kill" ELSE calls[d].at)

Kills(c, p) ==
  /\ LifeKept /\ RoutesKept /\ SentKept /\ reader' = reader /\ Only(c)
  /\ calls[c].at = "kill" /\ calls[c].proc = p /\ Sets(child', child, p, "killed") /\ Resumes(c)

Answered(c) ==
  /\ OthersKept /\ Only(c) /\ calls[c].at = "wait" /\ calls[c].kind = "request" /\ calls[c].got # None
  /\ Returns(calls'[c], calls[c])

TimesOut(c) ==
  /\ OthersKept /\ Only(c) /\ calls[c].at = "wait" /\ calls[c].kind = "request" /\ calls[c].got = None
  /\ MovesOn(calls'[c], calls[c], "fail", calls[c].proc, calls[c].idle)

Abandons(c) ==
  /\ OthersKept /\ Only(c) /\ calls[c].at = "wait" /\ calls[c].kind = "chat"
  /\ Cancels(calls'[c], calls[c])

\* The chat has one more thing it waits for, and goes on or is complete.
Collects(c) ==
  /\ OthersKept /\ Only(c) /\ calls[c].at = "wait" /\ calls[c].kind = "chat"
  /\ LET r == calls'[c]  s == calls[c] IN
     /\ Identity(r, s)
     /\ r.completed => s.completed \/ s.events # <<>>
     /\ \/ /\ Place(r, s) /\ r.got = s.got
           /\ r.response => s.got # None
           /\ s.completed => r.completed
           /\ r.events = s.events \/ r.completed
        \/ AtRest(r) /\ r.completed = TRUE /\ s.got # None

GrowsIdle(c) ==
  /\ OthersKept /\ Only(c) /\ calls[c].at = "wait" /\ calls[c].kind = "chat" /\ current # None
  /\ MovesOn(calls'[c], calls[c], "fail", current, TRUE)

Answers(p, c) ==
  /\ LifeKept /\ failed' = failed /\ streams' = streams /\ SentKept /\ ChildKept /\ Only(c)
  /\ c \in accepted[p] /\ c \in pending[p] /\ Sets(pending', pending, p, pending[p] \ {c})
  /\ LET r == calls'[c]  s == calls[c] IN
     Identity(r, s) /\ Place(r, s) /\ Progress(r, s) /\ r.events = s.events
  /\ IF Listening(calls[c]) THEN calls'[c].got \in Responses ELSE calls'[c].got = calls[c].got

TakesEvent(p, c) ==
  /\ LifeKept /\ failed' = failed /\ pending' = pending /\ SentKept /\ child' = child /\ calls' = calls
  /\ child[p] # "none" /\ reader[p].at = "reading" /\ c \in accepted[p] /\ c \in streams[p]
  /\ Sets(streams', streams, p, streams[p] \ {c})
  /\ reader'[p].at = "routing" /\ reader'[p].id = c /\ reader'[p].what \in Terminal
  /\ \A q \in Processes : q # p => reader'[q] = reader[q]

SendsEvent(p, c) ==
  /\ LifeKept /\ RoutesKept /\ SentKept /\ child' = child /\ Only(c)
  /\ reader[p].at = "routing" /\ reader[p].id = c /\ reader'[p].at = "reading"
  /\ \A q \in Processes : q # p => reader'[q] = reader[q]
  /\ LET r == calls'[c]  s == calls[c] IN
     Identity(r, s) /\ Place(r, s) /\ Progress(r, s) /\ r.got = s.got
  /\ IF Listening(calls[c]) THEN calls'[c].events # <<>> ELSE calls'[c].events = calls[c].events

ReaderStops(p) ==
  /\ LifeKept /\ RoutesKept /\ SentKept /\ child' = child /\ calls' = calls
  /\ child[p] # "none" /\ reader[p].at = "reading" /\ failed[p] /\ reader'[p].at = "ended"
  /\ \A q \in Processes : q # p => reader'[q] = reader[q]

ReaderFails(p) ==
  /\ LifeKept /\ FailsRoutes(p) /\ SentKept /\ child' = child
  /\ child[p] # "none" /\ reader[p].at = "reading" /\ ~failed[p] /\ reader'[p].at = "failing"
  /\ \A q \in Processes : q # p => reader'[q] = reader[q]
  /\ \A d \in Calls : Heard(d, p, calls[d].at)

ReaderKilled(p) ==
  /\ LifeKept /\ RoutesKept /\ SentKept /\ calls' = calls
  /\ reader[p].at = "failing" /\ reader'[p].at = "ended" /\ Sets(child', child, p, "killed")
  /\ \A q \in Processes : q # p => reader'[q] = reader[q]

Dies(p) ==
  /\ LifeKept /\ RoutesKept /\ SentKept /\ reader' = reader /\ calls' = calls
  /\ child[p] = "running" /\ Sets(child', child, p, "exited")

Waits == OthersKept /\ calls' = calls

ShutsDown ==
  /\ RoutesKept /\ SentKept /\ ChildKept /\ calls' = calls
  /\ stopping.at = "up" /\ is_shutdown' /\ current' = None
  /\ stopping'.at = (IF current = None THEN "down" ELSE "notice") /\ stopping'.proc = current

StopMoves(from, to) ==
  stopping.at = from /\ stopping'.at = to /\ stopping'.proc = stopping.proc
StopNotified ==
  /\ is_shutdown' = is_shutdown /\ current' = current /\ RoutesKept /\ SentKept /\ ChildKept
  /\ calls' = calls /\ StopMoves("notice", "fail")
StopFails(p) ==
  /\ is_shutdown' = is_shutdown /\ current' = current /\ FailsRoutes(p) /\ SentKept /\ ChildKept
  /\ StopMoves("fail", "kill") /\ stopping.proc = p
  /\ \A d \in Calls : Heard(d, p, calls[d].at)
StopKills(p) ==
  /\ is_shutdown' = is_shutdown /\ current' = current /\ RoutesKept /\ SentKept /\ reader' = reader
  /\ calls' = calls /\ StopMoves("kill", "down") /\ stopping.proc = p
  /\ Sets(child', child, p, "killed")

\* What a call does, by the part of the code it is in.
Picking(c) ==
  \/ Begins(c) \/ (\E t \in Calls : BeginsCancel(c, t))
  \/ Enters(c) \/ FindsNone(c)
  \/ \E p \in Processes : Starts(c, p) \/ PublishLost(c, p) \/ PublishWon(c, p)
Writing(c) ==
  \/ \E p \in Processes : \/ RegisterRefused(c, p) \/ Registers(c, p)
                          \/ \E t \in Calls : Unroutes(c, p, t) \/ Tells(c, p, t)
                          \/ WriteBroken(c, p) \/ Sends(c, p)
Waiting(c) ==
  \/ \E p \in Processes : FoundFailed(c, p) \/ Fails(c, p) \/ Kills(c, p)
  \/ Answered(c) \/ TimesOut(c) \/ Abandons(c) \/ Collects(c) \/ GrowsIdle(c)
Reads(p) ==
  \/ \E c \in Calls : Answers(p, c) \/ TakesEvent(p, c) \/ SendsEvent(p, c)
  \/ ReaderStops(p) \/ ReaderFails(p) \/ ReaderKilled(p) \/ Dies(p)
Stopping == ShutsDown \/ StopNotified \/ \E p \in Processes : StopFails(p) \/ StopKills(p)

Step ==
  \/ \E c \in Calls : Picking(c) \/ Writing(c) \/ Waiting(c)
  \/ \E p \in Processes : Reads(p)
  \/ Stopping \/ Waits

--------------------------------------------------------------------------------
(* Every step has one of the effects.                                       *)

\* The call c becomes r and nothing else changes, faults and the pipe apart.
LEMMA Alone ==
  ASSUME StateType, NEW c \in Calls, NEW r \in CallType, Update(c, r), faults' \in Nat,
         UNCHANGED <<lifeVars, routeVars, io, child, reader, hung, accepted, told>>
  PROVE  StateType' /\ OthersKept /\ Only(c) /\ calls'[c] = r
<1>1. calls' \in [Calls -> CallType] /\ calls'[c] = r /\ Only(c)
  BY Updated
<1>2. OthersKept
  BY DEF lifeVars, routeVars, OthersKept, LifeKept, RoutesKept, SentKept, ChildKept
<1>3. io' = io /\ hung' = hung
  OBVIOUS
<1>4. StateType'
  BY <1>1, <1>2, <1>3 DEF StateType, OthersKept, LifeKept, RoutesKept, SentKept, ChildKept
<1> QED BY <1>1, <1>2, <1>4

\* The same, with an update of the call alone.
LEMMA AloneBecomes ==
  ASSUME StateType, NEW c \in Calls, NEW r \in CallType, Becomes(c, r)
  PROVE  StateType' /\ OthersKept /\ Only(c) /\ calls'[c] = r
<1>1. faults' \in Nat /\ UNCHANGED <<lifeVars, routeVars, io, child, reader, hung, accepted, told>>
  BY DEF Becomes, providerVars, StateType
<1> QED BY <1>1, Alone DEF Becomes

\* FailPending and what is delivered then.
LEMMA RoutesFail ==
  ASSUME StateType, NEW p \in Processes, FailPending(p)
  PROVE  /\ FailsRoutes(p)
         /\ failed' \in [Processes -> BOOLEAN]
         /\ pending' \in [Processes -> SUBSET Calls] /\ streams' \in [Processes -> SUBSET Calls]
         /\ pending[p] \in SUBSET Calls /\ streams[p] \in SUBSET Calls
<1>1. /\ failed \in [Processes -> BOOLEAN] /\ pending \in [Processes -> SUBSET Calls]
      /\ streams \in [Processes -> SUBSET Calls]
  BY DEF StateType
<1>2. Sets(failed', failed, p, TRUE) /\ failed' \in [Processes -> BOOLEAN]
  BY <1>1 DEF FailPending, Sets
<1>3. Sets(pending', pending, p, {}) /\ pending' \in [Processes -> SUBSET Calls]
  BY <1>1 DEF FailPending, Sets
<1>4. Sets(streams', streams, p, {}) /\ streams' \in [Processes -> SUBSET Calls]
  BY <1>1 DEF FailPending, Sets
<1> QED BY <1>1, <1>2, <1>3, <1>4 DEF FailsRoutes

\* A call begins; the only other call it touches is the chat it cancels.
LEMMA BeginEffect ==
  ASSUME StateType, CallInv, NEW c \in Calls, NEW kind \in Kinds[c], Begin(c, kind)
  PROVE  StateType' /\ Picking(c)
<1> DEFINE s == calls[c]
<1>1. s \in CallType /\ s.at = "new" /\ kind \in {"request", "chat", "cancel"}
  BY HostAssumption DEF StateType, Begin, At
<1>2. /\ UNCHANGED <<is_shutdown, current, stopping, failed, pending, streams, io, child, reader>>
      /\ UNCHANGED <<hung, accepted, told, faults>>
  BY DEF Begin, lifeVars, routeVars, providerVars
<1>3. OthersKept
  BY <1>2 DEF OthersKept, LifeKept, RoutesKept, SentKept, ChildKept
<1>4. calls' \in [Calls -> CallType] => StateType'
  BY <1>2 DEF StateType
<1>5. CASE kind # "cancel" /\ Update(c, [s EXCEPT !.kind = kind, !.at = "pick"])
  <2> DEFINE r == [s EXCEPT !.kind = kind, !.at = "pick"]
  <2>1. r \in CallType
    BY <1>1 DEF CallType
  <2>2. /\ r.kind = kind /\ r.at = "pick" /\ r.id = s.id /\ r.job = s.job /\ r.proc = s.proc
        /\ r.cancels = s.cancels /\ r.idle = s.idle /\ Progress(r, s)
        /\ r.got = s.got /\ r.events = s.events
    BY <1>1 DEF CallType, Progress
  <2> HIDE DEF r
  <2>3. calls' \in [Calls -> CallType] /\ calls'[c] = r /\ Only(c)
    BY <1>5, <2>1, Updated DEF r
  <2>4. Begins(c)
    BY <1>1, <1>3, <1>5, <2>2, <2>3 DEF Begins
  <2> QED BY <1>4, <2>3, <2>4 DEF Picking
<1>6. ASSUME NEW t \in Calls, kind = "cancel", calls[t].kind = "chat",
             calls' = [calls EXCEPT ![t].cancelled = TRUE,
               ![c] = IF Collecting(calls[t]) THEN [[s EXCEPT !.kind = kind, !.job = "cancel", !.id = t]
                         EXCEPT !.at = "pick"]
                      ELSE Returned([s EXCEPT !.kind = kind, !.job = "cancel", !.id = t])]
      PROVE  StateType' /\ Picking(c)
  <2> DEFINE x == [s EXCEPT !.kind = kind, !.job = "cancel", !.id = t]
             y == [x EXCEPT !.at = "pick"]
             r == IF Collecting(calls[t]) THEN y ELSE Returned(x)
             u == [calls[t] EXCEPT !.cancelled = TRUE]
  <2>1. x \in CallType
    BY <1>1 DEF CallType
  <2>2. /\ x.kind = "cancel" /\ x.at = "new" /\ x.id = t /\ x.job = "cancel" /\ x.proc = s.proc
        /\ x.cancels = s.cancels /\ x.idle = s.idle /\ Progress(x, s)
        /\ x.got = s.got /\ x.events = s.events
    BY <1>1, <1>6 DEF CallType, Progress
  <2>0. calls[t] \in CallType
    BY DEF StateType
  <2>3. /\ u \in CallType /\ Identity(u, calls[t]) /\ Place(u, calls[t]) /\ Progress(u, calls[t])
        /\ u.got = calls[t].got /\ u.events = calls[t].events
    BY <2>0 DEF CallType, Identity, Place, Progress
  <2> HIDE DEF x, u
  <2>4. y \in CallType /\ MovesOn(y, x, "pick", x.proc, x.idle)
    BY <2>1, Moved
  <2>5. Returned(x) \in CallType /\ Returns(Returned(x), x)
    BY <2>1, HasReturned
  <2> HIDE DEF y
  <2>6. r \in CallType /\ r.kind = "cancel" /\ r.id = t
        /\ \/ /\ r.at = "pick" /\ r.job = "cancel" /\ r.proc = s.proc /\ r.cancels = s.cancels
              /\ r.idle = s.idle /\ Progress(r, s) /\ r.got = s.got /\ r.events = s.events
           \/ AtRest(r) /\ r.completed = (s.completed /\ s.response)
    BY <2>2, <2>4, <2>5 DEF MovesOn, Returns, Identity, Progress
  <2>7. t # c
    BY <1>1, <1>6 DEF CallInv, KindInv
  <2>8. calls' = [[calls EXCEPT ![t] = u] EXCEPT ![c] = r]
    BY <1>6 DEF u, x, y, r
  <2> HIDE DEF r
  <2>9. /\ calls' \in [Calls -> CallType] /\ calls'[t] = u /\ calls'[c] = r
        /\ \A d \in Calls : d \notin {c, t} => calls'[d] = calls[d]
    BY <2>3, <2>6, <2>7, <2>8 DEF StateType
  <2>10. BeginsCancel(c, t)
    BY <1>1, <1>3, <1>6, <2>3, <2>6, <2>7, <2>9 DEF BeginsCancel
  <2> QED BY <1>4, <2>9, <2>10 DEF Picking
<1> QED BY <1>5, <1>6 DEF Begin

\* process_for finds a process, starts one, or fails.
LEMMA PickEffect ==
  ASSUME StateType, NEW c \in Calls, PickProcess(c)
  PROVE  StateType' /\ Picking(c)
<1> DEFINE s == calls[c]
<1>1. s \in CallType /\ s.at = "pick" /\ current \in Processes \cup {None}
  BY DEF StateType, PickProcess, At
<1>2. UNCHANGED <<lifeVars, routeVars, io, reader, hung, accepted, told>>
  BY DEF PickProcess
<1>3. CASE ~is_shutdown /\ Usable(current) /\ UNCHANGED <<child, faults>>
           /\ Update(c, [s EXCEPT !.at = "enter", !.proc = current])
  <2> DEFINE r == [s EXCEPT !.at = "enter", !.proc = current]
  <2>1. r \in CallType /\ MovesOn(r, s, "enter", current, s.idle)
    BY <1>1, Moved
  <2> HIDE DEF r
  <2>2. StateType' /\ OthersKept /\ Only(c) /\ calls'[c] = r
    BY <1>2, <1>3, <2>1, Alone DEF r, StateType
  <2>3. Enters(c)
    BY <1>1, <1>3, <2>1, <2>2 DEF Enters, Usable
  <2> QED BY <2>2, <2>3 DEF Picking
<1>4. CASE /\ faults' \in Nat /\ UNCHANGED child /\ Update(c, Ended(s))
           /\ is_shutdown \/ ~Usable(current)
  <2>1. Ended(s) \in CallType /\ Ends(Ended(s), s)
    BY <1>1, HasEnded
  <2>2. StateType' /\ OthersKept /\ Only(c) /\ calls'[c] = Ended(s)
    BY <1>2, <1>4, <2>1, Alone
  <2>3. FindsNone(c)
    BY <1>1, <1>4, <2>1, <2>2 DEF FindsNone, Usable
  <2> QED BY <2>2, <2>3 DEF Picking
<1>5. ASSUME NEW p \in Unstarted, ~is_shutdown, ~Usable(current), UNCHANGED faults,
             child' = [child EXCEPT ![p] = "running"], Update(c, [s EXCEPT !.at = "publish", !.proc = p])
      PROVE  StateType' /\ Picking(c)
  <2> DEFINE r == [s EXCEPT !.at = "publish", !.proc = p]
  <2>1. p \in Processes /\ child[p] = "none"
    BY DEF Unstarted
  <2>2. r \in CallType /\ MovesOn(r, s, "publish", p, s.idle)
    BY <1>1, <2>1, Moved
  <2> HIDE DEF r
  <2>3. calls' \in [Calls -> CallType] /\ calls'[c] = r /\ Only(c)
    BY <1>5, <2>2, Updated DEF r
  <2>4. /\ child' \in [Processes -> {"none", "running", "exited", "killed"}]
        /\ Sets(child', child, p, "running")
    BY <1>5, <2>1 DEF StateType, Sets
  <2>5. LifeKept /\ RoutesKept /\ SentKept /\ reader' = reader /\ io' = io /\ hung' = hung
    BY <1>2 DEF lifeVars, routeVars, LifeKept, RoutesKept, SentKept
  <2>6. StateType'
    BY <1>5, <2>3, <2>4, <2>5 DEF StateType, LifeKept, RoutesKept, SentKept
  <2>7. Starts(c, p)
    BY <1>1, <1>5, <2>1, <2>2, <2>3, <2>4, <2>5 DEF Starts, Usable
  <2> QED BY <2>1, <2>6, <2>7 DEF Picking
<1>6. faults \in Nat /\ faults + 1 \in Nat
  BY DEF StateType
<1>7. \/ ~is_shutdown /\ Usable(current) /\ UNCHANGED <<child, faults>>
         /\ Update(c, [s EXCEPT !.at = "enter", !.proc = current])
      \/ /\ faults' \in Nat /\ UNCHANGED child /\ Update(c, Ended(s))
         /\ is_shutdown \/ ~Usable(current)
      \/ \E p \in Unstarted : /\ ~is_shutdown /\ ~Usable(current) /\ UNCHANGED faults
                              /\ child' = [child EXCEPT ![p] = "running"]
                              /\ Update(c, [s EXCEPT !.at = "publish", !.proc = p])
  BY <1>6, Zenon DEF PickProcess
<1> QED BY <1>3, <1>4, <1>5, <1>7

\* A started process is published, or loses the race and is shut down.
LEMMA PublishEffect ==
  ASSUME StateType, HolderInv, NEW c \in Calls, Publish(c)
  PROVE  StateType' /\ Picking(c)
<1> DEFINE s == calls[c]
           p == calls[c].proc
<1>1. s \in CallType /\ s.at = "publish" /\ current \in Processes \cup {None}
  BY DEF StateType, Publish, At
<1>2. p \in Processes
  BY <1>1 DEF HolderInv, HoldingInv, HoldsProcess, CallType
<1>3. /\ UNCHANGED <<is_shutdown, stopping, pending, streams, io, reader>>
      /\ UNCHANGED <<hung, accepted, told, faults>>
  BY DEF Publish, providerVars
<1>4. CASE is_shutdown \/ Usable(current)
  <2> DEFINE r == IF is_shutdown THEN Ended(s) ELSE [s EXCEPT !.at = "enter", !.proc = current]
  <2>1. Ended(s) \in CallType /\ Ends(Ended(s), s)
    BY <1>1, HasEnded
  <2>2. /\ [s EXCEPT !.at = "enter", !.proc = current] \in CallType
        /\ MovesOn([s EXCEPT !.at = "enter", !.proc = current], s, "enter", current, s.idle)
    BY <1>1, Moved
  <2>3. /\ r \in CallType
        /\ \/ is_shutdown /\ Ends(r, s)
           \/ ~is_shutdown /\ MovesOn(r, s, "enter", current, s.idle)
    BY <2>1, <2>2
  <2>4. Update(c, r) /\ current' = current /\ failed' = [failed EXCEPT ![p] = TRUE]
        /\ child' = [child EXCEPT ![p] = "killed"]
    BY <1>4 DEF Publish, Killed, Proc
  <2> HIDE DEF r
  <2>5. calls' \in [Calls -> CallType] /\ calls'[c] = r /\ Only(c)
    BY <2>3, <2>4, Updated
  <2>6. /\ child' \in [Processes -> {"none", "running", "exited", "killed"}]
        /\ Sets(child', child, p, "killed")
    BY <1>2, <2>4 DEF StateType, Sets
  <2>7. failed' \in [Processes -> BOOLEAN] /\ Sets(failed', failed, p, TRUE)
    BY <1>2, <2>4 DEF StateType, Sets
  <2>8. StateType'
    BY <1>3, <2>4, <2>5, <2>6, <2>7 DEF StateType
  <2>9. PublishLost(c, p)
    BY <1>1, <1>3, <1>4, <2>3, <2>4, <2>5, <2>6, <2>7
       DEF PublishLost, LifeKept, SentKept, Usable
  <2> QED BY <1>2, <2>8, <2>9 DEF Picking
<1>5. CASE ~(is_shutdown \/ Usable(current))
  <2> DEFINE r == [s EXCEPT !.at = "enter"]
  <2>1. r \in CallType /\ MovesOn(r, s, "enter", s.proc, s.idle)
    BY <1>1, Moved
  <2>2. Update(c, r) /\ current' = p /\ failed' = failed /\ child' = child
    BY <1>5 DEF Publish, Go, Update, Proc
  <2> HIDE DEF r
  <2>3. calls' \in [Calls -> CallType] /\ calls'[c] = r /\ Only(c)
    BY <2>1, <2>2, Updated
  <2>4. StateType'
    BY <1>2, <1>3, <2>2, <2>3 DEF StateType
  <2>5. PublishWon(c, p)
    BY <1>1, <1>3, <1>5, <2>1, <2>2, <2>3
       DEF PublishWon, RoutesKept, SentKept, ChildKept, Usable
  <2> QED BY <1>2, <2>4, <2>5 DEF Picking
<1> QED BY <1>4, <1>5

\* register_pending and register_stream, which a failed process refuses.
LEMMA RegisterEffect ==
  ASSUME StateType, HolderInv, NEW c \in Calls, Register(c)
  PROVE  StateType' /\ Writing(c)
<1> DEFINE s == calls[c]
           p == calls[c].proc
<1>1. s \in CallType /\ s.at = "enter" /\ s.job = "send"
  BY DEF StateType, Register, At
<1>2. p \in Processes
  BY <1>1 DEF HolderInv, HoldingInv, HoldsProcess, CallType
<1>3. UNCHANGED <<lifeVars, failed, io, child, reader, providerVars>>
  BY DEF Register
<1>4. CASE failed[p]
  <2>1. Returned(s) \in CallType /\ Returns(Returned(s), s)
    BY <1>1, HasReturned
  <2>2. Update(c, Returned(s)) /\ UNCHANGED <<pending, streams>>
    BY <1>4 DEF Register, Proc
  <2>3. /\ faults' \in Nat
        /\ UNCHANGED <<lifeVars, routeVars, io, child, reader, hung, accepted, told>>
    BY <1>3, <2>2 DEF providerVars, routeVars, StateType
  <2>4. StateType' /\ OthersKept /\ Only(c) /\ calls'[c] = Returned(s)
    BY <2>1, <2>2, <2>3, Alone
  <2>5. RegisterRefused(c, p)
    BY <1>1, <1>4, <2>1, <2>4 DEF RegisterRefused
  <2> QED BY <1>2, <2>4, <2>5 DEF Writing
<1>5. CASE ~failed[p]
  <2> DEFINE r == [s EXCEPT !.at = "write"]
  <2>1. r \in CallType /\ MovesOn(r, s, "write", p, s.idle)
    BY <1>1, Moved
  <2>2. /\ Update(c, r) /\ pending' = [pending EXCEPT ![p] = pending[p] \cup {c}]
        /\ IF s.kind = "chat" THEN streams' = [streams EXCEPT ![p] = streams[p] \cup {c}]
           ELSE streams' = streams
    BY <1>5 DEF Register, Proc, Go, Update
  <2> HIDE DEF r
  <2>3. calls' \in [Calls -> CallType] /\ calls'[c] = r /\ Only(c)
    BY <2>1, <2>2, Updated
  <2>4. /\ pending' \in [Processes -> SUBSET Calls]
        /\ Sets(pending', pending, p, pending[p] \cup {c})
    BY <1>2, <2>2 DEF StateType, Sets
  <2>5. /\ streams' \in [Processes -> SUBSET Calls]
        /\ IF s.kind = "chat" THEN Sets(streams', streams, p, streams[p] \cup {c})
           ELSE streams' = streams
    BY <1>2, <2>2 DEF StateType, Sets
  <2>6. /\ LifeKept /\ failed' = failed /\ SentKept /\ ChildKept
        /\ io' = io /\ hung' = hung /\ faults' = faults
    BY <1>3 DEF lifeVars, providerVars, LifeKept, SentKept, ChildKept
  <2>7. StateType'
    BY <2>3, <2>4, <2>5, <2>6 DEF StateType, LifeKept, SentKept, ChildKept
  <2>8. Registers(c, p)
    BY <1>1, <1>5, <2>1, <2>3, <2>4, <2>5, <2>6 DEF Registers
  <2> QED BY <1>2, <2>7, <2>8 DEF Writing
<1> QED BY <1>4, <1>5

\* ProviderProcess::cancel takes the routes of the chat away.
LEMMA UnrouteEffect ==
  ASSUME StateType, HolderInv, NEW c \in Calls, Unroute(c)
  PROVE  StateType' /\ Writing(c)
<1> DEFINE s == calls[c]
           p == calls[c].proc
           t == calls[c].id
           rs == pending[p] \cap {t}
           ss == streams[p] \cap {t}
           after == Delivered(rs, ss)
           r == IF failed[p] THEN Ended(after[c]) ELSE [after[c] EXCEPT !.at = "write"]
<1>1. s \in CallType /\ s.at = "enter" /\ s.job = "cancel" /\ t \in Calls
  BY DEF StateType, CallType, Unroute, At
<1>2. p \in Processes
  BY <1>1 DEF HolderInv, HoldingInv, HoldsProcess, CallType
<1>3. after \in [Calls -> CallType]
      /\ \A d \in Calls : Hears(after[d], calls[d], d \in rs, d \in ss, calls[d].at)
  BY <1>1, HasHeard
<1>4. after[c] = s
  BY <1>1 DEF Delivered, Listening
<1>5. /\ UNCHANGED <<lifeVars, failed, io, child, reader, providerVars>>
      /\ pending' = [pending EXCEPT ![p] = pending[p] \ {t}]
      /\ streams' = [streams EXCEPT ![p] = streams[p] \ {t}]
      /\ calls' = [after EXCEPT ![c] = r]
  BY DEF Unroute, Proc
<1>6. /\ r \in CallType
      /\ IF failed[p] THEN Ends(r, s) ELSE MovesOn(r, s, "write", p, s.idle)
  <2>1. Ended(s) \in CallType /\ Ends(Ended(s), s)
    BY <1>1, HasEnded
  <2>2. /\ [s EXCEPT !.at = "write"] \in CallType
        /\ MovesOn([s EXCEPT !.at = "write"], s, "write", s.proc, s.idle)
    BY <1>1, Moved
  <2> QED BY <1>4, <2>1, <2>2
<1> HIDE DEF r, after
<1>7. /\ calls' \in [Calls -> CallType] /\ calls'[c] = r
      /\ \A d \in Calls : d # c => calls'[d] = after[d]
  BY <1>3, <1>5, <1>6
<1>8. /\ pending' \in [Processes -> SUBSET Calls] /\ Sets(pending', pending, p, pending[p] \ {t})
      /\ streams' \in [Processes -> SUBSET Calls] /\ Sets(streams', streams, p, streams[p] \ {t})
  BY <1>2, <1>5 DEF StateType, Sets
<1>9. /\ LifeKept /\ failed' = failed /\ SentKept /\ ChildKept
      /\ io' = io /\ hung' = hung /\ faults' = faults
  BY <1>5 DEF lifeVars, providerVars, LifeKept, SentKept, ChildKept
<1>10. StateType'
  BY <1>7, <1>8, <1>9 DEF StateType, LifeKept, SentKept, ChildKept
<1>11. Unroutes(c, p, t)
  BY <1>1, <1>3, <1>6, <1>7, <1>8, <1>9 DEF Unroutes
<1> QED BY <1>1, <1>2, <1>10, <1>11 DEF Writing

\* write_message fails, sends the call, or tells the provider of a cancellation.
LEMMA WriteEffect ==
  ASSUME StateType, HolderInv, NEW c \in Calls, Write(c)
  PROVE  StateType' /\ Writing(c)
<1> DEFINE s == calls[c]
           p == calls[c].proc
<1>1. s \in CallType /\ s.at = "write" /\ s.id \in Calls /\ s.job \in {"send", "cancel"}
  BY DEF StateType, CallType, Write, At
<1>2. p \in Processes
  BY <1>1 DEF HolderInv, HoldingInv, HoldsProcess, CallType
<1>3. /\ LifeKept /\ RoutesKept /\ ChildKept /\ hung' = hung /\ faults' = faults
      /\ io' \in [Processes -> Calls \cup {"host", None}]
  BY <1>2 DEF Write, Proc, StateType, lifeVars, routeVars, LifeKept, RoutesKept, ChildKept
<1>4. CASE ~Alive(p)
  <2> DEFINE r == [s EXCEPT !.at = "fail"]
  <2>1. r \in CallType /\ MovesOn(r, s, "fail", p, s.idle)
    BY <1>1, Moved
  <2>2. Update(c, r) /\ SentKept
    BY <1>4 DEF Write, Proc, Go, Update, SentKept
  <2> HIDE DEF r
  <2>3. calls' \in [Calls -> CallType] /\ calls'[c] = r /\ Only(c)
    BY <2>1, <2>2, Updated
  <2>4. StateType'
    BY <1>3, <2>2, <2>3 DEF StateType, LifeKept, RoutesKept, SentKept, ChildKept
  <2>5. WriteBroken(c, p)
    BY <1>1, <1>3, <1>4, <2>1, <2>2, <2>3 DEF WriteBroken, OthersKept, Alive
  <2> QED BY <1>2, <2>4, <2>5 DEF Writing
<1>5. CASE Alive(p) /\ s.job = "send"
  <2> DEFINE r == [s EXCEPT !.at = "wait"]
  <2>1. r \in CallType /\ MovesOn(r, s, "wait", p, s.idle)
    BY <1>1, Moved
  <2>2. /\ Update(c, r) /\ told' = told
        /\ accepted' = [accepted EXCEPT ![p] = accepted[p] \cup {c}]
    BY <1>5 DEF Write, Proc, Go, Update
  <2> HIDE DEF r
  <2>3. calls' \in [Calls -> CallType] /\ calls'[c] = r /\ Only(c)
    BY <2>1, <2>2, Updated
  <2>4. /\ accepted' \in [Processes -> SUBSET Calls]
        /\ Sets(accepted', accepted, p, accepted[p] \cup {c})
    BY <1>2, <2>2 DEF StateType, Sets
  <2>5. StateType'
    BY <1>3, <2>2, <2>3, <2>4 DEF StateType, LifeKept, RoutesKept, ChildKept
  <2>6. Sends(c, p)
    BY <1>1, <1>3, <1>5, <2>1, <2>2, <2>3, <2>4 DEF Sends, Alive
  <2> QED BY <1>2, <2>5, <2>6 DEF Writing
<1>6. CASE Alive(p) /\ s.job = "cancel"
  <2>1. Ended(s) \in CallType /\ Ends(Ended(s), s)
    BY <1>1, HasEnded
  <2>2. /\ Update(c, Ended(s)) /\ accepted' = accepted
        /\ told' = [told EXCEPT ![p] = told[p] \cup {s.id}]
    BY <1>6 DEF Write, Proc
  <2>3. calls' \in [Calls -> CallType] /\ calls'[c] = Ended(s) /\ Only(c)
    BY <2>1, <2>2, Updated
  <2>4. told' \in [Processes -> SUBSET Calls] /\ Sets(told', told, p, told[p] \cup {s.id})
    BY <1>1, <1>2, <2>2 DEF StateType, Sets
  <2>5. StateType'
    BY <1>3, <2>2, <2>3, <2>4 DEF StateType, LifeKept, RoutesKept, ChildKept
  <2>6. Tells(c, p, s.id)
    BY <1>1, <1>3, <1>6, <2>1, <2>2, <2>3, <2>4 DEF Tells, Alive
  <2> QED BY <1>1, <1>2, <2>5, <2>6 DEF Writing
<1> QED BY <1>1, <1>4, <1>5, <1>6

\* A write to a full pipe takes the lock and nothing else.
LEMMA BlockEffect ==
  ASSUME StateType, HolderInv, NEW c \in Calls, BlockOnWrite(c)
  PROVE  StateType' /\ Waits
<1>1. calls[c] \in CallType /\ calls[c].at = "write"
  BY DEF StateType, BlockOnWrite, At
<1>2. calls[c].proc \in Processes
  BY <1>1 DEF HolderInv, HoldingInv, HoldsProcess, CallType
<1>3. io' \in [Processes -> Calls \cup {"host", None}]
  BY <1>2 DEF BlockOnWrite, StateType, Proc
<1>4. Waits /\ hung' = hung /\ faults' = faults
  BY DEF BlockOnWrite, lifeVars, routeVars, providerVars, Waits, OthersKept, LifeKept, RoutesKept,
         SentKept, ChildKept
<1>5. StateType'
  BY <1>3, <1>4 DEF StateType, Waits, OthersKept, LifeKept, RoutesKept, SentKept, ChildKept
<1> QED BY <1>4, <1>5

\* AfterFailure: an idle chat cancels itself, any other call ends.
LEMMA HasResumed ==
  ASSUME NEW s \in CallType
  PROVE  /\ AfterFailure(s) \in CallType
         /\ \/ s.idle /\ Cancels(AfterFailure(s), s)
            \/ ~s.idle /\ Ends(AfterFailure(s), s)
<1>1. CancelsItself(s, 1) \in CallType /\ Cancels(CancelsItself(s, 1), s)
  BY HasCancelled
<1>2. Ended(s) \in CallType /\ Ends(Ended(s), s)
  BY HasEnded
<1> QED BY <1>1, <1>2 DEF AfterFailure

\* fail_pending by a call, the first for its process or a later one.
LEMMA FailEffect ==
  ASSUME StateType, HolderInv, NEW c \in Calls, FailProcess(c)
  PROVE  StateType' /\ Waiting(c)
<1> DEFINE s == calls[c]
           p == calls[c].proc
<1>1. s \in CallType /\ s.at = "fail"
  BY DEF StateType, FailProcess, At
<1>2. p \in Processes
  BY <1>1 DEF HolderInv, HoldingInv, HoldsProcess, CallType
<1>3. UNCHANGED <<lifeVars, io, child, reader, providerVars>>
  BY DEF FailProcess
<1>4. CASE failed[p]
  <2>1. AfterFailure(s) \in CallType
    BY <1>1, HasResumed
  <2>2. Update(c, AfterFailure(s)) /\ UNCHANGED routeVars
    BY <1>4 DEF FailProcess, Proc
  <2>3. faults' \in Nat /\ UNCHANGED <<lifeVars, routeVars, io, child, reader, hung, accepted, told>>
    BY <1>3, <2>2 DEF providerVars, StateType
  <2>4. StateType' /\ OthersKept /\ Only(c) /\ calls'[c] = AfterFailure(s)
    BY <2>1, <2>2, <2>3, Alone
  <2>5. Resumes(c)
    BY <1>1, <2>4, HasResumed DEF Resumes
  <2>6. FoundFailed(c, p)
    BY <1>1, <1>4, <2>4, <2>5 DEF FoundFailed
  <2> QED BY <1>2, <2>4, <2>6 DEF Waiting
<1>5. CASE ~failed[p]
  <2> DEFINE after == Delivered(pending[p], streams[p])
             r == [after[c] EXCEPT !.at = "kill"]
  <2>1. FailPending(p) /\ calls' = [after EXCEPT ![c] = r]
    BY <1>5 DEF FailProcess, Proc
  <2>2. /\ FailsRoutes(p) /\ failed' \in [Processes -> BOOLEAN]
        /\ pending' \in [Processes -> SUBSET Calls] /\ streams' \in [Processes -> SUBSET Calls]
        /\ pending[p] \in SUBSET Calls /\ streams[p] \in SUBSET Calls
    BY <1>2, <2>1, RoutesFail
  <2>3. /\ after \in [Calls -> CallType]
        /\ \A d \in Calls : Hears(after[d], calls[d], d \in pending[p], d \in streams[p], calls[d].at)
    BY <2>2, HasHeard
  <2> HIDE DEF after
  <2>4. r \in CallType /\ MovesOn(r, after[c], "kill", after[c].proc, after[c].idle)
    BY <2>3, Moved
  <2> HIDE DEF r
  <2>5. /\ calls' \in [Calls -> CallType] /\ calls'[c] = r
        /\ \A d \in Calls : d # c => calls'[d] = after[d]
    BY <2>1, <2>3, <2>4
  <2>6. Heard(c, p, "kill")
    BY <2>3, <2>4, <2>5 DEF Heard, Hears, MovesOn, Identity, Progress
  <2>7. /\ LifeKept /\ SentKept /\ ChildKept /\ io' = io /\ hung' = hung /\ faults' = faults
    BY <1>3 DEF lifeVars, providerVars, LifeKept, SentKept, ChildKept
  <2>8. StateType'
    BY <2>2, <2>5, <2>7 DEF StateType, LifeKept, SentKept, ChildKept
  <2>9. \A d \in Calls : Heard(d, p, IF d = c THEN "kill" ELSE calls[d].at)
    BY <2>3, <2>5, <2>6 DEF Heard
  <2>10. Fails(c, p)
    BY <1>1, <1>5, <2>2, <2>7, <2>9 DEF Fails
  <2> QED BY <1>2, <2>8, <2>10 DEF Waiting
<1> QED BY <1>4, <1>5

\* begin_termination by the call that failed the process.
LEMMA KillEffect ==
  ASSUME StateType, HolderInv, NEW c \in Calls, KillProcess(c)
  PROVE  StateType' /\ Waiting(c)
<1> DEFINE s == calls[c]
           p == calls[c].proc
<1>1. s \in CallType /\ s.at = "kill"
  BY DEF StateType, KillProcess, At
<1>2. p \in Processes
  BY <1>1 DEF HolderInv, HoldingInv, HoldsProcess, CallType
<1>3. AfterFailure(s) \in CallType
  BY <1>1, HasResumed
<1>4. Update(c, AfterFailure(s)) /\ child' = [child EXCEPT ![p] = "killed"]
  BY DEF KillProcess, Terminate, Killed, Proc
<1>5. calls' \in [Calls -> CallType] /\ calls'[c] = AfterFailure(s) /\ Only(c)
  BY <1>3, <1>4, Updated
<1>6. /\ child' \in [Processes -> {"none", "running", "exited", "killed"}]
      /\ Sets(child', child, p, "killed")
  BY <1>2, <1>4 DEF StateType, Sets
<1>7. /\ LifeKept /\ RoutesKept /\ SentKept /\ reader' = reader
      /\ io' = io /\ hung' = hung /\ faults' = faults
  BY DEF KillProcess, lifeVars, routeVars, providerVars, LifeKept, RoutesKept, SentKept
<1>8. StateType'
  BY <1>5, <1>6, <1>7 DEF StateType, LifeKept, RoutesKept, SentKept
<1>9. Resumes(c)
  BY <1>1, <1>5, HasResumed DEF Resumes
<1>10. Kills(c, p)
  BY <1>1, <1>5, <1>6, <1>7, <1>9 DEF Kills
<1> QED BY <1>2, <1>8, <1>10 DEF Waiting

\* A request has its answer, or its deadline passes.
LEMMA RequestEffect ==
  ASSUME StateType, NEW c \in Calls, TakeAnswer(c) \/ Deadline(c)
  PROVE  StateType' /\ Waiting(c)
<1> DEFINE s == calls[c]
           r == [s EXCEPT !.at = "fail"]
<1>1. s \in CallType
  BY DEF StateType
<1>2. CASE TakeAnswer(c)
  <2>1. Returned(s) \in CallType /\ Returns(Returned(s), s)
    BY <1>1, HasReturned
  <2>2. StateType' /\ OthersKept /\ Only(c) /\ calls'[c] = Returned(s)
    BY <1>2, <2>1, AloneBecomes DEF TakeAnswer
  <2>3. Answered(c)
    BY <1>2, <2>1, <2>2 DEF TakeAnswer, At, Answered
  <2> QED BY <2>2, <2>3 DEF Waiting
<1>3. CASE Deadline(c)
  <2>1. r \in CallType /\ MovesOn(r, s, "fail", s.proc, s.idle)
    BY <1>1, Moved
  <2>2. Becomes(c, r) /\ s.at = "wait" /\ s.kind = "request" /\ s.got = None
    BY <1>3 DEF Deadline, At
  <2> HIDE DEF r
  <2>3. StateType' /\ OthersKept /\ Only(c) /\ calls'[c] = r
    BY <2>1, <2>2, AloneBecomes
  <2>4. TimesOut(c)
    BY <2>1, <2>2, <2>3 DEF TimesOut
  <2> QED BY <2>3, <2>4 DEF Waiting
<1> QED BY <1>2, <1>3

\* A chat that waits becomes the cancellation of itself.
LEMMA AbandonEffect ==
  ASSUME StateType, NEW c \in Calls, NEW n \in Nat, calls[c].at = "wait", calls[c].kind = "chat",
         Becomes(c, CancelsItself(calls[c], n))
  PROVE  StateType' /\ Waiting(c)
<1>1. CancelsItself(calls[c], n) \in CallType /\ Cancels(CancelsItself(calls[c], n), calls[c])
  BY HasCancelled DEF StateType
<1>2. StateType' /\ OthersKept /\ Only(c) /\ calls'[c] = CancelsItself(calls[c], n)
  BY <1>1, AloneBecomes
<1>3. Abandons(c)
  BY <1>1, <1>2 DEF Abandons
<1> QED BY <1>2, <1>3 DEF Waiting

\* The collector has one more of the two things it waits for.
LEMMA CollectEffect ==
  ASSUME StateType, NEW c \in Calls, NEW r \in CallType, calls[c].at = "wait", calls[c].kind = "chat",
         Identity(r, calls[c]), Place(r, calls[c]), r.got = calls[c].got,
         r.response => calls[c].got # None,
         calls[c].completed => r.completed,
         r.completed => calls[c].completed \/ calls[c].events # <<>>,
         r.events = calls[c].events \/ r.completed,
         Becomes(c, Collected(r))
  PROVE  StateType' /\ Waiting(c)
<1>1. CASE r.response /\ r.completed
  <2>1. Returned(r) \in CallType /\ Returns(Returned(r), r)
    BY HasReturned
  <2>2. StateType' /\ OthersKept /\ Only(c) /\ calls'[c] = Returned(r)
    BY <1>1, <2>1, AloneBecomes DEF Collected
  <2>3. Collects(c)
    BY <1>1, <2>1, <2>2 DEF Collects, Returns, Identity, AtRest
  <2> QED BY <2>2, <2>3 DEF Waiting
<1>2. CASE ~(r.response /\ r.completed)
  <2>1. StateType' /\ OthersKept /\ Only(c) /\ calls'[c] = r
    BY <1>2, AloneBecomes DEF Collected
  <2>2. Collects(c)
    BY <2>1 DEF Collects
  <2> QED BY <2>1, <2>2 DEF Waiting
<1> QED BY <1>1, <1>2

\* What the collector of a chat does next.
LEMMA CollectorEffect ==
  ASSUME StateType, CallInv, NEW c \in Calls,
         TakeResponse(c) \/ TakeEvent(c) \/ SeeCancellation(c) \/ Idle(c)
  PROVE  StateType' /\ Waiting(c)
<1> DEFINE s == calls[c]
<1>1. s \in CallType /\ s.at = "wait" /\ s.kind = "chat" /\ current \in Processes \cup {None}
  BY DEF StateType, TakeResponse, TakeEvent, SeeCancellation, Idle, At
<1>2. CASE TakeResponse(c) /\ s.got # "error"
  <2> DEFINE r == [s EXCEPT !.response = TRUE]
  <2>1. r \in CallType
    BY <1>1 DEF CallType
  <2>2. /\ Identity(r, s) /\ Place(r, s) /\ r.got = s.got /\ r.completed = s.completed
        /\ r.events = s.events
    BY <1>1 DEF CallType, Identity, Place
  <2>3. s.got # None /\ Becomes(c, Collected(r))
    BY <1>2 DEF TakeResponse
  <2> HIDE DEF r
  <2> QED BY <1>1, <2>1, <2>2, <2>3, CollectEffect
<1>3. CASE TakeEvent(c) /\ Head(s.events) \notin {"failed", "error"}
  <2> DEFINE done == s.completed \/ Head(s.events) = "completed"
             rest == Tail(s.events)
             r == [s EXCEPT !.events = rest, !.completed = done]
  <2>1. s.events \in Seq(Terminal \cup {"error"}) /\ s.events # <<>>
    BY <1>1, <1>3 DEF CallType, TakeEvent
  <2>2. /\ Head(s.events) \in Terminal \cup {"error"} /\ rest \in Seq(Terminal \cup {"error"})
    BY <2>1
  <2>3. done = TRUE
    BY <1>3, <2>2 DEF Terminal
  <2>4. Becomes(c, Collected(r))
    BY <1>3 DEF TakeEvent
  <2> HIDE DEF done, rest
  <2>5. r \in CallType
    BY <1>1, <2>2, <2>3 DEF CallType
  <2>6. /\ Identity(r, s) /\ Place(r, s) /\ r.got = s.got /\ r.response = s.response
        /\ r.completed = TRUE
    BY <1>1, <2>3 DEF CallType, Identity, Place
  <2> HIDE DEF r
  <2>7. s.response => s.got # None
    BY DEF CallInv, RouteInv
  <2> QED BY <1>1, <2>1, <2>4, <2>5, <2>6, <2>7, CollectEffect
<1>4. CASE Idle(c) /\ current # None
  <2> DEFINE r == [s EXCEPT !.at = "fail", !.proc = current, !.idle = TRUE]
  <2>1. r \in CallType /\ MovesOn(r, s, "fail", current, TRUE)
    BY <1>1, Moved
  <2>2. Becomes(c, r)
    BY <1>4 DEF Idle
  <2> HIDE DEF r
  <2>3. StateType' /\ OthersKept /\ Only(c) /\ calls'[c] = r
    BY <2>1, <2>2, AloneBecomes
  <2>4. GrowsIdle(c)
    BY <1>1, <1>4, <2>1, <2>3 DEF GrowsIdle
  <2> QED BY <2>3, <2>4 DEF Waiting
<1>5. \/ TakeResponse(c) /\ s.got # "error"
      \/ TakeEvent(c) /\ Head(s.events) \notin {"failed", "error"}
      \/ Idle(c) /\ current # None
      \/ \E n \in {1, 2} : Becomes(c, CancelsItself(s, n))
  BY DEF TakeResponse, TakeEvent, SeeCancellation, Idle
<1> QED BY <1>1, <1>2, <1>3, <1>4, <1>5, AbandonEffect

\* The reader routes a response.
LEMMA ResponseEffect ==
  ASSUME StateType, NEW p \in Processes, NEW c \in Calls, NEW what, ReadResponse(p, c, what)
  PROVE  StateType' /\ Reads(p)
<1> DEFINE s == calls[c]
<1>1. s \in CallType /\ what \in Responses /\ c \in accepted[p] /\ c \in pending[p]
  BY DEF StateType, ReadResponse
<1>2. /\ pending' \in [Processes -> SUBSET Calls] /\ Sets(pending', pending, p, pending[p] \ {c})
  BY DEF ReadResponse, StateType, Sets
<1>3. /\ calls' \in [Calls -> CallType] /\ Only(c)
      /\ Identity(calls'[c], s) /\ Place(calls'[c], s) /\ Progress(calls'[c], s)
      /\ calls'[c].events = s.events
      /\ IF Listening(s) THEN calls'[c].got \in Responses ELSE calls'[c].got = s.got
  <2>1. CASE Listening(s)
    <3> DEFINE r == [s EXCEPT !.got = what]
    <3>1. r \in CallType
      BY <1>1 DEF CallType
    <3>2. /\ Identity(r, s) /\ Place(r, s) /\ Progress(r, s) /\ r.events = s.events
          /\ r.got \in Responses
      BY <1>1 DEF CallType, Identity, Place, Progress
    <3>3. Update(c, r)
      BY <2>1 DEF ReadResponse, Update
    <3> HIDE DEF r
    <3>4. calls' \in [Calls -> CallType] /\ calls'[c] = r /\ Only(c)
      BY <3>1, <3>3, Updated
    <3> QED BY <2>1, <3>2, <3>4
  <2>2. CASE ~Listening(s)
    <3>1. calls' = calls
      BY <2>2 DEF ReadResponse
    <3> QED BY <2>2, <3>1 DEF StateType, Only, Identity, Place, Progress
  <2> QED BY <2>1, <2>2
<1>4. /\ LifeKept /\ failed' = failed /\ streams' = streams /\ SentKept /\ ChildKept
      /\ io' = io /\ hung' = hung /\ faults' = faults
  BY DEF ReadResponse, lifeVars, providerVars, LifeKept, SentKept, ChildKept
<1>5. StateType'
  BY <1>2, <1>3, <1>4 DEF StateType, LifeKept, SentKept, ChildKept
<1>6. Answers(p, c)
  BY <1>1, <1>2, <1>3, <1>4 DEF Answers
<1> QED BY <1>5, <1>6 DEF Reads

\* The reader takes the route of a terminal event away.
LEMMA EventEffect ==
  ASSUME StateType, NEW p \in Processes, NEW c \in Calls, NEW what, ReadEvent(p, c, what)
  PROVE  StateType' /\ Reads(p)
<1> DEFINE x == [at |-> "routing", id |-> c, what |-> what]
<1>1. /\ what \in Terminal /\ child[p] # "none" /\ reader[p].at = "reading"
      /\ c \in accepted[p] /\ c \in streams[p]
  BY DEF ReadEvent, Reading
<1>2. /\ streams' \in [Processes -> SUBSET Calls] /\ Sets(streams', streams, p, streams[p] \ {c})
  BY DEF ReadEvent, StateType, Sets
<1>3. x \in [at : {"reading", "routing", "failing", "ended"},
            id : Calls \cup {None}, what : Terminal \cup {None}]
  BY <1>1
<1>4. x.at = "routing" /\ x.id = c /\ x.what \in Terminal /\ reader' = [reader EXCEPT ![p] = x]
  BY <1>1 DEF ReadEvent
<1> HIDE DEF x
<1>5. /\ reader' \in [Processes -> [at : {"reading", "routing", "failing", "ended"},
                                    id : Calls \cup {None}, what : Terminal \cup {None}]]
      /\ reader'[p] = x /\ \A q \in Processes : q # p => reader'[q] = reader[q]
  BY <1>3, <1>4 DEF StateType
<1>6. /\ LifeKept /\ failed' = failed /\ pending' = pending /\ SentKept /\ child' = child
      /\ calls' = calls /\ io' = io /\ hung' = hung /\ faults' = faults
  BY DEF ReadEvent, lifeVars, providerVars, LifeKept, SentKept
<1>7. StateType'
  BY <1>2, <1>5, <1>6 DEF StateType, LifeKept, SentKept
<1>8. TakesEvent(p, c)
  BY <1>1, <1>2, <1>4, <1>5, <1>6 DEF TakesEvent
<1> QED BY <1>7, <1>8 DEF Reads

\* The reader sends that event, if somebody still listens.
LEMMA SendEventEffect ==
  ASSUME StateType, ProcessInv, NEW p \in Processes, SendEvent(p)
  PROVE  StateType' /\ Reads(p)
<1> DEFINE c == reader[p].id
           s == calls[c]
           x == [at |-> "reading", id |-> None, what |-> None]
<1>1. reader[p].at = "routing" /\ c \in Calls /\ reader[p].what \in Terminal
  BY DEF SendEvent, Routing, ProcessInv, OwnedInv, StateType
<1>2. s \in CallType
  BY <1>1 DEF StateType
<1>3. x \in [at : {"reading", "routing", "failing", "ended"},
            id : Calls \cup {None}, what : Terminal \cup {None}]
  OBVIOUS
<1>4. x.at = "reading" /\ reader' = [reader EXCEPT ![p] = x]
  BY DEF SendEvent
<1>5. /\ calls' \in [Calls -> CallType] /\ Only(c)
      /\ Identity(calls'[c], s) /\ Place(calls'[c], s) /\ Progress(calls'[c], s)
      /\ calls'[c].got = s.got
      /\ IF Listening(s) THEN calls'[c].events # <<>> ELSE calls'[c].events = s.events
  <2>1. CASE Listening(s)
    <3> DEFINE more == Append(s.events, reader[p].what)
               r == [s EXCEPT !.events = more]
    <3>1. more \in Seq(Terminal \cup {"error"}) /\ more # <<>>
      <4>1. s.events \in Seq(Terminal \cup {"error"}) /\ reader[p].what \in Terminal \cup {"error"}
        BY <1>1, <1>2 DEF CallType
      <4> QED BY <4>1
    <3>2. Update(c, r)
      BY <2>1 DEF SendEvent, Update
    <3> HIDE DEF more
    <3>3. r \in CallType
      BY <1>2, <3>1 DEF CallType
    <3>4. /\ Identity(r, s) /\ Place(r, s) /\ Progress(r, s) /\ r.got = s.got /\ r.events # <<>>
      BY <1>2, <3>1 DEF CallType, Identity, Place, Progress
    <3> HIDE DEF r
    <3>5. calls' \in [Calls -> CallType] /\ calls'[c] = r /\ Only(c)
      BY <1>1, <3>2, <3>3, Updated
    <3> QED BY <2>1, <3>4, <3>5
  <2>2. CASE ~Listening(s)
    <3>1. calls' = calls
      BY <2>2 DEF SendEvent
    <3> QED BY <2>2, <3>1 DEF StateType, Only, Identity, Place, Progress
  <2> QED BY <2>1, <2>2
<1> HIDE DEF x
<1>6. /\ reader' \in [Processes -> [at : {"reading", "routing", "failing", "ended"},
                                    id : Calls \cup {None}, what : Terminal \cup {None}]]
      /\ reader'[p] = x /\ \A q \in Processes : q # p => reader'[q] = reader[q]
  BY <1>3, <1>4 DEF StateType
<1>7. /\ LifeKept /\ RoutesKept /\ SentKept /\ child' = child
      /\ io' = io /\ hung' = hung /\ faults' = faults
  BY DEF SendEvent, lifeVars, routeVars, providerVars, LifeKept, RoutesKept, SentKept
<1>8. StateType'
  BY <1>5, <1>6, <1>7 DEF StateType, LifeKept, RoutesKept, SentKept
<1>9. SendsEvent(p, c)
  BY <1>1, <1>4, <1>5, <1>6, <1>7 DEF SendsEvent
<1> QED BY <1>1, <1>8, <1>9 DEF Reads

\* The reader task is at another place.
LEMMA ReaderMoves ==
  ASSUME StateType, NEW p \in Processes, NEW place \in {"reading", "routing", "failing", "ended"},
         reader' = [reader EXCEPT ![p].at = place]
  PROVE  /\ reader' \in [Processes -> [at : {"reading", "routing", "failing", "ended"},
                                       id : Calls \cup {None}, what : Terminal \cup {None}]]
         /\ reader'[p].at = place /\ \A q \in Processes : q # p => reader'[q] = reader[q]
<1>1. reader \in [Processes -> [at : {"reading", "routing", "failing", "ended"},
                               id : Calls \cup {None}, what : Terminal \cup {None}]]
  BY DEF StateType
<1> QED BY <1>1, SMTT(40)

\* The reader fails the process, unless it has failed before.
LEMMA ReadFailureEffect ==
  ASSUME StateType, NEW p \in Processes, ReadFailure(p)
  PROVE  StateType' /\ Reads(p)
<1>1. /\ child[p] # "none" /\ reader[p].at = "reading" /\ faults' \in Nat
      /\ LifeKept /\ io' = io /\ child' = child /\ hung' = hung /\ SentKept
  BY DEF ReadFailure, Reading, StateType, lifeVars, LifeKept, SentKept
<1>2. CASE failed[p]
  <2>1. reader' = [reader EXCEPT ![p].at = "ended"] /\ RoutesKept /\ calls' = calls
    BY <1>2 DEF ReadFailure, routeVars, RoutesKept
  <2>2. /\ reader' \in [Processes -> [at : {"reading", "routing", "failing", "ended"},
                                      id : Calls \cup {None}, what : Terminal \cup {None}]]
        /\ reader'[p].at = "ended" /\ \A q \in Processes : q # p => reader'[q] = reader[q]
    BY <2>1, ReaderMoves
  <2>3. StateType'
    BY <1>1, <2>1, <2>2 DEF StateType, LifeKept, RoutesKept, SentKept
  <2>4. ReaderStops(p)
    BY <1>1, <1>2, <2>1, <2>2 DEF ReaderStops
  <2> QED BY <2>3, <2>4 DEF Reads
<1>3. CASE ~failed[p]
  <2>1. /\ FailPending(p) /\ calls' = Delivered(pending[p], streams[p])
        /\ reader' = [reader EXCEPT ![p].at = "failing"]
    BY <1>3 DEF ReadFailure
  <2>2. /\ FailsRoutes(p) /\ failed' \in [Processes -> BOOLEAN]
        /\ pending' \in [Processes -> SUBSET Calls] /\ streams' \in [Processes -> SUBSET Calls]
        /\ pending[p] \in SUBSET Calls /\ streams[p] \in SUBSET Calls
    BY <2>1, RoutesFail
  <2>3. /\ calls' \in [Calls -> CallType]
        /\ \A d \in Calls : Heard(d, p, calls[d].at)
    BY <2>1, <2>2, HasHeard DEF Heard
  <2>4. /\ reader' \in [Processes -> [at : {"reading", "routing", "failing", "ended"},
                                      id : Calls \cup {None}, what : Terminal \cup {None}]]
        /\ reader'[p].at = "failing" /\ \A q \in Processes : q # p => reader'[q] = reader[q]
    BY <2>1, ReaderMoves
  <2>5. StateType'
    BY <1>1, <2>2, <2>3, <2>4 DEF StateType, LifeKept, SentKept
  <2>6. ReaderFails(p)
    BY <1>1, <1>3, <2>2, <2>3, <2>4 DEF ReaderFails
  <2> QED BY <2>5, <2>6 DEF Reads
<1> QED BY <1>2, <1>3

\* begin_termination by the reader.
LEMMA ReaderKillsEffect ==
  ASSUME StateType, NEW p \in Processes, ReaderKills(p)
  PROVE  StateType' /\ Reads(p)
<1>1. /\ reader[p].at = "failing" /\ child' = [child EXCEPT ![p] = "killed"]
      /\ reader' = [reader EXCEPT ![p].at = "ended"]
  BY DEF ReaderKills, Terminate, Killed
<1>2. /\ child' \in [Processes -> {"none", "running", "exited", "killed"}]
      /\ Sets(child', child, p, "killed")
  BY <1>1 DEF StateType, Sets
<1>3. /\ reader' \in [Processes -> [at : {"reading", "routing", "failing", "ended"},
                                    id : Calls \cup {None}, what : Terminal \cup {None}]]
      /\ reader'[p].at = "ended" /\ \A q \in Processes : q # p => reader'[q] = reader[q]
  BY <1>1, ReaderMoves
<1>4. /\ LifeKept /\ RoutesKept /\ SentKept /\ calls' = calls
      /\ io' = io /\ hung' = hung /\ faults' = faults
  BY DEF ReaderKills, lifeVars, routeVars, providerVars, LifeKept, RoutesKept, SentKept
<1>5. StateType'
  BY <1>2, <1>3, <1>4 DEF StateType, LifeKept, RoutesKept, SentKept
<1>6. ReaderKilled(p)
  BY <1>1, <1>2, <1>3, <1>4 DEF ReaderKilled
<1> QED BY <1>5, <1>6 DEF Reads

\* What befalls a provider by itself.
LEMMA ProviderEffect ==
  ASSUME StateType, NEW p \in Processes, Die(p) \/ Hang(p) \/ Recover(p)
  PROVE  StateType' /\ (Reads(p) \/ Waits)
<1>0. faults \in Nat /\ faults + 1 \in Nat /\ hung \in [Processes -> BOOLEAN]
  BY DEF StateType
<1>1. /\ LifeKept /\ RoutesKept /\ SentKept /\ reader' = reader /\ calls' = calls /\ io' = io
      /\ faults' \in Nat /\ hung' \in [Processes -> BOOLEAN] /\ child[p] = "running"
  <2>1. CASE Die(p)
    BY <1>0, <2>1 DEF Die, Alive, lifeVars, routeVars, LifeKept, RoutesKept, SentKept
  <2>2. CASE Hang(p)
    BY <1>0, <2>2 DEF Hang, Alive, lifeVars, routeVars, LifeKept, RoutesKept, SentKept
  <2>3. CASE Recover(p)
    BY <1>0, <2>3 DEF Recover, Alive, lifeVars, routeVars, LifeKept, RoutesKept, SentKept
  <2> QED BY <2>1, <2>2, <2>3
<1>2. CASE Die(p)
  <2>1. /\ child' \in [Processes -> {"none", "running", "exited", "killed"}]
        /\ Sets(child', child, p, "exited")
    BY <1>2 DEF Die, StateType, Sets
  <2>2. StateType'
    BY <1>1, <2>1 DEF StateType, LifeKept, RoutesKept, SentKept
  <2>3. Dies(p)
    BY <1>1, <2>1 DEF Dies
  <2> QED BY <2>2, <2>3 DEF Reads
<1>3. CASE Hang(p) \/ Recover(p)
  <2>1. child' = child
    BY <1>3 DEF Hang, Recover
  <2>2. StateType'
    BY <1>1, <2>1 DEF StateType, LifeKept, RoutesKept, SentKept
  <2>3. Waits
    BY <1>1, <2>1 DEF Waits, OthersKept, ChildKept
  <2> QED BY <2>2, <2>3
<1> QED BY <1>2, <1>3

\* The four parts of ProviderHost::shutdown.
LEMMA StopEffect ==
  ASSUME StateType, ProcessInv, Shutdown \/ StopStep
  PROVE  StateType' /\ (Stopping \/ Waits)
<1> DEFINE p == stopping.proc
           StopType == [at : {"up", "notice", "fail", "kill", "down"}, proc : Processes \cup {None}]
<1>1. CASE Shutdown
  <2>1. /\ stopping.at = "up" /\ is_shutdown' = TRUE /\ current' = None /\ calls' = calls
        /\ stopping' = [at |-> IF current = None THEN "down" ELSE "notice", proc |-> current]
        /\ RoutesKept /\ SentKept /\ ChildKept /\ io' = io /\ hung' = hung /\ faults' = faults
    BY <1>1 DEF Shutdown, routeVars, providerVars, RoutesKept, SentKept, ChildKept
  <2>2. /\ stopping'.at = (IF current = None THEN "down" ELSE "notice") /\ stopping'.proc = current
        /\ stopping' \in StopType
    BY <2>1 DEF StateType
  <2>3. StateType'
    BY <2>1, <2>2 DEF StateType, RoutesKept, SentKept, ChildKept
  <2>4. ShutsDown
    BY <2>1, <2>2 DEF ShutsDown
  <2> QED BY <2>3, <2>4 DEF Stopping
<1>2. ASSUME NEW place \in {"notice", "fail", "kill", "down"}, Stop(place)
      PROVE  stopping' \in StopType /\ stopping'.at = place /\ stopping'.proc = p
  BY <1>2 DEF Stop, StateType
<1>3. CASE Notify
  <2>1. p \in Processes /\ stopping.at = "notice"
    BY <1>3 DEF Notify, ProcessInv, MapInv
  <2>2. /\ is_shutdown' = is_shutdown /\ current' = current /\ calls' = calls
        /\ RoutesKept /\ SentKept /\ ChildKept /\ hung' = hung /\ faults' = faults
    BY <1>3 DEF Notify, routeVars, providerVars, RoutesKept, SentKept, ChildKept
  <2>3. io' \in [Processes -> Calls \cup {"host", None}]
    BY <1>3, <2>1 DEF Notify, StateType
  <2>4. CASE stopping' = stopping
    <3>1. StateType'
      BY <2>2, <2>3, <2>4 DEF StateType, RoutesKept, SentKept, ChildKept
    <3> QED BY <2>2, <2>4, <3>1 DEF Waits, OthersKept, LifeKept
  <2>5. CASE Stop("fail")
    <3>1. StateType'
      BY <1>2, <2>2, <2>3, <2>5 DEF StateType, RoutesKept, SentKept, ChildKept
    <3>2. StopNotified
      BY <1>2, <2>1, <2>2, <2>5 DEF StopNotified, StopMoves
    <3> QED BY <3>1, <3>2 DEF Stopping
  <2> QED BY <1>3, <2>4, <2>5 DEF Notify
<1>4. CASE FailStopped
  <2>1. p \in Processes /\ stopping.at = "fail"
    BY <1>4 DEF FailStopped, ProcessInv, MapInv
  <2>2. FailPending(p) /\ calls' = Delivered(pending[p], streams[p]) /\ Stop("kill")
    BY <1>4 DEF FailStopped
  <2>3. /\ FailsRoutes(p) /\ failed' \in [Processes -> BOOLEAN]
        /\ pending' \in [Processes -> SUBSET Calls] /\ streams' \in [Processes -> SUBSET Calls]
        /\ pending[p] \in SUBSET Calls /\ streams[p] \in SUBSET Calls
    BY <2>1, <2>2, RoutesFail
  <2>4. /\ calls' \in [Calls -> CallType]
        /\ \A d \in Calls : Heard(d, p, calls[d].at)
    BY <2>2, <2>3, HasHeard DEF Heard
  <2>5. /\ is_shutdown' = is_shutdown /\ current' = current /\ SentKept /\ ChildKept
        /\ io' = io /\ hung' = hung /\ faults' = faults
    BY <1>4 DEF FailStopped, providerVars, SentKept, ChildKept
  <2>6. StateType'
    BY <1>2, <2>2, <2>3, <2>4, <2>5 DEF StateType, SentKept, ChildKept
  <2>7. StopFails(p)
    BY <1>2, <2>1, <2>2, <2>3, <2>4, <2>5 DEF StopFails, StopMoves
  <2> QED BY <2>1, <2>6, <2>7 DEF Stopping
<1>5. CASE KillStopped
  <2>1. p \in Processes /\ stopping.at = "kill"
    BY <1>5 DEF KillStopped, ProcessInv, MapInv
  <2>2. child' = [child EXCEPT ![p] = "killed"] /\ Stop("down")
    BY <1>5 DEF KillStopped, Terminate, Killed
  <2>3. /\ child' \in [Processes -> {"none", "running", "exited", "killed"}]
        /\ Sets(child', child, p, "killed")
    BY <2>1, <2>2 DEF StateType, Sets
  <2>4. /\ is_shutdown' = is_shutdown /\ current' = current /\ SentKept /\ RoutesKept
        /\ reader' = reader /\ calls' = calls /\ io' = io /\ hung' = hung /\ faults' = faults
    BY <1>5 DEF KillStopped, routeVars, providerVars, SentKept, RoutesKept
  <2>5. StateType'
    BY <1>2, <2>2, <2>3, <2>4 DEF StateType, SentKept, RoutesKept
  <2>6. StopKills(p)
    BY <1>2, <2>1, <2>2, <2>3, <2>4 DEF StopKills, StopMoves
  <2> QED BY <2>1, <2>5, <2>6 DEF Stopping
<1> QED BY <1>1, <1>3, <1>4, <1>5 DEF StopStep

\* Every step of the host has one of the effects, and keeps the types.
LEMMA StepEffect ==
  ASSUME HostInv, [HostNext]_hostVars
  PROVE  StateType' /\ Step
<1>0. StateType /\ ProcessInv /\ HolderInv /\ CallInv
  BY DEF HostInv
<1>1. ASSUME NEW c \in Calls, NEW kind \in Kinds[c], Begin(c, kind) PROVE StateType' /\ Step
  BY <1>0, <1>1, BeginEffect DEF Step
<1>2. ASSUME NEW c \in Calls, CallStep(c) PROVE StateType' /\ Step
  <2>1. CASE PickProcess(c)
    BY <1>0, <2>1, PickEffect DEF Step
  <2>2. CASE Publish(c)
    BY <1>0, <2>2, PublishEffect DEF Step
  <2>3. CASE Register(c)
    BY <1>0, <2>3, RegisterEffect DEF Step
  <2>4. CASE Unroute(c)
    BY <1>0, <2>4, UnrouteEffect DEF Step
  <2>5. CASE Write(c)
    BY <1>0, <2>5, WriteEffect DEF Step
  <2>6. CASE BlockOnWrite(c)
    BY <1>0, <2>6, BlockEffect DEF Step
  <2>7. CASE FailProcess(c)
    BY <1>0, <2>7, FailEffect DEF Step
  <2>8. CASE KillProcess(c)
    BY <1>0, <2>8, KillEffect DEF Step
  <2>9. CASE TakeAnswer(c) \/ Deadline(c)
    BY <1>0, <2>9, RequestEffect DEF Step
  <2>10. CASE TakeResponse(c) \/ TakeEvent(c) \/ SeeCancellation(c) \/ Idle(c)
    BY <1>0, <2>10, CollectorEffect DEF Step
  <2> QED BY <1>2, <2>1, <2>2, <2>3, <2>4, <2>5, <2>6, <2>7, <2>8, <2>9, <2>10 DEF CallStep
<1>3. CASE Shutdown \/ StopStep
  BY <1>0, <1>3, StopEffect DEF Step
<1>4. ASSUME NEW p \in Processes,
             \/ SendEvent(p) \/ ReaderKills(p) \/ ReadFailure(p) \/ Die(p) \/ Hang(p) \/ Recover(p)
             \/ \E c \in Calls, what \in Responses \cup Terminal :
                  ReadResponse(p, c, what) \/ ReadEvent(p, c, what)
      PROVE  StateType' /\ Step
  <2>1. CASE SendEvent(p)
    BY <1>0, <2>1, SendEventEffect DEF Step
  <2>2. CASE ReaderKills(p)
    BY <1>0, <2>2, ReaderKillsEffect DEF Step
  <2>3. CASE ReadFailure(p)
    BY <1>0, <2>3, ReadFailureEffect DEF Step
  <2>4. CASE Die(p) \/ Hang(p) \/ Recover(p)
    BY <1>0, <2>4, ProviderEffect DEF Step
  <2>5. ASSUME NEW c \in Calls, NEW what, ReadResponse(p, c, what) \/ ReadEvent(p, c, what)
        PROVE  StateType' /\ Step
    BY <1>0, <2>5, ResponseEffect, EventEffect DEF Step
  <2> QED BY <1>4, <2>1, <2>2, <2>3, <2>4, <2>5
<1>5. CASE UNCHANGED hostVars
  <2>1. Waits /\ io' = io /\ hung' = hung /\ faults' = faults
    BY <1>5 DEF hostVars, lifeVars, routeVars, providerVars, Waits, OthersKept, LifeKept, RoutesKept,
         SentKept, ChildKept
  <2>2. StateType'
    BY <1>0, <2>1 DEF StateType, Waits, OthersKept, LifeKept, RoutesKept, SentKept, ChildKept
  <2> QED BY <2>1, <2>2 DEF Step
<1> QED BY <1>1, <1>2, <1>3, <1>4, <1>5 DEF HostNext

--------------------------------------------------------------------------------
(* Each part of the invariant is kept by every effect.                      *)

\* The types the steps need.
LEMMA StepTypes ==
  ASSUME HostInv, StateType'
  PROVE  /\ current \in Processes \cup {None} /\ current' \in Processes \cup {None}
         /\ is_shutdown \in BOOLEAN /\ is_shutdown' \in BOOLEAN
         /\ stopping.at \in {"up", "notice", "fail", "kill", "down"}
         /\ stopping.proc \in Processes \cup {None} /\ stopping'.proc \in Processes \cup {None}
         /\ \A d \in Calls :
              /\ calls[d].proc \in Processes \cup {None} /\ calls[d].id \in Calls
              /\ calls[d].kind \in {"new", "request", "chat", "cancel"}
              /\ calls[d].job \in {"send", "cancel"}
              /\ calls[d].cancels \in Nat /\ calls'[d].cancels \in Nat
              /\ calls[d].response \in BOOLEAN /\ calls[d].completed \in BOOLEAN
              /\ calls[d].idle \in BOOLEAN
              /\ calls'[d].proc \in Processes \cup {None} /\ calls'[d].id \in Calls
              /\ calls'[d].response \in BOOLEAN /\ calls'[d].completed \in BOOLEAN
         /\ \A p \in Processes :
              /\ failed[p] \in BOOLEAN /\ failed'[p] \in BOOLEAN
              /\ child[p] \in {"none", "running", "exited", "killed"}
              /\ pending[p] \subseteq Calls /\ streams[p] \subseteq Calls /\ accepted[p] \subseteq Calls
              /\ reader[p].id \in Calls \cup {None}
<1>2. StateType
  BY DEF HostInv
<1>3. \A d \in Calls : calls[d] \in CallType /\ calls'[d] \in CallType
  BY <1>2 DEF StateType
<1>4. ASSUME NEW d \in Calls
      PROVE  /\ calls[d].proc \in Processes \cup {None} /\ calls[d].id \in Calls
             /\ calls[d].kind \in {"new", "request", "chat", "cancel"}
             /\ calls[d].job \in {"send", "cancel"}
             /\ calls[d].cancels \in Nat /\ calls'[d].cancels \in Nat
             /\ calls[d].response \in BOOLEAN /\ calls[d].completed \in BOOLEAN
             /\ calls[d].idle \in BOOLEAN
             /\ calls'[d].proc \in Processes \cup {None} /\ calls'[d].id \in Calls
             /\ calls'[d].response \in BOOLEAN /\ calls'[d].completed \in BOOLEAN
  BY <1>3 DEF CallType
<1>5. /\ current \in Processes \cup {None} /\ current' \in Processes \cup {None}
      /\ is_shutdown \in BOOLEAN /\ is_shutdown' \in BOOLEAN
      /\ stopping.at \in {"up", "notice", "fail", "kill", "down"}
      /\ stopping.proc \in Processes \cup {None} /\ stopping'.proc \in Processes \cup {None}
  BY <1>2 DEF StateType
<1>6. ASSUME NEW p \in Processes
      PROVE  /\ failed[p] \in BOOLEAN /\ failed'[p] \in BOOLEAN
             /\ child[p] \in {"none", "running", "exited", "killed"}
             /\ pending[p] \subseteq Calls /\ streams[p] \subseteq Calls /\ accepted[p] \subseteq Calls
             /\ reader[p].id \in Calls \cup {None}
  BY <1>2 DEF StateType
<1> QED BY <1>4, <1>5, <1>6

\* Of the map and of shutdown.
LEMMA MapKept ==
  ASSUME HostInv, StateType', Step
  PROVE  MapInv'
<1>1. ASSUME NEW c \in Calls, Begins(c) PROVE MapInv'
  BY <1>1, NoneIsNothing, StepTypes DEF Begins, OthersKept, LifeKept, RoutesKept, SentKept,
     ChildKept, Only, Progress, MapInv, ProcessInv, HostInv
<1>2. ASSUME NEW c \in Calls, NEW t \in Calls, BeginsCancel(c, t) PROVE MapInv'
  BY <1>2, NoneIsNothing, StepTypes DEF BeginsCancel, OthersKept, LifeKept, RoutesKept, SentKept,
     ChildKept, Identity, Place, Progress, AtRest, MapInv, ProcessInv, HostInv
<1>3. ASSUME NEW c \in Calls, Enters(c) PROVE MapInv'
  BY <1>3, NoneIsNothing, StepTypes DEF Enters, OthersKept, LifeKept, RoutesKept, SentKept,
     ChildKept, Only, MovesOn, Identity, Progress, MapInv, ProcessInv, HostInv
<1>4. ASSUME NEW c \in Calls, FindsNone(c) PROVE MapInv'
  BY <1>4, NoneIsNothing, StepTypes DEF FindsNone, OthersKept, LifeKept, RoutesKept, SentKept,
     ChildKept, Only, Ends, Returns, Cancels, Identity, AtRest, MapInv, ProcessInv, HostInv
<1>5. ASSUME NEW c \in Calls, NEW p \in Processes, Starts(c, p) PROVE MapInv'
  BY <1>5, NoneIsNothing, StepTypes DEF Starts, LifeKept, RoutesKept, SentKept, Sets, Only,
     MovesOn, Identity, Progress, MapInv, ProcessInv, HostInv, OwnedInv, HolderInv, HoldingInv,
     HoldsProcess
<1>6. ASSUME NEW c \in Calls, NEW p \in Processes, PublishLost(c, p) PROVE MapInv'
  BY <1>6, NoneIsNothing, StepTypes DEF PublishLost, LifeKept, SentKept, Sets, Only, MovesOn, Ends,
     Returns, Cancels, Identity, Progress, AtRest, MapInv, ProcessInv, HostInv, OwnedInv,
     HolderInv, HoldingInv, HoldsProcess
<1>7. ASSUME NEW c \in Calls, NEW p \in Processes, PublishWon(c, p) PROVE MapInv'
  BY <1>7, NoneIsNothing, StepTypes DEF PublishWon, RoutesKept, SentKept, ChildKept, Only, MovesOn,
     Identity, Progress, MapInv, ProcessInv, HostInv, OwnedInv, HolderInv, HoldingInv, HoldsProcess
<1>8. ASSUME NEW c \in Calls, NEW p \in Processes, RegisterRefused(c, p) PROVE MapInv'
  BY <1>8, NoneIsNothing, StepTypes DEF RegisterRefused, OthersKept, LifeKept, RoutesKept,
     SentKept, ChildKept, Only, Returns, Identity, AtRest, MapInv, ProcessInv, HostInv
<1>9. ASSUME NEW c \in Calls, NEW p \in Processes, Registers(c, p) PROVE MapInv'
  BY <1>9, NoneIsNothing, StepTypes DEF Registers, LifeKept, SentKept, ChildKept, Sets, Only,
     MovesOn, Identity, Progress, MapInv, ProcessInv, HostInv
<1>10. ASSUME NEW c \in Calls, NEW p \in Processes, NEW t \in Calls, Unroutes(c, p, t) PROVE MapInv'
  BY <1>10, NoneIsNothing, StepTypes DEF Unroutes, LifeKept, SentKept, ChildKept, Sets, Hears,
     Listening, MovesOn, Ends, Returns, Cancels, Identity, Progress, AtRest, MapInv, ProcessInv,
     HostInv
<1>11. ASSUME NEW c \in Calls, NEW p \in Processes, WriteBroken(c, p) PROVE MapInv'
  BY <1>11, NoneIsNothing, StepTypes DEF WriteBroken, OthersKept, LifeKept, RoutesKept, SentKept,
     ChildKept, Only, MovesOn, Identity, Progress, MapInv, ProcessInv, HostInv
<1>12. ASSUME NEW c \in Calls, NEW p \in Processes, Sends(c, p) PROVE MapInv'
  BY <1>12, NoneIsNothing, StepTypes DEF Sends, LifeKept, RoutesKept, ChildKept, Sets, Only,
     MovesOn, Identity, Progress, MapInv, ProcessInv, HostInv
<1>13. ASSUME NEW c \in Calls, NEW p \in Processes, NEW t \in Calls, Tells(c, p, t) PROVE MapInv'
  BY <1>13, NoneIsNothing, StepTypes DEF Tells, LifeKept, RoutesKept, ChildKept, Sets, Only, Ends,
     Returns, Cancels, Identity, AtRest, MapInv, ProcessInv, HostInv
<1>14. ASSUME NEW c \in Calls, NEW p \in Processes, FoundFailed(c, p) PROVE MapInv'
  BY <1>14, NoneIsNothing, StepTypes DEF FoundFailed, OthersKept, LifeKept, RoutesKept, SentKept,
     ChildKept, Only, Resumes, Ends, Returns, Cancels, Identity, AtRest, MapInv, ProcessInv,
     HostInv
<1>15. ASSUME NEW c \in Calls, NEW p \in Processes, Fails(c, p) PROVE MapInv'
  BY <1>15, NoneIsNothing, StepTypes DEF Fails, LifeKept, SentKept, ChildKept, Sets, FailsRoutes,
     Heard, Hears, Listening, Identity, Progress, MapInv, ProcessInv, HostInv
<1>16. ASSUME NEW c \in Calls, NEW p \in Processes, Kills(c, p) PROVE MapInv'
  BY <1>16, NoneIsNothing, StepTypes DEF Kills, LifeKept, RoutesKept, SentKept, Sets, Only,
     Resumes, Ends, Returns, Cancels, Identity, AtRest, MapInv, ProcessInv, HostInv
<1>17. ASSUME NEW c \in Calls, Answered(c) PROVE MapInv'
  BY <1>17, NoneIsNothing, StepTypes DEF Answered, OthersKept, LifeKept, RoutesKept, SentKept,
     ChildKept, Only, Returns, Identity, AtRest, MapInv, ProcessInv, HostInv
<1>18. ASSUME NEW c \in Calls, TimesOut(c) PROVE MapInv'
  BY <1>18, NoneIsNothing, StepTypes DEF TimesOut, OthersKept, LifeKept, RoutesKept, SentKept,
     ChildKept, Only, MovesOn, Identity, Progress, MapInv, ProcessInv, HostInv
<1>19. ASSUME NEW c \in Calls, Abandons(c) PROVE MapInv'
  BY <1>19, NoneIsNothing, StepTypes DEF Abandons, OthersKept, LifeKept, RoutesKept, SentKept,
     ChildKept, Only, Cancels, Identity, MapInv, ProcessInv, HostInv
<1>20. ASSUME NEW c \in Calls, Collects(c) PROVE MapInv'
  BY <1>20, NoneIsNothing, StepTypes DEF Collects, OthersKept, LifeKept, RoutesKept, SentKept,
     ChildKept, Only, Identity, Place, AtRest, MapInv, ProcessInv, HostInv
<1>21. ASSUME NEW c \in Calls, GrowsIdle(c) PROVE MapInv'
  BY <1>21, NoneIsNothing, StepTypes DEF GrowsIdle, OthersKept, LifeKept, RoutesKept, SentKept,
     ChildKept, Only, MovesOn, Identity, Progress, MapInv, ProcessInv, HostInv
<1>22. ASSUME NEW p \in Processes, NEW c \in Calls, Answers(p, c) PROVE MapInv'
  BY <1>22, NoneIsNothing, StepTypes DEF Answers, LifeKept, SentKept, ChildKept, Sets, Only,
     Listening, Identity, Place, Progress, MapInv, ProcessInv, HostInv
<1>23. ASSUME NEW p \in Processes, NEW c \in Calls, TakesEvent(p, c) PROVE MapInv'
  BY <1>23, NoneIsNothing, StepTypes DEF TakesEvent, LifeKept, SentKept, Sets, MapInv, ProcessInv,
     HostInv
<1>24. ASSUME NEW p \in Processes, NEW c \in Calls, SendsEvent(p, c) PROVE MapInv'
  BY <1>24, NoneIsNothing, StepTypes DEF SendsEvent, LifeKept, RoutesKept, SentKept, Only,
     Listening, Identity, Place, Progress, MapInv, ProcessInv, HostInv
<1>25. ASSUME NEW p \in Processes, ReaderStops(p) PROVE MapInv'
  BY <1>25, NoneIsNothing, StepTypes DEF ReaderStops, LifeKept, RoutesKept, SentKept, MapInv,
     ProcessInv, HostInv
<1>26. ASSUME NEW p \in Processes, ReaderFails(p) PROVE MapInv'
  BY <1>26, NoneIsNothing, StepTypes DEF ReaderFails, LifeKept, SentKept, Sets, FailsRoutes, Heard,
     Hears, Listening, Identity, Progress, MapInv, ProcessInv, HostInv
<1>27. ASSUME NEW p \in Processes, ReaderKilled(p) PROVE MapInv'
  BY <1>27, NoneIsNothing, StepTypes DEF ReaderKilled, LifeKept, RoutesKept, SentKept, Sets,
     MapInv, ProcessInv, HostInv
<1>28. ASSUME NEW p \in Processes, Dies(p) PROVE MapInv'
  BY <1>28, NoneIsNothing, StepTypes DEF Dies, LifeKept, RoutesKept, SentKept, Sets, MapInv,
     ProcessInv, HostInv
<1>29. CASE Waits
  BY <1>29, NoneIsNothing, StepTypes DEF Waits, OthersKept, LifeKept, RoutesKept, SentKept,
     ChildKept, MapInv, ProcessInv, HostInv
<1>30. CASE ShutsDown
  BY <1>30, NoneIsNothing, StepTypes DEF ShutsDown, RoutesKept, SentKept, ChildKept, MapInv,
     ProcessInv, HostInv
<1>31. CASE StopNotified
  BY <1>31, NoneIsNothing, StepTypes DEF StopNotified, RoutesKept, SentKept, ChildKept, StopMoves,
     MapInv, ProcessInv, HostInv
<1>32. ASSUME NEW p \in Processes, StopFails(p) PROVE MapInv'
  BY <1>32, NoneIsNothing, StepTypes DEF StopFails, SentKept, ChildKept, Sets, FailsRoutes, Heard,
     Hears, Listening, Identity, Progress, StopMoves, MapInv, ProcessInv, HostInv
<1>33. ASSUME NEW p \in Processes, StopKills(p) PROVE MapInv'
  BY <1>33, NoneIsNothing, StepTypes DEF StopKills, RoutesKept, SentKept, Sets, StopMoves, MapInv,
     ProcessInv, HostInv
<1> QED BY <1>1, <1>2, <1>3, <1>4, <1>5, <1>6, <1>7, <1>8, <1>9, <1>10, <1>11, <1>12, <1>13, <1>14,
   <1>15, <1>16, <1>17, <1>18, <1>19, <1>20, <1>21, <1>22, <1>23, <1>24, <1>25, <1>26, <1>27,
   <1>28, <1>29, <1>30, <1>31, <1>32, <1>33 DEF Step, Picking, Writing, Waiting, Reads, Stopping

\* Of what a call holds.
LEMMA HoldingKept ==
  ASSUME HostInv, StateType', NEW d \in Calls, Step
  PROVE  HoldingInv(d)'
<1>1. ASSUME NEW c \in Calls, Begins(c) PROVE HoldingInv(d)'
  BY <1>1, NoneIsNothing, StepTypes DEF Begins, OthersKept, LifeKept, RoutesKept, SentKept,
     ChildKept, Only, Progress, HostInv, HolderInv, HoldingInv, HoldsProcess, ProcessInv, MapInv
<1>2. ASSUME NEW c \in Calls, NEW t \in Calls, BeginsCancel(c, t) PROVE HoldingInv(d)'
  BY <1>2, NoneIsNothing, StepTypes DEF BeginsCancel, OthersKept, LifeKept, RoutesKept, SentKept,
     ChildKept, Identity, Place, Progress, AtRest, HostInv, HolderInv, HoldingInv, HoldsProcess,
     ProcessInv, MapInv
<1>3. ASSUME NEW c \in Calls, Enters(c) PROVE HoldingInv(d)'
  BY <1>3, NoneIsNothing, StepTypes DEF Enters, OthersKept, LifeKept, RoutesKept, SentKept,
     ChildKept, Only, MovesOn, Identity, Progress, HostInv, HolderInv, HoldingInv, HoldsProcess,
     ProcessInv, MapInv
<1>4. ASSUME NEW c \in Calls, FindsNone(c) PROVE HoldingInv(d)'
  BY <1>4, NoneIsNothing, StepTypes DEF FindsNone, OthersKept, LifeKept, RoutesKept, SentKept,
     ChildKept, Only, Ends, Returns, Cancels, Identity, AtRest, HostInv, HolderInv, HoldingInv,
     HoldsProcess, ProcessInv, MapInv
<1>5. ASSUME NEW c \in Calls, NEW p \in Processes, Starts(c, p) PROVE HoldingInv(d)'
  BY <1>5, NoneIsNothing, StepTypes DEF Starts, LifeKept, RoutesKept, SentKept, Sets, Only,
     MovesOn, Identity, Progress, HostInv, HolderInv, HoldingInv, HoldsProcess, ProcessInv, MapInv
<1>6. ASSUME NEW c \in Calls, NEW p \in Processes, PublishLost(c, p) PROVE HoldingInv(d)'
  BY <1>6, NoneIsNothing, StepTypes DEF PublishLost, LifeKept, SentKept, Sets, Only, MovesOn, Ends,
     Returns, Cancels, Identity, Progress, AtRest, HostInv, HolderInv, HoldingInv, HoldsProcess,
     ProcessInv, MapInv
<1>7. ASSUME NEW c \in Calls, NEW p \in Processes, PublishWon(c, p) PROVE HoldingInv(d)'
  BY <1>7, NoneIsNothing, StepTypes DEF PublishWon, RoutesKept, SentKept, ChildKept, Only, MovesOn,
     Identity, Progress, HostInv, HolderInv, HoldingInv, HoldsProcess, ProcessInv, MapInv
<1>8. ASSUME NEW c \in Calls, NEW p \in Processes, RegisterRefused(c, p) PROVE HoldingInv(d)'
  BY <1>8, NoneIsNothing, StepTypes DEF RegisterRefused, OthersKept, LifeKept, RoutesKept,
     SentKept, ChildKept, Only, Returns, Identity, AtRest, HostInv, HolderInv, HoldingInv,
     HoldsProcess, ProcessInv, MapInv
<1>9. ASSUME NEW c \in Calls, NEW p \in Processes, Registers(c, p) PROVE HoldingInv(d)'
  BY <1>9, NoneIsNothing, StepTypes DEF Registers, LifeKept, SentKept, ChildKept, Sets, Only,
     MovesOn, Identity, Progress, HostInv, HolderInv, HoldingInv, HoldsProcess, ProcessInv, MapInv
<1>10. ASSUME NEW c \in Calls, NEW p \in Processes, NEW t \in Calls, Unroutes(c, p, t) PROVE HoldingInv(d)'
  BY <1>10, NoneIsNothing, StepTypes DEF Unroutes, LifeKept, SentKept, ChildKept, Sets, Hears,
     Listening, MovesOn, Ends, Returns, Cancels, Identity, Progress, AtRest, HostInv, HolderInv,
     HoldingInv, HoldsProcess, ProcessInv, MapInv
<1>11. ASSUME NEW c \in Calls, NEW p \in Processes, WriteBroken(c, p) PROVE HoldingInv(d)'
  BY <1>11, NoneIsNothing, StepTypes DEF WriteBroken, OthersKept, LifeKept, RoutesKept, SentKept,
     ChildKept, Only, MovesOn, Identity, Progress, HostInv, HolderInv, HoldingInv, HoldsProcess,
     ProcessInv, MapInv
<1>12. ASSUME NEW c \in Calls, NEW p \in Processes, Sends(c, p) PROVE HoldingInv(d)'
  BY <1>12, NoneIsNothing, StepTypes DEF Sends, LifeKept, RoutesKept, ChildKept, Sets, Only,
     MovesOn, Identity, Progress, HostInv, HolderInv, HoldingInv, HoldsProcess, ProcessInv, MapInv
<1>13. ASSUME NEW c \in Calls, NEW p \in Processes, NEW t \in Calls, Tells(c, p, t) PROVE HoldingInv(d)'
  BY <1>13, NoneIsNothing, StepTypes DEF Tells, LifeKept, RoutesKept, ChildKept, Sets, Only, Ends,
     Returns, Cancels, Identity, AtRest, HostInv, HolderInv, HoldingInv, HoldsProcess, ProcessInv,
     MapInv
<1>14. ASSUME NEW c \in Calls, NEW p \in Processes, FoundFailed(c, p) PROVE HoldingInv(d)'
  BY <1>14, NoneIsNothing, StepTypes DEF FoundFailed, OthersKept, LifeKept, RoutesKept, SentKept,
     ChildKept, Only, Resumes, Ends, Returns, Cancels, Identity, AtRest, HostInv, HolderInv,
     HoldingInv, HoldsProcess, ProcessInv, MapInv
<1>15. ASSUME NEW c \in Calls, NEW p \in Processes, Fails(c, p) PROVE HoldingInv(d)'
  BY <1>15, NoneIsNothing, StepTypes DEF Fails, LifeKept, SentKept, ChildKept, Sets, FailsRoutes,
     Heard, Hears, Listening, Identity, Progress, HostInv, HolderInv, HoldingInv, HoldsProcess,
     ProcessInv, MapInv
<1>16. ASSUME NEW c \in Calls, NEW p \in Processes, Kills(c, p) PROVE HoldingInv(d)'
  BY <1>16, NoneIsNothing, StepTypes DEF Kills, LifeKept, RoutesKept, SentKept, Sets, Only,
     Resumes, Ends, Returns, Cancels, Identity, AtRest, HostInv, HolderInv, HoldingInv,
     HoldsProcess, ProcessInv, MapInv
<1>17. ASSUME NEW c \in Calls, Answered(c) PROVE HoldingInv(d)'
  BY <1>17, NoneIsNothing, StepTypes DEF Answered, OthersKept, LifeKept, RoutesKept, SentKept,
     ChildKept, Only, Returns, Identity, AtRest, HostInv, HolderInv, HoldingInv, HoldsProcess,
     ProcessInv, MapInv
<1>18. ASSUME NEW c \in Calls, TimesOut(c) PROVE HoldingInv(d)'
  BY <1>18, NoneIsNothing, StepTypes DEF TimesOut, OthersKept, LifeKept, RoutesKept, SentKept,
     ChildKept, Only, MovesOn, Identity, Progress, HostInv, HolderInv, HoldingInv, HoldsProcess,
     ProcessInv, MapInv
<1>19. ASSUME NEW c \in Calls, Abandons(c) PROVE HoldingInv(d)'
  BY <1>19, NoneIsNothing, StepTypes DEF Abandons, OthersKept, LifeKept, RoutesKept, SentKept,
     ChildKept, Only, Cancels, Identity, HostInv, HolderInv, HoldingInv, HoldsProcess, ProcessInv,
     MapInv
<1>20. ASSUME NEW c \in Calls, Collects(c) PROVE HoldingInv(d)'
  BY <1>20, NoneIsNothing, StepTypes DEF Collects, OthersKept, LifeKept, RoutesKept, SentKept,
     ChildKept, Only, Identity, Place, AtRest, HostInv, HolderInv, HoldingInv, HoldsProcess,
     ProcessInv, MapInv
<1>21. ASSUME NEW c \in Calls, GrowsIdle(c) PROVE HoldingInv(d)'
  BY <1>21, NoneIsNothing, StepTypes DEF GrowsIdle, OthersKept, LifeKept, RoutesKept, SentKept,
     ChildKept, Only, MovesOn, Identity, Progress, HostInv, HolderInv, HoldingInv, HoldsProcess,
     ProcessInv, MapInv
<1>22. ASSUME NEW p \in Processes, NEW c \in Calls, Answers(p, c) PROVE HoldingInv(d)'
  BY <1>22, NoneIsNothing, StepTypes DEF Answers, LifeKept, SentKept, ChildKept, Sets, Only,
     Listening, Identity, Place, Progress, HostInv, HolderInv, HoldingInv, HoldsProcess,
     ProcessInv, MapInv
<1>23. ASSUME NEW p \in Processes, NEW c \in Calls, TakesEvent(p, c) PROVE HoldingInv(d)'
  BY <1>23, NoneIsNothing, StepTypes DEF TakesEvent, LifeKept, SentKept, Sets, HostInv, HolderInv,
     HoldingInv, HoldsProcess, ProcessInv, MapInv
<1>24. ASSUME NEW p \in Processes, NEW c \in Calls, SendsEvent(p, c) PROVE HoldingInv(d)'
  BY <1>24, NoneIsNothing, StepTypes DEF SendsEvent, LifeKept, RoutesKept, SentKept, Only,
     Listening, Identity, Place, Progress, HostInv, HolderInv, HoldingInv, HoldsProcess,
     ProcessInv, MapInv
<1>25. ASSUME NEW p \in Processes, ReaderStops(p) PROVE HoldingInv(d)'
  BY <1>25, NoneIsNothing, StepTypes DEF ReaderStops, LifeKept, RoutesKept, SentKept, HostInv,
     HolderInv, HoldingInv, HoldsProcess, ProcessInv, MapInv
<1>26. ASSUME NEW p \in Processes, ReaderFails(p) PROVE HoldingInv(d)'
  BY <1>26, NoneIsNothing, StepTypes DEF ReaderFails, LifeKept, SentKept, Sets, FailsRoutes, Heard,
     Hears, Listening, Identity, Progress, HostInv, HolderInv, HoldingInv, HoldsProcess,
     ProcessInv, MapInv
<1>27. ASSUME NEW p \in Processes, ReaderKilled(p) PROVE HoldingInv(d)'
  BY <1>27, NoneIsNothing, StepTypes DEF ReaderKilled, LifeKept, RoutesKept, SentKept, Sets,
     HostInv, HolderInv, HoldingInv, HoldsProcess, ProcessInv, MapInv
<1>28. ASSUME NEW p \in Processes, Dies(p) PROVE HoldingInv(d)'
  BY <1>28, NoneIsNothing, StepTypes DEF Dies, LifeKept, RoutesKept, SentKept, Sets, HostInv,
     HolderInv, HoldingInv, HoldsProcess, ProcessInv, MapInv
<1>29. CASE Waits
  BY <1>29, NoneIsNothing, StepTypes DEF Waits, OthersKept, LifeKept, RoutesKept, SentKept,
     ChildKept, HostInv, HolderInv, HoldingInv, HoldsProcess, ProcessInv, MapInv
<1>30. CASE ShutsDown
  BY <1>30, NoneIsNothing, StepTypes DEF ShutsDown, RoutesKept, SentKept, ChildKept, HostInv,
     HolderInv, HoldingInv, HoldsProcess, ProcessInv, MapInv
<1>31. CASE StopNotified
  BY <1>31, NoneIsNothing, StepTypes DEF StopNotified, RoutesKept, SentKept, ChildKept, StopMoves,
     HostInv, HolderInv, HoldingInv, HoldsProcess, ProcessInv, MapInv
<1>32. ASSUME NEW p \in Processes, StopFails(p) PROVE HoldingInv(d)'
  BY <1>32, NoneIsNothing, StepTypes DEF StopFails, SentKept, ChildKept, Sets, FailsRoutes, Heard,
     Hears, Listening, Identity, Progress, StopMoves, HostInv, HolderInv, HoldingInv, HoldsProcess,
     ProcessInv, MapInv
<1>33. ASSUME NEW p \in Processes, StopKills(p) PROVE HoldingInv(d)'
  BY <1>33, NoneIsNothing, StepTypes DEF StopKills, RoutesKept, SentKept, Sets, StopMoves, HostInv,
     HolderInv, HoldingInv, HoldsProcess, ProcessInv, MapInv
<1> QED BY <1>1, <1>2, <1>3, <1>4, <1>5, <1>6, <1>7, <1>8, <1>9, <1>10, <1>11, <1>12, <1>13, <1>14,
   <1>15, <1>16, <1>17, <1>18, <1>19, <1>20, <1>21, <1>22, <1>23, <1>24, <1>25, <1>26, <1>27,
   <1>28, <1>29, <1>30, <1>31, <1>32, <1>33 DEF Step, Picking, Writing, Waiting, Reads, Stopping

\* Nobody but its starter knows a process that is not published.
LEMMA Unknown ==
  ASSUME HostInv, NEW d \in Calls, NEW q, calls[d].at = "publish", q = calls[d].proc
  PROVE  /\ q \in Processes /\ q # None /\ q # current /\ child[q] # "none"
         /\ pending[q] = {} /\ streams[q] = {} /\ accepted[q] = {}
         /\ stopping.at # "up" => stopping.proc # q
         /\ \A e \in Calls : e # d => calls[e].proc # q
<1>1. UnknownInv(d) /\ HoldingInv(d)
  BY DEF HostInv, HolderInv
<1>2. calls[d] \in CallType
  BY DEF HostInv, StateType
<1>3. calls[d].proc \in Processes \cup {None}
  BY <1>2 DEF CallType
<1> QED BY <1>1, <1>3 DEF UnknownInv, HoldingInv, HoldsProcess

\* A process that nobody knows stays so, when the calls, the map and shutdown
\* take processes they know and no other.
LEMMA StaysUnknown ==
  ASSUME HostInv, NEW d \in Calls, NEW q, q = calls[d].proc,
         calls'[d].at = "publish" =>
           /\ calls[d].at = "publish" /\ calls'[d].proc = q /\ q # current'
           /\ pending'[q] \subseteq pending[q] /\ streams'[q] \subseteq streams[q]
           /\ accepted'[q] \subseteq accepted[q]
           /\ \A e \in Calls : calls'[e].proc \in {calls[e].proc, None, current}
           /\ stopping'.at # "up" => /\ stopping'.proc \in {stopping.proc, current}
                                     /\ stopping.at = "up" => stopping'.proc = current
  PROVE  UnknownInv(d)'
<1> SUFFICES ASSUME calls'[d].at = "publish"
             PROVE  UnknownInv(d)'
  BY DEF UnknownInv
<1>1. /\ q # None /\ q # current /\ pending[q] = {} /\ streams[q] = {} /\ accepted[q] = {}
      /\ stopping.at # "up" => stopping.proc # q
      /\ \A e \in Calls : e # d => calls[e].proc # q
  BY Unknown
<1>2. \A e \in Calls : e # d => calls'[e].proc # q
  BY <1>1
<1>3. pending'[q] = {} /\ streams'[q] = {} /\ accepted'[q] = {}
  BY <1>1
<1>4. stopping'.at # "up" => stopping'.proc # q
  BY <1>1
<1> QED BY <1>2, <1>3, <1>4 DEF UnknownInv

\* Of the processes that are not in the map yet.
LEMMA UnknownKept ==
  ASSUME HostInv, StateType', NEW d \in Calls, Step
  PROVE  UnknownInv(d)'
<1>1. ASSUME NEW c \in Calls, Begins(c) PROVE UnknownInv(d)'
  <2>1. calls[d].at = "publish" =>
          /\ calls[d].proc \in Processes /\ calls[d].proc # current
          /\ \A e \in Calls : e # d => calls[e].proc # calls[d].proc
    BY Unknown
  <2> QED
    BY <1>1, <2>1, NoneIsNothing, StaysUnknown DEF Begins, OthersKept, LifeKept, RoutesKept,
       SentKept, ChildKept, Only, Progress
<1>2. ASSUME NEW c \in Calls, NEW t \in Calls, BeginsCancel(c, t) PROVE UnknownInv(d)'
  <2>1. calls[d].at = "publish" =>
          /\ calls[d].proc \in Processes /\ calls[d].proc # current
          /\ \A e \in Calls : e # d => calls[e].proc # calls[d].proc
    BY Unknown
  <2> QED
    BY <1>2, <2>1, NoneIsNothing, StaysUnknown DEF BeginsCancel, OthersKept, LifeKept, RoutesKept,
       SentKept, ChildKept, Identity, Place, Progress, AtRest
<1>3. ASSUME NEW c \in Calls, Enters(c) PROVE UnknownInv(d)'
  <2>1. calls[d].at = "publish" =>
          /\ calls[d].proc \in Processes /\ calls[d].proc # current
          /\ \A e \in Calls : e # d => calls[e].proc # calls[d].proc
    BY Unknown
  <2> QED
    BY <1>3, <2>1, NoneIsNothing, StaysUnknown DEF Enters, OthersKept, LifeKept, RoutesKept,
       SentKept, ChildKept, Only, MovesOn, Identity, Progress
<1>4. ASSUME NEW c \in Calls, FindsNone(c) PROVE UnknownInv(d)'
  <2>1. calls[d].at = "publish" =>
          /\ calls[d].proc \in Processes /\ calls[d].proc # current
          /\ \A e \in Calls : e # d => calls[e].proc # calls[d].proc
    BY Unknown
  <2> QED
    BY <1>4, <2>1, NoneIsNothing, StaysUnknown DEF FindsNone, OthersKept, LifeKept, RoutesKept,
       SentKept, ChildKept, Only, Ends, Returns, Cancels, Identity, AtRest
<1>5. ASSUME NEW c \in Calls, NEW p \in Processes, Starts(c, p) PROVE UnknownInv(d)'
  <2>1. \A e \in Calls : calls[e].proc # p
    BY <1>5, NoneIsNothing DEF Starts, HostInv, HolderInv, HoldingInv
  <2>2. pending[p] = {} /\ streams[p] = {} /\ accepted[p] = {} /\ p # current
    <3>1. accepted[p] = {} /\ p # current
      BY <1>5, NoneIsNothing DEF Starts, HostInv, ProcessInv, MapInv, OwnedInv
    <3>2. \A e \in Calls : e \notin pending[p] /\ e \notin streams[p]
      BY <1>5 DEF Starts, HostInv, CallInv, PathInv
    <3> QED BY <3>1, <3>2, StepTypes
  <2>3. stopping'.at = "up"
    BY <1>5 DEF Starts, LifeKept, HostInv, ProcessInv, MapInv
  <2>4. CASE d = c
    BY <1>5, <2>1, <2>2, <2>3, <2>4 DEF Starts, LifeKept, RoutesKept, SentKept, Only, MovesOn, UnknownInv
  <2>5. CASE d # c
    <3>1. calls'[d] = calls[d] /\ calls[d].proc # p
      BY <1>5, <2>1, <2>5 DEF Starts, Only
    <3>2. calls[d].at = "publish" =>
            /\ calls[d].proc # current /\ pending[calls[d].proc] = {} /\ streams[calls[d].proc] = {}
            /\ accepted[calls[d].proc] = {} /\ \A e \in Calls : e # d => calls[e].proc # calls[d].proc
      BY Unknown
    <3>3. \A e \in Calls : calls'[e].proc = IF e = c THEN p ELSE calls[e].proc
      BY <1>5 DEF Starts, Only, MovesOn
    <3> QED BY <1>5, <3>1, <3>2, <3>3, <2>3 DEF Starts, LifeKept, RoutesKept, SentKept, UnknownInv
  <2> QED BY <2>4, <2>5
<1>6. ASSUME NEW c \in Calls, NEW p \in Processes, PublishLost(c, p) PROVE UnknownInv(d)'
  <2>1. calls[d].at = "publish" =>
          /\ calls[d].proc \in Processes /\ calls[d].proc # current
          /\ \A e \in Calls : e # d => calls[e].proc # calls[d].proc
    BY Unknown
  <2> QED
    BY <1>6, <2>1, NoneIsNothing, StaysUnknown DEF PublishLost, LifeKept, SentKept, Sets, Only,
       MovesOn, Ends, Returns, Cancels, Identity, Progress, AtRest
<1>7. ASSUME NEW c \in Calls, NEW p \in Processes, PublishWon(c, p) PROVE UnknownInv(d)'
  <2>1. calls[d].at = "publish" =>
          /\ calls[d].proc \in Processes /\ calls[d].proc # current
          /\ \A e \in Calls : e # d => calls[e].proc # calls[d].proc
    BY Unknown
  <2> QED
    BY <1>7, <2>1, NoneIsNothing, StaysUnknown DEF PublishWon, RoutesKept, SentKept, ChildKept,
       Only, MovesOn, Identity, Progress
<1>8. ASSUME NEW c \in Calls, NEW p \in Processes, RegisterRefused(c, p) PROVE UnknownInv(d)'
  <2>1. calls[d].at = "publish" =>
          /\ calls[d].proc \in Processes /\ calls[d].proc # current
          /\ \A e \in Calls : e # d => calls[e].proc # calls[d].proc
    BY Unknown
  <2> QED
    BY <1>8, <2>1, NoneIsNothing, StaysUnknown DEF RegisterRefused, OthersKept, LifeKept,
       RoutesKept, SentKept, ChildKept, Only, Returns, Identity, AtRest
<1>9. ASSUME NEW c \in Calls, NEW p \in Processes, Registers(c, p) PROVE UnknownInv(d)'
  <2>1. calls[d].at = "publish" =>
          /\ calls[d].proc \in Processes /\ calls[d].proc # current
          /\ \A e \in Calls : e # d => calls[e].proc # calls[d].proc
    BY Unknown
  <2> QED
    BY <1>9, <2>1, NoneIsNothing, StaysUnknown DEF Registers, LifeKept, SentKept, ChildKept, Sets,
       Only, MovesOn, Identity, Progress
<1>10. ASSUME NEW c \in Calls, NEW p \in Processes, NEW t \in Calls, Unroutes(c, p, t) PROVE UnknownInv(d)'
  <2>1. calls[d].at = "publish" =>
          /\ calls[d].proc \in Processes /\ calls[d].proc # current
          /\ \A e \in Calls : e # d => calls[e].proc # calls[d].proc
    BY Unknown
  <2> QED
    BY <1>10, <2>1, NoneIsNothing, StaysUnknown DEF Unroutes, LifeKept, SentKept, ChildKept, Sets,
       Hears, Listening, MovesOn, Ends, Returns, Cancels, Identity, Progress, AtRest
<1>11. ASSUME NEW c \in Calls, NEW p \in Processes, WriteBroken(c, p) PROVE UnknownInv(d)'
  <2>1. calls[d].at = "publish" =>
          /\ calls[d].proc \in Processes /\ calls[d].proc # current
          /\ \A e \in Calls : e # d => calls[e].proc # calls[d].proc
    BY Unknown
  <2> QED
    BY <1>11, <2>1, NoneIsNothing, StaysUnknown DEF WriteBroken, OthersKept, LifeKept, RoutesKept,
       SentKept, ChildKept, Only, MovesOn, Identity, Progress
<1>12. ASSUME NEW c \in Calls, NEW p \in Processes, Sends(c, p) PROVE UnknownInv(d)'
  <2>1. calls[d].at = "publish" =>
          /\ calls[d].proc \in Processes /\ calls[d].proc # current
          /\ \A e \in Calls : e # d => calls[e].proc # calls[d].proc
    BY Unknown
  <2> QED
    BY <1>12, <2>1, NoneIsNothing, StaysUnknown DEF Sends, LifeKept, RoutesKept, ChildKept, Sets,
       Only, MovesOn, Identity, Progress
<1>13. ASSUME NEW c \in Calls, NEW p \in Processes, NEW t \in Calls, Tells(c, p, t) PROVE UnknownInv(d)'
  <2>1. calls[d].at = "publish" =>
          /\ calls[d].proc \in Processes /\ calls[d].proc # current
          /\ \A e \in Calls : e # d => calls[e].proc # calls[d].proc
    BY Unknown
  <2> QED
    BY <1>13, <2>1, NoneIsNothing, StaysUnknown DEF Tells, LifeKept, RoutesKept, ChildKept, Sets,
       Only, Ends, Returns, Cancels, Identity, AtRest
<1>14. ASSUME NEW c \in Calls, NEW p \in Processes, FoundFailed(c, p) PROVE UnknownInv(d)'
  <2>1. calls[d].at = "publish" =>
          /\ calls[d].proc \in Processes /\ calls[d].proc # current
          /\ \A e \in Calls : e # d => calls[e].proc # calls[d].proc
    BY Unknown
  <2> QED
    BY <1>14, <2>1, NoneIsNothing, StaysUnknown DEF FoundFailed, OthersKept, LifeKept, RoutesKept,
       SentKept, ChildKept, Only, Resumes, Ends, Returns, Cancels, Identity, AtRest
<1>15. ASSUME NEW c \in Calls, NEW p \in Processes, Fails(c, p) PROVE UnknownInv(d)'
  <2>1. calls[d].at = "publish" =>
          /\ calls[d].proc \in Processes /\ calls[d].proc # current
          /\ \A e \in Calls : e # d => calls[e].proc # calls[d].proc
    BY Unknown
  <2> QED
    BY <1>15, <2>1, NoneIsNothing, StaysUnknown DEF Fails, LifeKept, SentKept, ChildKept, Sets,
       FailsRoutes, Heard, Hears, Listening, Identity, Progress
<1>16. ASSUME NEW c \in Calls, NEW p \in Processes, Kills(c, p) PROVE UnknownInv(d)'
  <2>1. calls[d].at = "publish" =>
          /\ calls[d].proc \in Processes /\ calls[d].proc # current
          /\ \A e \in Calls : e # d => calls[e].proc # calls[d].proc
    BY Unknown
  <2> QED
    BY <1>16, <2>1, NoneIsNothing, StaysUnknown DEF Kills, LifeKept, RoutesKept, SentKept, Sets,
       Only, Resumes, Ends, Returns, Cancels, Identity, AtRest
<1>17. ASSUME NEW c \in Calls, Answered(c) PROVE UnknownInv(d)'
  <2>1. calls[d].at = "publish" =>
          /\ calls[d].proc \in Processes /\ calls[d].proc # current
          /\ \A e \in Calls : e # d => calls[e].proc # calls[d].proc
    BY Unknown
  <2> QED
    BY <1>17, <2>1, NoneIsNothing, StaysUnknown DEF Answered, OthersKept, LifeKept, RoutesKept,
       SentKept, ChildKept, Only, Returns, Identity, AtRest
<1>18. ASSUME NEW c \in Calls, TimesOut(c) PROVE UnknownInv(d)'
  <2>1. calls[d].at = "publish" =>
          /\ calls[d].proc \in Processes /\ calls[d].proc # current
          /\ \A e \in Calls : e # d => calls[e].proc # calls[d].proc
    BY Unknown
  <2> QED
    BY <1>18, <2>1, NoneIsNothing, StaysUnknown DEF TimesOut, OthersKept, LifeKept, RoutesKept,
       SentKept, ChildKept, Only, MovesOn, Identity, Progress
<1>19. ASSUME NEW c \in Calls, Abandons(c) PROVE UnknownInv(d)'
  <2>1. calls[d].at = "publish" =>
          /\ calls[d].proc \in Processes /\ calls[d].proc # current
          /\ \A e \in Calls : e # d => calls[e].proc # calls[d].proc
    BY Unknown
  <2> QED
    BY <1>19, <2>1, NoneIsNothing, StaysUnknown DEF Abandons, OthersKept, LifeKept, RoutesKept,
       SentKept, ChildKept, Only, Cancels, Identity
<1>20. ASSUME NEW c \in Calls, Collects(c) PROVE UnknownInv(d)'
  <2>1. calls[d].at = "publish" =>
          /\ calls[d].proc \in Processes /\ calls[d].proc # current
          /\ \A e \in Calls : e # d => calls[e].proc # calls[d].proc
    BY Unknown
  <2> QED
    BY <1>20, <2>1, NoneIsNothing, StaysUnknown DEF Collects, OthersKept, LifeKept, RoutesKept,
       SentKept, ChildKept, Only, Identity, Place, AtRest
<1>21. ASSUME NEW c \in Calls, GrowsIdle(c) PROVE UnknownInv(d)'
  <2>1. calls[d].at = "publish" =>
          /\ calls[d].proc \in Processes /\ calls[d].proc # current
          /\ \A e \in Calls : e # d => calls[e].proc # calls[d].proc
    BY Unknown
  <2> QED
    BY <1>21, <2>1, NoneIsNothing, StaysUnknown DEF GrowsIdle, OthersKept, LifeKept, RoutesKept,
       SentKept, ChildKept, Only, MovesOn, Identity, Progress
<1>22. ASSUME NEW p \in Processes, NEW c \in Calls, Answers(p, c) PROVE UnknownInv(d)'
  <2>1. calls[d].at = "publish" =>
          /\ calls[d].proc \in Processes /\ calls[d].proc # current
          /\ \A e \in Calls : e # d => calls[e].proc # calls[d].proc
    BY Unknown
  <2> QED
    BY <1>22, <2>1, NoneIsNothing, StaysUnknown DEF Answers, LifeKept, SentKept, ChildKept, Sets,
       Only, Listening, Identity, Place, Progress
<1>23. ASSUME NEW p \in Processes, NEW c \in Calls, TakesEvent(p, c) PROVE UnknownInv(d)'
  <2>1. calls[d].at = "publish" =>
          /\ calls[d].proc \in Processes /\ calls[d].proc # current
          /\ \A e \in Calls : e # d => calls[e].proc # calls[d].proc
    BY Unknown
  <2> QED
    BY <1>23, <2>1, NoneIsNothing, StaysUnknown DEF TakesEvent, LifeKept, SentKept, Sets
<1>24. ASSUME NEW p \in Processes, NEW c \in Calls, SendsEvent(p, c) PROVE UnknownInv(d)'
  <2>1. calls[d].at = "publish" =>
          /\ calls[d].proc \in Processes /\ calls[d].proc # current
          /\ \A e \in Calls : e # d => calls[e].proc # calls[d].proc
    BY Unknown
  <2> QED
    BY <1>24, <2>1, NoneIsNothing, StaysUnknown DEF SendsEvent, LifeKept, RoutesKept, SentKept, Only,
       Listening, Identity, Place, Progress
<1>25. ASSUME NEW p \in Processes, ReaderStops(p) PROVE UnknownInv(d)'
  <2>1. calls[d].at = "publish" =>
          /\ calls[d].proc \in Processes /\ calls[d].proc # current
          /\ \A e \in Calls : e # d => calls[e].proc # calls[d].proc
    BY Unknown
  <2> QED
    BY <1>25, <2>1, NoneIsNothing, StaysUnknown DEF ReaderStops, LifeKept, RoutesKept, SentKept
<1>26. ASSUME NEW p \in Processes, ReaderFails(p) PROVE UnknownInv(d)'
  <2>1. calls[d].at = "publish" =>
          /\ calls[d].proc \in Processes /\ calls[d].proc # current
          /\ \A e \in Calls : e # d => calls[e].proc # calls[d].proc
    BY Unknown
  <2> QED
    BY <1>26, <2>1, NoneIsNothing, StaysUnknown DEF ReaderFails, LifeKept, SentKept, Sets,
       FailsRoutes, Heard, Hears, Listening, Identity, Progress
<1>27. ASSUME NEW p \in Processes, ReaderKilled(p) PROVE UnknownInv(d)'
  <2>1. calls[d].at = "publish" =>
          /\ calls[d].proc \in Processes /\ calls[d].proc # current
          /\ \A e \in Calls : e # d => calls[e].proc # calls[d].proc
    BY Unknown
  <2> QED
    BY <1>27, <2>1, NoneIsNothing, StaysUnknown DEF ReaderKilled, LifeKept, RoutesKept, SentKept,
       Sets
<1>28. ASSUME NEW p \in Processes, Dies(p) PROVE UnknownInv(d)'
  <2>1. calls[d].at = "publish" =>
          /\ calls[d].proc \in Processes /\ calls[d].proc # current
          /\ \A e \in Calls : e # d => calls[e].proc # calls[d].proc
    BY Unknown
  <2> QED
    BY <1>28, <2>1, NoneIsNothing, StaysUnknown DEF Dies, LifeKept, RoutesKept, SentKept, Sets
<1>29. CASE Waits
  <2>1. calls[d].at = "publish" =>
          /\ calls[d].proc \in Processes /\ calls[d].proc # current
          /\ \A e \in Calls : e # d => calls[e].proc # calls[d].proc
    BY Unknown
  <2> QED
    BY <1>29, <2>1, NoneIsNothing, StaysUnknown DEF Waits, OthersKept, LifeKept, RoutesKept,
       SentKept, ChildKept
<1>30. CASE ShutsDown
  <2>1. calls[d].at = "publish" =>
          /\ calls[d].proc \in Processes /\ calls[d].proc # current
          /\ \A e \in Calls : e # d => calls[e].proc # calls[d].proc
    BY Unknown
  <2> QED
    BY <1>30, <2>1, NoneIsNothing, StaysUnknown DEF ShutsDown, RoutesKept, SentKept, ChildKept
<1>31. CASE StopNotified
  <2>1. calls[d].at = "publish" =>
          /\ calls[d].proc \in Processes /\ calls[d].proc # current
          /\ \A e \in Calls : e # d => calls[e].proc # calls[d].proc
    BY Unknown
  <2> QED
    BY <1>31, <2>1, NoneIsNothing, StaysUnknown DEF StopNotified, RoutesKept, SentKept, ChildKept,
       StopMoves
<1>32. ASSUME NEW p \in Processes, StopFails(p) PROVE UnknownInv(d)'
  <2>1. calls[d].at = "publish" =>
          /\ calls[d].proc \in Processes /\ calls[d].proc # current
          /\ \A e \in Calls : e # d => calls[e].proc # calls[d].proc
    BY Unknown
  <2> QED
    BY <1>32, <2>1, NoneIsNothing, StaysUnknown DEF StopFails, SentKept, ChildKept, Sets,
       FailsRoutes, Heard, Hears, Listening, Identity, Progress, StopMoves
<1>33. ASSUME NEW p \in Processes, StopKills(p) PROVE UnknownInv(d)'
  <2>1. calls[d].at = "publish" =>
          /\ calls[d].proc \in Processes /\ calls[d].proc # current
          /\ \A e \in Calls : e # d => calls[e].proc # calls[d].proc
    BY Unknown
  <2> QED
    BY <1>33, <2>1, NoneIsNothing, StaysUnknown DEF StopKills, RoutesKept, SentKept, Sets, StopMoves
<1> QED BY <1>1, <1>2, <1>3, <1>4, <1>5, <1>6, <1>7, <1>8, <1>9, <1>10, <1>11, <1>12, <1>13, <1>14,
   <1>15, <1>16, <1>17, <1>18, <1>19, <1>20, <1>21, <1>22, <1>23, <1>24, <1>25, <1>26, <1>27,
   <1>28, <1>29, <1>30, <1>31, <1>32, <1>33 DEF Step, Picking, Writing, Waiting, Reads, Stopping

\* Of the kinds of calls.
LEMMA KindKept ==
  ASSUME HostInv, StateType', NEW d \in Calls, Step
  PROVE  KindInv(d)'
<1>1. ASSUME NEW c \in Calls, Begins(c) PROVE KindInv(d)'
  BY <1>1, NoneIsNothing, StepTypes, SMTT(40) DEF Begins, OthersKept, LifeKept, RoutesKept, SentKept,
     ChildKept, Only, Progress, HostInv, CallInv, KindInv, PathInv, RouteInv, Routed, Sent
<1>2. ASSUME NEW c \in Calls, NEW t \in Calls, BeginsCancel(c, t) PROVE KindInv(d)'
  BY <1>2, NoneIsNothing, StepTypes, SMTT(40) DEF BeginsCancel, OthersKept, LifeKept, RoutesKept, SentKept,
     ChildKept, Identity, Place, Progress, AtRest, HostInv, CallInv, KindInv, PathInv, RouteInv,
     Routed, Sent
<1>3. ASSUME NEW c \in Calls, Enters(c) PROVE KindInv(d)'
  BY <1>3, NoneIsNothing, StepTypes, SMTT(40) DEF Enters, OthersKept, LifeKept, RoutesKept, SentKept,
     ChildKept, Only, MovesOn, Identity, Progress, HostInv, CallInv, KindInv, PathInv, RouteInv,
     Routed, Sent
<1>4. ASSUME NEW c \in Calls, FindsNone(c) PROVE KindInv(d)'
  BY <1>4, NoneIsNothing, StepTypes, SMTT(40) DEF FindsNone, OthersKept, LifeKept, RoutesKept, SentKept,
     ChildKept, Only, Ends, Returns, Cancels, Identity, AtRest, HostInv, CallInv, KindInv, PathInv,
     RouteInv, Routed, Sent
<1>5. ASSUME NEW c \in Calls, NEW p \in Processes, Starts(c, p) PROVE KindInv(d)'
  BY <1>5, NoneIsNothing, StepTypes, SMTT(40) DEF Starts, LifeKept, RoutesKept, SentKept, Sets, Only,
     MovesOn, Identity, Progress, HostInv, CallInv, KindInv, PathInv, RouteInv, Routed, Sent
<1>6. ASSUME NEW c \in Calls, NEW p \in Processes, PublishLost(c, p) PROVE KindInv(d)'
  BY <1>6, NoneIsNothing, StepTypes, SMTT(40) DEF PublishLost, LifeKept, SentKept, Sets, Only, MovesOn, Ends,
     Returns, Cancels, Identity, Progress, AtRest, HostInv, CallInv, KindInv, PathInv, RouteInv,
     Routed, Sent
<1>7. ASSUME NEW c \in Calls, NEW p \in Processes, PublishWon(c, p) PROVE KindInv(d)'
  BY <1>7, NoneIsNothing, StepTypes, SMTT(40) DEF PublishWon, RoutesKept, SentKept, ChildKept, Only, MovesOn,
     Identity, Progress, HostInv, CallInv, KindInv, PathInv, RouteInv, Routed, Sent
<1>8. ASSUME NEW c \in Calls, NEW p \in Processes, RegisterRefused(c, p) PROVE KindInv(d)'
  BY <1>8, NoneIsNothing, StepTypes, SMTT(40) DEF RegisterRefused, OthersKept, LifeKept, RoutesKept,
     SentKept, ChildKept, Only, Returns, Identity, AtRest, HostInv, CallInv, KindInv, PathInv,
     RouteInv, Routed, Sent
<1>9. ASSUME NEW c \in Calls, NEW p \in Processes, Registers(c, p) PROVE KindInv(d)'
  BY <1>9, NoneIsNothing, StepTypes, SMTT(40) DEF Registers, LifeKept, SentKept, ChildKept, Sets, Only,
     MovesOn, Identity, Progress, HostInv, CallInv, KindInv, PathInv, RouteInv, Routed, Sent
<1>10. ASSUME NEW c \in Calls, NEW p \in Processes, NEW t \in Calls, Unroutes(c, p, t) PROVE KindInv(d)'
  BY <1>10, NoneIsNothing, StepTypes, SMTT(40) DEF Unroutes, LifeKept, SentKept, ChildKept, Sets, Hears,
     Listening, MovesOn, Ends, Returns, Cancels, Identity, Progress, AtRest, HostInv, CallInv,
     KindInv, PathInv, RouteInv, Routed, Sent
<1>11. ASSUME NEW c \in Calls, NEW p \in Processes, WriteBroken(c, p) PROVE KindInv(d)'
  BY <1>11, NoneIsNothing, StepTypes, SMTT(40) DEF WriteBroken, OthersKept, LifeKept, RoutesKept, SentKept,
     ChildKept, Only, MovesOn, Identity, Progress, HostInv, CallInv, KindInv, PathInv, RouteInv,
     Routed, Sent
<1>12. ASSUME NEW c \in Calls, NEW p \in Processes, Sends(c, p) PROVE KindInv(d)'
  BY <1>12, NoneIsNothing, StepTypes, SMTT(40) DEF Sends, LifeKept, RoutesKept, ChildKept, Sets, Only,
     MovesOn, Identity, Progress, HostInv, CallInv, KindInv, PathInv, RouteInv, Routed, Sent
<1>13. ASSUME NEW c \in Calls, NEW p \in Processes, NEW t \in Calls, Tells(c, p, t) PROVE KindInv(d)'
  BY <1>13, NoneIsNothing, StepTypes, SMTT(40) DEF Tells, LifeKept, RoutesKept, ChildKept, Sets, Only, Ends,
     Returns, Cancels, Identity, AtRest, HostInv, CallInv, KindInv, PathInv, RouteInv, Routed, Sent
<1>14. ASSUME NEW c \in Calls, NEW p \in Processes, FoundFailed(c, p) PROVE KindInv(d)'
  BY <1>14, NoneIsNothing, StepTypes, SMTT(40) DEF FoundFailed, OthersKept, LifeKept, RoutesKept, SentKept,
     ChildKept, Only, Resumes, Ends, Returns, Cancels, Identity, AtRest, HostInv, CallInv, KindInv,
     PathInv, RouteInv, Routed, Sent
<1>15. ASSUME NEW c \in Calls, NEW p \in Processes, Fails(c, p) PROVE KindInv(d)'
  BY <1>15, NoneIsNothing, StepTypes, SMTT(40) DEF Fails, LifeKept, SentKept, ChildKept, Sets, FailsRoutes,
     Heard, Hears, Listening, Identity, Progress, HostInv, CallInv, KindInv, PathInv, RouteInv,
     Routed, Sent
<1>16. ASSUME NEW c \in Calls, NEW p \in Processes, Kills(c, p) PROVE KindInv(d)'
  BY <1>16, NoneIsNothing, StepTypes, SMTT(40) DEF Kills, LifeKept, RoutesKept, SentKept, Sets, Only,
     Resumes, Ends, Returns, Cancels, Identity, AtRest, HostInv, CallInv, KindInv, PathInv,
     RouteInv, Routed, Sent
<1>17. ASSUME NEW c \in Calls, Answered(c) PROVE KindInv(d)'
  BY <1>17, NoneIsNothing, StepTypes, SMTT(40) DEF Answered, OthersKept, LifeKept, RoutesKept, SentKept,
     ChildKept, Only, Returns, Identity, AtRest, HostInv, CallInv, KindInv, PathInv, RouteInv,
     Routed, Sent
<1>18. ASSUME NEW c \in Calls, TimesOut(c) PROVE KindInv(d)'
  BY <1>18, NoneIsNothing, StepTypes, SMTT(40) DEF TimesOut, OthersKept, LifeKept, RoutesKept, SentKept,
     ChildKept, Only, MovesOn, Identity, Progress, HostInv, CallInv, KindInv, PathInv, RouteInv,
     Routed, Sent
<1>19. ASSUME NEW c \in Calls, Abandons(c) PROVE KindInv(d)'
  BY <1>19, NoneIsNothing, StepTypes, SMTT(40) DEF Abandons, OthersKept, LifeKept, RoutesKept, SentKept,
     ChildKept, Only, Cancels, Identity, HostInv, CallInv, KindInv, PathInv, RouteInv, Routed, Sent
<1>20. ASSUME NEW c \in Calls, Collects(c) PROVE KindInv(d)'
  BY <1>20, NoneIsNothing, StepTypes, SMTT(40) DEF Collects, OthersKept, LifeKept, RoutesKept, SentKept,
     ChildKept, Only, Identity, Place, AtRest, HostInv, CallInv, KindInv, PathInv, RouteInv,
     Routed, Sent
<1>21. ASSUME NEW c \in Calls, GrowsIdle(c) PROVE KindInv(d)'
  BY <1>21, NoneIsNothing, StepTypes, SMTT(40) DEF GrowsIdle, OthersKept, LifeKept, RoutesKept, SentKept,
     ChildKept, Only, MovesOn, Identity, Progress, HostInv, CallInv, KindInv, PathInv, RouteInv,
     Routed, Sent
<1>22. ASSUME NEW p \in Processes, NEW c \in Calls, Answers(p, c) PROVE KindInv(d)'
  BY <1>22, NoneIsNothing, StepTypes, SMTT(40) DEF Answers, LifeKept, SentKept, ChildKept, Sets, Only,
     Listening, Identity, Place, Progress, HostInv, CallInv, KindInv, PathInv, RouteInv, Routed,
     Sent
<1>23. ASSUME NEW p \in Processes, NEW c \in Calls, TakesEvent(p, c) PROVE KindInv(d)'
  BY <1>23, NoneIsNothing, StepTypes, SMTT(40) DEF TakesEvent, LifeKept, SentKept, Sets, HostInv, CallInv,
     KindInv, PathInv, RouteInv, Routed, Sent
<1>24. ASSUME NEW p \in Processes, NEW c \in Calls, SendsEvent(p, c) PROVE KindInv(d)'
  BY <1>24, NoneIsNothing, StepTypes, SMTT(40) DEF SendsEvent, LifeKept, RoutesKept, SentKept, Only,
     Listening, Identity, Place, Progress, HostInv, CallInv, KindInv, PathInv, RouteInv, Routed,
     Sent
<1>25. ASSUME NEW p \in Processes, ReaderStops(p) PROVE KindInv(d)'
  BY <1>25, NoneIsNothing, StepTypes, SMTT(40) DEF ReaderStops, LifeKept, RoutesKept, SentKept, HostInv,
     CallInv, KindInv, PathInv, RouteInv, Routed, Sent
<1>26. ASSUME NEW p \in Processes, ReaderFails(p) PROVE KindInv(d)'
  BY <1>26, NoneIsNothing, StepTypes, SMTT(40) DEF ReaderFails, LifeKept, SentKept, Sets, FailsRoutes, Heard,
     Hears, Listening, Identity, Progress, HostInv, CallInv, KindInv, PathInv, RouteInv, Routed,
     Sent
<1>27. ASSUME NEW p \in Processes, ReaderKilled(p) PROVE KindInv(d)'
  BY <1>27, NoneIsNothing, StepTypes, SMTT(40) DEF ReaderKilled, LifeKept, RoutesKept, SentKept, Sets,
     HostInv, CallInv, KindInv, PathInv, RouteInv, Routed, Sent
<1>28. ASSUME NEW p \in Processes, Dies(p) PROVE KindInv(d)'
  BY <1>28, NoneIsNothing, StepTypes, SMTT(40) DEF Dies, LifeKept, RoutesKept, SentKept, Sets, HostInv,
     CallInv, KindInv, PathInv, RouteInv, Routed, Sent
<1>29. CASE Waits
  BY <1>29, NoneIsNothing, StepTypes, SMTT(40) DEF Waits, OthersKept, LifeKept, RoutesKept, SentKept,
     ChildKept, HostInv, CallInv, KindInv, PathInv, RouteInv, Routed, Sent
<1>30. CASE ShutsDown
  BY <1>30, NoneIsNothing, StepTypes, SMTT(40) DEF ShutsDown, RoutesKept, SentKept, ChildKept, HostInv,
     CallInv, KindInv, PathInv, RouteInv, Routed, Sent
<1>31. CASE StopNotified
  BY <1>31, NoneIsNothing, StepTypes, SMTT(40) DEF StopNotified, RoutesKept, SentKept, ChildKept, StopMoves,
     HostInv, CallInv, KindInv, PathInv, RouteInv, Routed, Sent
<1>32. ASSUME NEW p \in Processes, StopFails(p) PROVE KindInv(d)'
  BY <1>32, NoneIsNothing, StepTypes, SMTT(40) DEF StopFails, SentKept, ChildKept, Sets, FailsRoutes, Heard,
     Hears, Listening, Identity, Progress, StopMoves, HostInv, CallInv, KindInv, PathInv, RouteInv,
     Routed, Sent
<1>33. ASSUME NEW p \in Processes, StopKills(p) PROVE KindInv(d)'
  BY <1>33, NoneIsNothing, StepTypes, SMTT(40) DEF StopKills, RoutesKept, SentKept, Sets, StopMoves, HostInv,
     CallInv, KindInv, PathInv, RouteInv, Routed, Sent
<1> QED BY <1>1, <1>2, <1>3, <1>4, <1>5, <1>6, <1>7, <1>8, <1>9, <1>10, <1>11, <1>12, <1>13, <1>14,
   <1>15, <1>16, <1>17, <1>18, <1>19, <1>20, <1>21, <1>22, <1>23, <1>24, <1>25, <1>26, <1>27,
   <1>28, <1>29, <1>30, <1>31, <1>32, <1>33 DEF Step, Picking, Writing, Waiting, Reads, Stopping

\* A call that works with a process that has not failed has the one in the map,
\* unless the host shuts down.
LEMMA WorksWithCurrent ==
  ASSUME HostInv, NEW c \in Calls, NEW p \in Processes, calls[c].proc = p, calls[c].at # "publish",
         ~failed[p]
  PROVE  p = current \/ is_shutdown
<1>1. calls[c].at \in HoldsProcess /\ child[p] # "none"
  BY NoneIsNothing DEF HostInv, HolderInv, HoldingInv
<1>2. ~Unpublished(p)
  <2> SUFFICES ASSUME NEW d \in Calls, calls[d].at = "publish", calls[d].proc = p PROVE FALSE
    BY DEF Unpublished
  <2> QED BY Unknown
<1> QED BY <1>1, <1>2 DEF HostInv, ProcessInv, MapInv, OwnedInv

\* Of the processes.
LEMMA OwnedKept ==
  ASSUME HostInv, StateType', NEW q \in Processes, Step
  PROVE  OwnedInv(q)'
<1>1. ASSUME NEW c \in Calls, Begins(c) PROVE OwnedInv(q)'
  BY <1>1, NoneIsNothing, StepTypes, SMTT(40) DEF Begins, OthersKept, LifeKept, RoutesKept, SentKept,
     ChildKept, Only, Progress, HostInv, ProcessInv, MapInv, OwnedInv, HolderInv, HoldingInv,
     HoldsProcess, Unpublished, Killer
<1>2. ASSUME NEW c \in Calls, NEW t \in Calls, BeginsCancel(c, t) PROVE OwnedInv(q)'
  BY <1>2, NoneIsNothing, StepTypes, SMTT(40) DEF BeginsCancel, OthersKept, LifeKept, RoutesKept, SentKept,
     ChildKept, Identity, Place, Progress, AtRest, HostInv, ProcessInv, MapInv, OwnedInv,
     HolderInv, HoldingInv, HoldsProcess, Unpublished, Killer
<1>3. ASSUME NEW c \in Calls, Enters(c) PROVE OwnedInv(q)'
  BY <1>3, NoneIsNothing, StepTypes, SMTT(40) DEF Enters, OthersKept, LifeKept, RoutesKept, SentKept,
     ChildKept, Only, MovesOn, Identity, Progress, HostInv, ProcessInv, MapInv, OwnedInv,
     HolderInv, HoldingInv, HoldsProcess, Unpublished, Killer
<1>4. ASSUME NEW c \in Calls, FindsNone(c) PROVE OwnedInv(q)'
  BY <1>4, NoneIsNothing, StepTypes, SMTT(40) DEF FindsNone, OthersKept, LifeKept, RoutesKept, SentKept,
     ChildKept, Only, Ends, Returns, Cancels, Identity, AtRest, HostInv, ProcessInv, MapInv,
     OwnedInv, HolderInv, HoldingInv, HoldsProcess, Unpublished, Killer
<1>5. ASSUME NEW c \in Calls, NEW p \in Processes, Starts(c, p) PROVE OwnedInv(q)'
  BY <1>5, NoneIsNothing, StepTypes, SMTT(40) DEF Starts, LifeKept, RoutesKept, SentKept, Sets, Only,
     MovesOn, Identity, Progress, HostInv, ProcessInv, MapInv, OwnedInv, HolderInv, HoldingInv,
     HoldsProcess, Unpublished, Killer
<1>6. ASSUME NEW c \in Calls, NEW p \in Processes, PublishLost(c, p) PROVE OwnedInv(q)'
  <2>1. pending[p] = {} /\ streams[p] = {} /\ child[p] # "none"
    BY <1>6, Unknown DEF PublishLost
  <2>2. OwnedInv(q)
    BY DEF HostInv, ProcessInv
  <2>3. CASE q = p
    BY <1>6, <2>1, <2>2, <2>3 DEF PublishLost, LifeKept, SentKept, Sets, OwnedInv
  <2>4. CASE q # p
    <3>1. /\ child'[q] = child[q] /\ failed'[q] = failed[q] /\ reader' = reader
          /\ accepted' = accepted /\ pending' = pending /\ streams' = streams
          /\ current' = current /\ stopping' = stopping
      BY <1>6, <2>4 DEF PublishLost, LifeKept, SentKept, Sets
    <3>2. \A d \in Calls : calls[d].proc = q => calls'[d] = calls[d]
      BY <1>6, <2>4 DEF PublishLost, Only
    <3>3. (Killer(q) => Killer(q)') /\ (Unpublished(q) => Unpublished(q)')
      BY <3>1, <3>2 DEF Killer, Unpublished
    <3> QED BY <2>2, <3>1, <3>3 DEF OwnedInv
  <2> QED BY <2>3, <2>4
<1>7. ASSUME NEW c \in Calls, NEW p \in Processes, PublishWon(c, p) PROVE OwnedInv(q)'
  BY <1>7, NoneIsNothing, StepTypes, SMTT(40) DEF PublishWon, RoutesKept, SentKept, ChildKept, Only, MovesOn,
     Identity, Progress, HostInv, ProcessInv, MapInv, OwnedInv, HolderInv, HoldingInv,
     HoldsProcess, Unpublished, Killer
<1>8. ASSUME NEW c \in Calls, NEW p \in Processes, RegisterRefused(c, p) PROVE OwnedInv(q)'
  BY <1>8, NoneIsNothing, StepTypes, SMTT(40) DEF RegisterRefused, OthersKept, LifeKept, RoutesKept,
     SentKept, ChildKept, Only, Returns, Identity, AtRest, HostInv, ProcessInv, MapInv, OwnedInv,
     HolderInv, HoldingInv, HoldsProcess, Unpublished, Killer
<1>9. ASSUME NEW c \in Calls, NEW p \in Processes, Registers(c, p) PROVE OwnedInv(q)'
  BY <1>9, NoneIsNothing, StepTypes, SMTT(40) DEF Registers, LifeKept, SentKept, ChildKept, Sets, Only,
     MovesOn, Identity, Progress, HostInv, ProcessInv, MapInv, OwnedInv, HolderInv, HoldingInv,
     HoldsProcess, Unpublished, Killer
<1>10. ASSUME NEW c \in Calls, NEW p \in Processes, NEW t \in Calls, Unroutes(c, p, t) PROVE OwnedInv(q)'
  BY <1>10, NoneIsNothing, StepTypes, SMTT(40) DEF Unroutes, LifeKept, SentKept, ChildKept, Sets, Hears,
     Listening, MovesOn, Ends, Returns, Cancels, Identity, Progress, AtRest, HostInv, ProcessInv,
     MapInv, OwnedInv, HolderInv, HoldingInv, HoldsProcess, Unpublished, Killer
<1>11. ASSUME NEW c \in Calls, NEW p \in Processes, WriteBroken(c, p) PROVE OwnedInv(q)'
  BY <1>11, NoneIsNothing, StepTypes, SMTT(40) DEF WriteBroken, OthersKept, LifeKept, RoutesKept, SentKept,
     ChildKept, Only, MovesOn, Identity, Progress, HostInv, ProcessInv, MapInv, OwnedInv,
     HolderInv, HoldingInv, HoldsProcess, Unpublished, Killer
<1>12. ASSUME NEW c \in Calls, NEW p \in Processes, Sends(c, p) PROVE OwnedInv(q)'
  BY <1>12, NoneIsNothing, StepTypes, SMTT(40) DEF Sends, LifeKept, RoutesKept, ChildKept, Sets, Only,
     MovesOn, Identity, Progress, HostInv, ProcessInv, MapInv, OwnedInv, HolderInv, HoldingInv,
     HoldsProcess, Unpublished, Killer
<1>13. ASSUME NEW c \in Calls, NEW p \in Processes, NEW t \in Calls, Tells(c, p, t) PROVE OwnedInv(q)'
  BY <1>13, NoneIsNothing, StepTypes, SMTT(40) DEF Tells, LifeKept, RoutesKept, ChildKept, Sets, Only, Ends,
     Returns, Cancels, Identity, AtRest, HostInv, ProcessInv, MapInv, OwnedInv, HolderInv,
     HoldingInv, HoldsProcess, Unpublished, Killer
<1>14. ASSUME NEW c \in Calls, NEW p \in Processes, FoundFailed(c, p) PROVE OwnedInv(q)'
  BY <1>14, NoneIsNothing, StepTypes, SMTT(40) DEF FoundFailed, OthersKept, LifeKept, RoutesKept, SentKept,
     ChildKept, Only, Resumes, Ends, Returns, Cancels, Identity, AtRest, HostInv, ProcessInv,
     MapInv, OwnedInv, HolderInv, HoldingInv, HoldsProcess, Unpublished, Killer
<1>15. ASSUME NEW c \in Calls, NEW p \in Processes, Fails(c, p) PROVE OwnedInv(q)'
  <2>1. OwnedInv(q) /\ OwnedInv(p) /\ child[p] # "none"
    BY <1>15, NoneIsNothing DEF Fails, HostInv, ProcessInv, HolderInv, HoldingInv
  <2>2. calls'[c].at = "kill" /\ calls'[c].proc = p
    BY <1>15 DEF Fails, Heard, Hears
  <2>3. CASE q = p
    <3>1. failed'[q] /\ pending'[q] = {} /\ streams'[q] = {} /\ Killer(q)'
      BY <1>15, <2>2, <2>3 DEF Fails, FailsRoutes, Sets, Killer
    <3> QED BY <1>15, <2>1, <2>3, <3>1 DEF Fails, SentKept, ChildKept, OwnedInv
  <2>4. CASE q # p
    <3>1. /\ failed'[q] = failed[q] /\ pending'[q] = pending[q] /\ streams'[q] = streams[q]
          /\ child' = child /\ reader' = reader /\ accepted' = accepted
          /\ current' = current /\ stopping' = stopping
      BY <1>15, <2>4 DEF Fails, FailsRoutes, Sets, LifeKept, SentKept, ChildKept
    <3>2. \A d \in Calls : calls[d].proc = q => calls'[d].proc = q /\ calls'[d].at = calls[d].at
      BY <1>15, <2>4 DEF Fails, Heard, Hears
    <3>3. (Killer(q) => Killer(q)') /\ (Unpublished(q) => Unpublished(q)')
      BY <3>1, <3>2 DEF Killer, Unpublished
    <3> QED BY <2>1, <3>1, <3>3 DEF OwnedInv
  <2> QED BY <2>3, <2>4
<1>16. ASSUME NEW c \in Calls, NEW p \in Processes, Kills(c, p) PROVE OwnedInv(q)'
  BY <1>16, NoneIsNothing, StepTypes, SMTT(40) DEF Kills, LifeKept, RoutesKept, SentKept, Sets, Only,
     Resumes, Ends, Returns, Cancels, Identity, AtRest, HostInv, ProcessInv, MapInv, OwnedInv,
     HolderInv, HoldingInv, HoldsProcess, Unpublished, Killer
<1>17. ASSUME NEW c \in Calls, Answered(c) PROVE OwnedInv(q)'
  BY <1>17, NoneIsNothing, StepTypes, SMTT(40) DEF Answered, OthersKept, LifeKept, RoutesKept, SentKept,
     ChildKept, Only, Returns, Identity, AtRest, HostInv, ProcessInv, MapInv, OwnedInv, HolderInv,
     HoldingInv, HoldsProcess, Unpublished, Killer
<1>18. ASSUME NEW c \in Calls, TimesOut(c) PROVE OwnedInv(q)'
  BY <1>18, NoneIsNothing, StepTypes, SMTT(40) DEF TimesOut, OthersKept, LifeKept, RoutesKept, SentKept,
     ChildKept, Only, MovesOn, Identity, Progress, HostInv, ProcessInv, MapInv, OwnedInv,
     HolderInv, HoldingInv, HoldsProcess, Unpublished, Killer
<1>19. ASSUME NEW c \in Calls, Abandons(c) PROVE OwnedInv(q)'
  BY <1>19, NoneIsNothing, StepTypes, SMTT(40) DEF Abandons, OthersKept, LifeKept, RoutesKept, SentKept,
     ChildKept, Only, Cancels, Identity, HostInv, ProcessInv, MapInv, OwnedInv, HolderInv,
     HoldingInv, HoldsProcess, Unpublished, Killer
<1>20. ASSUME NEW c \in Calls, Collects(c) PROVE OwnedInv(q)'
  BY <1>20, NoneIsNothing, StepTypes, SMTT(40) DEF Collects, OthersKept, LifeKept, RoutesKept, SentKept,
     ChildKept, Only, Identity, Place, AtRest, HostInv, ProcessInv, MapInv, OwnedInv, HolderInv,
     HoldingInv, HoldsProcess, Unpublished, Killer
<1>21. ASSUME NEW c \in Calls, GrowsIdle(c) PROVE OwnedInv(q)'
  BY <1>21, NoneIsNothing, StepTypes, SMTT(40) DEF GrowsIdle, OthersKept, LifeKept, RoutesKept, SentKept,
     ChildKept, Only, MovesOn, Identity, Progress, HostInv, ProcessInv, MapInv, OwnedInv,
     HolderInv, HoldingInv, HoldsProcess, Unpublished, Killer
<1>22. ASSUME NEW p \in Processes, NEW c \in Calls, Answers(p, c) PROVE OwnedInv(q)'
  BY <1>22, NoneIsNothing, StepTypes, SMTT(40) DEF Answers, LifeKept, SentKept, ChildKept, Sets, Only,
     Listening, Identity, Place, Progress, HostInv, ProcessInv, MapInv, OwnedInv, HolderInv,
     HoldingInv, HoldsProcess, Unpublished, Killer
<1>23. ASSUME NEW p \in Processes, NEW c \in Calls, TakesEvent(p, c) PROVE OwnedInv(q)'
  BY <1>23, NoneIsNothing, StepTypes, SMTT(40) DEF TakesEvent, LifeKept, SentKept, Sets, HostInv, ProcessInv,
     MapInv, OwnedInv, HolderInv, HoldingInv, HoldsProcess, Unpublished, Killer
<1>24. ASSUME NEW p \in Processes, NEW c \in Calls, SendsEvent(p, c) PROVE OwnedInv(q)'
  BY <1>24, NoneIsNothing, StepTypes, SMTT(40) DEF SendsEvent, LifeKept, RoutesKept, SentKept, Only,
     Listening, Identity, Place, Progress, HostInv, ProcessInv, MapInv, OwnedInv, HolderInv,
     HoldingInv, HoldsProcess, Unpublished, Killer
<1>25. ASSUME NEW p \in Processes, ReaderStops(p) PROVE OwnedInv(q)'
  BY <1>25, NoneIsNothing, StepTypes, SMTT(40) DEF ReaderStops, LifeKept, RoutesKept, SentKept, HostInv,
     ProcessInv, MapInv, OwnedInv, HolderInv, HoldingInv, HoldsProcess, Unpublished, Killer
<1>26. ASSUME NEW p \in Processes, ReaderFails(p) PROVE OwnedInv(q)'
  BY <1>26, NoneIsNothing, StepTypes, SMTT(40) DEF ReaderFails, LifeKept, SentKept, Sets, FailsRoutes, Heard,
     Hears, Listening, Identity, Progress, HostInv, ProcessInv, MapInv, OwnedInv, HolderInv,
     HoldingInv, HoldsProcess, Unpublished, Killer
<1>27. ASSUME NEW p \in Processes, ReaderKilled(p) PROVE OwnedInv(q)'
  BY <1>27, NoneIsNothing, StepTypes, SMTT(40) DEF ReaderKilled, LifeKept, RoutesKept, SentKept, Sets,
     HostInv, ProcessInv, MapInv, OwnedInv, HolderInv, HoldingInv, HoldsProcess, Unpublished,
     Killer
<1>28. ASSUME NEW p \in Processes, Dies(p) PROVE OwnedInv(q)'
  BY <1>28, NoneIsNothing, StepTypes, SMTT(40) DEF Dies, LifeKept, RoutesKept, SentKept, Sets, HostInv,
     ProcessInv, MapInv, OwnedInv, HolderInv, HoldingInv, HoldsProcess, Unpublished, Killer
<1>29. CASE Waits
  BY <1>29, NoneIsNothing, StepTypes, SMTT(40) DEF Waits, OthersKept, LifeKept, RoutesKept, SentKept,
     ChildKept, HostInv, ProcessInv, MapInv, OwnedInv, HolderInv, HoldingInv, HoldsProcess,
     Unpublished, Killer
<1>30. CASE ShutsDown
  BY <1>30, NoneIsNothing, StepTypes, SMTT(40) DEF ShutsDown, RoutesKept, SentKept, ChildKept, HostInv,
     ProcessInv, MapInv, OwnedInv, HolderInv, HoldingInv, HoldsProcess, Unpublished, Killer
<1>31. CASE StopNotified
  BY <1>31, NoneIsNothing, StepTypes, SMTT(40) DEF StopNotified, RoutesKept, SentKept, ChildKept, StopMoves,
     HostInv, ProcessInv, MapInv, OwnedInv, HolderInv, HoldingInv, HoldsProcess, Unpublished,
     Killer
<1>32. ASSUME NEW p \in Processes, StopFails(p) PROVE OwnedInv(q)'
  BY <1>32, NoneIsNothing, StepTypes, SMTT(40) DEF StopFails, SentKept, ChildKept, Sets, FailsRoutes, Heard,
     Hears, Listening, Identity, Progress, StopMoves, HostInv, ProcessInv, MapInv, OwnedInv,
     HolderInv, HoldingInv, HoldsProcess, Unpublished, Killer
<1>33. ASSUME NEW p \in Processes, StopKills(p) PROVE OwnedInv(q)'
  BY <1>33, NoneIsNothing, StepTypes, SMTT(40) DEF StopKills, RoutesKept, SentKept, Sets, StopMoves, HostInv,
     ProcessInv, MapInv, OwnedInv, HolderInv, HoldingInv, HoldsProcess, Unpublished, Killer
<1> QED BY <1>1, <1>2, <1>3, <1>4, <1>5, <1>6, <1>7, <1>8, <1>9, <1>10, <1>11, <1>12, <1>13, <1>14,
   <1>15, <1>16, <1>17, <1>18, <1>19, <1>20, <1>21, <1>22, <1>23, <1>24, <1>25, <1>26, <1>27,
   <1>28, <1>29, <1>30, <1>31, <1>32, <1>33 DEF Step, Picking, Writing, Waiting, Reads, Stopping

\* Of the routes of a call.
LEMMA PathKept ==
  ASSUME HostInv, StateType', NEW d \in Calls, Step
  PROVE  PathInv(d)'
<1>1. ASSUME NEW c \in Calls, Begins(c) PROVE PathInv(d)'
  BY <1>1, NoneIsNothing, StepTypes, SMTT(40) DEF Begins, OthersKept, LifeKept, RoutesKept, SentKept,
     ChildKept, Only, Progress, HostInv, CallInv, PathInv, KindInv, Routed, HolderInv, HoldingInv,
     HoldsProcess, ProcessInv, MapInv, OwnedInv
<1>2. ASSUME NEW c \in Calls, NEW t \in Calls, BeginsCancel(c, t) PROVE PathInv(d)'
  BY <1>2, NoneIsNothing, StepTypes, SMTT(40) DEF BeginsCancel, OthersKept, LifeKept, RoutesKept, SentKept,
     ChildKept, Identity, Place, Progress, AtRest, HostInv, CallInv, PathInv, KindInv, Routed,
     HolderInv, HoldingInv, HoldsProcess, ProcessInv, MapInv, OwnedInv
<1>3. ASSUME NEW c \in Calls, Enters(c) PROVE PathInv(d)'
  BY <1>3, NoneIsNothing, StepTypes, SMTT(40) DEF Enters, OthersKept, LifeKept, RoutesKept, SentKept,
     ChildKept, Only, MovesOn, Identity, Progress, HostInv, CallInv, PathInv, KindInv, Routed,
     HolderInv, HoldingInv, HoldsProcess, ProcessInv, MapInv, OwnedInv
<1>4. ASSUME NEW c \in Calls, FindsNone(c) PROVE PathInv(d)'
  BY <1>4, NoneIsNothing, StepTypes, SMTT(40) DEF FindsNone, OthersKept, LifeKept, RoutesKept, SentKept,
     ChildKept, Only, Ends, Returns, Cancels, Identity, AtRest, HostInv, CallInv, PathInv, KindInv,
     Routed, HolderInv, HoldingInv, HoldsProcess, ProcessInv, MapInv, OwnedInv
<1>5. ASSUME NEW c \in Calls, NEW p \in Processes, Starts(c, p) PROVE PathInv(d)'
  BY <1>5, NoneIsNothing, StepTypes, SMTT(40) DEF Starts, LifeKept, RoutesKept, SentKept, Sets, Only,
     MovesOn, Identity, Progress, HostInv, CallInv, PathInv, KindInv, Routed, HolderInv,
     HoldingInv, HoldsProcess, ProcessInv, MapInv, OwnedInv
<1>6. ASSUME NEW c \in Calls, NEW p \in Processes, PublishLost(c, p) PROVE PathInv(d)'
  BY <1>6, NoneIsNothing, StepTypes, SMTT(40) DEF PublishLost, LifeKept, SentKept, Sets, Only, MovesOn, Ends,
     Returns, Cancels, Identity, Progress, AtRest, HostInv, CallInv, PathInv, KindInv, Routed,
     HolderInv, HoldingInv, HoldsProcess, ProcessInv, MapInv, OwnedInv
<1>7. ASSUME NEW c \in Calls, NEW p \in Processes, PublishWon(c, p) PROVE PathInv(d)'
  BY <1>7, NoneIsNothing, StepTypes, SMTT(40) DEF PublishWon, RoutesKept, SentKept, ChildKept, Only, MovesOn,
     Identity, Progress, HostInv, CallInv, PathInv, KindInv, Routed, HolderInv, HoldingInv,
     HoldsProcess, ProcessInv, MapInv, OwnedInv
<1>8. ASSUME NEW c \in Calls, NEW p \in Processes, RegisterRefused(c, p) PROVE PathInv(d)'
  BY <1>8, NoneIsNothing, StepTypes, SMTT(40) DEF RegisterRefused, OthersKept, LifeKept, RoutesKept,
     SentKept, ChildKept, Only, Returns, Identity, AtRest, HostInv, CallInv, PathInv, KindInv,
     Routed, HolderInv, HoldingInv, HoldsProcess, ProcessInv, MapInv, OwnedInv
<1>9. ASSUME NEW c \in Calls, NEW p \in Processes, Registers(c, p) PROVE PathInv(d)'
  BY <1>9, NoneIsNothing, StepTypes, WorksWithCurrent, SMTT(40) DEF Registers, LifeKept, SentKept, ChildKept,
     Sets, Only, MovesOn, Identity, Progress, HostInv, CallInv, PathInv, KindInv, Routed,
     HolderInv, HoldingInv, HoldsProcess, ProcessInv, MapInv, OwnedInv
<1>10. ASSUME NEW c \in Calls, NEW p \in Processes, NEW t \in Calls, Unroutes(c, p, t) PROVE PathInv(d)'
  BY <1>10, NoneIsNothing, StepTypes, SMTT(40) DEF Unroutes, LifeKept, SentKept, ChildKept, Sets, Hears,
     Listening, MovesOn, Ends, Returns, Cancels, Identity, Progress, AtRest, HostInv, CallInv,
     PathInv, KindInv, Routed, HolderInv, HoldingInv, HoldsProcess, ProcessInv, MapInv, OwnedInv
<1>11. ASSUME NEW c \in Calls, NEW p \in Processes, WriteBroken(c, p) PROVE PathInv(d)'
  BY <1>11, NoneIsNothing, StepTypes, SMTT(40) DEF WriteBroken, OthersKept, LifeKept, RoutesKept, SentKept,
     ChildKept, Only, MovesOn, Identity, Progress, HostInv, CallInv, PathInv, KindInv, Routed,
     HolderInv, HoldingInv, HoldsProcess, ProcessInv, MapInv, OwnedInv
<1>12. ASSUME NEW c \in Calls, NEW p \in Processes, Sends(c, p) PROVE PathInv(d)'
  BY <1>12, NoneIsNothing, StepTypes, SMTT(40) DEF Sends, LifeKept, RoutesKept, ChildKept, Sets, Only,
     MovesOn, Identity, Progress, HostInv, CallInv, PathInv, KindInv, Routed, HolderInv,
     HoldingInv, HoldsProcess, ProcessInv, MapInv, OwnedInv
<1>13. ASSUME NEW c \in Calls, NEW p \in Processes, NEW t \in Calls, Tells(c, p, t) PROVE PathInv(d)'
  BY <1>13, NoneIsNothing, StepTypes, SMTT(40) DEF Tells, LifeKept, RoutesKept, ChildKept, Sets, Only, Ends,
     Returns, Cancels, Identity, AtRest, HostInv, CallInv, PathInv, KindInv, Routed, HolderInv,
     HoldingInv, HoldsProcess, ProcessInv, MapInv, OwnedInv
<1>14. ASSUME NEW c \in Calls, NEW p \in Processes, FoundFailed(c, p) PROVE PathInv(d)'
  BY <1>14, NoneIsNothing, StepTypes, SMTT(40) DEF FoundFailed, OthersKept, LifeKept, RoutesKept, SentKept,
     ChildKept, Only, Resumes, Ends, Returns, Cancels, Identity, AtRest, HostInv, CallInv, PathInv,
     KindInv, Routed, HolderInv, HoldingInv, HoldsProcess, ProcessInv, MapInv, OwnedInv
<1>15. ASSUME NEW c \in Calls, NEW p \in Processes, Fails(c, p) PROVE PathInv(d)'
  BY <1>15, NoneIsNothing, StepTypes, SMTT(40) DEF Fails, LifeKept, SentKept, ChildKept, Sets, FailsRoutes,
     Heard, Hears, Listening, Identity, Progress, HostInv, CallInv, PathInv, KindInv, Routed,
     HolderInv, HoldingInv, HoldsProcess, ProcessInv, MapInv, OwnedInv
<1>16. ASSUME NEW c \in Calls, NEW p \in Processes, Kills(c, p) PROVE PathInv(d)'
  BY <1>16, NoneIsNothing, StepTypes, SMTT(40) DEF Kills, LifeKept, RoutesKept, SentKept, Sets, Only,
     Resumes, Ends, Returns, Cancels, Identity, AtRest, HostInv, CallInv, PathInv, KindInv, Routed,
     HolderInv, HoldingInv, HoldsProcess, ProcessInv, MapInv, OwnedInv
<1>17. ASSUME NEW c \in Calls, Answered(c) PROVE PathInv(d)'
  BY <1>17, NoneIsNothing, StepTypes, SMTT(40) DEF Answered, OthersKept, LifeKept, RoutesKept, SentKept,
     ChildKept, Only, Returns, Identity, AtRest, HostInv, CallInv, PathInv, KindInv, Routed,
     HolderInv, HoldingInv, HoldsProcess, ProcessInv, MapInv, OwnedInv, RouteInv
<1>18. ASSUME NEW c \in Calls, TimesOut(c) PROVE PathInv(d)'
  BY <1>18, NoneIsNothing, StepTypes, SMTT(40) DEF TimesOut, OthersKept, LifeKept, RoutesKept, SentKept,
     ChildKept, Only, MovesOn, Identity, Progress, HostInv, CallInv, PathInv, KindInv, Routed,
     HolderInv, HoldingInv, HoldsProcess, ProcessInv, MapInv, OwnedInv
<1>19. ASSUME NEW c \in Calls, Abandons(c) PROVE PathInv(d)'
  BY <1>19, NoneIsNothing, StepTypes, SMTT(40) DEF Abandons, OthersKept, LifeKept, RoutesKept, SentKept,
     ChildKept, Only, Cancels, Identity, HostInv, CallInv, PathInv, KindInv, Routed, HolderInv,
     HoldingInv, HoldsProcess, ProcessInv, MapInv, OwnedInv
<1>20. ASSUME NEW c \in Calls, Collects(c) PROVE PathInv(d)'
  BY <1>20, NoneIsNothing, StepTypes, SMTT(40) DEF Collects, OthersKept, LifeKept, RoutesKept, SentKept,
     ChildKept, Only, Identity, Place, AtRest, HostInv, CallInv, PathInv, KindInv, Routed,
     HolderInv, HoldingInv, HoldsProcess, ProcessInv, MapInv, OwnedInv, RouteInv
<1>21. ASSUME NEW c \in Calls, GrowsIdle(c) PROVE PathInv(d)'
  BY <1>21, NoneIsNothing, StepTypes, SMTT(40) DEF GrowsIdle, OthersKept, LifeKept, RoutesKept, SentKept,
     ChildKept, Only, MovesOn, Identity, Progress, HostInv, CallInv, PathInv, KindInv, Routed,
     HolderInv, HoldingInv, HoldsProcess, ProcessInv, MapInv, OwnedInv
<1>22. ASSUME NEW p \in Processes, NEW c \in Calls, Answers(p, c) PROVE PathInv(d)'
  BY <1>22, NoneIsNothing, StepTypes, SMTT(40) DEF Answers, LifeKept, SentKept, ChildKept, Sets, Only,
     Listening, Identity, Place, Progress, HostInv, CallInv, PathInv, KindInv, Routed, HolderInv,
     HoldingInv, HoldsProcess, ProcessInv, MapInv, OwnedInv
<1>23. ASSUME NEW p \in Processes, NEW c \in Calls, TakesEvent(p, c) PROVE PathInv(d)'
  BY <1>23, NoneIsNothing, StepTypes, SMTT(40) DEF TakesEvent, LifeKept, SentKept, Sets, HostInv, CallInv,
     PathInv, KindInv, Routed, HolderInv, HoldingInv, HoldsProcess, ProcessInv, MapInv, OwnedInv
<1>24. ASSUME NEW p \in Processes, NEW c \in Calls, SendsEvent(p, c) PROVE PathInv(d)'
  BY <1>24, NoneIsNothing, StepTypes, SMTT(40) DEF SendsEvent, LifeKept, RoutesKept, SentKept, Only,
     Listening, Identity, Place, Progress, HostInv, CallInv, PathInv, KindInv, Routed, HolderInv,
     HoldingInv, HoldsProcess, ProcessInv, MapInv, OwnedInv
<1>25. ASSUME NEW p \in Processes, ReaderStops(p) PROVE PathInv(d)'
  BY <1>25, NoneIsNothing, StepTypes, SMTT(40) DEF ReaderStops, LifeKept, RoutesKept, SentKept, HostInv,
     CallInv, PathInv, KindInv, Routed, HolderInv, HoldingInv, HoldsProcess, ProcessInv, MapInv,
     OwnedInv
<1>26. ASSUME NEW p \in Processes, ReaderFails(p) PROVE PathInv(d)'
  BY <1>26, NoneIsNothing, StepTypes, SMTT(40) DEF ReaderFails, LifeKept, SentKept, Sets, FailsRoutes, Heard,
     Hears, Listening, Identity, Progress, HostInv, CallInv, PathInv, KindInv, Routed, HolderInv,
     HoldingInv, HoldsProcess, ProcessInv, MapInv, OwnedInv
<1>27. ASSUME NEW p \in Processes, ReaderKilled(p) PROVE PathInv(d)'
  BY <1>27, NoneIsNothing, StepTypes, SMTT(40) DEF ReaderKilled, LifeKept, RoutesKept, SentKept, Sets,
     HostInv, CallInv, PathInv, KindInv, Routed, HolderInv, HoldingInv, HoldsProcess, ProcessInv,
     MapInv, OwnedInv
<1>28. ASSUME NEW p \in Processes, Dies(p) PROVE PathInv(d)'
  BY <1>28, NoneIsNothing, StepTypes, SMTT(40) DEF Dies, LifeKept, RoutesKept, SentKept, Sets, HostInv,
     CallInv, PathInv, KindInv, Routed, HolderInv, HoldingInv, HoldsProcess, ProcessInv, MapInv,
     OwnedInv
<1>29. CASE Waits
  BY <1>29, NoneIsNothing, StepTypes, SMTT(40) DEF Waits, OthersKept, LifeKept, RoutesKept, SentKept,
     ChildKept, HostInv, CallInv, PathInv, KindInv, Routed, HolderInv, HoldingInv, HoldsProcess,
     ProcessInv, MapInv, OwnedInv
<1>30. CASE ShutsDown
  BY <1>30, NoneIsNothing, StepTypes, SMTT(40) DEF ShutsDown, RoutesKept, SentKept, ChildKept, HostInv,
     CallInv, PathInv, KindInv, Routed, HolderInv, HoldingInv, HoldsProcess, ProcessInv, MapInv,
     OwnedInv
<1>31. CASE StopNotified
  BY <1>31, NoneIsNothing, StepTypes, SMTT(40) DEF StopNotified, RoutesKept, SentKept, ChildKept, StopMoves,
     HostInv, CallInv, PathInv, KindInv, Routed, HolderInv, HoldingInv, HoldsProcess, ProcessInv,
     MapInv, OwnedInv
<1>32. ASSUME NEW p \in Processes, StopFails(p) PROVE PathInv(d)'
  BY <1>32, NoneIsNothing, StepTypes, SMTT(40) DEF StopFails, SentKept, ChildKept, Sets, FailsRoutes, Heard,
     Hears, Listening, Identity, Progress, StopMoves, HostInv, CallInv, PathInv, KindInv, Routed,
     HolderInv, HoldingInv, HoldsProcess, ProcessInv, MapInv, OwnedInv
<1>33. ASSUME NEW p \in Processes, StopKills(p) PROVE PathInv(d)'
  BY <1>33, NoneIsNothing, StepTypes, SMTT(40) DEF StopKills, RoutesKept, SentKept, Sets, StopMoves, HostInv,
     CallInv, PathInv, KindInv, Routed, HolderInv, HoldingInv, HoldsProcess, ProcessInv, MapInv,
     OwnedInv
<1> QED BY <1>1, <1>2, <1>3, <1>4, <1>5, <1>6, <1>7, <1>8, <1>9, <1>10, <1>11, <1>12, <1>13, <1>14,
   <1>15, <1>16, <1>17, <1>18, <1>19, <1>20, <1>21, <1>22, <1>23, <1>24, <1>25, <1>26, <1>27,
   <1>28, <1>29, <1>30, <1>31, <1>32, <1>33 DEF Step, Picking, Writing, Waiting, Reads, Stopping

\* Of what came along the routes.
LEMMA RouteKept ==
  ASSUME HostInv, StateType', NEW d \in Calls, Step
  PROVE  RouteInv(d)'
<1>1. ASSUME NEW c \in Calls, Begins(c) PROVE RouteInv(d)'
  BY <1>1, NoneIsNothing, StepTypes, SMTT(40) DEF Begins, OthersKept, LifeKept, RoutesKept, SentKept,
     ChildKept, Only, Progress, HostInv, CallInv, PathInv, RouteInv, KindInv, Routed, Responses
<1>2. ASSUME NEW c \in Calls, NEW t \in Calls, BeginsCancel(c, t) PROVE RouteInv(d)'
  BY <1>2, NoneIsNothing, StepTypes, SMTT(40) DEF BeginsCancel, OthersKept, LifeKept, RoutesKept, SentKept,
     ChildKept, Identity, Place, Progress, AtRest, HostInv, CallInv, PathInv, RouteInv, KindInv,
     Routed, Responses
<1>3. ASSUME NEW c \in Calls, Enters(c) PROVE RouteInv(d)'
  BY <1>3, NoneIsNothing, StepTypes, SMTT(40) DEF Enters, OthersKept, LifeKept, RoutesKept, SentKept,
     ChildKept, Only, MovesOn, Identity, Progress, HostInv, CallInv, PathInv, RouteInv, KindInv,
     Routed, Responses
<1>4. ASSUME NEW c \in Calls, FindsNone(c) PROVE RouteInv(d)'
  BY <1>4, NoneIsNothing, StepTypes, SMTT(40) DEF FindsNone, OthersKept, LifeKept, RoutesKept, SentKept,
     ChildKept, Only, Ends, Returns, Cancels, Identity, AtRest, HostInv, CallInv, PathInv,
     RouteInv, KindInv, Routed, Responses
<1>5. ASSUME NEW c \in Calls, NEW p \in Processes, Starts(c, p) PROVE RouteInv(d)'
  BY <1>5, NoneIsNothing, StepTypes, SMTT(40) DEF Starts, LifeKept, RoutesKept, SentKept, Sets, Only,
     MovesOn, Identity, Progress, HostInv, CallInv, PathInv, RouteInv, KindInv, Routed, Responses
<1>6. ASSUME NEW c \in Calls, NEW p \in Processes, PublishLost(c, p) PROVE RouteInv(d)'
  BY <1>6, NoneIsNothing, StepTypes, SMTT(40) DEF PublishLost, LifeKept, SentKept, Sets, Only, MovesOn, Ends,
     Returns, Cancels, Identity, Progress, AtRest, HostInv, CallInv, PathInv, RouteInv, KindInv,
     Routed, Responses
<1>7. ASSUME NEW c \in Calls, NEW p \in Processes, PublishWon(c, p) PROVE RouteInv(d)'
  BY <1>7, NoneIsNothing, StepTypes, SMTT(40) DEF PublishWon, RoutesKept, SentKept, ChildKept, Only, MovesOn,
     Identity, Progress, HostInv, CallInv, PathInv, RouteInv, KindInv, Routed, Responses
<1>8. ASSUME NEW c \in Calls, NEW p \in Processes, RegisterRefused(c, p) PROVE RouteInv(d)'
  BY <1>8, NoneIsNothing, StepTypes, SMTT(40) DEF RegisterRefused, OthersKept, LifeKept, RoutesKept,
     SentKept, ChildKept, Only, Returns, Identity, AtRest, HostInv, CallInv, PathInv, RouteInv,
     KindInv, Routed, Responses
<1>9. ASSUME NEW c \in Calls, NEW p \in Processes, Registers(c, p) PROVE RouteInv(d)'
  BY <1>9, NoneIsNothing, StepTypes, SMTT(40) DEF Registers, LifeKept, SentKept, ChildKept, Sets, Only,
     MovesOn, Identity, Progress, HostInv, CallInv, PathInv, RouteInv, KindInv, Routed, Responses
<1>10. ASSUME NEW c \in Calls, NEW p \in Processes, NEW t \in Calls, Unroutes(c, p, t) PROVE RouteInv(d)'
  BY <1>10, NoneIsNothing, StepTypes, SMTT(40) DEF Unroutes, LifeKept, SentKept, ChildKept, Sets, Hears,
     Listening, MovesOn, Ends, Returns, Cancels, Identity, Progress, AtRest, HostInv, CallInv,
     PathInv, RouteInv, KindInv, Routed, Responses
<1>11. ASSUME NEW c \in Calls, NEW p \in Processes, WriteBroken(c, p) PROVE RouteInv(d)'
  BY <1>11, NoneIsNothing, StepTypes, SMTT(40) DEF WriteBroken, OthersKept, LifeKept, RoutesKept, SentKept,
     ChildKept, Only, MovesOn, Identity, Progress, HostInv, CallInv, PathInv, RouteInv, KindInv,
     Routed, Responses
<1>12. ASSUME NEW c \in Calls, NEW p \in Processes, Sends(c, p) PROVE RouteInv(d)'
  BY <1>12, NoneIsNothing, StepTypes, SMTT(40) DEF Sends, LifeKept, RoutesKept, ChildKept, Sets, Only,
     MovesOn, Identity, Progress, HostInv, CallInv, PathInv, RouteInv, KindInv, Routed, Responses
<1>13. ASSUME NEW c \in Calls, NEW p \in Processes, NEW t \in Calls, Tells(c, p, t) PROVE RouteInv(d)'
  BY <1>13, NoneIsNothing, StepTypes, SMTT(40) DEF Tells, LifeKept, RoutesKept, ChildKept, Sets, Only, Ends,
     Returns, Cancels, Identity, AtRest, HostInv, CallInv, PathInv, RouteInv, KindInv, Routed,
     Responses
<1>14. ASSUME NEW c \in Calls, NEW p \in Processes, FoundFailed(c, p) PROVE RouteInv(d)'
  BY <1>14, NoneIsNothing, StepTypes, SMTT(40) DEF FoundFailed, OthersKept, LifeKept, RoutesKept, SentKept,
     ChildKept, Only, Resumes, Ends, Returns, Cancels, Identity, AtRest, HostInv, CallInv, PathInv,
     RouteInv, KindInv, Routed, Responses
<1>15. ASSUME NEW c \in Calls, NEW p \in Processes, Fails(c, p) PROVE RouteInv(d)'
  BY <1>15, NoneIsNothing, StepTypes, SMTT(40) DEF Fails, LifeKept, SentKept, ChildKept, Sets, FailsRoutes,
     Heard, Hears, Listening, Identity, Progress, HostInv, CallInv, PathInv, RouteInv, KindInv,
     Routed, Responses
<1>16. ASSUME NEW c \in Calls, NEW p \in Processes, Kills(c, p) PROVE RouteInv(d)'
  BY <1>16, NoneIsNothing, StepTypes, SMTT(40) DEF Kills, LifeKept, RoutesKept, SentKept, Sets, Only,
     Resumes, Ends, Returns, Cancels, Identity, AtRest, HostInv, CallInv, PathInv, RouteInv,
     KindInv, Routed, Responses
<1>17. ASSUME NEW c \in Calls, Answered(c) PROVE RouteInv(d)'
  BY <1>17, NoneIsNothing, StepTypes, SMTT(40) DEF Answered, OthersKept, LifeKept, RoutesKept, SentKept,
     ChildKept, Only, Returns, Identity, AtRest, HostInv, CallInv, PathInv, RouteInv, KindInv,
     Routed, Responses
<1>18. ASSUME NEW c \in Calls, TimesOut(c) PROVE RouteInv(d)'
  BY <1>18, NoneIsNothing, StepTypes, SMTT(40) DEF TimesOut, OthersKept, LifeKept, RoutesKept, SentKept,
     ChildKept, Only, MovesOn, Identity, Progress, HostInv, CallInv, PathInv, RouteInv, KindInv,
     Routed, Responses
<1>19. ASSUME NEW c \in Calls, Abandons(c) PROVE RouteInv(d)'
  BY <1>19, NoneIsNothing, StepTypes, SMTT(40) DEF Abandons, OthersKept, LifeKept, RoutesKept, SentKept,
     ChildKept, Only, Cancels, Identity, HostInv, CallInv, PathInv, RouteInv, KindInv, Routed,
     Responses
<1>20. ASSUME NEW c \in Calls, Collects(c) PROVE RouteInv(d)'
  BY <1>20, NoneIsNothing, StepTypes, SMTT(40) DEF Collects, OthersKept, LifeKept, RoutesKept, SentKept,
     ChildKept, Only, Identity, Place, AtRest, HostInv, CallInv, PathInv, RouteInv, KindInv,
     Routed, Responses
<1>21. ASSUME NEW c \in Calls, GrowsIdle(c) PROVE RouteInv(d)'
  BY <1>21, NoneIsNothing, StepTypes, SMTT(40) DEF GrowsIdle, OthersKept, LifeKept, RoutesKept, SentKept,
     ChildKept, Only, MovesOn, Identity, Progress, HostInv, CallInv, PathInv, RouteInv, KindInv,
     Routed, Responses
<1>22. ASSUME NEW p \in Processes, NEW c \in Calls, Answers(p, c) PROVE RouteInv(d)'
  BY <1>22, NoneIsNothing, StepTypes, SMTT(40) DEF Answers, LifeKept, SentKept, ChildKept, Sets, Only,
     Listening, Identity, Place, Progress, HostInv, CallInv, PathInv, RouteInv, KindInv, Routed,
     Responses
<1>23. ASSUME NEW p \in Processes, NEW c \in Calls, TakesEvent(p, c) PROVE RouteInv(d)'
  BY <1>23, NoneIsNothing, StepTypes, SMTT(40) DEF TakesEvent, LifeKept, SentKept, Sets, HostInv, CallInv,
     PathInv, RouteInv, KindInv, Routed, Responses
<1>24. ASSUME NEW p \in Processes, NEW c \in Calls, SendsEvent(p, c) PROVE RouteInv(d)'
  BY <1>24, NoneIsNothing, StepTypes, SMTT(40) DEF SendsEvent, LifeKept, RoutesKept, SentKept, Only,
     Listening, Identity, Place, Progress, HostInv, CallInv, PathInv, RouteInv, KindInv, Routed,
     Responses
<1>25. ASSUME NEW p \in Processes, ReaderStops(p) PROVE RouteInv(d)'
  BY <1>25, NoneIsNothing, StepTypes, SMTT(40) DEF ReaderStops, LifeKept, RoutesKept, SentKept, HostInv,
     CallInv, PathInv, RouteInv, KindInv, Routed, Responses
<1>26. ASSUME NEW p \in Processes, ReaderFails(p) PROVE RouteInv(d)'
  BY <1>26, NoneIsNothing, StepTypes, SMTT(40) DEF ReaderFails, LifeKept, SentKept, Sets, FailsRoutes, Heard,
     Hears, Listening, Identity, Progress, HostInv, CallInv, PathInv, RouteInv, KindInv, Routed,
     Responses
<1>27. ASSUME NEW p \in Processes, ReaderKilled(p) PROVE RouteInv(d)'
  BY <1>27, NoneIsNothing, StepTypes, SMTT(40) DEF ReaderKilled, LifeKept, RoutesKept, SentKept, Sets,
     HostInv, CallInv, PathInv, RouteInv, KindInv, Routed, Responses
<1>28. ASSUME NEW p \in Processes, Dies(p) PROVE RouteInv(d)'
  BY <1>28, NoneIsNothing, StepTypes, SMTT(40) DEF Dies, LifeKept, RoutesKept, SentKept, Sets, HostInv,
     CallInv, PathInv, RouteInv, KindInv, Routed, Responses
<1>29. CASE Waits
  BY <1>29, NoneIsNothing, StepTypes, SMTT(40) DEF Waits, OthersKept, LifeKept, RoutesKept, SentKept,
     ChildKept, HostInv, CallInv, PathInv, RouteInv, KindInv, Routed, Responses
<1>30. CASE ShutsDown
  BY <1>30, NoneIsNothing, StepTypes, SMTT(40) DEF ShutsDown, RoutesKept, SentKept, ChildKept, HostInv,
     CallInv, PathInv, RouteInv, KindInv, Routed, Responses
<1>31. CASE StopNotified
  BY <1>31, NoneIsNothing, StepTypes, SMTT(40) DEF StopNotified, RoutesKept, SentKept, ChildKept, StopMoves,
     HostInv, CallInv, PathInv, RouteInv, KindInv, Routed, Responses
<1>32. ASSUME NEW p \in Processes, StopFails(p) PROVE RouteInv(d)'
  BY <1>32, NoneIsNothing, StepTypes, SMTT(40) DEF StopFails, SentKept, ChildKept, Sets, FailsRoutes, Heard,
     Hears, Listening, Identity, Progress, StopMoves, HostInv, CallInv, PathInv, RouteInv, KindInv,
     Routed, Responses
<1>33. ASSUME NEW p \in Processes, StopKills(p) PROVE RouteInv(d)'
  BY <1>33, NoneIsNothing, StepTypes, SMTT(40) DEF StopKills, RoutesKept, SentKept, Sets, StopMoves, HostInv,
     CallInv, PathInv, RouteInv, KindInv, Routed, Responses
<1> QED BY <1>1, <1>2, <1>3, <1>4, <1>5, <1>6, <1>7, <1>8, <1>9, <1>10, <1>11, <1>12, <1>13, <1>14,
   <1>15, <1>16, <1>17, <1>18, <1>19, <1>20, <1>21, <1>22, <1>23, <1>24, <1>25, <1>26, <1>27,
   <1>28, <1>29, <1>30, <1>31, <1>32, <1>33 DEF Step, Picking, Writing, Waiting, Reads, Stopping

\* Of the calls that wait.
LEMMA TiedKept ==
  ASSUME HostInv, StateType', NEW d \in Calls, Step
  PROVE  TiedInv(d)'
<1>0. TiedInv(d)
  BY DEF HostInv, CallInv
<1>1. ASSUME NEW c \in Calls, Begins(c) PROVE TiedInv(d)'
  BY <1>1, NoneIsNothing, StepTypes, SMTT(40) DEF Begins, OthersKept, LifeKept, RoutesKept, SentKept,
     ChildKept, Only, Progress, HostInv, CallInv, TiedInv, PathInv, KindInv, Routed, HolderInv,
     HoldingInv, HoldsProcess, Responses, Listening
<1>2. ASSUME NEW c \in Calls, NEW t \in Calls, BeginsCancel(c, t) PROVE TiedInv(d)'
  <2>1. CASE d = c
    BY <1>2, <2>1, SMTT(40)
       DEF BeginsCancel, AtRest, TiedInv
  <2>2. CASE d # c
    BY <1>0, <1>2, <2>2, NoneIsNothing, StepTypes, SMTT(40)
       DEF BeginsCancel, OthersKept, LifeKept, RoutesKept, ChildKept,
           Identity, Place, Progress, TiedInv
  <2> QED BY <2>1, <2>2
<1>3. ASSUME NEW c \in Calls, Enters(c) PROVE TiedInv(d)'
  BY <1>3, NoneIsNothing, StepTypes, SMTT(40) DEF Enters, OthersKept, LifeKept, RoutesKept, SentKept,
     ChildKept, Only, MovesOn, Identity, Progress, HostInv, CallInv, TiedInv, PathInv, KindInv,
     Routed, HolderInv, HoldingInv, HoldsProcess, Responses, Listening
<1>4. ASSUME NEW c \in Calls, FindsNone(c) PROVE TiedInv(d)'
  BY <1>4, NoneIsNothing, StepTypes, SMTT(40) DEF FindsNone, OthersKept, LifeKept, RoutesKept, SentKept,
     ChildKept, Only, Ends, Returns, Cancels, Identity, AtRest, HostInv, CallInv, TiedInv, PathInv,
     KindInv, Routed, HolderInv, HoldingInv, HoldsProcess, Responses, Listening
<1>5. ASSUME NEW c \in Calls, NEW p \in Processes, Starts(c, p) PROVE TiedInv(d)'
  BY <1>5, NoneIsNothing, StepTypes, SMTT(40) DEF Starts, LifeKept, RoutesKept, SentKept, Sets, Only,
     MovesOn, Identity, Progress, HostInv, CallInv, TiedInv, PathInv, KindInv, Routed, HolderInv,
     HoldingInv, HoldsProcess, Responses, Listening
<1>6. ASSUME NEW c \in Calls, NEW p \in Processes, PublishLost(c, p) PROVE TiedInv(d)'
  <2>1. CASE d = c
    BY <1>6, <2>1, SMTT(40)
       DEF PublishLost, LifeKept, MovesOn, Ends, Returns, Cancels, Identity, AtRest, TiedInv
  <2>2. CASE d # c
    BY <1>0, <1>6, <2>2, SMTT(40)
       DEF PublishLost, LifeKept, SentKept, Only, TiedInv
  <2> QED BY <2>1, <2>2
<1>7. ASSUME NEW c \in Calls, NEW p \in Processes, PublishWon(c, p) PROVE TiedInv(d)'
  BY <1>7, NoneIsNothing, StepTypes, SMTT(40) DEF PublishWon, RoutesKept, SentKept, ChildKept, Only, MovesOn,
     Identity, Progress, HostInv, CallInv, TiedInv, PathInv, KindInv, Routed, HolderInv,
     HoldingInv, HoldsProcess, Responses, Listening
<1>8. ASSUME NEW c \in Calls, NEW p \in Processes, RegisterRefused(c, p) PROVE TiedInv(d)'
  BY <1>8, NoneIsNothing, StepTypes, SMTT(40) DEF RegisterRefused, OthersKept, LifeKept, RoutesKept,
     SentKept, ChildKept, Only, Returns, Identity, AtRest, HostInv, CallInv, TiedInv, PathInv,
     KindInv, Routed, HolderInv, HoldingInv, HoldsProcess, Responses, Listening
<1>9. ASSUME NEW c \in Calls, NEW p \in Processes, Registers(c, p) PROVE TiedInv(d)'
  BY <1>9, NoneIsNothing, StepTypes, SMTT(40) DEF Registers, LifeKept, SentKept, ChildKept, Sets, Only,
     MovesOn, Identity, Progress, HostInv, CallInv, TiedInv, PathInv, KindInv, Routed, HolderInv,
     HoldingInv, HoldsProcess, Responses, Listening
<1>10. ASSUME NEW c \in Calls, NEW p \in Processes, NEW t \in Calls, Unroutes(c, p, t) PROVE TiedInv(d)'
  BY <1>10, NoneIsNothing, StepTypes, SMTT(40) DEF Unroutes, LifeKept, SentKept, ChildKept, Sets, Hears,
     Listening, MovesOn, Ends, Returns, Cancels, Identity, Progress, AtRest, HostInv, CallInv,
     TiedInv, PathInv, KindInv, Routed, HolderInv, HoldingInv, HoldsProcess, Responses
<1>11. ASSUME NEW c \in Calls, NEW p \in Processes, WriteBroken(c, p) PROVE TiedInv(d)'
  BY <1>11, NoneIsNothing, StepTypes, SMTT(40) DEF WriteBroken, OthersKept, LifeKept, RoutesKept, SentKept,
     ChildKept, Only, MovesOn, Identity, Progress, HostInv, CallInv, TiedInv, PathInv, KindInv,
     Routed, HolderInv, HoldingInv, HoldsProcess, Responses, Listening
<1>12. ASSUME NEW c \in Calls, NEW p \in Processes, Sends(c, p) PROVE TiedInv(d)'
  BY <1>12, NoneIsNothing, StepTypes, SMTT(40) DEF Sends, LifeKept, RoutesKept, ChildKept, Sets, Only,
     MovesOn, Identity, Progress, HostInv, CallInv, TiedInv, PathInv, KindInv, Routed, HolderInv,
     HoldingInv, HoldsProcess, Responses, Listening
<1>13. ASSUME NEW c \in Calls, NEW p \in Processes, NEW t \in Calls, Tells(c, p, t) PROVE TiedInv(d)'
  <2>1. CASE d = c
    BY <1>13, <2>1, SMTT(40)
       DEF Tells, Ends, Returns, Cancels, Identity, AtRest, TiedInv
  <2>2. CASE d # c
    BY <1>0, <1>13, <2>2, SMTT(40) DEF Tells, LifeKept, RoutesKept, ChildKept, Only, TiedInv
  <2> QED BY <2>1, <2>2
<1>14. ASSUME NEW c \in Calls, NEW p \in Processes, FoundFailed(c, p) PROVE TiedInv(d)'
  <2>1. CASE d = c
    BY <1>14, <2>1, SMTT(40)
       DEF FoundFailed, Resumes, Ends, Returns, Cancels, Identity, AtRest, TiedInv
  <2>2. CASE d # c
    BY <1>0, <1>14, <2>2, SMTT(40)
       DEF FoundFailed, OthersKept, LifeKept, RoutesKept, ChildKept, Only, TiedInv
  <2> QED BY <2>1, <2>2
<1>15. ASSUME NEW c \in Calls, NEW p \in Processes, Fails(c, p) PROVE TiedInv(d)'
  BY <1>15, NoneIsNothing, StepTypes, SMTT(40) DEF Fails, LifeKept, SentKept, ChildKept, Sets, FailsRoutes,
     Heard, Hears, Listening, Identity, Progress, HostInv, CallInv, TiedInv, PathInv, KindInv,
     Routed, HolderInv, HoldingInv, HoldsProcess, Responses
<1>16. ASSUME NEW c \in Calls, NEW p \in Processes, Kills(c, p) PROVE TiedInv(d)'
  <2>1. CASE d = c
    BY <1>16, <2>1, SMTT(40)
       DEF Kills, Resumes, Ends, Returns, Cancels, Identity, AtRest, TiedInv
  <2>2. CASE d # c
    BY <1>0, <1>16, <2>2, SMTT(40)
       DEF Kills, LifeKept, RoutesKept, Only, TiedInv
  <2> QED BY <2>1, <2>2
<1>17. ASSUME NEW c \in Calls, Answered(c) PROVE TiedInv(d)'
  BY <1>17, NoneIsNothing, StepTypes, SMTT(40) DEF Answered, OthersKept, LifeKept, RoutesKept, SentKept,
     ChildKept, Only, Returns, Identity, AtRest, HostInv, CallInv, TiedInv, PathInv, KindInv,
     Routed, HolderInv, HoldingInv, HoldsProcess, Responses, Listening
<1>18. ASSUME NEW c \in Calls, TimesOut(c) PROVE TiedInv(d)'
  BY <1>18, NoneIsNothing, StepTypes, SMTT(40) DEF TimesOut, OthersKept, LifeKept, RoutesKept, SentKept,
     ChildKept, Only, MovesOn, Identity, Progress, HostInv, CallInv, TiedInv, PathInv, KindInv,
     Routed, HolderInv, HoldingInv, HoldsProcess, Responses, Listening
<1>19. ASSUME NEW c \in Calls, Abandons(c) PROVE TiedInv(d)'
  BY <1>19, NoneIsNothing, StepTypes, SMTT(40) DEF Abandons, OthersKept, LifeKept, RoutesKept, SentKept,
     ChildKept, Only, Cancels, Identity, HostInv, CallInv, TiedInv, PathInv, KindInv, Routed,
     HolderInv, HoldingInv, HoldsProcess, Responses, Listening
<1>20. ASSUME NEW c \in Calls, Collects(c) PROVE TiedInv(d)'
  BY <1>20, NoneIsNothing, StepTypes, SMTT(40) DEF Collects, OthersKept, LifeKept, RoutesKept, SentKept,
     ChildKept, Only, Identity, Place, AtRest, HostInv, CallInv, TiedInv, PathInv, KindInv, Routed,
     HolderInv, HoldingInv, HoldsProcess, Responses, Listening
<1>21. ASSUME NEW c \in Calls, GrowsIdle(c) PROVE TiedInv(d)'
  BY <1>21, NoneIsNothing, StepTypes, SMTT(40) DEF GrowsIdle, OthersKept, LifeKept, RoutesKept, SentKept,
     ChildKept, Only, MovesOn, Identity, Progress, HostInv, CallInv, TiedInv, PathInv, KindInv,
     Routed, HolderInv, HoldingInv, HoldsProcess, Responses, Listening
<1>22. ASSUME NEW p \in Processes, NEW c \in Calls, Answers(p, c) PROVE TiedInv(d)'
  BY <1>22, NoneIsNothing, StepTypes, SMTT(40) DEF Answers, LifeKept, SentKept, ChildKept, Sets, Only,
     Listening, Identity, Place, Progress, HostInv, CallInv, TiedInv, PathInv, KindInv, Routed,
     HolderInv, HoldingInv, HoldsProcess, Responses
<1>23. ASSUME NEW p \in Processes, NEW c \in Calls, TakesEvent(p, c) PROVE TiedInv(d)'
  BY <1>23, NoneIsNothing, StepTypes, SMTT(40) DEF TakesEvent, LifeKept, SentKept, Sets, HostInv, CallInv,
     TiedInv, PathInv, KindInv, Routed, HolderInv, HoldingInv, HoldsProcess, Responses, Listening
<1>24. ASSUME NEW p \in Processes, NEW c \in Calls, SendsEvent(p, c) PROVE TiedInv(d)'
  BY <1>24, NoneIsNothing, StepTypes, SMTT(40) DEF SendsEvent, LifeKept, RoutesKept, SentKept, Only,
     Listening, Identity, Place, Progress, HostInv, CallInv, TiedInv, PathInv, KindInv, Routed,
     HolderInv, HoldingInv, HoldsProcess, Responses
<1>25. ASSUME NEW p \in Processes, ReaderStops(p) PROVE TiedInv(d)'
  BY <1>25, NoneIsNothing, StepTypes, SMTT(40) DEF ReaderStops, LifeKept, RoutesKept, SentKept, HostInv,
     CallInv, TiedInv, PathInv, KindInv, Routed, HolderInv, HoldingInv, HoldsProcess, Responses,
     Listening
<1>26. ASSUME NEW p \in Processes, ReaderFails(p) PROVE TiedInv(d)'
  BY <1>26, NoneIsNothing, StepTypes, SMTT(40) DEF ReaderFails, LifeKept, SentKept, Sets, FailsRoutes, Heard,
     Hears, Listening, Identity, Progress, HostInv, CallInv, TiedInv, PathInv, KindInv, Routed,
     HolderInv, HoldingInv, HoldsProcess, Responses
<1>27. ASSUME NEW p \in Processes, ReaderKilled(p) PROVE TiedInv(d)'
  BY <1>27, NoneIsNothing, StepTypes, SMTT(40) DEF ReaderKilled, LifeKept, RoutesKept, SentKept, Sets,
     HostInv, CallInv, TiedInv, PathInv, KindInv, Routed, HolderInv, HoldingInv, HoldsProcess,
     Responses, Listening
<1>28. ASSUME NEW p \in Processes, Dies(p) PROVE TiedInv(d)'
  BY <1>28, NoneIsNothing, StepTypes, SMTT(40) DEF Dies, LifeKept, RoutesKept, SentKept, Sets, HostInv,
     CallInv, TiedInv, PathInv, KindInv, Routed, HolderInv, HoldingInv, HoldsProcess, Responses,
     Listening
<1>29. CASE Waits
  BY <1>29, NoneIsNothing, StepTypes, SMTT(40) DEF Waits, OthersKept, LifeKept, RoutesKept, SentKept,
     ChildKept, HostInv, CallInv, TiedInv, PathInv, KindInv, Routed, HolderInv, HoldingInv,
     HoldsProcess, Responses, Listening
<1>30. CASE ShutsDown
  BY <1>30, NoneIsNothing, StepTypes, SMTT(40) DEF ShutsDown, RoutesKept, SentKept, ChildKept, HostInv,
     CallInv, TiedInv, PathInv, KindInv, Routed, HolderInv, HoldingInv, HoldsProcess, Responses,
     Listening
<1>31. CASE StopNotified
  BY <1>31, NoneIsNothing, StepTypes, SMTT(40) DEF StopNotified, RoutesKept, SentKept, ChildKept, StopMoves,
     HostInv, CallInv, TiedInv, PathInv, KindInv, Routed, HolderInv, HoldingInv, HoldsProcess,
     Responses, Listening
<1>32. ASSUME NEW p \in Processes, StopFails(p) PROVE TiedInv(d)'
  BY <1>32, NoneIsNothing, StepTypes, SMTT(40) DEF StopFails, SentKept, ChildKept, Sets, FailsRoutes, Heard,
     Hears, Listening, Identity, Progress, StopMoves, HostInv, CallInv, TiedInv, PathInv, KindInv,
     Routed, HolderInv, HoldingInv, HoldsProcess, Responses
<1>33. ASSUME NEW p \in Processes, StopKills(p) PROVE TiedInv(d)'
  BY <1>33, NoneIsNothing, StepTypes, SMTT(40) DEF StopKills, RoutesKept, SentKept, Sets, StopMoves, HostInv,
     CallInv, TiedInv, PathInv, KindInv, Routed, HolderInv, HoldingInv, HoldsProcess, Responses,
     Listening
<1> QED BY <1>1, <1>2, <1>3, <1>4, <1>5, <1>6, <1>7, <1>8, <1>9, <1>10, <1>11, <1>12, <1>13, <1>14,
   <1>15, <1>16, <1>17, <1>18, <1>19, <1>20, <1>21, <1>22, <1>23, <1>24, <1>25, <1>26, <1>27,
   <1>28, <1>29, <1>30, <1>31, <1>32, <1>33 DEF Step, Picking, Writing, Waiting, Reads, Stopping

\* Of the chats that providers have.
LEMMA ChatKept ==
  ASSUME HostInv, StateType', NEW d \in Calls, Step
  PROVE  ChatInv(d)'
<1>1. ASSUME NEW c \in Calls, Begins(c) PROVE ChatInv(d)'
  BY <1>1, NoneIsNothing, StepTypes, SMTT(40) DEF Begins, OthersKept, LifeKept, RoutesKept, SentKept,
     ChildKept, Only, Progress, HostInv, CallInv, ChatInv, KindInv, Sent, HolderInv, HoldingInv,
     HoldsProcess
<1>2. ASSUME NEW c \in Calls, NEW t \in Calls, BeginsCancel(c, t) PROVE ChatInv(d)'
  BY <1>2, NoneIsNothing, StepTypes, SMTT(40) DEF BeginsCancel, OthersKept, LifeKept, RoutesKept, SentKept,
     ChildKept, Identity, Place, Progress, AtRest, HostInv, CallInv, ChatInv, KindInv, Sent,
     HolderInv, HoldingInv, HoldsProcess
<1>3. ASSUME NEW c \in Calls, Enters(c) PROVE ChatInv(d)'
  BY <1>3, NoneIsNothing, StepTypes, SMTT(40) DEF Enters, OthersKept, LifeKept, RoutesKept, SentKept,
     ChildKept, Only, MovesOn, Identity, Progress, HostInv, CallInv, ChatInv, KindInv, Sent,
     HolderInv, HoldingInv, HoldsProcess
<1>4. ASSUME NEW c \in Calls, FindsNone(c) PROVE ChatInv(d)'
  BY <1>4, NoneIsNothing, StepTypes, SMTT(40) DEF FindsNone, OthersKept, LifeKept, RoutesKept, SentKept,
     ChildKept, Only, Ends, Returns, Cancels, Identity, AtRest, HostInv, CallInv, ChatInv, KindInv,
     Sent, HolderInv, HoldingInv, HoldsProcess
<1>5. ASSUME NEW c \in Calls, NEW p \in Processes, Starts(c, p) PROVE ChatInv(d)'
  BY <1>5, NoneIsNothing, StepTypes, SMTT(40) DEF Starts, LifeKept, RoutesKept, SentKept, Sets, Only,
     MovesOn, Identity, Progress, HostInv, CallInv, ChatInv, KindInv, Sent, HolderInv, HoldingInv,
     HoldsProcess
<1>6. ASSUME NEW c \in Calls, NEW p \in Processes, PublishLost(c, p) PROVE ChatInv(d)'
  BY <1>6, NoneIsNothing, StepTypes, SMTT(40) DEF PublishLost, LifeKept, SentKept, Sets, Only, MovesOn, Ends,
     Returns, Cancels, Identity, Progress, AtRest, HostInv, CallInv, ChatInv, KindInv, Sent,
     HolderInv, HoldingInv, HoldsProcess
<1>7. ASSUME NEW c \in Calls, NEW p \in Processes, PublishWon(c, p) PROVE ChatInv(d)'
  BY <1>7, NoneIsNothing, StepTypes, SMTT(40) DEF PublishWon, RoutesKept, SentKept, ChildKept, Only, MovesOn,
     Identity, Progress, HostInv, CallInv, ChatInv, KindInv, Sent, HolderInv, HoldingInv,
     HoldsProcess
<1>8. ASSUME NEW c \in Calls, NEW p \in Processes, RegisterRefused(c, p) PROVE ChatInv(d)'
  BY <1>8, NoneIsNothing, StepTypes, SMTT(40) DEF RegisterRefused, OthersKept, LifeKept, RoutesKept,
     SentKept, ChildKept, Only, Returns, Identity, AtRest, HostInv, CallInv, ChatInv, KindInv,
     Sent, HolderInv, HoldingInv, HoldsProcess
<1>9. ASSUME NEW c \in Calls, NEW p \in Processes, Registers(c, p) PROVE ChatInv(d)'
  BY <1>9, NoneIsNothing, StepTypes, SMTT(40) DEF Registers, LifeKept, SentKept, ChildKept, Sets, Only,
     MovesOn, Identity, Progress, HostInv, CallInv, ChatInv, KindInv, Sent, HolderInv, HoldingInv,
     HoldsProcess
<1>10. ASSUME NEW c \in Calls, NEW p \in Processes, NEW t \in Calls, Unroutes(c, p, t) PROVE ChatInv(d)'
  BY <1>10, NoneIsNothing, StepTypes, SMTT(40) DEF Unroutes, LifeKept, SentKept, ChildKept, Sets, Hears,
     Listening, MovesOn, Ends, Returns, Cancels, Identity, Progress, AtRest, HostInv, CallInv,
     ChatInv, KindInv, Sent, HolderInv, HoldingInv, HoldsProcess
<1>11. ASSUME NEW c \in Calls, NEW p \in Processes, WriteBroken(c, p) PROVE ChatInv(d)'
  BY <1>11, NoneIsNothing, StepTypes, SMTT(40) DEF WriteBroken, OthersKept, LifeKept, RoutesKept, SentKept,
     ChildKept, Only, MovesOn, Identity, Progress, HostInv, CallInv, ChatInv, KindInv, Sent,
     HolderInv, HoldingInv, HoldsProcess
<1>12. ASSUME NEW c \in Calls, NEW p \in Processes, Sends(c, p) PROVE ChatInv(d)'
  BY <1>12, NoneIsNothing, StepTypes, WorksWithCurrent, SMTT(40) DEF Sends, LifeKept, RoutesKept, ChildKept,
     Sets, Only, MovesOn, Identity, Progress, HostInv, CallInv, ChatInv, KindInv, Sent, HolderInv,
     HoldingInv, HoldsProcess
<1>13. ASSUME NEW c \in Calls, NEW p \in Processes, NEW t \in Calls, Tells(c, p, t) PROVE ChatInv(d)'
  BY <1>13, NoneIsNothing, StepTypes, SMTT(40) DEF Tells, LifeKept, RoutesKept, ChildKept, Sets, Only, Ends,
     Returns, Cancels, Identity, AtRest, HostInv, CallInv, ChatInv, KindInv, Sent, HolderInv,
     HoldingInv, HoldsProcess
<1>14. ASSUME NEW c \in Calls, NEW p \in Processes, FoundFailed(c, p) PROVE ChatInv(d)'
  BY <1>14, NoneIsNothing, StepTypes, SMTT(40) DEF FoundFailed, OthersKept, LifeKept, RoutesKept, SentKept,
     ChildKept, Only, Resumes, Ends, Returns, Cancels, Identity, AtRest, HostInv, CallInv, ChatInv,
     KindInv, Sent, HolderInv, HoldingInv, HoldsProcess
<1>15. ASSUME NEW c \in Calls, NEW p \in Processes, Fails(c, p) PROVE ChatInv(d)'
  BY <1>15, NoneIsNothing, StepTypes, SMTT(40) DEF Fails, LifeKept, SentKept, ChildKept, Sets, FailsRoutes,
     Heard, Hears, Listening, Identity, Progress, HostInv, CallInv, ChatInv, KindInv, Sent,
     HolderInv, HoldingInv, HoldsProcess
<1>16. ASSUME NEW c \in Calls, NEW p \in Processes, Kills(c, p) PROVE ChatInv(d)'
  <2>1. CASE d = c
    BY <1>16, <2>1, NoneIsNothing, StepTypes, SMTT(40) DEF Kills, LifeKept, RoutesKept, SentKept, Sets, Only,
       Resumes, Ends, Returns, Cancels, Identity, AtRest, HostInv, CallInv, ChatInv, KindInv, Sent,
       HolderInv, HoldingInv, HoldsProcess
  <2>2. CASE d # c
    <3>1. ChatInv(d)
      BY DEF HostInv, CallInv
    <3> QED BY <1>16, <2>2, <3>1, SMTT(40) DEF Kills, LifeKept, RoutesKept, SentKept, Only, ChatInv
  <2> QED BY <2>1, <2>2
<1>17. ASSUME NEW c \in Calls, Answered(c) PROVE ChatInv(d)'
  BY <1>17, NoneIsNothing, StepTypes, SMTT(40) DEF Answered, OthersKept, LifeKept, RoutesKept, SentKept,
     ChildKept, Only, Returns, Identity, AtRest, HostInv, CallInv, ChatInv, KindInv, Sent,
     HolderInv, HoldingInv, HoldsProcess
<1>18. ASSUME NEW c \in Calls, TimesOut(c) PROVE ChatInv(d)'
  BY <1>18, NoneIsNothing, StepTypes, SMTT(40) DEF TimesOut, OthersKept, LifeKept, RoutesKept, SentKept,
     ChildKept, Only, MovesOn, Identity, Progress, HostInv, CallInv, ChatInv, KindInv, Sent,
     HolderInv, HoldingInv, HoldsProcess
<1>19. ASSUME NEW c \in Calls, Abandons(c) PROVE ChatInv(d)'
  BY <1>19, NoneIsNothing, StepTypes, SMTT(40) DEF Abandons, OthersKept, LifeKept, RoutesKept, SentKept,
     ChildKept, Only, Cancels, Identity, HostInv, CallInv, ChatInv, KindInv, Sent, HolderInv,
     HoldingInv, HoldsProcess
<1>20. ASSUME NEW c \in Calls, Collects(c) PROVE ChatInv(d)'
  BY <1>20, NoneIsNothing, StepTypes, SMTT(40) DEF Collects, OthersKept, LifeKept, RoutesKept, SentKept,
     ChildKept, Only, Identity, Place, AtRest, HostInv, CallInv, ChatInv, KindInv, Sent, HolderInv,
     HoldingInv, HoldsProcess
<1>21. ASSUME NEW c \in Calls, GrowsIdle(c) PROVE ChatInv(d)'
  BY <1>21, NoneIsNothing, StepTypes, SMTT(40) DEF GrowsIdle, OthersKept, LifeKept, RoutesKept, SentKept,
     ChildKept, Only, MovesOn, Identity, Progress, HostInv, CallInv, ChatInv, KindInv, Sent,
     HolderInv, HoldingInv, HoldsProcess
<1>22. ASSUME NEW p \in Processes, NEW c \in Calls, Answers(p, c) PROVE ChatInv(d)'
  BY <1>22, NoneIsNothing, StepTypes, SMTT(40) DEF Answers, LifeKept, SentKept, ChildKept, Sets, Only,
     Listening, Identity, Place, Progress, HostInv, CallInv, ChatInv, KindInv, Sent, HolderInv,
     HoldingInv, HoldsProcess
<1>23. ASSUME NEW p \in Processes, NEW c \in Calls, TakesEvent(p, c) PROVE ChatInv(d)'
  BY <1>23, NoneIsNothing, StepTypes, SMTT(40) DEF TakesEvent, LifeKept, SentKept, Sets, HostInv, CallInv,
     ChatInv, KindInv, Sent, HolderInv, HoldingInv, HoldsProcess
<1>24. ASSUME NEW p \in Processes, NEW c \in Calls, SendsEvent(p, c) PROVE ChatInv(d)'
  BY <1>24, NoneIsNothing, StepTypes, SMTT(40) DEF SendsEvent, LifeKept, RoutesKept, SentKept, Only,
     Listening, Identity, Place, Progress, HostInv, CallInv, ChatInv, KindInv, Sent, HolderInv,
     HoldingInv, HoldsProcess
<1>25. ASSUME NEW p \in Processes, ReaderStops(p) PROVE ChatInv(d)'
  BY <1>25, NoneIsNothing, StepTypes, SMTT(40) DEF ReaderStops, LifeKept, RoutesKept, SentKept, HostInv,
     CallInv, ChatInv, KindInv, Sent, HolderInv, HoldingInv, HoldsProcess
<1>26. ASSUME NEW p \in Processes, ReaderFails(p) PROVE ChatInv(d)'
  BY <1>26, NoneIsNothing, StepTypes, SMTT(40) DEF ReaderFails, LifeKept, SentKept, Sets, FailsRoutes, Heard,
     Hears, Listening, Identity, Progress, HostInv, CallInv, ChatInv, KindInv, Sent, HolderInv,
     HoldingInv, HoldsProcess
<1>27. ASSUME NEW p \in Processes, ReaderKilled(p) PROVE ChatInv(d)'
  BY <1>27, NoneIsNothing, StepTypes, SMTT(40) DEF ReaderKilled, LifeKept, RoutesKept, SentKept, Sets,
     HostInv, CallInv, ChatInv, KindInv, Sent, HolderInv, HoldingInv, HoldsProcess
<1>28. ASSUME NEW p \in Processes, Dies(p) PROVE ChatInv(d)'
  BY <1>28, NoneIsNothing, StepTypes, SMTT(40) DEF Dies, LifeKept, RoutesKept, SentKept, Sets, HostInv,
     CallInv, ChatInv, KindInv, Sent, HolderInv, HoldingInv, HoldsProcess
<1>29. CASE Waits
  BY <1>29, NoneIsNothing, StepTypes, SMTT(40) DEF Waits, OthersKept, LifeKept, RoutesKept, SentKept,
     ChildKept, HostInv, CallInv, ChatInv, KindInv, Sent, HolderInv, HoldingInv, HoldsProcess
<1>30. CASE ShutsDown
  BY <1>30, NoneIsNothing, StepTypes, SMTT(40) DEF ShutsDown, RoutesKept, SentKept, ChildKept, HostInv,
     CallInv, ChatInv, KindInv, Sent, HolderInv, HoldingInv, HoldsProcess
<1>31. CASE StopNotified
  BY <1>31, NoneIsNothing, StepTypes, SMTT(40) DEF StopNotified, RoutesKept, SentKept, ChildKept, StopMoves,
     HostInv, CallInv, ChatInv, KindInv, Sent, HolderInv, HoldingInv, HoldsProcess
<1>32. ASSUME NEW p \in Processes, StopFails(p) PROVE ChatInv(d)'
  BY <1>32, NoneIsNothing, StepTypes, SMTT(40) DEF StopFails, SentKept, ChildKept, Sets, FailsRoutes, Heard,
     Hears, Listening, Identity, Progress, StopMoves, HostInv, CallInv, ChatInv, KindInv, Sent,
     HolderInv, HoldingInv, HoldsProcess
<1>33. ASSUME NEW p \in Processes, StopKills(p) PROVE ChatInv(d)'
  BY <1>33, NoneIsNothing, StepTypes, SMTT(40) DEF StopKills, RoutesKept, SentKept, Sets, StopMoves, HostInv,
     CallInv, ChatInv, KindInv, Sent, HolderInv, HoldingInv, HoldsProcess
<1> QED BY <1>1, <1>2, <1>3, <1>4, <1>5, <1>6, <1>7, <1>8, <1>9, <1>10, <1>11, <1>12, <1>13, <1>14,
   <1>15, <1>16, <1>17, <1>18, <1>19, <1>20, <1>21, <1>22, <1>23, <1>24, <1>25, <1>26, <1>27,
   <1>28, <1>29, <1>30, <1>31, <1>32, <1>33 DEF Step, Picking, Writing, Waiting, Reads, Stopping

--------------------------------------------------------------------------------
(* The theorems.                                                            *)

\* The invariant holds when the host is made.
LEMMA HostInitially == HostInit => HostInv
<1> SUFFICES ASSUME HostInit PROVE HostInv
  OBVIOUS
<1>1. ASSUME NEW c \in Calls
      PROVE  /\ calls[c] \in CallType
             /\ calls[c].kind = "new" /\ calls[c].at = "new" /\ calls[c].job = "send" /\ calls[c].id = c
             /\ calls[c].proc = None /\ calls[c].got = None /\ calls[c].events = <<>>
             /\ calls[c].response = FALSE /\ calls[c].completed = FALSE /\ calls[c].cancels = 0
             /\ calls[c].idle = FALSE
  <2>1. calls[c] = [Fresh EXCEPT !.id = c]
    BY DEF HostInit
  <2>2. [Fresh EXCEPT !.id = c] \in CallType
    BY FreshFields DEF CallType
  <2>3. /\ [Fresh EXCEPT !.id = c].kind = "new" /\ [Fresh EXCEPT !.id = c].at = "new"
        /\ [Fresh EXCEPT !.id = c].job = "send" /\ [Fresh EXCEPT !.id = c].id = c
        /\ [Fresh EXCEPT !.id = c].proc = None /\ [Fresh EXCEPT !.id = c].got = None
        /\ [Fresh EXCEPT !.id = c].events = <<>> /\ [Fresh EXCEPT !.id = c].response = FALSE
        /\ [Fresh EXCEPT !.id = c].completed = FALSE /\ [Fresh EXCEPT !.id = c].cancels = 0
        /\ [Fresh EXCEPT !.id = c].idle = FALSE
    BY DEF Fresh
  <2> QED BY <2>1, <2>2, <2>3
<1>2. ASSUME NEW p \in Processes
      PROVE  /\ failed[p] = FALSE /\ pending[p] = {} /\ streams[p] = {} /\ accepted[p] = {}
             /\ child[p] = "none" /\ reader[p].at = "reading"
  BY DEF HostInit
<1>3. StateType
  <2>1. calls \in [Calls -> CallType]
    <3>1. calls = [c \in Calls |-> calls[c]]
      BY DEF HostInit
    <3> QED BY <1>1, <3>1
  <2>2. stopping \in [at : {"up", "notice", "fail", "kill", "down"}, proc : Processes \cup {None}]
    BY DEF HostInit
  <2>3. reader \in [Processes -> [at : {"reading", "routing", "failing", "ended"},
                                  id : Calls \cup {None}, what : Terminal \cup {None}]]
    BY DEF HostInit
  <2> QED BY <2>1, <2>2, <2>3 DEF HostInit, StateType
<1>4. stopping.at = "up" /\ current = None /\ is_shutdown = FALSE
  BY DEF HostInit
<1>5. ProcessInv
  BY <1>2, <1>4 DEF ProcessInv, MapInv, OwnedInv
<1>6. HolderInv
  BY <1>1 DEF HolderInv, HoldingInv, UnknownInv, HoldsProcess
<1>7. CallInv
  <2> SUFFICES ASSUME NEW c \in Calls
               PROVE  KindInv(c) /\ PathInv(c) /\ RouteInv(c) /\ TiedInv(c) /\ ChatInv(c)
    BY DEF CallInv
  <2>1. KindInv(c)
    <3>1. ~Routed(c) /\ ~Sent(c)
      BY <1>2 DEF Routed, Sent
    <3>2. ~(calls[c].cancels > 0)
      <4>1. calls[c].cancels = 0
        BY <1>1
      <4> QED BY <4>1
    <3> QED BY <1>1, <3>1, <3>2, Zenon DEF KindInv
  <2>2. PathInv(c)
    BY <1>2 DEF PathInv
  <2>3. RouteInv(c)
    BY <1>1, <1>2 DEF RouteInv
  <2>4. TiedInv(c) /\ ChatInv(c)
    BY <1>1 DEF TiedInv, ChatInv
  <2> QED BY <2>1, <2>2, <2>3, <2>4
<1> QED BY <1>3, <1>5, <1>6, <1>7 DEF HostInv

\* Every step of the host keeps the invariant: whichever call, reader or
\* shutdown takes it, and whatever the provider does.
THEOREM HostInvStep == HostInv /\ [HostNext]_hostVars => HostInv'
<1> SUFFICES ASSUME HostInv, [HostNext]_hostVars PROVE HostInv'
  OBVIOUS
<1>1. StateType' /\ Step
  BY StepEffect
<1>2. ProcessInv'
  BY <1>1, MapKept, OwnedKept DEF ProcessInv
<1>3. HolderInv'
  BY <1>1, HoldingKept, UnknownKept DEF HolderInv
<1>4. CallInv'
  BY <1>1, KindKept, PathKept, RouteKept, TiedKept, ChatKept DEF CallInv
<1> QED BY <1>1, <1>2, <1>3, <1>4 DEF HostInv

\* The invariant holds in every behaviour of the host.
THEOREM HostCorrect == HostSpec => []HostInv
<1>1. HostInit => HostInv
  BY HostInitially
<1>2. HostInv /\ [HostNext]_hostVars => HostInv'
  BY HostInvStep
<1> QED BY <1>1, <1>2, PTL DEF HostSpec

\* The invariant gives the properties the runs check.
LEMMA InvLeavesNothing == HostInv => NothingIsLeft
<1> SUFFICES ASSUME HostInv PROVE NothingIsLeft
  OBVIOUS
<1>0. StateType /\ ProcessInv /\ HolderInv /\ CallInv
  BY DEF HostInv
<1>1. HostTypeOK
  BY <1>0 DEF StateType, HostTypeOK
<1>2. WaiterIsRouted
  <2> SUFFICES ASSUME NEW c \in Calls, calls[c].at = "wait"
               PROVE  LET p == calls[c].proc IN
                      /\ calls[c].got # None \/ (c \in pending[p] /\ ~failed[p])
                      /\ calls[c].kind = "chat" =>
                           \/ calls[c].completed
                           \/ \E i \in 1..Len(calls[c].events) :
                                calls[c].events[i] \in Terminal \cup {"error"}
                           \/ c \in streams[p] /\ ~failed[p]
                           \/ Routing(p) /\ reader[p].id = c /\ reader[p].what \in Terminal
    BY DEF WaiterIsRouted, At, Proc
  <2> DEFINE p == calls[c].proc
  <2>1. calls[c] \in CallType
    BY <1>0 DEF StateType
  <2>2. p \in Processes
    BY <1>0, <2>1 DEF HolderInv, HoldingInv, HoldsProcess, CallType
  <2>3. OwnedInv(p) /\ TiedInv(c) /\ KindInv(c)
    BY <1>0, <2>2 DEF ProcessInv, CallInv
  <2>4. calls[c].events # <<>> =>
          \E i \in 1..Len(calls[c].events) : calls[c].events[i] \in Terminal \cup {"error"}
    <3> SUFFICES ASSUME calls[c].events # <<>>
                 PROVE  \E i \in 1..Len(calls[c].events) : calls[c].events[i] \in Terminal \cup {"error"}
      OBVIOUS
    <3>1. calls[c].events \in Seq(Terminal \cup {"error"})
      BY <2>1 DEF CallType
    <3>2. 1 \in 1..Len(calls[c].events) /\ calls[c].events[1] \in Terminal \cup {"error"}
      BY <3>1
    <3> QED BY <3>2
  <2>5. failed[p] => pending[p] = {} /\ streams[p] = {}
    BY <2>3 DEF OwnedInv
  <2>6. reader[p].at = "routing" => reader[p].what \in Terminal
    BY <2>3 DEF OwnedInv
  <2>7. calls[c].job = "send"
    BY <2>3 DEF KindInv
  <2>8. /\ calls[c].got # None \/ c \in pending[p]
        /\ calls[c].kind = "chat" => \/ calls[c].completed \/ calls[c].events # <<>> \/ c \in streams[p]
                                     \/ reader[p].at = "routing" /\ reader[p].id = c
    BY <2>3, <2>7 DEF TiedInv
  <2> QED BY <2>4, <2>5, <2>6, <2>8 DEF Routing
<1>3. NoStaleRoute
  BY <1>0 DEF CallInv, PathInv, NoStaleRoute, At, StateType
<1>4. ProcessesAreOwned
  <2> SUFFICES ASSUME NEW p \in Processes, child[p] \in {"running", "exited"}
               PROVE  \/ p = current
                      \/ \E c \in Calls : calls[c].proc = p /\ calls[c].at \in {"publish", "kill"}
                      \/ stopping.proc = p /\ stopping.at \in {"notice", "fail", "kill"}
                      \/ reader[p].at = "failing"
    BY DEF ProcessesAreOwned, Proc
  <2>1. OwnedInv(p)
    BY <1>0 DEF ProcessInv
  <2> QED BY <2>1 DEF OwnedInv, Killer, Unpublished
<1>5. DownIsDown
  <2> SUFFICES ASSUME stopping.at = "down", NEW p \in Processes, child[p] = "running"
               PROVE  failed[p] \/ \E c \in Calls : calls[c].proc = p /\ calls[c].at = "publish"
    BY DEF DownIsDown, Alive, At, Proc
  <2>1. OwnedInv(p) /\ current = None
    BY <1>0 DEF ProcessInv, MapInv
  <2> QED BY <2>1, NoneIsNothing DEF OwnedInv, Unpublished
<1> QED BY <1>1, <1>2, <1>3, <1>4, <1>5 DEF NothingIsLeft

\* The invariant gives AbandonedIsCancelled.
LEMMA InvCancels == HostInv => AbandonedIsCancelled
<1> SUFFICES ASSUME HostInv, NEW c \in Calls, calls[c].at = "done", calls[c].kind = "chat",
                    ~calls[c].completed, NEW p \in Processes, c \in accepted[p]
             PROVE  failed[p] \/ c \in told[p] \/ is_shutdown
  BY DEF AbandonedIsCancelled, At
<1>1. ChatInv(c)
  BY DEF HostInv, CallInv
<1> QED BY <1>1 DEF ChatInv

\* A waiter has its answer or a route to it, a call that returned leaves no
\* route, and no process runs without an owner.
THEOREM NothingIsLeftAlways == HostSpec => []NothingIsLeft
BY HostCorrect, InvLeavesNothing, PTL

\* A chat that did not complete has been cancelled at the provider that has it.
THEOREM AbandonedIsCancelledAlways == HostSpec => []AbandonedIsCancelled
BY HostCorrect, InvCancels, PTL

================================================================================
