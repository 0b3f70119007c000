------------------------------ MODULE PromptHistory ------------------------------
(***************************************************************************)
(* tui/history.rs: the file of submitted prompts that several clients      *)
(* share.  A client reads and writes it under an exclusive file lock that  *)
(* the operating system drops when the client dies.                        *)
(*                                                                         *)
(* A line is a prompt or unreadable.  A client that dies while it writes,  *)
(* or whose write fails, leaves a part of a line without its end, and the  *)
(* next line is written right behind it; a part that ends inside a         *)
(* character of several bytes is no text, and nothing is read any more.    *)
(***************************************************************************)
EXTENDS Naturals, Sequences, FiniteSets, SequencesExt

CONSTANTS
  Clients,     \* running clients
  Prompts,     \* texts
  MaxEntries,  \* MAX_HISTORY_ENTRIES of history.rs
  MaxAppends,  \* bound: prompts written
  MaxAccidents,  \* bound: clients that die while they write, and writes that fail
  Unreadable,    \* a line that does not parse
  Undecodable,   \* a part of a line that ends inside a character
  NoLine,        \* the last line has its end
  NoClient       \* the lock is free

ASSUME HistoryAssumption ==
  /\ MaxEntries \in Nat \ {0} /\ MaxAppends \in Nat /\ MaxAccidents \in Nat
  /\ {Unreadable, Undecodable, NoLine} \cap Prompts = {}
  /\ Undecodable # Unreadable /\ NoLine \notin {Unreadable, Undecodable}
  /\ NoClient \notin Clients

VARIABLES
  file,      \* the lines of prompt-history.jsonl that have their end
  unended,      \* what lies behind them without one
  lock,      \* who holds the file lock
  job,       \* the lines the holder still has to write, in order
  log,       \* history: every prompt that was recorded, oldest first
  accidents  \* history: what the clients were writing that did not end it

fileVars == <<file, unended, lock, job, log, accidents>>

\* read_entries skips what does not parse, and takes a line without an end too;
\* it fails for what is no text.
Readable(line) == IF line = Unreadable THEN <<>> ELSE <<line>>
Ended == FlattenSeq([i \in DOMAIN file |-> Readable(file[i])])
Entries == IF unended \in Prompts THEN Append(Ended, unended) ELSE Ended
Decodable == unended # Undecodable
Loaded == IF Decodable THEN Entries ELSE <<>>

\* split_off: the entries that are kept.
Newest(entries, n) == IF Len(entries) <= n THEN entries ELSE SubSeq(entries, Len(entries) - n + 1, Len(entries))
Retained(entries) == Newest(entries, MaxEntries)

HistoryInit ==
  /\ file = <<>> /\ unended = NoLine /\ lock = NoClient /\ job = <<>>
  /\ log = <<>> /\ accidents = <<>>

--------------------------------------------------------------------------------
(* append: lock, read, and write one line or all of them again.  A client  *)
(* that does not get the lock in LOCK_ATTEMPTS tries, or cannot read the   *)
(* file, records nothing.                                                  *)

\* Mutant: the lock is not waited for.
LockFreeAlways == TRUE
LockFree == lock = NoClient

BeginAppend(c, prompt) ==
  /\ LockFree /\ Len(log) < MaxAppends  \* bound
  /\ Decodable
  /\ ~(Entries # <<>> /\ Last(Entries) = prompt)
  /\ lock' = c
  /\ IF Len(Entries) < MaxEntries
     THEN job' = <<prompt>> /\ UNCHANGED <<file, unended>>
     ELSE /\ job' = Retained(Append(Entries, prompt))
          /\ file' = <<>> /\ unended' = NoLine
  /\ UNCHANGED <<log, accidents>>

\* write_entry: behind a line without an end the two are one unreadable line.
Written(line) == Append(file, IF unended = NoLine THEN line ELSE Unreadable)

WriteEntry ==
  /\ job # <<>>
  /\ file' = Written(Head(job))
  /\ unended' = NoLine
  /\ job' = Tail(job)
  /\ log' = IF Len(job) = 1 THEN Append(log, Head(job)) ELSE log
  /\ UNCHANGED <<lock, accidents>>

Unlock ==
  /\ lock # NoClient /\ job = <<>>
  /\ lock' = NoClient
  /\ UNCHANGED <<file, unended, job, log, accidents>>

\* The client dies, or a write fails and append returns the error: before a
\* line, in the middle of one, inside a character, or before its end.
PartsOf(line) == {Unreadable, Undecodable, IF unended = NoLine THEN line ELSE Unreadable}
Accident == IF unended' = Undecodable THEN "character"
            ELSE IF Len(Entries) < MaxEntries /\ Len(job) = 1 THEN "line" ELSE "rewrite"

StopShort ==
  /\ job # <<>> /\ Len(accidents) < MaxAccidents  \* bound
  /\ unended' \in {unended} \cup PartsOf(Head(job))
  /\ accidents' = Append(accidents, Accident)
  /\ lock' = NoClient /\ job' = <<>>
  /\ UNCHANGED <<file, log>>

HistoryFileNext ==
  \/ \E c \in Clients, p \in Prompts : BeginAppend(c, p)
  \/ WriteEntry \/ Unlock \/ StopShort

--------------------------------------------------------------------------------
(* Properties.                                                             *)

\* With no write cut short the file is the newest prompts of all clients, in the
\* order they were recorded, and a client that loads it reads just those.  A
\* new line that is cut short, by the death of its client or by a failed write,
\* costs one later prompt at most.  More is lost only when a rewrite of the
\* whole file is cut short, or a line inside a character: then all of it is.
FileIsNewestPrompts ==
  lock = NoClient =>
    /\ accidents = <<>> => Loaded = Newest(log, MaxEntries)
    /\ (\A i \in DOMAIN accidents : accidents[i] = "line") =>
         Len(Loaded) + Len(accidents) >= Len(Newest(log, MaxEntries))

--------------------------------------------------------------------------------
(* The inductive invariant.  The holder of the lock has a line left to     *)
(* write, or the end of a rewritten file.  A line without an end is one    *)
(* that a later prompt will pay for, and itself with it.                   *)

Shorter(m, n) == IF m <= n THEN m ELSE n
Accidents == {"line", "rewrite", "character"}

HistoryTypes ==
  /\ file \in Seq(Prompts \cup {Unreadable})
  /\ unended \in Prompts \cup {Unreadable, Undecodable, NoLine}
  /\ job \in Seq(Prompts) /\ (job # <<>> => lock # NoClient)
  /\ log \in Seq(Prompts) /\ accidents \in Seq(Accidents)

NothingLost ==
  accidents = <<>> =>
    /\ unended = NoLine
    /\ Ended \o job = Newest(log \o (IF job = <<>> THEN <<>> ELSE <<Last(job)>>), MaxEntries)

Counted == Len(Ended) + Len(accidents) >= Shorter(MaxEntries, Len(log) + (IF unended = NoLine THEN 0 ELSE 1))
Rewriting == unended = NoLine /\ Len(Ended) + Len(job) = MaxEntries

LinesLost ==
  (\A i \in DOMAIN accidents : accidents[i] = "line") =>
    /\ Decodable
    /\ IF job = <<>> THEN Counted ELSE Rewriting \/ (Len(job) = 1 /\ Counted)

HistoryInv == HistoryTypes /\ NothingLost /\ LinesLost
================================================================================
