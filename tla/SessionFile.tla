------------------------------ MODULE SessionFile ------------------------------
(***************************************************************************)
(* core/session.rs: the lines of one append-only session file, what an     *)
(* append leaves behind, and what load_path makes of the lines.            *)
(*                                                                         *)
(* A history entry is its role and the sequence of the messages its text   *)
(* stands for: one message, or all those a summary was made from.  A file  *)
(* is its record lines and whether the last one lacks its newline.  The    *)
(* header is left out: it is written with the file and never again.        *)
(***************************************************************************)
EXTENDS Naturals, Sequences, FiniteSets, SequencesExt

Entry(role, message) == [role |-> role, says |-> <<message>>]

\* Everything a history tells the model, message by message.
Said(entries) == FlattenSeq([i \in DOMAIN entries |-> entries[i].says])

EntryLine(entry)          == [kind |-> "entry", entry |-> entry]
TodosLine(todos)          == [kind |-> "todos", todos |-> todos]
CheckpointLine(sum, kept) == [kind |-> "checkpoint", summary |-> sum, first_kept |-> kept]
\* Lines that are no record: serde_json refuses the first and skips it; the
\* second ends within a character, so BufRead::lines reads nothing after it.
Garbage == [kind |-> "garbage"]
Cut     == [kind |-> "cut"]

NewFile == [lines |-> <<>>, unended |-> FALSE]

\* A line that follows an unended one is written behind it, on the same line:
\* neither can be parsed.
Glued(line) == IF line.kind = "cut" THEN Cut ELSE Garbage

AppendLine(file, line) ==
  [lines |-> IF file.unended THEN Append(Front(file.lines), Glued(Last(file.lines)))
                             ELSE Append(file.lines, line),
   unended |-> FALSE]

\* What a write that fails or a crash may leave: a part of the line, or all of
\* it without its newline.
TornAppend(file, line) ==
  {[lines |-> IF file.unended THEN Append(Front(file.lines), Glued(Last(file.lines)))
                              ELSE Append(file.lines, torn),
    unended |-> TRUE] : torn \in {Garbage, Cut, line}}

\* Where the lines of a kind stand, and the last of them.
Places(lines, kind) == {i \in DOMAIN lines : lines[i].kind = kind}
LastPlace(lines, kind) == IF Places(lines, kind) = {} THEN 0 ELSE Max(Places(lines, kind))

\* The lines load_path gets to see, and the entries among them.
Readable(file) ==
  LET cuts == Places(file.lines, "cut")
  IN  IF cuts = {} THEN file.lines ELSE SubSeq(file.lines, 1, Min(cuts) - 1)
EntriesOf(lines) ==
  FlattenSeq([i \in DOMAIN lines |-> IF lines[i].kind = "entry" THEN <<lines[i].entry>> ELSE <<>>])

\* projected_history: a checkpoint replaces what was said before first_kept.
Projected(history, checkpoint) ==
  <<checkpoint.summary>> \o SubSeq(history, checkpoint.first_kept + 1, Len(history))

LoadedHistory(file) == EntriesOf(Readable(file))

LoadedActive(file) ==
  LET lines == Readable(file)
      last == LastPlace(lines, "checkpoint")
  IN  IF last = 0 THEN EntriesOf(lines)
      ELSE Projected(EntriesOf(SubSeq(lines, 1, last)), lines[last])
           \o EntriesOf(SubSeq(lines, last + 1, Len(lines)))

LoadedTodos(file) ==
  LET lines == Readable(file)
      last == LastPlace(lines, "todos")
  IN  IF last = 0 THEN 0 ELSE lines[last].todos
================================================================================
