---------------------------- MODULE ChildTranscript ----------------------------
(***************************************************************************)
(* The bounded transcript of a child agent: core/agents/transcript.rs.  An *)
(* entry is its number, its kind and what its size is made of: the         *)
(* characters of its text, the encoded bytes of each, and the bytes of the *)
(* call or result it carries.                                              *)
(***************************************************************************)
EXTENDS Naturals, SequencesExt

CONSTANTS
  MAX_TRANSCRIPT_BYTES, TRUNCATION_MARKER_BYTES,
  Texts,       \* [chars, width]: a text's length and the encoded bytes of a character
  EntryBytes,  \* what an entry takes besides its text
  NoticeBytes, \* "[... transcript entry truncated ...]"
  MaxPushes   \* bound: entries of one behaviour

VARIABLES
  entries, retained_bytes, truncated,
  pushed       \* history: every entry that was pushed, as it was fitted

transcriptVars == <<entries, retained_bytes, truncated, pushed>>

Entry(kind, text, payload) ==
  [kind |-> kind, chars |-> text.chars, width |-> text.width, notice |-> 0, payload |-> payload]

encoded_len(e) == EntryBytes + e.chars * e.width + e.notice + e.payload
Bytes(es) == FoldSeq(LAMBDA e, n : n + encoded_len(e), 0, es)

\* fit_single_entry bounds the characters of a large entry, whatever their width.
Fitted(e) ==
  IF encoded_len(e) <= MAX_TRANSCRIPT_BYTES \div 2 THEN e
  ELSE [e EXCEPT !.payload = 0, !.notice = NoticeBytes,
                 !.chars = IF @ < MAX_TRANSCRIPT_BYTES \div 4 THEN @ ELSE MAX_TRANSCRIPT_BYTES \div 4]

Overfull(es) == Bytes(es) + TRUNCATION_MARKER_BYTES > MAX_TRANSCRIPT_BYTES

\* trim removes the oldest entry behind the first one; the first when it is alone.
RECURSIVE Trim(_)
Trim(es) ==
  IF ~Overfull(es) \/ es = <<>> THEN es
  ELSE Trim(RemoveAt(es, IF Len(es) > 1 THEN 2 ELSE 1))

Pushed(es, e) ==
  LET kept == Trim(Append(es, Fitted(e))) IN
  /\ entries' = kept
  /\ retained_bytes' = Bytes(kept)
  /\ truncated' = (truncated \/ Len(kept) <= Len(es))
  /\ pushed' = Append(pushed, Fitted(e))

TranscriptInit ==
  /\ entries = <<>> /\ retained_bytes = 0 /\ truncated = FALSE /\ pushed = <<>>

Assignment(text) == pushed = <<>> /\ Pushed(entries, Entry("Assignment", text, 0))

\* A tool call carries its arguments, a result its content once more.
Push(kind, text) ==
  /\ pushed # <<>> /\ Len(pushed) < MaxPushes /\ Last(pushed).kind # "Terminal"
  /\ LET payload == CASE kind = "ToolCall" -> EntryBytes
                      [] kind = "ToolResult" -> text.chars * text.width
                      [] OTHER -> 0 IN
     Pushed(entries, Entry(kind, text, payload))

TranscriptNext ==
  \E text \in Texts :
    \/ Assignment(text)
    \/ \E kind \in {"UserMessage", "Assistant", "ToolCall", "ToolResult", "Terminal"} : Push(kind, text)

----------------------------------------------------------------------------
(* Properties                                                              *)

\* A transcript never outgrows its bound, says that it was truncated exactly when
\* an entry is missing, and is one pinned entry with the newest entries behind it
\* and no gap between them.  The pinned entry is the assignment whenever the
\* assignment fits by itself: fit_single_entry counts characters, so one in wide
\* characters may not.
TranscriptIsBounded ==
  LET n == Len(pushed) - Len(entries)
      Keeps(tail) == \E i \in 1..Len(pushed) : entries = <<pushed[i]>> \o tail /\ i <= n + 1 IN
  /\ retained_bytes = Bytes(entries) /\ ~Overfull(entries)
  /\ truncated <=> n > 0
  /\ entries = <<>> \/ Len(entries) = 1 \/ Keeps(SubSeq(pushed, n + 2, Len(pushed)))
  /\ pushed # <<>> /\ ~Overfull(<<pushed[1]>>) => entries # <<>> /\ entries[1] = pushed[1]
================================================================================
