----------------------------- MODULE Questions_proofs -----------------------------
(***************************************************************************)
(* Theorems about Questions for every number of sources, callers and       *)
(* questions and every limit of dismissals.                                *)
(***************************************************************************)
EXTENDS Questions, FiniteSetTheorems, TLAPS

\* The tools that were admitted and have not registered are finitely many.
LEMMA AdmittedIsFinite == /\ IsFiniteSet(Admitted) /\ Cardinality(Admitted) \in Nat
                          /\ IsFiniteSet(Admitted') /\ Cardinality(Admitted') \in Nat
<1>1. Admitted \in SUBSET Sources /\ Admitted' \in SUBSET Sources
  BY DEF Admitted
<1>2. IsFiniteSet(Sources)
  BY QuestionAssumption DEF Sources
<1> QED BY <1>1, <1>2, FS_Subset, FS_CardinalityType

\* An admitted tool finds an id that was not given out.
LEMMA IdIsLeft == ASSUME TypeOK, RoomInv, NEW s \in Sources, tool[s].at = "admitted"
                  PROVE  next_id \in Ids
<1>1. Admitted # {}
  BY DEF Admitted
<1>2. Cardinality(Admitted) # 0
  BY <1>1, AdmittedIsFinite, FS_EmptySet
<1> QED BY <1>2, AdmittedIsFinite, QuestionAssumption DEF TypeOK, RoomInv, Ids

--------------------------------------------------------------------------------
(* One lemma per conjunct of the invariant, one step per action.           *)

LEMMA TypeStep == QuestionInv /\ [Next]_vars => TypeOK'
<1> SUFFICES ASSUME QuestionInv, [Next]_vars PROVE TypeOK'
  OBVIOUS
<1> USE QuestionAssumption DEF QuestionInv, TypeOK, Verdicts, Sources, registry, ending, client
<1>1. ASSUME NEW s \in Sources, Admit(s) PROVE TypeOK'
  BY <1>1 DEF Admit
<1>2. ASSUME NEW s \in Sources, RefuseAsk(s) PROVE TypeOK'
  BY <1>2 DEF RefuseAsk
<1>3. ASSUME NEW s \in Sources, Ask(s) PROVE TypeOK'
  <2>1. next_id \in Ids
    BY <1>3, IdIsLeft DEF Ask
  <2> QED BY <1>3, <2>1 DEF Ask, TooOften, Ids
<1>4. ASSUME NEW s \in Sources, AnnounceAsk(s) PROVE TypeOK'
  BY <1>4 DEF AnnounceAsk, Emit
<1>5. ASSUME NEW s \in Sources, Suspend(s) PROVE TypeOK'
  BY <1>5 DEF Suspend, FlagSeen
<1>6. ASSUME NEW s \in Sources, TakeResponse(s) PROVE TypeOK'
  <2>1. tool[s].id \in Ids
    BY <1>6 DEF TakeResponse, HeldInv, Waits
  <2> QED BY <1>6, <2>1 DEF TakeResponse, Return, IdleTool
<1>7. ASSUME NEW s \in Sources, CancelSeen(s) PROVE TypeOK'
  BY <1>7 DEF CancelSeen, FlagSeen, LostClaim
<1>8. ASSUME NEW s \in Sources, AnnounceCancel(s) PROVE TypeOK'
  BY <1>8 DEF AnnounceCancel, Return, IdleTool, Emit
<1>9. ASSUME NEW s \in Sources, Abort(s) PROVE TypeOK'
  BY <1>9 DEF Abort
<1>10. ASSUME NEW s \in Sources, Cancel(s) PROVE TypeOK'
  BY <1>10 DEF Cancel
<1>11. ASSUME NEW c \in Callers, RejectCall(c) PROVE TypeOK'
  BY <1>11 DEF RejectCall, IdleCall
<1>12. ASSUME NEW c \in Callers, Claim(c) PROVE TypeOK'
  <2>1. call[c].id \in pending /\ asker[call[c].id] \in Sources
    BY <1>12 DEF Claim, PendingInv
  <2>2. dismisses[asker[call[c].id]] \in 0..MaxDismisses - 1
    BY <1>12 DEF Claim, PendingInv
  <2> QED BY <1>12, <2>1, <2>2, SMTT(40) DEF Claim, Remaining
<1>13. ASSUME NEW c \in Callers, AnnounceClaim(c) PROVE TypeOK'
  BY <1>13 DEF AnnounceClaim, Emit
<1>14. ASSUME NEW c \in Callers, Send(c) PROVE TypeOK'
  BY <1>14 DEF Send, IdleCall
<1>15. ASSUME NEW c \in Callers, NEW i \in Ids, NEW v \in {"answered", "dismissed"}, Call(c, i, v) PROVE TypeOK'
  BY <1>15 DEF Call
<1>16. CASE Pump
  BY <1>16 DEF Pump
<1>17. CASE CloseAdmission
  BY <1>17 DEF CloseAdmission
<1>18. CASE TakeAll
  BY <1>18 DEF TakeAll, Drained
<1>19. CASE SendDrained
  BY <1>19 DEF SendDrained
<1>20. CASE DrainEnds
  BY <1>20 DEF DrainEnds
<1>21. CASE Joined
  BY <1>21 DEF Joined
<1>22. ASSUME NEW i \in Ids, AnnounceDrained(i) PROVE TypeOK'
  BY <1>22 DEF AnnounceDrained, Emit
<1>23. CASE UNCHANGED vars
  BY <1>23 DEF vars
<1> HIDE DEF QuestionInv, TypeOK, Verdicts, Sources, registry, ending, client
<1> QED BY <1>1, <1>2, <1>3, <1>4, <1>5, <1>6, <1>7, <1>8, <1>9, <1>10, <1>11, <1>12, <1>13, <1>14,
    <1>15, <1>16, <1>17, <1>18, <1>19, <1>20, <1>21, <1>22, <1>23
         DEF Next, ToolStep, CallStep, ShutdownStep

LEMMA HeldStep == QuestionInv /\ [Next]_vars => HeldInv'
<1> SUFFICES ASSUME QuestionInv, [Next]_vars PROVE HeldInv'
  OBVIOUS
<1> USE QuestionAssumption DEF QuestionInv, TypeOK, HeldInv, Waits, registry, ending, client
<1>1. ASSUME NEW s \in Sources, Admit(s) PROVE HeldInv'
  BY <1>1 DEF Admit, Ids
<1>2. ASSUME NEW s \in Sources, RefuseAsk(s) PROVE HeldInv'
  BY <1>2 DEF RefuseAsk
<1>3. ASSUME NEW s \in Sources, Ask(s) PROVE HeldInv'
  <2>1. next_id \in Ids
    BY <1>3, IdIsLeft DEF Ask
  <2> QED BY <1>3, <2>1 DEF Ask, TooOften, Ids
<1>4. ASSUME NEW s \in Sources, AnnounceAsk(s) PROVE HeldInv'
  BY <1>4 DEF AnnounceAsk, Emit
<1>5. ASSUME NEW s \in Sources, Suspend(s) PROVE HeldInv'
  BY <1>5 DEF Suspend, FlagSeen
<1>6. ASSUME NEW s \in Sources, TakeResponse(s) PROVE HeldInv'
  BY <1>6 DEF TakeResponse, Return, IdleTool
<1>7. ASSUME NEW s \in Sources, CancelSeen(s) PROVE HeldInv'
  BY <1>7 DEF CancelSeen, FlagSeen, LostClaim
<1>8. ASSUME NEW s \in Sources, AnnounceCancel(s) PROVE HeldInv'
  BY <1>8 DEF AnnounceCancel, Return, IdleTool, Emit
<1>9. ASSUME NEW s \in Sources, Abort(s) PROVE HeldInv'
  BY <1>9 DEF Abort
<1>10. ASSUME NEW s \in Sources, Cancel(s) PROVE HeldInv'
  BY <1>10 DEF Cancel
<1>11. ASSUME NEW c \in Callers, RejectCall(c) PROVE HeldInv'
  BY <1>11 DEF RejectCall, IdleCall
<1>12. ASSUME NEW c \in Callers, Claim(c) PROVE HeldInv'
  BY <1>12 DEF Claim, Remaining
<1>13. ASSUME NEW c \in Callers, AnnounceClaim(c) PROVE HeldInv'
  BY <1>13 DEF AnnounceClaim, Emit
<1>14. ASSUME NEW c \in Callers, Send(c) PROVE HeldInv'
  BY <1>14 DEF Send, IdleCall
<1>15. ASSUME NEW c \in Callers, NEW i \in Ids, NEW v \in {"answered", "dismissed"}, Call(c, i, v) PROVE HeldInv'
  BY <1>15 DEF Call, OwnerInv
<1>16. CASE Pump
  BY <1>16 DEF Pump
<1>17. CASE CloseAdmission
  BY <1>17 DEF CloseAdmission
<1>18. CASE TakeAll
  BY <1>18 DEF TakeAll, Drained
<1>19. CASE SendDrained
  BY <1>19 DEF SendDrained
<1>20. CASE DrainEnds
  BY <1>20 DEF DrainEnds
<1>21. CASE Joined
  BY <1>21 DEF Joined
<1>22. ASSUME NEW i \in Ids, AnnounceDrained(i) PROVE HeldInv'
  BY <1>22 DEF AnnounceDrained, Emit
<1>23. CASE UNCHANGED vars
  BY <1>23 DEF vars
<1> HIDE DEF QuestionInv, TypeOK, HeldInv, Waits, registry, ending, client
<1> QED BY <1>1, <1>2, <1>3, <1>4, <1>5, <1>6, <1>7, <1>8, <1>9, <1>10, <1>11, <1>12, <1>13, <1>14,
    <1>15, <1>16, <1>17, <1>18, <1>19, <1>20, <1>21, <1>22, <1>23
         DEF Next, ToolStep, CallStep, ShutdownStep

LEMMA RoomStep == QuestionInv /\ [Next]_vars => RoomInv'
<1> SUFFICES ASSUME QuestionInv, [Next]_vars PROVE RoomInv'
  OBVIOUS
<1> USE QuestionAssumption DEF QuestionInv, TypeOK, registry, ending, client
<1>1. ASSUME NEW s \in Sources, Admit(s) PROVE RoomInv'
  <2>1. Admitted' = Admitted \cup {s} /\ s \notin Admitted
    BY <1>1 DEF Admit, Admitted
  <2>2. Cardinality(Admitted') = Cardinality(Admitted) + 1
    BY <2>1, AdmittedIsFinite, FS_AddElement
  <2> QED BY <1>1, <2>2, AdmittedIsFinite DEF Admit, RoomInv, Ids
<1>2. ASSUME NEW s \in Sources, RefuseAsk(s) PROVE RoomInv'
  <2>1. Admitted' = Admitted \ {s} /\ s \in Admitted
    BY <1>2 DEF RefuseAsk, Admitted
  <2>2. Cardinality(Admitted') = Cardinality(Admitted) - 1
    BY <2>1, AdmittedIsFinite, FS_RemoveElement
  <2> QED BY <1>2, <2>2, AdmittedIsFinite DEF RefuseAsk, RoomInv
<1>3. ASSUME NEW s \in Sources, Ask(s) PROVE RoomInv'
  <2>1. Admitted' = Admitted \ {s} /\ s \in Admitted
    BY <1>3 DEF Ask, Admitted
  <2>2. Cardinality(Admitted') = Cardinality(Admitted) - 1
    BY <2>1, AdmittedIsFinite, FS_RemoveElement
  <2> QED BY <1>3, <2>2, AdmittedIsFinite DEF Ask, RoomInv
<1>4. ASSUME NEW s \in Sources, AnnounceAsk(s) PROVE RoomInv'
  <2>1. Admitted' = Admitted
    BY <1>4 DEF AnnounceAsk, Emit, Admitted
  <2> QED BY <1>4, <2>1 DEF AnnounceAsk, Emit, RoomInv
<1>5. ASSUME NEW s \in Sources, Suspend(s) PROVE RoomInv'
  <2>1. Admitted' = Admitted
    BY <1>5 DEF Suspend, FlagSeen, Admitted
  <2> QED BY <1>5, <2>1 DEF Suspend, FlagSeen, RoomInv
<1>6. ASSUME NEW s \in Sources, TakeResponse(s) PROVE RoomInv'
  <2>1. Admitted' = Admitted
    BY <1>6 DEF TakeResponse, Return, IdleTool, Admitted
  <2> QED BY <1>6, <2>1 DEF TakeResponse, Return, IdleTool, RoomInv
<1>7. ASSUME NEW s \in Sources, CancelSeen(s) PROVE RoomInv'
  <2>1. Admitted' = Admitted
    BY <1>7 DEF CancelSeen, FlagSeen, LostClaim, Admitted
  <2> QED BY <1>7, <2>1 DEF CancelSeen, FlagSeen, LostClaim, RoomInv
<1>8. ASSUME NEW s \in Sources, AnnounceCancel(s) PROVE RoomInv'
  <2>1. Admitted' = Admitted
    BY <1>8 DEF AnnounceCancel, Return, IdleTool, Emit, Admitted
  <2> QED BY <1>8, <2>1 DEF AnnounceCancel, Return, IdleTool, Emit, RoomInv
<1>9. ASSUME NEW s \in Sources, Abort(s) PROVE RoomInv'
  <2>1. Admitted' = Admitted
    BY <1>9 DEF Abort, Admitted
  <2> QED BY <1>9, <2>1 DEF Abort, RoomInv
<1>10. ASSUME NEW s \in Sources, Cancel(s) PROVE RoomInv'
  <2>1. Admitted' = Admitted
    BY <1>10 DEF Cancel, Admitted
  <2> QED BY <1>10, <2>1 DEF Cancel, RoomInv
<1>11. ASSUME NEW c \in Callers, RejectCall(c) PROVE RoomInv'
  <2>1. Admitted' = Admitted
    BY <1>11 DEF RejectCall, IdleCall, Admitted
  <2> QED BY <1>11, <2>1 DEF RejectCall, IdleCall, RoomInv
<1>12. ASSUME NEW c \in Callers, Claim(c) PROVE RoomInv'
  <2>1. Admitted' = Admitted
    BY <1>12 DEF Claim, Remaining, Admitted
  <2> QED BY <1>12, <2>1 DEF Claim, Remaining, RoomInv
<1>13. ASSUME NEW c \in Callers, AnnounceClaim(c) PROVE RoomInv'
  <2>1. Admitted' = Admitted
    BY <1>13 DEF AnnounceClaim, Emit, Admitted
  <2> QED BY <1>13, <2>1 DEF AnnounceClaim, Emit, RoomInv
<1>14. ASSUME NEW c \in Callers, Send(c) PROVE RoomInv'
  <2>1. Admitted' = Admitted
    BY <1>14 DEF Send, IdleCall, Admitted
  <2> QED BY <1>14, <2>1 DEF Send, IdleCall, RoomInv
<1>15. ASSUME NEW c \in Callers, NEW i \in Ids, NEW v \in {"answered", "dismissed"}, Call(c, i, v) PROVE RoomInv'
  <2>1. Admitted' = Admitted
    BY <1>15 DEF Call, Admitted
  <2> QED BY <1>15, <2>1 DEF Call, RoomInv
<1>16. CASE Pump
  <2>1. Admitted' = Admitted
    BY <1>16 DEF Pump, Admitted
  <2> QED BY <1>16, <2>1 DEF Pump, RoomInv
<1>17. CASE CloseAdmission
  <2>1. Admitted' = Admitted
    BY <1>17 DEF CloseAdmission, Admitted
  <2> QED BY <1>17, <2>1 DEF CloseAdmission, RoomInv
<1>18. CASE TakeAll
  <2>1. Admitted' = Admitted
    BY <1>18 DEF TakeAll, Drained, Admitted
  <2> QED BY <1>18, <2>1 DEF TakeAll, Drained, RoomInv
<1>19. CASE SendDrained
  <2>1. Admitted' = Admitted
    BY <1>19 DEF SendDrained, Admitted
  <2> QED BY <1>19, <2>1 DEF SendDrained, RoomInv
<1>20. CASE DrainEnds
  <2>1. Admitted' = Admitted
    BY <1>20 DEF DrainEnds, Admitted
  <2> QED BY <1>20, <2>1 DEF DrainEnds, RoomInv
<1>21. CASE Joined
  <2>1. Admitted' = Admitted
    BY <1>21 DEF Joined, Admitted
  <2> QED BY <1>21, <2>1 DEF Joined, RoomInv
<1>22. ASSUME NEW i \in Ids, AnnounceDrained(i) PROVE RoomInv'
  <2>1. Admitted' = Admitted
    BY <1>22 DEF AnnounceDrained, Emit, Admitted
  <2> QED BY <1>22, <2>1 DEF AnnounceDrained, Emit, RoomInv
<1>23. CASE UNCHANGED vars
  <2>1. Admitted' = Admitted
    BY <1>23 DEF vars, Admitted
  <2> QED BY <1>23, <2>1 DEF vars, RoomInv
<1> HIDE DEF QuestionInv, TypeOK, registry, ending, client
<1> QED BY <1>1, <1>2, <1>3, <1>4, <1>5, <1>6, <1>7, <1>8, <1>9, <1>10, <1>11, <1>12, <1>13, <1>14,
    <1>15, <1>16, <1>17, <1>18, <1>19, <1>20, <1>21, <1>22, <1>23
         DEF Next, ToolStep, CallStep, ShutdownStep

LEMMA PendingStep == QuestionInv /\ [Next]_vars => PendingInv'
<1> SUFFICES ASSUME QuestionInv, [Next]_vars PROVE PendingInv'
  OBVIOUS
<1> USE QuestionAssumption DEF QuestionInv, TypeOK, HeldInv, PendingInv, OwnerInv, Waits, Resolving, registry, ending, client
<1>1. ASSUME NEW s \in Sources, Admit(s) PROVE PendingInv'
  BY <1>1 DEF Admit, Admitted
<1>2. ASSUME NEW s \in Sources, RefuseAsk(s) PROVE PendingInv'
  BY <1>2 DEF RefuseAsk
<1>3. ASSUME NEW s \in Sources, Ask(s) PROVE PendingInv'
  <2>1. next_id \in Ids /\ \A i \in pending : asker[i] # s
    BY <1>3, IdIsLeft DEF Ask
  <2>2. dismisses[s] < MaxDismisses
    BY <1>3 DEF Ask, TooOften
  <2>3. \A i \in pending : i # next_id
    BY DEF Ids
  <2> QED BY <1>3, <2>1, <2>2, <2>3 DEF Ask, TooOften
<1>4. ASSUME NEW s \in Sources, AnnounceAsk(s) PROVE PendingInv'
  BY <1>4 DEF AnnounceAsk, Emit
<1>5. ASSUME NEW s \in Sources, Suspend(s) PROVE PendingInv'
  BY <1>5 DEF Suspend, FlagSeen
<1>6. ASSUME NEW s \in Sources, TakeResponse(s) PROVE PendingInv'
  BY <1>6 DEF TakeResponse, Return, IdleTool
<1>7. ASSUME NEW s \in Sources, CancelSeen(s) PROVE PendingInv'
  BY <1>7 DEF CancelSeen, FlagSeen, LostClaim
<1>8. ASSUME NEW s \in Sources, AnnounceCancel(s) PROVE PendingInv'
  BY <1>8 DEF AnnounceCancel, Return, IdleTool, Emit
<1>9. ASSUME NEW s \in Sources, Abort(s) PROVE PendingInv'
  BY <1>9 DEF Abort
<1>10. ASSUME NEW s \in Sources, Cancel(s) PROVE PendingInv'
  BY <1>10 DEF Cancel
<1>11. ASSUME NEW c \in Callers, RejectCall(c) PROVE PendingInv'
  BY <1>11 DEF RejectCall, IdleCall
<1>12. ASSUME NEW c \in Callers, Claim(c) PROVE PendingInv'
  BY <1>12 DEF Claim, Remaining
<1>13. ASSUME NEW c \in Callers, AnnounceClaim(c) PROVE PendingInv'
  BY <1>13 DEF AnnounceClaim, Emit
<1>14. ASSUME NEW c \in Callers, Send(c) PROVE PendingInv'
  BY <1>14 DEF Send, IdleCall
<1>15. ASSUME NEW c \in Callers, NEW i \in Ids, NEW v \in {"answered", "dismissed"}, Call(c, i, v) PROVE PendingInv'
  BY <1>15 DEF Call
<1>16. CASE Pump
  BY <1>16 DEF Pump
<1>17. CASE CloseAdmission
  BY <1>17 DEF CloseAdmission
<1>18. CASE TakeAll
  BY <1>18 DEF TakeAll, Drained
<1>19. CASE SendDrained
  BY <1>19 DEF SendDrained
<1>20. CASE DrainEnds
  BY <1>20 DEF DrainEnds
<1>21. CASE Joined
  BY <1>21 DEF Joined
<1>22. ASSUME NEW i \in Ids, AnnounceDrained(i) PROVE PendingInv'
  BY <1>22 DEF AnnounceDrained, Emit
<1>23. CASE UNCHANGED vars
  BY <1>23 DEF vars
<1> HIDE DEF QuestionInv, TypeOK, HeldInv, PendingInv, OwnerInv, Waits, Resolving, registry, ending, client
<1> QED BY <1>1, <1>2, <1>3, <1>4, <1>5, <1>6, <1>7, <1>8, <1>9, <1>10, <1>11, <1>12, <1>13, <1>14,
    <1>15, <1>16, <1>17, <1>18, <1>19, <1>20, <1>21, <1>22, <1>23
         DEF Next, ToolStep, CallStep, ShutdownStep

LEMMA OwnerStep == QuestionInv /\ [Next]_vars => OwnerInv'
<1> SUFFICES ASSUME QuestionInv, [Next]_vars PROVE OwnerInv'
  OBVIOUS
<1> USE QuestionAssumption DEF QuestionInv, TypeOK, HeldInv, OwnerInv, Waits, Resolving, registry, ending, client
<1>1. ASSUME NEW s \in Sources, Admit(s) PROVE OwnerInv'
  BY <1>1 DEF Admit, Admitted
<1>2. ASSUME NEW s \in Sources, RefuseAsk(s) PROVE OwnerInv'
  BY <1>2 DEF RefuseAsk
<1>3. ASSUME NEW s \in Sources, Ask(s) PROVE OwnerInv'
  <2>1. next_id \in Ids /\ channel[next_id] = "open" /\ accepted[next_id] = "none"
    BY <1>3, IdIsLeft DEF Ask, ResultInv
  <2>2. next_id \notin pending \cup drained
    BY DEF Ids
  <2> QED BY <1>3, <2>1, <2>2 DEF Ask, TooOften, Ids
<1>4. ASSUME NEW s \in Sources, AnnounceAsk(s) PROVE OwnerInv'
  BY <1>4 DEF AnnounceAsk, Emit
<1>5. ASSUME NEW s \in Sources, Suspend(s) PROVE OwnerInv'
  BY <1>5 DEF Suspend, FlagSeen
<1>6. ASSUME NEW s \in Sources, TakeResponse(s) PROVE OwnerInv'
  BY <1>6 DEF TakeResponse, Return, IdleTool
<1>7. ASSUME NEW s \in Sources, CancelSeen(s) PROVE OwnerInv'
  BY <1>7 DEF CancelSeen, FlagSeen, LostClaim
<1>8. ASSUME NEW s \in Sources, AnnounceCancel(s) PROVE OwnerInv'
  <2>1. tool[s].id \in Ids /\ tool[s].id \notin pending \cup drained
    BY <1>8 DEF AnnounceCancel
  <2>2. \A c \in Callers : Resolving(c) => call[c].id # tool[s].id
    BY <1>8 DEF AnnounceCancel
  <2>3. \A t \in Sources : tool[t].at = "emit" /\ t # s => tool[t].id # tool[s].id
    BY <1>8 DEF AnnounceCancel
  <2> QED BY <1>8, <2>1, <2>2, <2>3 DEF AnnounceCancel, Return, IdleTool, Emit
<1>9. ASSUME NEW s \in Sources, Abort(s) PROVE OwnerInv'
  BY <1>9 DEF Abort
<1>10. ASSUME NEW s \in Sources, Cancel(s) PROVE OwnerInv'
  BY <1>10 DEF Cancel
<1>11. ASSUME NEW c \in Callers, RejectCall(c) PROVE OwnerInv'
  BY <1>11 DEF RejectCall, IdleCall
<1>12. ASSUME NEW c \in Callers, Claim(c) PROVE OwnerInv'
  BY <1>12 DEF Claim, Remaining
<1>13. ASSUME NEW c \in Callers, AnnounceClaim(c) PROVE OwnerInv'
  BY <1>13 DEF AnnounceClaim, Emit
<1>14. ASSUME NEW c \in Callers, Send(c) PROVE OwnerInv'
  <2>1. call[c].id \in Ids /\ call[c].id \notin pending \cup drained
    BY <1>14 DEF Send
  <2>2. \A d \in Callers : Resolving(d) /\ d # c => call[d].id # call[c].id
    BY <1>14 DEF Send
  <2>3. \A t \in Sources : tool[t].at = "emit" => tool[t].id # call[c].id
    BY <1>14 DEF Send
  <2> QED BY <1>14, <2>1, <2>2, <2>3 DEF Send, IdleCall
<1>15. ASSUME NEW c \in Callers, NEW i \in Ids, NEW v \in {"answered", "dismissed"}, Call(c, i, v) PROVE OwnerInv'
  BY <1>15 DEF Call
<1>16. CASE Pump
  BY <1>16 DEF Pump
<1>17. CASE CloseAdmission
  BY <1>17 DEF CloseAdmission
<1>18. CASE TakeAll
  BY <1>18 DEF TakeAll, Drained, ShutdownInv
<1>19. CASE SendDrained
  BY <1>19 DEF SendDrained, ShutdownInv
<1>20. CASE DrainEnds
  BY <1>20 DEF DrainEnds
<1>21. CASE Joined
  BY <1>21 DEF Joined
<1>22. ASSUME NEW i \in Ids, AnnounceDrained(i) PROVE OwnerInv'
  BY <1>22 DEF AnnounceDrained, Emit
<1>23. CASE UNCHANGED vars
  BY <1>23 DEF vars
<1> HIDE DEF QuestionInv, TypeOK, HeldInv, OwnerInv, Waits, Resolving, registry, ending, client
<1> QED BY <1>1, <1>2, <1>3, <1>4, <1>5, <1>6, <1>7, <1>8, <1>9, <1>10, <1>11, <1>12, <1>13, <1>14,
    <1>15, <1>16, <1>17, <1>18, <1>19, <1>20, <1>21, <1>22, <1>23
         DEF Next, ToolStep, CallStep, ShutdownStep

LEMMA PlaceStep == QuestionInv /\ [Next]_vars => PlaceInv'
<1> SUFFICES ASSUME QuestionInv, [Next]_vars PROVE PlaceInv'
  OBVIOUS
<1> USE QuestionAssumption DEF QuestionInv, TypeOK, registry, ending, client
<1>1. ASSUME NEW s \in Sources, Admit(s) PROVE PlaceInv'
  <2>1. \A d \in Callers, j \in Ids : InHand(d, j) => InHand(d, j)'
    BY <1>1 DEF Admit, Admitted, InHand, Resolving
  <2>2. \A t \in Sources, j \in Ids : InTool(t, j) => InTool(t, j)'
    BY <1>1 DEF Admit, Admitted, InTool
  <2> QED BY <1>1, <2>1, <2>2 DEF Admit, Admitted, PlaceInv
<1>2. ASSUME NEW s \in Sources, RefuseAsk(s) PROVE PlaceInv'
  <2>1. \A d \in Callers, j \in Ids : InHand(d, j) => InHand(d, j)'
    BY <1>2 DEF RefuseAsk, InHand, Resolving
  <2>2. \A t \in Sources, j \in Ids : InTool(t, j) => InTool(t, j)'
    BY <1>2 DEF RefuseAsk, InTool
  <2> QED BY <1>2, <2>1, <2>2 DEF RefuseAsk, PlaceInv
<1>3. ASSUME NEW s \in Sources, Ask(s) PROVE PlaceInv'
  <2>1. \A d \in Callers, j \in Ids : InHand(d, j) => InHand(d, j)'
    BY <1>3 DEF Ask, TooOften, InHand, Resolving
  <2>2. \A t \in Sources, j \in Ids : InTool(t, j) => InTool(t, j)'
    BY <1>3 DEF Ask, TooOften, InTool
  <2>3. next_id \in pending' /\ \A j \in Ids : j < next_id' => j < next_id \/ j = next_id
    BY <1>3 DEF Ask, TooOften, Ids
  <2> QED BY <1>3, <2>1, <2>2, <2>3 DEF Ask, TooOften, PlaceInv
<1>4. ASSUME NEW s \in Sources, AnnounceAsk(s) PROVE PlaceInv'
  <2>1. \A d \in Callers, j \in Ids : InHand(d, j) => InHand(d, j)'
    BY <1>4 DEF AnnounceAsk, Emit, InHand, Resolving
  <2>2. \A t \in Sources, j \in Ids : InTool(t, j) => InTool(t, j)'
    BY <1>4 DEF AnnounceAsk, Emit, InTool
  <2> QED BY <1>4, <2>1, <2>2 DEF AnnounceAsk, Emit, PlaceInv
<1>5. ASSUME NEW s \in Sources, Suspend(s) PROVE PlaceInv'
  <2>1. \A d \in Callers, j \in Ids : InHand(d, j) => InHand(d, j)'
    BY <1>5 DEF Suspend, FlagSeen, InHand, Resolving
  <2>2. \A t \in Sources, j \in Ids : InTool(t, j) => InTool(t, j)'
    BY <1>5 DEF Suspend, FlagSeen, InTool
  <2> QED BY <1>5, <2>1, <2>2 DEF Suspend, FlagSeen, PlaceInv
<1>6. ASSUME NEW s \in Sources, TakeResponse(s) PROVE PlaceInv'
  <2>1. \A d \in Callers, j \in Ids : InHand(d, j) => InHand(d, j)'
    BY <1>6 DEF TakeResponse, Return, IdleTool, InHand, Resolving
  <2>2. \A t \in Sources, j \in Ids : InTool(t, j) => InTool(t, j)'
    BY <1>6 DEF TakeResponse, Return, IdleTool, InTool
  <2> QED BY <1>6, <2>1, <2>2 DEF TakeResponse, Return, IdleTool, PlaceInv
<1>7. ASSUME NEW s \in Sources, CancelSeen(s) PROVE PlaceInv'
  <2>1. \A d \in Callers, j \in Ids : InHand(d, j) => InHand(d, j)'
    BY <1>7 DEF CancelSeen, FlagSeen, LostClaim, InHand, Resolving
  <2>2. \A t \in Sources, j \in Ids : InTool(t, j) => InTool(t, j)'
    BY <1>7 DEF CancelSeen, FlagSeen, LostClaim, InTool
  <2>3. tool[s].id \in pending => InTool(s, tool[s].id)'
    BY <1>7 DEF CancelSeen, FlagSeen, LostClaim, InTool
  <2> QED BY <1>7, <2>1, <2>2, <2>3 DEF CancelSeen, FlagSeen, LostClaim, PlaceInv
<1>8. ASSUME NEW s \in Sources, AnnounceCancel(s) PROVE PlaceInv'
  <2>1. \A d \in Callers, j \in Ids : InHand(d, j) => InHand(d, j)'
    BY <1>8 DEF AnnounceCancel, Return, IdleTool, Emit, InHand, Resolving
  <2>2. \A t \in Sources, j \in Ids : InTool(t, j) /\ j # tool[s].id => InTool(t, j)'
    BY <1>8 DEF AnnounceCancel, Return, IdleTool, Emit, InTool
  <2>3. tool[s].id \in Ids
    BY <1>8 DEF AnnounceCancel, HeldInv
  <2> QED BY <1>8, <2>1, <2>2, <2>3 DEF AnnounceCancel, Return, IdleTool, Emit, PlaceInv
<1>9. ASSUME NEW s \in Sources, Abort(s) PROVE PlaceInv'
  <2>1. \A d \in Callers, j \in Ids : InHand(d, j) => InHand(d, j)'
    BY <1>9 DEF Abort, InHand, Resolving
  <2>2. \A t \in Sources, j \in Ids : InTool(t, j) => InTool(t, j)'
    BY <1>9 DEF Abort, InTool
  <2> QED BY <1>9, <2>1, <2>2 DEF Abort, PlaceInv
<1>10. ASSUME NEW s \in Sources, Cancel(s) PROVE PlaceInv'
  <2>1. \A d \in Callers, j \in Ids : InHand(d, j) => InHand(d, j)'
    BY <1>10 DEF Cancel, InHand, Resolving
  <2>2. \A t \in Sources, j \in Ids : InTool(t, j) => InTool(t, j)'
    BY <1>10 DEF Cancel, InTool
  <2> QED BY <1>10, <2>1, <2>2 DEF Cancel, PlaceInv
<1>11. ASSUME NEW c \in Callers, RejectCall(c) PROVE PlaceInv'
  <2>1. \A d \in Callers, j \in Ids : InHand(d, j) => InHand(d, j)'
    BY <1>11 DEF RejectCall, IdleCall, InHand, Resolving
  <2>2. \A t \in Sources, j \in Ids : InTool(t, j) => InTool(t, j)'
    BY <1>11 DEF RejectCall, IdleCall, InTool
  <2> QED BY <1>11, <2>1, <2>2 DEF RejectCall, IdleCall, PlaceInv
<1>12. ASSUME NEW c \in Callers, Claim(c) PROVE PlaceInv'
  <2>1. \A d \in Callers, j \in Ids : InHand(d, j) => InHand(d, j)'
    BY <1>12 DEF Claim, Remaining, InHand, Resolving
  <2>2. \A t \in Sources, j \in Ids : InTool(t, j) => InTool(t, j)'
    BY <1>12 DEF Claim, Remaining, InTool
  <2>3. InHand(c, call[c].id)'
    BY <1>12 DEF Claim, Remaining, InHand, Resolving
  <2> QED BY <1>12, <2>1, <2>2, <2>3 DEF Claim, Remaining, PlaceInv
<1>13. ASSUME NEW c \in Callers, AnnounceClaim(c) PROVE PlaceInv'
  <2>1. \A d \in Callers, j \in Ids : InHand(d, j) => InHand(d, j)'
    BY <1>13 DEF AnnounceClaim, Emit, InHand, Resolving
  <2>2. \A t \in Sources, j \in Ids : InTool(t, j) => InTool(t, j)'
    BY <1>13 DEF AnnounceClaim, Emit, InTool
  <2> QED BY <1>13, <2>1, <2>2 DEF AnnounceClaim, Emit, PlaceInv
<1>14. ASSUME NEW c \in Callers, Send(c) PROVE PlaceInv'
  <2>1. \A d \in Callers, j \in Ids : InHand(d, j) /\ j # call[c].id => InHand(d, j)'
    BY <1>14 DEF Send, IdleCall, InHand, Resolving
  <2>2. \A t \in Sources, j \in Ids : InTool(t, j) => InTool(t, j)'
    BY <1>14 DEF Send, IdleCall, InTool
  <2>3. call[c].id \in Ids /\ call[c].says # "open"
    BY <1>14 DEF Send, HeldInv
  <2> QED BY <1>14, <2>1, <2>2, <2>3 DEF Send, IdleCall, PlaceInv
<1>15. ASSUME NEW c \in Callers, NEW i \in Ids, NEW v \in {"answered", "dismissed"}, Call(c, i, v) PROVE PlaceInv'
  <2>1. \A d \in Callers, j \in Ids : InHand(d, j) => InHand(d, j)'
    BY <1>15 DEF Call, InHand, Resolving
  <2>2. \A t \in Sources, j \in Ids : InTool(t, j) => InTool(t, j)'
    BY <1>15 DEF Call, InTool
  <2> QED BY <1>15, <2>1, <2>2 DEF Call, PlaceInv
<1>16. CASE Pump
  <2>1. \A d \in Callers, j \in Ids : InHand(d, j) => InHand(d, j)'
    BY <1>16 DEF Pump, InHand, Resolving
  <2>2. \A t \in Sources, j \in Ids : InTool(t, j) => InTool(t, j)'
    BY <1>16 DEF Pump, InTool
  <2> QED BY <1>16, <2>1, <2>2 DEF Pump, PlaceInv
<1>17. CASE CloseAdmission
  <2>1. \A d \in Callers, j \in Ids : InHand(d, j) => InHand(d, j)'
    BY <1>17 DEF CloseAdmission, InHand, Resolving
  <2>2. \A t \in Sources, j \in Ids : InTool(t, j) => InTool(t, j)'
    BY <1>17 DEF CloseAdmission, InTool
  <2> QED BY <1>17, <2>1, <2>2 DEF CloseAdmission, PlaceInv
<1>18. CASE TakeAll
  <2>1. \A d \in Callers, j \in Ids : InHand(d, j) => InHand(d, j)'
    BY <1>18 DEF TakeAll, Drained, InHand, Resolving
  <2>2. \A t \in Sources, j \in Ids : InTool(t, j) => InTool(t, j)'
    BY <1>18 DEF TakeAll, Drained, InTool
  <2>3. drained = {}
    BY <1>18 DEF TakeAll, ShutdownInv
  <2> QED BY <1>18, <2>1, <2>2, <2>3 DEF TakeAll, Drained, PlaceInv
<1>19. CASE SendDrained
  <2>1. \A d \in Callers, j \in Ids : InHand(d, j) => InHand(d, j)'
    BY <1>19 DEF SendDrained, InHand, Resolving
  <2>2. \A t \in Sources, j \in Ids : InTool(t, j) => InTool(t, j)'
    BY <1>19 DEF SendDrained, InTool
  <2> QED BY <1>19, <2>1, <2>2 DEF SendDrained, PlaceInv
<1>20. CASE DrainEnds
  <2>1. \A d \in Callers, j \in Ids : InHand(d, j) => InHand(d, j)'
    BY <1>20 DEF DrainEnds, InHand, Resolving
  <2>2. \A t \in Sources, j \in Ids : InTool(t, j) => InTool(t, j)'
    BY <1>20 DEF DrainEnds, InTool
  <2> QED BY <1>20, <2>1, <2>2 DEF DrainEnds, PlaceInv
<1>21. CASE Joined
  <2>1. \A d \in Callers, j \in Ids : InHand(d, j) => InHand(d, j)'
    BY <1>21 DEF Joined, InHand, Resolving
  <2>2. \A t \in Sources, j \in Ids : InTool(t, j) => InTool(t, j)'
    BY <1>21 DEF Joined, InTool
  <2> QED BY <1>21, <2>1, <2>2 DEF Joined, PlaceInv
<1>22. ASSUME NEW i \in Ids, AnnounceDrained(i) PROVE PlaceInv'
  <2>1. \A d \in Callers, j \in Ids : InHand(d, j) => InHand(d, j)'
    BY <1>22 DEF AnnounceDrained, Emit, InHand, Resolving
  <2>2. \A t \in Sources, j \in Ids : InTool(t, j) => InTool(t, j)'
    BY <1>22 DEF AnnounceDrained, Emit, InTool
  <2> QED BY <1>22, <2>1, <2>2 DEF AnnounceDrained, Emit, PlaceInv
<1>23. CASE UNCHANGED vars
  <2>1. \A d \in Callers, j \in Ids : InHand(d, j) => InHand(d, j)'
    BY <1>23 DEF vars, InHand, Resolving
  <2>2. \A t \in Sources, j \in Ids : InTool(t, j) => InTool(t, j)'
    BY <1>23 DEF vars, InTool
  <2> QED BY <1>23, <2>1, <2>2 DEF vars, PlaceInv
<1> HIDE DEF QuestionInv, TypeOK, registry, ending, client
<1> QED BY <1>1, <1>2, <1>3, <1>4, <1>5, <1>6, <1>7, <1>8, <1>9, <1>10, <1>11, <1>12, <1>13, <1>14,
    <1>15, <1>16, <1>17, <1>18, <1>19, <1>20, <1>21, <1>22, <1>23
         DEF Next, ToolStep, CallStep, ShutdownStep

LEMMA ResultStep == QuestionInv /\ [Next]_vars => ResultInv'
<1> SUFFICES ASSUME QuestionInv, [Next]_vars PROVE ResultInv'
  OBVIOUS
<1> USE QuestionAssumption DEF QuestionInv, TypeOK, HeldInv, OwnerInv, ResultInv, Waits, Resolving, registry, ending, client
<1>1. ASSUME NEW s \in Sources, Admit(s) PROVE ResultInv'
  BY <1>1 DEF Admit, Admitted
<1>2. ASSUME NEW s \in Sources, RefuseAsk(s) PROVE ResultInv'
  BY <1>2 DEF RefuseAsk
<1>3. ASSUME NEW s \in Sources, Ask(s) PROVE ResultInv'
  <2>1. next_id \in Ids
    BY <1>3, IdIsLeft DEF Ask
  <2> QED BY <1>3, <2>1 DEF Ask, TooOften, Ids
<1>4. ASSUME NEW s \in Sources, AnnounceAsk(s) PROVE ResultInv'
  BY <1>4 DEF AnnounceAsk, Emit
<1>5. ASSUME NEW s \in Sources, Suspend(s) PROVE ResultInv'
  BY <1>5 DEF Suspend, FlagSeen
<1>6. ASSUME NEW s \in Sources, TakeResponse(s) PROVE ResultInv'
  BY <1>6 DEF TakeResponse, Return, IdleTool
<1>7. ASSUME NEW s \in Sources, CancelSeen(s) PROVE ResultInv'
  BY <1>7 DEF CancelSeen, FlagSeen, LostClaim
<1>8. ASSUME NEW s \in Sources, AnnounceCancel(s) PROVE ResultInv'
  <2>1. tool[s].id \in Ids /\ tool[s].id < next_id /\ accepted[tool[s].id] = "none"
    BY <1>8 DEF AnnounceCancel
  <2>2. channel' = [channel EXCEPT ![tool[s].id] = "cancelled"]
        /\ outcome' = [outcome EXCEPT ![tool[s].id] = "cancelled"]
        /\ UNCHANGED <<accepted, next_id>>
    BY <1>8 DEF AnnounceCancel, Return
  <2> QED BY <2>1, <2>2 DEF Ids
<1>9. ASSUME NEW s \in Sources, Abort(s) PROVE ResultInv'
  BY <1>9 DEF Abort
<1>10. ASSUME NEW s \in Sources, Cancel(s) PROVE ResultInv'
  BY <1>10 DEF Cancel
<1>11. ASSUME NEW c \in Callers, RejectCall(c) PROVE ResultInv'
  BY <1>11 DEF RejectCall, IdleCall
<1>12. ASSUME NEW c \in Callers, Claim(c) PROVE ResultInv'
  <2>1. call[c].id \in Ids /\ call[c].id < next_id /\ channel[call[c].id] = "open"
    BY <1>12 DEF Claim
  <2>2. accepted' = [accepted EXCEPT ![call[c].id] = call[c].says]
        /\ UNCHANGED <<channel, outcome, next_id>>
    BY <1>12 DEF Claim
  <2> QED BY <2>1, <2>2 DEF Ids
<1>13. ASSUME NEW c \in Callers, AnnounceClaim(c) PROVE ResultInv'
  BY <1>13 DEF AnnounceClaim, Emit
<1>14. ASSUME NEW c \in Callers, Send(c) PROVE ResultInv'
  <2>1. call[c].id \in Ids /\ call[c].id < next_id /\ channel[call[c].id] = "open"
        /\ accepted[call[c].id] = call[c].says /\ call[c].says \in {"answered", "dismissed"}
    BY <1>14 DEF Send
  <2>2. channel' = [channel EXCEPT ![call[c].id] = call[c].says]
        /\ UNCHANGED <<accepted, outcome, next_id>>
    BY <1>14 DEF Send
  <2> QED BY <2>1, <2>2, next_id \in Nat DEF Ids
<1>15. ASSUME NEW c \in Callers, NEW i \in Ids, NEW v \in {"answered", "dismissed"}, Call(c, i, v) PROVE ResultInv'
  BY <1>15 DEF Call
<1>16. CASE Pump
  BY <1>16 DEF Pump
<1>17. CASE CloseAdmission
  BY <1>17 DEF CloseAdmission
<1>18. CASE TakeAll
  BY <1>18 DEF TakeAll, Drained
<1>19. CASE SendDrained
  <2>1. announced \in drained
    BY <1>19 DEF SendDrained, ShutdownInv
  <2>2. announced \in Ids /\ announced < next_id /\ accepted[announced] = "none" /\ channel[announced] = "open"
    BY <2>1
  <2>3. channel' = [channel EXCEPT ![announced] = "cancelled"] /\ UNCHANGED <<accepted, outcome, next_id>>
    BY <1>19 DEF SendDrained
  <2> QED BY <2>2, <2>3 DEF Ids
<1>20. CASE DrainEnds
  BY <1>20 DEF DrainEnds
<1>21. CASE Joined
  BY <1>21 DEF Joined
<1>22. ASSUME NEW i \in Ids, AnnounceDrained(i) PROVE ResultInv'
  BY <1>22 DEF AnnounceDrained, Emit
<1>23. CASE UNCHANGED vars
  BY <1>23 DEF vars
<1> HIDE DEF QuestionInv, TypeOK, HeldInv, OwnerInv, ResultInv, Waits, Resolving, registry, ending, client
<1> QED BY <1>1, <1>2, <1>3, <1>4, <1>5, <1>6, <1>7, <1>8, <1>9, <1>10, <1>11, <1>12, <1>13, <1>14,
    <1>15, <1>16, <1>17, <1>18, <1>19, <1>20, <1>21, <1>22, <1>23
         DEF Next, ToolStep, CallStep, ShutdownStep

LEMMA EndingStep == QuestionInv /\ [Next]_vars => ShutdownInv'
<1> SUFFICES ASSUME QuestionInv, [Next]_vars PROVE ShutdownInv'
  OBVIOUS
<1> USE QuestionAssumption DEF QuestionInv, TypeOK, HeldInv, ShutdownInv, PendingInv, OwnerInv, Waits, Sources, registry, ending, client
<1>1. ASSUME NEW s \in Sources, Admit(s) PROVE ShutdownInv'
  BY <1>1 DEF Admit, Admitted
<1>2. ASSUME NEW s \in Sources, RefuseAsk(s) PROVE ShutdownInv'
  BY <1>2 DEF RefuseAsk
<1>3. ASSUME NEW s \in Sources, Ask(s) PROVE ShutdownInv'
  <2>1. next_id \in Ids
    BY <1>3, IdIsLeft DEF Ask
  <2>2. \A i \in pending : asker[i] # s /\ i # next_id
    BY <1>3 DEF Ask
  <2> QED BY <1>3, <2>1, <2>2 DEF Ask, TooOften
<1>4. ASSUME NEW s \in Sources, AnnounceAsk(s) PROVE ShutdownInv'
  BY <1>4 DEF AnnounceAsk, Emit
<1>5. ASSUME NEW s \in Sources, Suspend(s) PROVE ShutdownInv'
  BY <1>5 DEF Suspend, FlagSeen
<1>6. ASSUME NEW s \in Sources, TakeResponse(s) PROVE ShutdownInv'
  BY <1>6 DEF TakeResponse, Return, IdleTool
<1>7. ASSUME NEW s \in Sources, CancelSeen(s) PROVE ShutdownInv'
  BY <1>7 DEF CancelSeen, FlagSeen, LostClaim
<1>8. ASSUME NEW s \in Sources, AnnounceCancel(s) PROVE ShutdownInv'
  BY <1>8 DEF AnnounceCancel, Return, IdleTool, Emit
<1>9. ASSUME NEW s \in Sources, Abort(s) PROVE ShutdownInv'
  BY <1>9 DEF Abort
<1>10. ASSUME NEW s \in Sources, Cancel(s) PROVE ShutdownInv'
  BY <1>10 DEF Cancel
<1>11. ASSUME NEW c \in Callers, RejectCall(c) PROVE ShutdownInv'
  BY <1>11 DEF RejectCall, IdleCall
<1>12. ASSUME NEW c \in Callers, Claim(c) PROVE ShutdownInv'
  BY <1>12 DEF Claim, Remaining
<1>13. ASSUME NEW c \in Callers, AnnounceClaim(c) PROVE ShutdownInv'
  BY <1>13 DEF AnnounceClaim, Emit
<1>14. ASSUME NEW c \in Callers, Send(c) PROVE ShutdownInv'
  BY <1>14 DEF Send, IdleCall
<1>15. ASSUME NEW c \in Callers, NEW i \in Ids, NEW v \in {"answered", "dismissed"}, Call(c, i, v) PROVE ShutdownInv'
  BY <1>15 DEF Call
<1>16. CASE Pump
  BY <1>16 DEF Pump
<1>17. CASE CloseAdmission
  BY <1>17 DEF CloseAdmission
<1>18. CASE TakeAll
  BY <1>18 DEF TakeAll, Drained
<1>19. CASE SendDrained
  BY <1>19 DEF SendDrained
<1>20. CASE DrainEnds
  BY <1>20 DEF DrainEnds
<1>21. CASE Joined
  BY <1>21 DEF Joined
<1>22. ASSUME NEW i \in Ids, AnnounceDrained(i) PROVE ShutdownInv'
  BY <1>22 DEF AnnounceDrained, Emit
<1>23. CASE UNCHANGED vars
  BY <1>23 DEF vars
<1> HIDE DEF QuestionInv, TypeOK, HeldInv, ShutdownInv, PendingInv, OwnerInv, Waits, Sources, registry, ending, client
<1> QED BY <1>1, <1>2, <1>3, <1>4, <1>5, <1>6, <1>7, <1>8, <1>9, <1>10, <1>11, <1>12, <1>13, <1>14,
    <1>15, <1>16, <1>17, <1>18, <1>19, <1>20, <1>21, <1>22, <1>23
         DEF Next, ToolStep, CallStep, ShutdownStep

LEMMA ViewStep == QuestionInv /\ [Next]_vars => ViewInv'
<1> SUFFICES ASSUME QuestionInv, [Next]_vars PROVE ViewInv'
  OBVIOUS
<1> USE QuestionAssumption DEF QuestionInv, TypeOK, registry, ending, client
<1>1. ASSUME NEW s \in Sources, Admit(s) PROVE ViewInv'
  <2>1. \A t \in Sources, j \in Ids : InTool(t, j) => InTool(t, j)'
    BY <1>1 DEF Admit, Admitted, InTool
  <2> QED BY <1>1, <2>1 DEF Admit, Admitted, ViewInv
<1>2. ASSUME NEW s \in Sources, RefuseAsk(s) PROVE ViewInv'
  <2>1. \A t \in Sources, j \in Ids : InTool(t, j) => InTool(t, j)'
    BY <1>2 DEF RefuseAsk, InTool
  <2> QED BY <1>2, <2>1, SMTT(40) DEF RefuseAsk, ViewInv
<1>3. ASSUME NEW s \in Sources, Ask(s) PROVE ViewInv'
  <2>1. next_id \in Ids
    BY <1>3, IdIsLeft DEF Ask
  <2>2. \A i \in pending : asker[i] # s /\ i # next_id
    <3>1. \A i \in pending : asker[i] # s
      BY <1>3 DEF Ask, PendingInv, Waits
    <3>2. \A i \in pending : i < next_id
      BY DEF OwnerInv
    <3> QED BY <3>1, <3>2 DEF Ids
  <2>3. \A t \in Sources, j \in Ids : InTool(t, j) => InTool(t, j)'
    BY <1>3 DEF Ask, TooOften, InTool
  <2> QED BY <1>3, <2>1, <2>2, <2>3 DEF Ask, TooOften, ViewInv, PendingInv
<1>4. ASSUME NEW s \in Sources, AnnounceAsk(s) PROVE ViewInv'
  <2>1. \A t \in Sources, j \in Ids : InTool(t, j) => InTool(t, j)'
    BY <1>4 DEF AnnounceAsk, Emit, InTool
  <2> QED BY <1>4, <2>1 DEF AnnounceAsk, Emit, ViewInv
<1>5. ASSUME NEW s \in Sources, Suspend(s) PROVE ViewInv'
  <2>1. \A t \in Sources, j \in Ids : InTool(t, j) => InTool(t, j)'
    BY <1>5 DEF Suspend, FlagSeen, InTool
  <2> QED BY <1>5, <2>1 DEF Suspend, FlagSeen, ViewInv
<1>6. ASSUME NEW s \in Sources, TakeResponse(s) PROVE ViewInv'
  <2>1. \A t \in Sources, j \in Ids : InTool(t, j) => InTool(t, j)'
    BY <1>6 DEF TakeResponse, Return, IdleTool, InTool
  <2> QED BY <1>6, <2>1 DEF TakeResponse, Return, IdleTool, ViewInv
<1>7. ASSUME NEW s \in Sources, CancelSeen(s) PROVE ViewInv'
  <2>1. \A t \in Sources, j \in Ids : InTool(t, j) => InTool(t, j)'
    BY <1>7 DEF CancelSeen, FlagSeen, LostClaim, InTool
  <2>2. \A j \in pending : j = tool[s].id => InTool(s, j)'
    BY <1>7 DEF CancelSeen, FlagSeen, LostClaim, InTool
  <2>3. \A i \in pending' : i \in pending /\ asker[i] \in Sources /\ asker[i] # s
    BY <1>7 DEF CancelSeen, PendingInv
  <2>4. pending' = pending \ {tool[s].id} /\ UNCHANGED <<unseen, seen, drained, announced, call, asker>>
        /\ \A t \in Sources : t # s => tool'[t] = tool[t]
    BY <1>7 DEF CancelSeen
  <2>5. SUFFICES ASSUME ~unseen, ViewInv PROVE ViewInv'
    BY <2>4 DEF ViewInv
  <2>6. \A i \in pending' \ seen' : tool'[asker'[i]].at = "announce"
    BY <2>3, <2>4, <2>5 DEF ViewInv
  <2>7. \A i \in seen' \ pending' : i \in seen \ pending \/ (i = tool[s].id /\ i \in pending)
    BY <2>4
  <2>8. \A i \in seen : i \in Ids
    OBVIOUS
  <2>9. ASSUME NEW i \in seen' \ pending'
        PROVE  \/ \E c \in Callers : call'[c].at = "emit" /\ call'[c].id = i
               \/ \E t \in Sources : InTool(t, i)'
               \/ i \in drained' \ {announced'}
    <3>1. CASE i \in seen \ pending
      BY <2>1, <2>4, <2>5, <2>8, <3>1 DEF ViewInv
    <3>2. CASE i = tool[s].id /\ i \in pending
      BY <2>2, <3>2
    <3> QED BY <2>7, <3>1, <3>2
  <2> QED BY <2>6, <2>9 DEF ViewInv
<1>8. ASSUME NEW s \in Sources, AnnounceCancel(s) PROVE ViewInv'
  BY <1>8 DEF AnnounceCancel, Emit, ViewInv
<1>9. ASSUME NEW s \in Sources, Abort(s) PROVE ViewInv'
  <2>1. \A t \in Sources, j \in Ids : InTool(t, j) => InTool(t, j)'
    BY <1>9 DEF Abort, InTool
  <2> QED BY <1>9, <2>1 DEF Abort, ViewInv
<1>10. ASSUME NEW s \in Sources, Cancel(s) PROVE ViewInv'
  <2>1. \A t \in Sources, j \in Ids : InTool(t, j) => InTool(t, j)'
    BY <1>10 DEF Cancel, InTool
  <2> QED BY <1>10, <2>1 DEF Cancel, ViewInv
<1>11. ASSUME NEW c \in Callers, RejectCall(c) PROVE ViewInv'
  <2>1. \A t \in Sources, j \in Ids : InTool(t, j) => InTool(t, j)'
    BY <1>11 DEF RejectCall, IdleCall, InTool
  <2> QED BY <1>11, <2>1 DEF RejectCall, IdleCall, ViewInv
<1>12. ASSUME NEW c \in Callers, Claim(c) PROVE ViewInv'
  <2>1. \A t \in Sources, j \in Ids : InTool(t, j) => InTool(t, j)'
    BY <1>12 DEF Claim, Remaining, InTool
  <2> QED BY <1>12, <2>1 DEF Claim, Remaining, ViewInv
<1>13. ASSUME NEW c \in Callers, AnnounceClaim(c) PROVE ViewInv'
  <2>1. \A t \in Sources, j \in Ids : InTool(t, j) => InTool(t, j)'
    BY <1>13 DEF AnnounceClaim, Emit, InTool
  <2> QED BY <1>13, <2>1 DEF AnnounceClaim, Emit, ViewInv
<1>14. ASSUME NEW c \in Callers, Send(c) PROVE ViewInv'
  <2>1. \A t \in Sources, j \in Ids : InTool(t, j) => InTool(t, j)'
    BY <1>14 DEF Send, IdleCall, InTool
  <2> QED BY <1>14, <2>1 DEF Send, IdleCall, ViewInv
<1>15. ASSUME NEW c \in Callers, NEW i \in Ids, NEW v \in {"answered", "dismissed"}, Call(c, i, v) PROVE ViewInv'
  <2>1. \A t \in Sources, j \in Ids : InTool(t, j) => InTool(t, j)'
    BY <1>15 DEF Call, InTool
  <2> QED BY <1>15, <2>1 DEF Call, ViewInv
<1>16. CASE Pump
  <2>1. \A t \in Sources, j \in Ids : InTool(t, j) => InTool(t, j)'
    BY <1>16 DEF Pump, InTool
  <2> QED BY <1>16, <2>1 DEF Pump, ViewInv
<1>17. CASE CloseAdmission
  <2>1. \A t \in Sources, j \in Ids : InTool(t, j) => InTool(t, j)'
    BY <1>17 DEF CloseAdmission, InTool
  <2> QED BY <1>17, <2>1 DEF CloseAdmission, ViewInv
<1>18. CASE TakeAll
  <2>1. \A t \in Sources, j \in Ids : InTool(t, j) => InTool(t, j)'
    BY <1>18 DEF TakeAll, Drained, InTool
  <2>2. drained = {} /\ announced = None
    BY <1>18 DEF TakeAll, ShutdownInv
  <2>3. \A i \in Ids : i # None
    BY DEF Ids
  <2> QED BY <1>18, <2>1, <2>2, <2>3 DEF TakeAll, Drained, ViewInv
<1>19. CASE SendDrained
  <2>1. \A t \in Sources, j \in Ids : InTool(t, j) => InTool(t, j)'
    BY <1>19 DEF SendDrained, InTool
  <2>2. drained \ {announced} \subseteq drained' \ {announced'}
    BY <1>19 DEF SendDrained, Ids
  <2>3. UNCHANGED <<unseen, seen, pending, asker, tool, call>>
    BY <1>19 DEF SendDrained
  <2> QED BY <2>1, <2>2, <2>3 DEF ViewInv
<1>20. CASE DrainEnds
  <2>1. \A t \in Sources, j \in Ids : InTool(t, j) => InTool(t, j)'
    BY <1>20 DEF DrainEnds, InTool
  <2> QED BY <1>20, <2>1 DEF DrainEnds, ViewInv
<1>21. CASE Joined
  <2>1. \A t \in Sources, j \in Ids : InTool(t, j) => InTool(t, j)'
    BY <1>21 DEF Joined, InTool
  <2> QED BY <1>21, <2>1 DEF Joined, ViewInv
<1>22. ASSUME NEW i \in Ids, AnnounceDrained(i) PROVE ViewInv'
  <2>1. \A t \in Sources, j \in Ids : InTool(t, j) => InTool(t, j)'
    BY <1>22 DEF AnnounceDrained, Emit, InTool
  <2> QED BY <1>22, <2>1 DEF AnnounceDrained, Emit, ViewInv
<1>23. CASE UNCHANGED vars
  <2>1. \A t \in Sources, j \in Ids : InTool(t, j) => InTool(t, j)'
    BY <1>23 DEF vars, InTool
  <2> QED BY <1>23, <2>1 DEF vars, ViewInv
<1> HIDE DEF QuestionInv, TypeOK, registry, ending, client
<1> QED BY <1>1, <1>2, <1>3, <1>4, <1>5, <1>6, <1>7, <1>8, <1>9, <1>10, <1>11, <1>12, <1>13, <1>14,
    <1>15, <1>16, <1>17, <1>18, <1>19, <1>20, <1>21, <1>22, <1>23
         DEF Next, ToolStep, CallStep, ShutdownStep

LEMMA InvInit == Init => QuestionInv
<1> SUFFICES ASSUME Init PROVE QuestionInv
  OBVIOUS
<1> USE QuestionAssumption DEF Init, IdleTool, IdleCall
<1>1. TypeOK
  <2>1. tool \in [Sources -> [at : {"idle", "admitted", "announce", "poll", "select", "await", "emit", "aborted"},
                             id : Ids \cup {None}]]
    OBVIOUS
  <2>2. call \in [Callers -> [at : {"idle", "checked", "emit", "send"}, id : Ids \cup {None},
                             says : {"answered", "dismissed"}]]
    OBVIOUS
  <2>3. next_id \in 1..MaxAsks + 1 /\ dismisses \in [Sources -> 0..MaxDismisses]
    OBVIOUS
  <2> QED BY <2>1, <2>2, <2>3 DEF TypeOK, Verdicts
<1>2. Admitted = {} /\ Cardinality(Admitted) = 0
  BY FS_EmptySet DEF Admitted
<1>3. HeldInv /\ PendingInv /\ OwnerInv /\ ShutdownInv
  BY DEF HeldInv, PendingInv, OwnerInv, ShutdownInv, Waits, Resolving
<1>4. RoomInv /\ PlaceInv /\ ResultInv /\ ViewInv
  BY <1>2 DEF RoomInv, PlaceInv, ResultInv, ViewInv, Ids
<1> QED BY <1>1, <1>3, <1>4 DEF QuestionInv

LEMMA InvStep == QuestionInv /\ [Next]_vars => QuestionInv'
  BY TypeStep, HeldStep, RoomStep, PendingStep, OwnerStep, PlaceStep, ResultStep, EndingStep, ViewStep
  DEF QuestionInv

\* The invariant of the registry, its askers, its callers and shutdown.
THEOREM QuestionsCorrect == Spec => []QuestionInv
  BY InvInit, InvStep, PTL DEF Spec

--------------------------------------------------------------------------------
(* What follows from it.                                                   *)

\* Two callers, or a caller and a tool, never answer one question.
LEMMA OneDebtor == ASSUME QuestionInv, NEW i \in Ids
                   PROVE  /\ Cardinality(Debtors(i)) \in {0, 1}
                          /\ Cardinality(Debtors(i)) = 1 => channel[i] = "open" /\ i \notin pending \cup drained
                          /\ Cardinality(Debtors(i)) = 0 =>
                               /\ ~ \E c \in Callers : InHand(c, i)
                               /\ ~ \E s \in Sources : InTool(s, i)
<1>1. CASE \E c \in Callers : InHand(c, i)
  <2>1. PICK c \in Callers : InHand(c, i)
    BY <1>1
  <2>2. \A d \in Callers : InHand(d, i) => d = c
    BY <2>1 DEF QuestionInv, TypeOK, HeldInv, OwnerInv, Resolving, Waits, InHand
  <2>3. \A s \in Sources : ~InTool(s, i)
    BY <2>1 DEF QuestionInv, TypeOK, HeldInv, OwnerInv, Resolving, Waits, InHand, InTool
  <2>4. Debtors(i) = {c}
    BY <2>1, <2>2, <2>3 DEF Debtors, InHand, InTool, Resolving
  <2>5. channel[i] = "open" /\ i \notin pending \cup drained
    BY <2>1 DEF QuestionInv, TypeOK, HeldInv, OwnerInv, Resolving, Waits, InHand
  <2>6. Cardinality(Debtors(i)) = 1
    <3>1. Cardinality({c}) = 1
      BY FS_Singleton, Zenon
    <3> QED BY <2>4, <3>1
  <2> QED BY <1>1, <2>5, <2>6
<1>2. CASE \E s \in Sources : InTool(s, i)
  <2>1. PICK s \in Sources : InTool(s, i)
    BY <1>2
  <2>2. \A t \in Sources : InTool(t, i) => t = s
    BY <2>1 DEF QuestionInv, TypeOK, HeldInv, OwnerInv, Resolving, Waits, InTool
  <2>3. \A c \in Callers : ~InHand(c, i)
    BY <2>1 DEF QuestionInv, TypeOK, HeldInv, OwnerInv, Resolving, Waits, InHand, InTool
  <2>4. Debtors(i) = {s}
    BY <2>1, <2>2, <2>3 DEF Debtors, InHand, InTool, Resolving
  <2>5. channel[i] = "open" /\ i \notin pending \cup drained
    BY <2>1 DEF QuestionInv, TypeOK, HeldInv, OwnerInv, Resolving, Waits, InTool
  <2>6. Cardinality(Debtors(i)) = 1
    <3>1. Cardinality({s}) = 1
      BY FS_Singleton, Zenon
    <3> QED BY <2>4, <3>1
  <2> QED BY <1>2, <2>5, <2>6
<1>3. CASE ~(\E c \in Callers : InHand(c, i)) /\ ~(\E s \in Sources : InTool(s, i))
  <2>1. Debtors(i) = {}
    BY <1>3 DEF Debtors, InHand, InTool, Resolving
  <2> QED BY <1>3, <2>1, FS_EmptySet
<1> QED BY <1>1, <1>2, <1>3

LEMMA OwnedOnceHolds == QuestionInv => OwnedOnce
<1> SUFFICES ASSUME QuestionInv, NEW i \in Ids, i < next_id
             PROVE  Cardinality(Debtors(i)) + (IF i \in pending THEN 1 ELSE 0)
                      + (IF i \in drained THEN 1 ELSE 0) = IF channel[i] = "open" THEN 1 ELSE 0
  BY DEF OwnedOnce
<1>1. i \in pending \cup drained => channel[i] = "open"
  BY DEF QuestionInv, OwnerInv
<1>2. ~(i \in pending /\ i \in drained)
  BY DEF QuestionInv, OwnerInv
<1>3. CASE Cardinality(Debtors(i)) = 1
  BY <1>3, OneDebtor
<1>4. CASE Cardinality(Debtors(i)) = 0
  <2>1. channel[i] = "open" => i \in pending \cup drained
    BY <1>4, OneDebtor DEF QuestionInv, PlaceInv
  <2> QED BY <1>1, <1>2, <1>4, <2>1
<1> QED BY <1>3, <1>4, OneDebtor

LEMMA QuietAfterShutdown == QuestionInv => NothingAskedAfterShutdown
<1> SUFFICES ASSUME QuestionInv, stage = "down"
             PROVE  pending = {} /\ \A s \in Sources : tool[s].at \in {"idle", "aborted"}
  BY DEF NothingAskedAfterShutdown
<1>1. \A s \in Sources : tool[s].at \in {"idle", "aborted"}
  BY DEF QuestionInv, ShutdownInv, Sources
<1>2. \A i \in pending : FALSE
  BY <1>1 DEF QuestionInv, ShutdownInv, PendingInv
<1> QED BY <1>1, <1>2

LEMMA ClientSettlesHolds == QuestionInv => ClientSettles
<1> SUFFICES ASSUME QuestionInv, ~unseen,
                    \A s \in Sources : tool[s].at \notin {"announce", "emit"},
                    \A c \in Callers : call[c].at # "emit",
                    drained \ {announced} = {}
             PROVE  seen = pending
  BY DEF ClientSettles
<1>1. \A i \in pending : i \in seen
  BY DEF QuestionInv, ViewInv, PendingInv
<1>2. \A i \in seen : i \in pending
  BY DEF QuestionInv, ViewInv, InTool
<1> QED BY <1>1, <1>2

\* A question that was asked has one owner until its channel has an answer
\* (core/questions.rs: take_answer, take_dismiss, take_cancel, take_all), none
\* is left after shutdown, and a client that follows the events agrees.
THEOREM OneOwnerAlways == Spec => []OneOwner
<1>1. QuestionInv => OneOwner
  BY OwnedOnceHolds, QuietAfterShutdown, ClientSettlesHolds DEF OneOwner, QuestionInv
<1> QED BY <1>1, QuestionsCorrect, PTL

\* answer_question and dismiss_question returned Ok: that is what the tool
\* returns, and a tool whose question nobody settled returns a cancellation.
THEOREM AcceptedIsDeliveredAlways == Spec => []AcceptedIsDelivered
<1>1. QuestionInv => AcceptedIsDelivered
  BY DEF QuestionInv, ResultInv, AcceptedIsDelivered
<1> QED BY <1>1, QuestionsCorrect, PTL
===================================================================================
