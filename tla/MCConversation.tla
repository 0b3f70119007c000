---------------------------- MODULE MCConversation ----------------------------
(***************************************************************************)
(* Instances of Conversation for TLC, and of ContextBudget with the        *)
(* constants of the code.                                                  *)
(***************************************************************************)
EXTENDS Conversation, ContextBudget

MCReserves == {1000, 20000, 1000000}
MCRatios == {[num |-> 1, den |-> 2], [num |-> 17, den |-> 20], [num |-> 19, den |-> 20]}
MCConfigs == [auto : BOOLEAN, trigger_ratio : MCRatios, reserve_tokens : MCReserves \cup {Derived}]
MCWindows == 1..12 \cup {1999, 2000, 7999, 8000, 16001, 40000, 200000, 400000, 1000003}
Default == [auto |-> TRUE, trigger_ratio |-> [num |-> 17, den |-> 20], reserve_tokens |-> Derived]

\* The examples of the tests in metrics.rs:125.
ASSUME BudgetExamples ==
  /\ Reserve(Default, 20000) = 8000 /\ Reserve(Default, 100000) = 20000
  /\ Reserve(Default, 400000) = 50000 /\ Threshold(Default, 100000) = 80000
  /\ SummaryOutput(Default, 20000) = 4000 /\ SummaryOutput(Default, 400000) = 16000
  /\ Reserve([Default EXCEPT !.reserve_tokens = 1000000], 20000) = 10000

\* What Conversation_proofs proves, and that a threshold is not out of reach.
ASSUME BudgetFits ==
  \A config \in MCConfigs, window \in MCWindows :
    /\ config \in Configs
    /\ Threshold(config, window) + Reserve(config, window) <= window
    /\ window \div 2 <= Threshold(config, window)
    /\ ShouldCompact(config, window, window)
    /\ ShouldCompact(config, window, 0) <=> window < 2
================================================================================
