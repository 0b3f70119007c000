------------------------------ MODULE ContextBudget ------------------------------
(***************************************************************************)
(* core/compaction/metrics.rs, core/context_report.rs and the popup that   *)
(* shows the report: how a model's context window is divided between what  *)
(* a request may use, the reserve that is kept for the answer, and the     *)
(* output a compaction may ask of the model.                               *)
(*                                                                         *)
(* Tokens are natural numbers.  The estimate of a text (a quarter of its   *)
(* characters, rounded up) is an input; trigger_ratio is a fraction, and   *)
(* the rounding of its floating-point product is left out.                 *)
(***************************************************************************)
EXTENDS Integers

CONSTANTS
  MIN_RESERVE_TOKENS, MAX_RESERVE_TOKENS,                \* of a derived reserve
  MIN_SUMMARY_OUTPUT_TOKENS, MAX_SUMMARY_OUTPUT_TOKENS,
  ConfiguredReserves,                                    \* reserves config.toml may ask for
  Derived                                                \* CompactionConfig.reserve_tokens is None

ASSUME BudgetAssumption ==
  /\ MIN_RESERVE_TOKENS \in Nat /\ MAX_RESERVE_TOKENS \in Nat
  /\ MIN_SUMMARY_OUTPUT_TOKENS \in Nat /\ MAX_SUMMARY_OUTPUT_TOKENS \in Nat
  /\ MIN_RESERVE_TOKENS <= MAX_RESERVE_TOKENS
  /\ MIN_SUMMARY_OUTPUT_TOKENS <= MAX_SUMMARY_OUTPUT_TOKENS
  /\ ConfiguredReserves \subseteq Nat /\ Derived \notin Nat

Smaller(a, b) == IF a <= b THEN a ELSE b
Larger(a, b) == IF a >= b THEN a ELSE b
SaturatingSub(a, b) == IF a >= b THEN a - b ELSE 0
Clamp(n, low, high) == IF n < low THEN low ELSE IF n > high THEN high ELSE n

--------------------------------------------------------------------------------
(* CompactionConfig, as validate_config lets it in.                        *)

Ratios == {r \in [num : Nat, den : Nat \ {0}] : r.den <= 2 * r.num /\ 100 * r.num <= 95 * r.den}
Configs == [auto : BOOLEAN, trigger_ratio : Ratios, reserve_tokens : ConfiguredReserves \cup {Derived}]

--------------------------------------------------------------------------------
(* The thresholds.  A model that does not say its window has window 0.     *)

Requested(config, window) ==
  IF config.reserve_tokens = Derived
  THEN Clamp(window \div 5, MIN_RESERVE_TOKENS, MAX_RESERVE_TOKENS)
  ELSE config.reserve_tokens

Reserve(config, window) ==
  IF window = 0 THEN 0 ELSE Smaller(Requested(config, window), window \div 2)

Triggered(config, window) == (window * config.trigger_ratio.num) \div config.trigger_ratio.den

Threshold(config, window) ==
  Smaller(Triggered(config, window), SaturatingSub(window, Reserve(config, window)))

ShouldCompact(config, window, projected) == window > 0 /\ projected >= Threshold(config, window)

SummaryOutput(config, window) ==
  Clamp(Reserve(config, window) \div 2, MIN_SUMMARY_OUTPUT_TOKENS, MAX_SUMMARY_OUTPUT_TOKENS)

--------------------------------------------------------------------------------
(* The report.  texts holds the estimates of the rendered system prompt,   *)
(* of the built-in part of it, of the tools with the role catalog, of the  *)
(* catalog, of a first entry that is a summary, and of the other messages. *)

Texts == [system : Nat, misy : Nat, tools : Nat, roles : Nat, summary : Nat, messages : Nat]

Estimated(texts) ==
  texts.misy + SaturatingSub(texts.system, texts.misy)
  + SaturatingSub(texts.tools, texts.roles) + texts.roles + texts.summary + texts.messages

Free(texts, window) == SaturatingSub(window, Estimated(texts))

\* What the report says of compaction: nothing when it is off or the window unknown.
Shown(config, window) == window > 0 /\ config.auto

\* context_popup.rs: the percentage in use, rounded up, and its warning.
Percent(texts, window) == (Estimated(texts) * 100 + (window - 1)) \div window
Warned(texts, window) == window > 0 /\ Estimated(texts) >= window
================================================================================
