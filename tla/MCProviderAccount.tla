--------------------------- MODULE MCProviderAccount ---------------------------
(* Constants for the TLC runs of ProviderAccount.                          *)
EXTENDS ProviderAccount

CONSTANTS m1, low, high

\* One model has levels, the other none.
SomeSupports == [m \in Models |-> IF m = m1 THEN {low, high} ELSE {}]
================================================================================
