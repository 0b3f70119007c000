--------------------------- MODULE MCSubmissionQueue ---------------------------
(* Constants for the TLC runs of SubmissionQueue.                          *)
EXTENDS SubmissionQueue, MCLockOrder, TLC

\* Callers and worker tasks are interchangeable: symmetry for safety runs only.
Symmetry == Permutations(Submitters) \cup Permutations(Workers)
================================================================================
