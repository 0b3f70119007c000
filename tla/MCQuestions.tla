------------------------------ MODULE MCQuestions ------------------------------
(* Constants for the TLC runs of Questions.                                *)
EXTENDS Questions, TLC
================================================================================
