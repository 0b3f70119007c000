------------------------------ MODULE MCStateLocks ------------------------------
(* Constants for the TLC run of StateLocks about the resume.  The other    *)
(* operations are explored by the run of MCAgentRegistry.                  *)
EXTENDS StateLocks
================================================================================
