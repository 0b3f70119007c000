---------------------------- MODULE MCTerminalClient ----------------------------
(* Constants for the TLC run of TerminalClient.                           *)
EXTENDS TerminalClient

\* One question of each kind, and a request of both.
SomeRequests == {<<TRUE>>, <<FALSE>>, <<TRUE, FALSE>>}
================================================================================
