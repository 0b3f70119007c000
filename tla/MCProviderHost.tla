----------------------------- MODULE MCProviderHost -----------------------------
(* Constants for the TLC runs of ProviderHost.                             *)
EXTENDS ProviderHost, TLC

CONSTANTS c1, c2

\* A chat beside a request or a cancellation of the chat.
ChatAndOther == c1 :> {"chat"} @@ c2 :> {"request", "cancel"}
================================================================================
