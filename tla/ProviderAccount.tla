----------------------------- MODULE ProviderAccount -----------------------------
(***************************************************************************)
(* What the core keeps about its providers: credentials with the catalogs  *)
(* cached for them, and the selected profile.  They meet only in the       *)
(* catalog a selection fetches, which ModelSelection leaves open, so a     *)
(* behaviour is one of either part.                                        *)
(***************************************************************************)
EXTENDS Credentials, ModelSelection

VARIABLE part

accountVars == <<part, credentialVars, selectionVars>>

AccountInit == part \in {"credentials", "selection"} /\ CredentialInit /\ SelectionInit
  /\ (part = "selection" => file = [p \in Providers |-> None])
  /\ (part = "credentials" => config.model = NoProfile)

Account == part = "credentials" /\ CredentialNext /\ UNCHANGED <<part, selectionVars>>
Select  == part = "selection" /\ SelectionNext /\ UNCHANGED <<part, credentialVars>>

AccountSpec == AccountInit /\ [][Account \/ Select]_accountVars

\* The runtime polls every call, blocking jobs run, and a request that has been
\* written is answered or ends at its deadline.
FairAccountSpec ==
  AccountSpec /\ \A c \in Calls :
    WF_accountVars(part = "credentials" /\ FairStep(c) /\ UNCHANGED <<part, selectionVars>>)

AccountInv == CredentialInv /\ SelectionInv
================================================================================
