------------------------------- MODULE Credentials -------------------------------
(***************************************************************************)
(* Stored credentials, the record of who is authenticated, and the cache   *)
(* of model catalogs: core/authentication.rs, core/usage.rs, core/cache.rs,*)
(* model_cache.rs, CredentialStore of config.rs and the credential parts   *)
(* of core.rs and core/turn/stream.rs.                                     *)
(*                                                                         *)
(* A call is one API call or turn that needs a provider.  It is at one     *)
(* await or one critical section at a time.  A credential is the number of *)
(* the token in it: a provider honours the tokens it issued until it       *)
(* rotates them.  A blocking job (spawn_blocking) is a part of its call,   *)
(* and goes on when the call is aborted.                                   *)
(***************************************************************************)
EXTENDS Naturals, FiniteSets

CONSTANTS
  Providers,
  Calls,        \* slots for calls that run at the same time
  MaxCalls,     \* bound: calls one behaviour starts
  MaxTokens,    \* bound: tokens a provider issues
  MaxRestarts,  \* bound: times the process dies
  None

ASSUME CredentialAssumption ==
  /\ MaxCalls \in Nat /\ MaxTokens \in Nat \ {0} /\ MaxRestarts \in Nat
  /\ None \notin Nat \cup Calls \cup [tok : Nat, fresh : BOOLEAN]

Kinds == {"complete", "refresh", "logout", "usage", "chat", "list", "search", "none"}

\* What a provider keeps for a catalog: the credential it was listed with,
\* and whether it counts as fresh (a remote catalog inside its 15 minutes).
NoCatalog == [p \in Providers |-> None]
Catalogs == [tok : 0..MaxTokens, fresh : BOOLEAN]

VARIABLES
  file,      \* credentials.json: the token stored for each provider, or None
  issued,    \* tokens each provider has issued
  honoured,  \* tokens each provider accepts
  record,    \* CoreState.credential_states: present and epoch
  auth_operations,        \* holder of each provider's authentication lock
  credential_operations,  \* holder of the credential mutation lock
  model_refreshes,        \* holder of each provider's listing lock
  cache,     \* ModelCatalogState.file
  epochs,    \* ModelCatalogState.provider_epochs, or None
  generation,\* ModelCatalogState.generation
  models_file,            \* models.json
  calls,     \* the running calls
  started, restarts,      \* counters of the bounds
  torn,      \* history: providers whose credential an aborted call changed last
  unsaved    \* history: the last write of models.json failed

locks == <<auth_operations, credential_operations, model_refreshes>>
catalog == <<cache, epochs, generation>>
credentialVars == <<file, issued, honoured, record, locks, catalog, models_file, calls,
                    started, restarts, torn, unsaved>>

Idle == [kind |-> "idle", p |-> None, at |-> "idle", expiring |-> FALSE, aborted |-> FALSE,
         tok |-> None, epoch |-> None, new |-> None, doc |-> None, write |-> None]

At(c, place) == calls[c].at = place
Go(c, place) == calls' = [calls EXCEPT ![c].at = place]

\* The request a call makes: usage and chat refresh an expiring credential
\* before their own request.
Asks(c) == IF calls[c].expiring THEN "refresh" ELSE calls[c].kind

CredentialInit ==
  /\ file \in [Providers -> {None, 1}]
  /\ issued = [p \in Providers |-> 1]
  /\ honoured = [p \in Providers |-> {1}]
  /\ record = [p \in Providers |-> [present |-> file[p] # None, epoch |-> 0]]
  /\ auth_operations = [p \in Providers |-> None]
  /\ credential_operations = None
  /\ model_refreshes = [p \in Providers |-> None]
  /\ models_file = [p \in Providers |-> IF file[p] = None THEN None
                                         ELSE [tok |-> file[p], fresh |-> FALSE]]
  /\ cache = models_file
  /\ epochs = NoCatalog
  /\ generation = 0
  /\ calls = [c \in Calls |-> Idle]
  /\ started = 0 /\ restarts = 0
  /\ torn = {} /\ unsaved = FALSE

IsStale(p) == IF cache[p] = None THEN TRUE ELSE ~cache[p].fresh

\* The locks after call c dropped its guards.
Dropped(lock, c) == [p \in Providers |-> IF lock[p] = c THEN None ELSE lock[p]]

ReleaseStore(c) ==
  /\ credential_operations' = IF credential_operations = c THEN None ELSE credential_operations
  /\ UNCHANGED <<auth_operations, model_refreshes>>
ReleaseAll(c) ==
  /\ auth_operations' = Dropped(auth_operations, c)
  /\ model_refreshes' = Dropped(model_refreshes, c)
  /\ credential_operations' = IF credential_operations = c THEN None ELSE credential_operations

\* A call returns, with its result or with an error.
Return(c) == calls' = [calls EXCEPT ![c] = Idle] /\ ReleaseAll(c)

\* A call that refreshed an expiring credential goes on with its own request.
Continue(c) ==
  IF calls[c].expiring
  THEN /\ ReleaseAll(c)
       /\ calls' = [calls EXCEPT ![c] = [Idle EXCEPT !.kind = calls[c].kind, !.p = calls[c].p,
                                                     !.at = "begin"]]
  ELSE Return(c)

----------------------------------------------------------------------------
(* What a call asks a provider                                             *)

Begin(c, p, kind) ==
  /\ calls[c].kind = "idle" /\ started < MaxCalls
  /\ kind = "search" => record[p].present /\ IsStale(p)
  /\ started' = started + 1
  /\ calls' = [calls EXCEPT ![c] =
        [Idle EXCEPT !.kind = kind, !.p = p, !.expiring = kind \in {"usage", "chat"},
                     !.at = CASE kind = "list"   -> "begin"
                              [] kind = "search" -> "single"
                              [] kind = "none"   -> "load"
                              [] OTHER           -> "lock"]]
  /\ UNCHANGED <<file, issued, honoured, record, locks, catalog, models_file, restarts, torn, unsaved>>

AuthFree(p) == auth_operations[p] = None

\* complete_auth, refresh_auth, logout and refresh_expiring_credentials take
\* the provider's authentication lock first.
LockAuth(c) ==
  /\ At(c, "lock") /\ AuthFree(calls[c].p)
  /\ auth_operations' = [auth_operations EXCEPT ![calls[c].p] = c]
  /\ Go(c, IF calls[c].expiring THEN "expiry" ELSE "load")
  /\ UNCHANGED <<file, issued, honoured, record, credential_operations, model_refreshes, catalog,
                 models_file, started, restarts, torn, unsaved>>

\* Only a stored credential that expires within a minute is refreshed.
CheckExpiry(c) ==
  /\ At(c, "expiry")
  /\ \/ file[calls[c].p] # None /\ Go(c, "load") /\ UNCHANGED locks
     \/ Continue(c)
  /\ UNCHANGED <<file, issued, honoured, record, catalog, models_file, started, restarts, torn, unsaved>>

\* refresh_models_if_stale: one listing at a time, and none if the one before
\* it made the catalog fresh.
LockRefresh(c) ==
  LET p == calls[c].p IN
  /\ At(c, "single") /\ model_refreshes[p] = None
  /\ IF IsStale(p)
     THEN model_refreshes' = [model_refreshes EXCEPT ![p] = c] /\ Go(c, "begin")
     ELSE calls' = [calls EXCEPT ![c] = Idle] /\ UNCHANGED model_refreshes
  /\ UNCHANGED <<file, issued, honoured, record, auth_operations, credential_operations, catalog,
                 models_file, started, restarts, torn, unsaved>>

\* A chat and a listing capture the credential epoch before they read the
\* credential; a usage request needs a stored credential.
Capture(c) ==
  LET p == calls[c].p IN
  /\ At(c, "begin")
  /\ IF calls[c].kind = "usage" /\ file[p] = None
     THEN Return(c)
     ELSE /\ calls' = [calls EXCEPT ![c].at = "load", ![c].epoch = record[p].epoch]
          /\ UNCHANGED locks
  /\ UNCHANGED <<file, issued, honoured, record, catalog, models_file, started, restarts, torn, unsaved>>

\* provider_request: the stored credential travels with the request.
LoadCredentials(c) ==
  /\ At(c, "load")
  /\ calls' = [calls EXCEPT ![c].at = "sending", ![c].tok = file[calls[c].p]]
  /\ UNCHANGED <<file, issued, honoured, record, locks, catalog, models_file, started, restarts,
                 torn, unsaved>>

\* send_request writes into the provider's stdin under its lock, as long as that
\* takes; the deadline runs from here on.
SendRequest(c) ==
  /\ At(c, "sending")
  /\ Go(c, "asked")
  /\ UNCHANGED <<file, issued, honoured, record, locks, catalog, models_file, started, restarts,
                 torn, unsaved>>

\* The provider issues a token; a refresh or a silent rotation uses up the
\* token it was asked with.
Issue(p, used) ==
  /\ issued[p] < MaxTokens
  /\ issued' = [issued EXCEPT ![p] = @ + 1]
  /\ honoured' = [honoured EXCEPT ![p] = (@ \ {used}) \cup {issued[p] + 1}]

\* The provider answers: complete and refresh with a new credential or none
\* at all, usage and chat with one if the token was rotated on the way.
Serve(c) ==
  LET p == calls[c].p IN
  /\ At(c, "asked")
  /\ Asks(c) \in {"refresh", "usage", "chat"} => calls[c].tok \in honoured[p] \cup {None}
  /\ \/ /\ \/ Asks(c) = "complete" /\ Issue(p, None)
           \/ Asks(c) \in {"refresh", "usage", "chat"} /\ calls[c].tok # None /\ Issue(p, calls[c].tok)
        /\ calls' = [calls EXCEPT ![c].at = "answered", ![c].new = issued[p] + 1]
     \/ Go(c, "answered") /\ UNCHANGED <<issued, honoured>>
  /\ UNCHANGED <<file, record, locks, catalog, models_file, started, restarts, torn, unsaved>>

\* The provider rejects the request, dies, or lets its deadline pass.
Fail(c) ==
  /\ calls[c].at \in {"sending", "asked"}
  /\ Return(c)
  /\ UNCHANGED <<file, issued, honoured, record, catalog, models_file, started, restarts, torn, unsaved>>

----------------------------------------------------------------------------
(* What the answer changes                                                 *)

\* record_authentication
Recorded(p, present) == [record EXCEPT ![p] = [present |-> present, epoch |-> @.epoch + 1]]

\* A none flow is recorded at once; an answer without a credential is the end
\* of a usage or a chat, and an error of a login or refresh unless the
\* provider is authenticated without one (require_auth_credentials).
Answer(c) ==
  LET p == calls[c].p
      bare == calls[c].new = None IN
  /\ At(c, "answered")
  /\ CASE Asks(c) = "none" ->
            record' = Recorded(p, TRUE) /\ Return(c)
       [] Asks(c) \in {"usage", "chat"} /\ bare ->
            Return(c) /\ UNCHANGED record
       [] Asks(c) \in {"complete", "refresh"} /\ bare /\ ~(record[p].present /\ file[p] = None) ->
            Return(c) /\ UNCHANGED record
       [] OTHER -> Go(c, "store") /\ UNCHANGED <<record, locks>>
  /\ UNCHANGED <<file, issued, honoured, catalog, models_file, started, restarts, torn, unsaved>>

\* stage_save_with_source
StageSave(c) ==
  \E fresh \in BOOLEAN :
    LET p == calls[c].p
        now == [cache EXCEPT ![p] = [tok |-> IF calls[c].tok = None THEN 0 ELSE calls[c].tok,
                                     fresh |-> fresh]] IN
    /\ cache' = now
    /\ epochs' = [epochs EXCEPT ![p] = calls[c].epoch]
    /\ generation' = generation + 1
    /\ calls' = [calls EXCEPT ![c].at = "persist",
                              ![c].write = [generation |-> generation + 1, file |-> now]]

\* A chat's rotation and a listing are dropped when the epoch moved on since
\* they captured it; a listing also without a credential.
OutdatedListing(c) == Asks(c) \in {"list", "search"} /\ record[calls[c].p].epoch # calls[c].epoch
Outdated(c) ==
  /\ Asks(c) \in {"chat", "list", "search"}
  /\ \/ record[calls[c].p].epoch # calls[c].epoch
     \/ Asks(c) # "chat" /\ ~record[calls[c].p].present

MutationFree == credential_operations = None

\* Under the mutation lock: drop what is outdated, stage a listing, or go on
\* to the file.
LockStore(c) ==
  /\ At(c, "store") /\ MutationFree
  /\ IF Outdated(c)
     THEN Return(c) /\ UNCHANGED catalog
     ELSE /\ credential_operations' = c
          /\ UNCHANGED <<auth_operations, model_refreshes>>
          /\ IF Asks(c) \in {"list", "search"}
             THEN StageSave(c)
             ELSE /\ Go(c, IF calls[c].new = None /\ Asks(c) # "logout" THEN "saved" ELSE "read")
                  /\ UNCHANGED catalog
  /\ UNCHANGED <<file, issued, honoured, record, models_file, started, restarts, torn, unsaved>>

\* CredentialStore.save and remove: a blocking job reads the whole document
\* and replaces the file.
ReadDocument(c) ==
  /\ At(c, "read")
  /\ calls' = [calls EXCEPT ![c].at = "write", ![c].doc = file]
  /\ UNCHANGED <<file, issued, honoured, record, locks, catalog, models_file, started, restarts,
                 torn, unsaved>>

WriteDocument(c) ==
  LET p == calls[c].p IN
  /\ At(c, "write")
  /\ file' = [calls[c].doc EXCEPT ![p] = calls[c].new]
  /\ IF calls[c].aborted
     THEN calls' = [calls EXCEPT ![c] = Idle] /\ torn' = torn \cup {q \in Providers : file'[q] # file[q]}
     ELSE Go(c, "saved") /\ torn' = torn \ {p}
  /\ UNCHANGED <<issued, honoured, record, locks, catalog, models_file, started, restarts, unsaved>>

\* The file cannot be read or written: the call fails, and nothing is recorded.
StoreFails(c) ==
  /\ calls[c].at \in {"read", "write"}
  /\ Return(c)
  /\ UNCHANGED <<file, issued, honoured, record, catalog, models_file, started, restarts, torn, unsaved>>

\* stage_remove: the old catalog goes with the credential it was listed with.
StageRemoveNothing(c, epoch) == Go(c, "done") /\ UNCHANGED catalog
StageRemove(c, epoch) ==
  LET p == calls[c].p
      now == [cache EXCEPT ![p] = None] IN
  IF cache[p] = None \/ (epochs[p] # None /\ epochs[p] > epoch)
  THEN Go(c, "done") /\ UNCHANGED catalog
  ELSE /\ cache' = now
       /\ epochs' = [epochs EXCEPT ![p] = None]
       /\ generation' = generation + 1
       /\ calls' = [calls EXCEPT ![c].at = "persist",
                                 ![c].write = [generation |-> generation + 1, file |-> now]]

RecordStored(c) ==
  LET p == calls[c].p IN
  /\ At(c, "saved")
  /\ record' = Recorded(p, Asks(c) # "logout")
  /\ StageRemove(c, record[p].epoch + 1)
  /\ UNCHANGED <<file, issued, honoured, locks, models_file, started, restarts, torn, unsaved>>

\* ModelCatalogStore.persist: write the snapshot, and write again if the
\* catalogs changed meanwhile.  A failure is ignored by every caller.
Finished(c) == IF calls[c].aborted THEN calls' = [calls EXCEPT ![c] = Idle] ELSE Go(c, "done")

Written(c) == calls[c].write.file

PersistCatalogs(c) ==
  /\ At(c, "persist")
  /\ \/ models_file' = Written(c) /\ unsaved' = FALSE /\ Go(c, "compare")
     \/ UNCHANGED models_file /\ unsaved' = TRUE /\ Finished(c)
  /\ UNCHANGED <<file, issued, honoured, record, locks, catalog, started, restarts, torn>>

CompareGeneration(c) ==
  /\ At(c, "compare")
  /\ IF calls[c].write.generation = generation
     THEN Finished(c)
     ELSE calls' = [calls EXCEPT ![c].at = "persist",
                                 ![c].write = [generation |-> generation, file |-> cache]]
  /\ UNCHANGED <<file, issued, honoured, record, locks, catalog, models_file, started, restarts,
                 torn, unsaved>>

FinishStore(c) ==
  /\ At(c, "done")
  /\ Continue(c)
  /\ UNCHANGED <<file, issued, honoured, record, catalog, models_file, started, restarts, torn, unsaved>>

----------------------------------------------------------------------------
(* Cancellation and death                                                  *)

\* The client aborts the task of a login: its guards are dropped at once, a
\* blocking job it waits for goes on without it.
Abort(c) ==
  /\ calls[c].kind \in {"complete", "none"} /\ ~calls[c].aborted
  /\ ReleaseAll(c)
  /\ calls' = [calls EXCEPT ![c] = IF @.at \in {"read", "write", "persist", "compare"}
                                   THEN [@ EXCEPT !.aborted = TRUE] ELSE Idle]
  /\ torn' = IF At(c, "saved") THEN torn \cup {calls[c].p} ELSE torn
  /\ UNCHANGED <<file, issued, honoured, record, catalog, models_file, started, restarts, unsaved>>

\* MisyCore::build after the process died: the files are all that is left.
Restart ==
  /\ restarts < MaxRestarts
  /\ restarts' = restarts + 1
  /\ calls' = [c \in Calls |-> Idle]
  /\ auth_operations' = [p \in Providers |-> None]
  /\ model_refreshes' = [p \in Providers |-> None]
  /\ credential_operations' = None
  /\ record' = [p \in Providers |-> [present |-> file[p] # None, epoch |-> 0]]
  /\ cache' = models_file /\ epochs' = NoCatalog /\ generation' = 0
  /\ torn' = {} /\ unsaved' = FALSE
  /\ UNCHANGED <<file, issued, honoured, models_file, started>>

CallStep(c) ==
  \/ LockAuth(c) \/ CheckExpiry(c) \/ LockRefresh(c) \/ Capture(c) \/ LoadCredentials(c)
  \/ SendRequest(c) \/ Serve(c) \/ Fail(c) \/ Answer(c) \/ LockStore(c)
  \/ ReadDocument(c) \/ WriteDocument(c) \/ StoreFails(c) \/ RecordStored(c)
  \/ PersistCatalogs(c) \/ CompareGeneration(c) \/ FinishStore(c)

\* What of it the runtime brings about: not that a provider reads its stdin, nor
\* the end of a deadline whose kill waits for a write under way.
Sending(p) == \E d \in Calls : calls[d].p = p /\ At(d, "sending")

FairStep(c) == CallStep(c) /\ ~At(c, "sending") /\ ~(At(c, "asked") /\ Sending(calls[c].p))

CredentialNext ==
  \/ \E c \in Calls, p \in Providers, kind \in Kinds : Begin(c, p, kind)
  \/ \E c \in Calls : CallStep(c) \/ Abort(c)
  \/ Restart

----------------------------------------------------------------------------
(* Properties                                                              *)

CredentialTypeOK ==
  /\ file \in [Providers -> 1..MaxTokens \cup {None}]
  /\ record \in [Providers -> [present : BOOLEAN, epoch : Nat]]
  /\ cache \in [Providers -> Catalogs \cup {None}]
  /\ models_file \in [Providers -> Catalogs \cup {None}]
  /\ \A c \in Calls : calls[c].kind \in Kinds \cup {"idle"}
  /\ credential_operations \in Calls \cup {None}

\* No save of an aborted login is under way or came after the last record.
NoOrphan == torn = {} /\ \A c \in Calls : ~calls[c].aborted

Running(p) == {c \in Calls : calls[c].kind # "idle" /\ calls[c].p = p}
Writes(c) == At(c, "write") /\ ~(calls'[c].at = "write") /\ file' # file

RecordFollowsFile ==
  \A p \in Providers : Running(p) = {} /\ p \notin torn /\ file[p] # None => record[p].present

CatalogOfThisCredential ==
  \A p \in Providers :
    credential_operations = None /\ epochs[p] # None /\ NoOrphan
    => cache[p].tok = (IF file[p] = None THEN 0 ELSE file[p])

CatalogFileSettles ==
  (\A c \in Calls : calls[c].at \notin {"persist", "compare"}) /\ ~unsaved => models_file = cache

LateRotationLoses ==
  [][\A c \in Calls : Writes(c) /\ Asks(c) = "chat" /\ torn = {}
       => file[calls[c].p] = calls[c].tok \/ restarts' # restarts]_credentialVars

LogoutStands ==
  [][\A c \in Calls : Writes(c) /\ file[calls[c].p] = None /\ calls[c].new # None
       => Asks(c) \in {"complete", "usage"} \/ calls[c].p \in torn]_credentialVars

SavesAreIndependent ==
  [][\A c \in Calls : Writes(c) /\ NoOrphan
       => \A q \in Providers \ {calls[c].p} : file'[q] = file[q]]_credentialVars

\* The one thing that holds a call up: a provider that does not read its stdin, the
\* call's own request or one that this call's lock, or its deadline, waits behind.
HeldUp(c) ==
  \/ calls[c].at \in {"sending", "asked"} /\ Sending(calls[c].p)
  \/ At(c, "lock") /\ Sending(calls[c].p)
       /\ \E d \in Calls : auth_operations[calls[c].p] = d /\ calls[d].at \in {"sending", "asked"}
  \/ At(c, "single") /\ Sending(calls[c].p)
       /\ \E d \in Calls : model_refreshes[calls[c].p] = d /\ calls[d].at \in {"sending", "asked"}

\* No call waits for ever, not for a lock and not in the loop of persist, but for
\* one that a provider of its own holds up: a call of another provider, and every
\* call that has its answer, returns.
EveryCallReturns == \A c \in Calls : []<>(calls[c].kind = "idle") \/ <>[]HeldUp(c)

\* What is kept of an account agrees.  Once nothing runs for a provider, a stored
\* credential is known to the core (a login aborted during its save excepted);
\* a catalog listed in this process belongs to the stored credential, since a
\* login, a refresh, a rotation and a logout each take it away and a listing
\* that overlaps one is not saved; and when every write of models.json has
\* ended and the last one worked, it holds the catalogs in memory, whatever
\* order the writes came in.
AccountAgrees ==
  CredentialTypeOK /\ RecordFollowsFile /\ CatalogOfThisCredential /\ CatalogFileSettles

\* A save changes what it was made for, and only while that still stands.  A
\* chat stores a rotated credential only over the one it was sent with, so a
\* login, refresh or logout that came in between wins; a provider without a
\* credential gets one by a login or by a usage request that rotated it, never
\* by a refresh or chat that was on its way during the logout; and saving one
\* provider leaves the others as they are.  The save of an aborted login is
\* excepted.
SavesStand == LateRotationLoses /\ LogoutStands /\ SavesAreIndependent

----------------------------------------------------------------------------
(***************************************************************************)
(* The inductive invariant behind them.                                    *)
(***************************************************************************)
Tokens == 1..MaxTokens \cup {None}
CatalogFiles == [Providers -> Catalogs \cup {None}]
Snapshots == [generation : Nat, file : CatalogFiles]

CallType ==
  [kind : Kinds \cup {"idle"}, p : Providers \cup {None},
   at : {"idle", "lock", "expiry", "single", "begin", "load", "sending", "asked", "answered", "store",
         "read", "write", "saved", "persist", "compare", "done"},
   expiring : BOOLEAN, aborted : BOOLEAN, tok : Tokens, epoch : Nat \cup {None}, new : Tokens,
   doc : [Providers -> Tokens] \cup {None},
   write : Snapshots \cup {None}]

StateType ==
  /\ file \in [Providers -> Tokens]
  /\ issued \in [Providers -> 1..MaxTokens]
  /\ record \in [Providers -> [present : BOOLEAN, epoch : Nat]]
  /\ auth_operations \in [Providers -> Calls \cup {None}]
  /\ credential_operations \in Calls \cup {None}
  /\ cache \in CatalogFiles /\ models_file \in CatalogFiles
  /\ epochs \in [Providers -> Nat \cup {None}]
  /\ generation \in Nat
  /\ calls \in [Calls -> CallType]
  /\ torn \subseteq Providers /\ unsaved \in BOOLEAN

\* A place in the code is reached by the calls that go there.  Only a login can
\* be aborted, and what goes on is its blocking job.  Only a logout takes a
\* credential away, and a rotated credential comes of one the call was sent with.
PathInv(c) ==
  LET s == calls[c] IN
  /\ s.kind = "idle" <=> s.at = "idle"
  /\ s.kind # "idle" => s.p \in Providers
  /\ s.aborted => s.kind \in {"complete", "none"} /\ s.at \in {"read", "write", "persist", "compare"}
  /\ s.expiring => s.kind \in {"usage", "chat"}
  /\ s.at = "lock" => s.kind \in {"complete", "refresh", "logout"} \/ s.expiring
  /\ s.at = "expiry" => s.expiring
  /\ s.at = "single" => s.kind = "search" /\ ~s.expiring
  /\ s.at = "begin" => s.kind \in {"list", "search", "usage", "chat"} /\ ~s.expiring
  /\ s.at \in {"lock", "expiry", "single", "begin", "load", "sending", "asked"} => s.new = None
  /\ s.at = "store" => Asks(c) # "none"
  /\ s.at \in {"read", "write", "saved"} => Asks(c) \notin {"list", "search", "none"}
  /\ s.at = "write" => s.doc \in [Providers -> Tokens]
  /\ s.at \in {"read", "write"} /\ s.new = None => Asks(c) = "logout"
  /\ Asks(c) = "logout" => s.new = None
  /\ Asks(c) \in {"refresh", "usage", "chat"} /\ s.new # None => s.tok # None

\* The guards a call that was not aborted holds.
GuardInv(c) ==
  LET s == calls[c] IN
  ~s.aborted =>
    /\ s.at \in {"read", "write", "saved", "persist", "compare", "done"} => credential_operations = c
    /\ Asks(c) \in {"complete", "refresh", "logout"} /\ s.at \notin {"idle", "lock"}
       => auth_operations[s.p] = c

\* Somebody has changed p's credential and is about to record it.
Unrecorded(p) == \E c \in Calls : At(c, "saved") /\ calls[c].p = p

\* Between read and write nobody but the job of an aborted login writes, so the
\* document is the file still; what such a job changed is torn.
DocumentInv(c) ==
  At(c, "write") /\ ~calls[c].aborted =>
    \A q \in Providers \ {calls[c].p} : q \in torn \/ calls[c].doc[q] = file[q]

\* As long as the epoch a call captured stands, the credential it was sent with
\* is the stored one, or the one who changed it has not recorded it yet.  A call
\* that goes on to store a rotation has seen that nobody has.
CapturedInv(c) ==
  LET s == calls[c] IN
  /\ Asks(c) \in {"chat", "list", "search"} /\ s.at \in {"load", "sending", "asked", "answered", "store"}
     => s.epoch \in Nat /\ s.epoch <= record[s.p].epoch
  /\ Asks(c) \in {"chat", "list", "search"} /\ s.at \in {"sending", "asked", "answered", "store"}
     /\ s.epoch = record[s.p].epoch /\ s.p \notin torn => s.tok = file[s.p] \/ Unrecorded(s.p)
  /\ Asks(c) = "chat" /\ s.at \in {"read", "write"} /\ s.p \notin torn => s.tok = file[s.p]

\* A refresh keeps every logout out from its read of the credential to its save.
RefreshInv(c) ==
  LET s == calls[c] IN
  Asks(c) = "refresh" /\ s.at \in {"sending", "asked", "answered", "store", "read", "write"}
  /\ s.tok # None /\ s.p \notin torn => file[s.p] # None

\* A stored credential is recorded, or about to be; a logout about to be recorded
\* has left none.
RecordInv(p) ==
  p \notin torn =>
    /\ file[p] # None =>
         record[p].present \/ \E c \in Calls : At(c, "saved") /\ calls[c].p = p /\ Asks(c) # "logout"
    /\ \A c \in Calls : At(c, "saved") /\ calls[c].p = p /\ Asks(c) = "logout" => file[p] = None

\* A catalog listed in this process is not of a later epoch than the record, and
\* belongs to the stored credential until somebody changes it.
CatalogInv(p) ==
  epochs[p] # None =>
    /\ cache[p] # None
    /\ epochs[p] <= record[p].epoch
    /\ p \notin torn =>
         cache[p].tok = (IF file[p] = None THEN 0 ELSE file[p]) \/ Unrecorded(p)

\* A snapshot on its way to models.json is of the present generation or an
\* earlier one, and of the present one only if the catalogs are still the same.
SnapshotInv(c) ==
  calls[c].at \in {"persist", "compare"} =>
    /\ calls[c].write \in Snapshots
    /\ calls[c].write.generation <= generation
    /\ calls[c].write.generation = generation => Written(c) = cache

\* A file that is behind will be written again.
BehindInv ==
  \/ unsaved
  \/ models_file = cache
  \/ \E c \in Calls : At(c, "persist")
  \/ \E c \in Calls : At(c, "compare") /\ calls[c].write.generation # generation

CredentialInv ==
  /\ StateType
  /\ \A c \in Calls : PathInv(c) /\ GuardInv(c)
  /\ \A c \in Calls : DocumentInv(c) /\ CapturedInv(c) /\ RefreshInv(c)
  /\ \A p \in Providers : RecordInv(p) /\ CatalogInv(p)
  /\ \A c \in Calls : SnapshotInv(c)
  /\ BehindInv
================================================================================
