------------------------- MODULE ScannerRegistration -------------------------
(***************************************************************************)
(* The wallet registers an account with the record scanner, which then     *)
(* knows it by a uuid (ProvableScannerService.ts, ScannerStorage.ts,       *)
(* PopupServer.ts). The scanner may forget a uuid: it answers 422, and the *)
(* wallet registers again. Registrations and re-registrations are shared   *)
(* by the calls that need them while they are under way. Whose a uuid is   *)
(* an index in memory says, which is loaded from the store when it is      *)
(* needed first, and hears of each later write two awaits after it.        *)
(***************************************************************************)
EXTENDS Naturals, Sequences

CONSTANTS
  Accounts, Calls,
  MaxAttempts,   \* MAX_UUID_REREGISTER_ATTEMPTS
  MaxUuids       \* bound: registrations

VARIABLES
  stored,        \* the uuid of an account, 0 for none
  issued,        \* the uuids the scanner gave, in order
  accepted,      \* those it has not forgotten
  attempts,      \* uuidReregisterAttempts
  reregister,    \* the re-registration of an account that is under way
  fetches,       \* the requests of the calls
  index,         \* uuidOwnerIndex: an account's uuid in it, 0 for none
  loaded,        \* whether there is one
  writes         \* of an account's uuid, stored but not yet in the index

indexVars == <<index, loaded, writes>>
scannerVars ==
  <<stored, issued, accepted, attempts, reregister, fetches, indexVars>>

Uuids == 1..MaxUuids

NoFetch == [pc |-> "idle", kind |-> "none", account |-> 0, uuid |-> 0,
            retried |-> FALSE]
NoReregistration == [stage |-> "none", stale |-> 0]

ScannerInit ==
  /\ stored = [a \in Accounts |-> 0]
  /\ issued = 0
  /\ accepted = {}
  /\ attempts = [u \in Uuids |-> 0]
  /\ reregister = [a \in Accounts |-> NoReregistration]
  /\ fetches = [c \in Calls |-> NoFetch]
  /\ index = [a \in Accounts |-> 0]
  /\ loaded = FALSE
  /\ writes = [a \in Accounts |-> <<>>]

(* Answered, failed or lost: what a call ended with makes no difference.   *)
Over == [NoFetch EXCEPT !.pc = "ended"]

At(c, a, pc) == fetches[c].account = a /\ fetches[c].pc = pc

-----------------------------------------------------------------------------
(* The index and the store                                                 *)

(* The uuid of an account for which findScannerUuidOwner gives it.         *)
Known(a) == IF loaded THEN index[a] ELSE stored[a]

(* A lookup loads the index.                                               *)
LookUp == loaded' = TRUE /\ index' = [a \in Accounts |-> Known(a)]

(* What was written, and whether what wrote it waits: a registration does, *)
(* and a re-registration that gives up.                                    *)
Write(u, awaited) == [uuid |-> u, awaited |-> awaited]

(* handleUuidNotRegistered: looks up the owner of uuid u, and removes what *)
(* is stored of it by then.                                                *)
NotRegistered(u, awaited) ==
  LET owners == {a \in Accounts : Known(a) = u} IN
  /\ LookUp
  /\ stored' = [a \in Accounts |-> IF a \in owners THEN 0 ELSE stored[a]]
  /\ writes' = [a \in Accounts |->
       IF a \in owners THEN Append(writes[a], Write(0, awaited)) ELSE writes[a]]

-----------------------------------------------------------------------------
(* ensureScannerRegistration, or scannerGetSyncStatus                      *)
Fetch(c, a, kind) ==
  /\ fetches[c].pc = "idle"
  /\ fetches' = [fetches EXCEPT ![c] =
       IF stored[a] = 0 /\ kind = "status" THEN Over
       ELSE [pc |-> IF stored[a] # 0 THEN "ready" ELSE "viewKey", kind |-> kind,
             account |-> a, uuid |-> stored[a], retried |-> FALSE]]
  /\ UNCHANGED <<stored, issued, accepted, attempts, reregister, indexVars>>

(* scannerRegister: joins the registration under way, or starts one.       *)
Register(c) ==
  /\ fetches[c].pc = "viewKey"
  /\ fetches' = [fetches EXCEPT ![c].pc = "registering"]
  /\ UNCHANGED <<stored, issued, accepted, attempts, reregister, indexVars>>

(* A registration is under way, and has not stored its uuid yet.           *)
Storing(a) == \E i \in DOMAIN writes[a] : writes[a][i].uuid # 0
Registering(a) ==
  /\ \/ reregister[a].stage = "registering"
     \/ \E c \in Calls : At(c, a, "registering")
  /\ ~Storing(a)

(* A fetch once the re-registration it waits for ended with uuid u, 0 if   *)
(* it failed. The records are left for the next call; the status is asked  *)
(* again. A fetch that only waited with its request goes on in any case.   *)
Released(f, a, u, now) ==
  IF f.account # a THEN f
  ELSE IF f.pc = "joined"
    THEN IF f.kind = "status" /\ u # 0
         THEN [f EXCEPT !.pc = "posted", !.uuid = u, !.retried = TRUE]
         ELSE Over
  ELSE IF f.pc = "waiting"
    THEN [f EXCEPT !.pc = "posted",
                   !.uuid = IF u # 0 THEN u ELSE IF now # 0 THEN now ELSE @]
  ELSE f

(* setScannerUuid stores the uuid first.                                   *)
RegisterSucceeds(a) ==
  LET u == issued + 1 IN
  /\ Registering(a) /\ u \in Uuids
  /\ issued' = u /\ accepted' = accepted \cup {u}
  /\ stored' = [stored EXCEPT ![a] = u]
  /\ writes' = [writes EXCEPT ![a] = Append(@, Write(u, TRUE))]
  /\ UNCHANGED <<attempts, reregister, fetches, index, loaded>>

(* The calls at the registration, which ended with uuid u, and those at    *)
(* the re-registration, if it ended with it.                               *)
Registered(a, u, again) ==
  fetches' = [c \in Calls |->
    IF At(c, a, "registering")
    THEN IF u # 0 THEN [fetches[c] EXCEPT !.pc = "ready", !.uuid = u] ELSE Over
    ELSE IF again THEN Released(fetches[c], a, u, stored[a]) ELSE fetches[c]]

EndReregister(a, again) ==
  reregister' = IF again THEN [reregister EXCEPT ![a] = NoReregistration]
                ELSE reregister

(* The index hears of the oldest write it has not heard of, which ends the *)
(* registration or the failed re-registration that wrote it.               *)
Indexed(a) ==
  LET w == Head(writes[a])
      again == reregister[a].stage = IF w.uuid # 0 THEN "registering" ELSE "clearing"
  IN /\ writes[a] # <<>>
     /\ writes' = [writes EXCEPT ![a] = Tail(@)]
     /\ index' = IF loaded THEN [index EXCEPT ![a] = w.uuid] ELSE index
     /\ IF w.awaited
        THEN /\ EndReregister(a, again)
             /\ IF w.uuid # 0 THEN Registered(a, w.uuid, again)
                ELSE fetches' = [c \in Calls |-> Released(fetches[c], a, 0, stored[a])]
             /\ attempts' = IF w.uuid # 0 /\ again
                  THEN [attempts EXCEPT ![reregister[a].stale] = 0] ELSE attempts
        ELSE UNCHANGED <<attempts, reregister, fetches>>
     /\ UNCHANGED <<stored, issued, accepted, loaded>>

(* A re-registration gives up its uuid. It still has to wait for the index *)
(* if that knew the uuid, and ends if not.                                 *)
GivesUp(a) ==
  LET u == reregister[a].stale IN
  /\ NotRegistered(u, TRUE)
  /\ reregister' = [reregister EXCEPT ![a] =
       IF Known(a) = u THEN [@ EXCEPT !.stage = "clearing"] ELSE NoReregistration]

RegisterFails(a) ==
  LET again == reregister[a].stage = "registering" IN
  /\ Registering(a)
  /\ IF again THEN GivesUp(a) ELSE UNCHANGED <<stored, reregister, indexVars>>
  /\ Registered(a, 0, again /\ Known(a) # reregister[a].stale)
  /\ UNCHANGED <<issued, accepted, attempts>>

(* waitForReregistrationIfInFlight, for the owner of the uuid.             *)
Post(c) ==
  LET a == fetches[c].account IN
  /\ fetches[c].pc = "ready"
  /\ LookUp
  /\ fetches' = [fetches EXCEPT ![c].pc =
       IF Known(a) = fetches[c].uuid /\ reregister[a].stage # "none"
       THEN "waiting" ELSE "posted"]
  /\ UNCHANGED <<stored, issued, accepted, attempts, reregister, writes>>

(* An answer: the status or the last page, or a page that is not the last. *)
Accepted(c, last) ==
  /\ fetches[c].pc = "posted" /\ fetches[c].uuid \in accepted
  /\ \/ last /\ fetches' = [fetches EXCEPT ![c] = Over]
     \/ /\ ~last /\ fetches[c].kind = "records"
        /\ fetches' = [fetches EXCEPT ![c].pc = "ready"]
  /\ UNCHANGED <<stored, issued, accepted, attempts, reregister, indexVars>>

(* As if every failure were a refusal of the uuid.                         *)
FailsAsRefused(c) ==
  /\ fetches[c].pc = "posted"
  /\ NotRegistered(fetches[c].uuid, FALSE)
  /\ fetches' = [fetches EXCEPT ![c] = Over]
  /\ UNCHANGED <<issued, accepted, attempts, reregister>>

(* A request fails, or there is no view key to register with.              *)
Fails(c) ==
  /\ fetches[c].pc \in {"viewKey", "posted"}
  /\ fetches' = [fetches EXCEPT ![c] = Over]
  /\ UNCHANGED <<stored, issued, accepted, attempts, reregister, indexVars>>

(* A 422, and reregisterScannerForUuid: the attempts are used up, the uuid *)
(* is nobody's, or a re-registration is joined or started.                 *)
Rejected(c) ==
  LET u == fetches[c].uuid
      a == fetches[c].account
      spent == fetches[c].retried \/ attempts[u] >= MaxAttempts
  IN /\ fetches[c].pc = "posted" /\ u \notin accepted
     /\ \/ /\ spent
           /\ NotRegistered(u, FALSE)
           /\ fetches' = [fetches EXCEPT ![c] = Over]
           /\ UNCHANGED <<attempts, reregister>>
        \/ /\ ~spent
           /\ LookUp
           /\ attempts' = [attempts EXCEPT ![u] = @ + 1]
           /\ IF Known(a) # u
              THEN /\ fetches' = [fetches EXCEPT ![c] = Over]
                   /\ UNCHANGED reregister
              ELSE /\ fetches' = [fetches EXCEPT ![c].pc = "joined"]
                   /\ reregister' = IF reregister[a].stage # "none" THEN reregister
                        ELSE [reregister EXCEPT ![a] =
                                [stage |-> "resolving", stale |-> u]]
           /\ UNCHANGED <<stored, writes>>
     /\ UNCHANGED <<issued, accepted>>

(* resolveRegisterRequest: the view key, unless the wallet is locked or    *)
(* the account is gone.                                                    *)
Resolved(a) ==
  /\ reregister[a].stage = "resolving"
  /\ reregister' = [reregister EXCEPT ![a].stage = "registering"]
  /\ UNCHANGED <<stored, issued, accepted, attempts, fetches, indexVars>>

Unresolved(a) ==
  /\ reregister[a].stage = "resolving"
  /\ GivesUp(a)
  /\ fetches' = IF Known(a) = reregister[a].stale THEN fetches
                ELSE [c \in Calls |-> Released(fetches[c], a, 0, stored[a])]
  /\ UNCHANGED <<issued, accepted, attempts>>

Forget(u) ==
  /\ u \in accepted
  /\ accepted' = accepted \ {u}
  /\ UNCHANGED <<stored, issued, attempts, reregister, fetches, indexVars>>

(* The background stops, and the index is gone. A registration under way   *)
(* may have been made, for nobody.                                         *)
ScannerStop ==
  /\ \/ UNCHANGED <<issued, accepted>>
     \/ /\ \E a \in Accounts : Registering(a)
        /\ issued + 1 \in Uuids
        /\ issued' = issued + 1 /\ accepted' = accepted \cup {issued + 1}
  /\ attempts' = [u \in Uuids |-> 0]
  /\ reregister' = [a \in Accounts |-> NoReregistration]
  /\ fetches' = [c \in Calls |->
       IF fetches[c].pc = "idle" THEN fetches[c] ELSE Over]
  /\ index' = [a \in Accounts |-> 0]
  /\ loaded' = FALSE
  /\ writes' = [a \in Accounts |-> <<>>]
  /\ UNCHANGED stored

CallStep(c) ==
  \/ Register(c) \/ Post(c) \/ Fails(c) \/ Rejected(c)
  \/ \E last \in BOOLEAN : Accepted(c, last)

AccountStep(a) ==
  \/ RegisterSucceeds(a) \/ RegisterFails(a) \/ Indexed(a)
  \/ Resolved(a) \/ Unresolved(a)

-----------------------------------------------------------------------------
(* Properties                                                              *)

ScannerTypeOK ==
  /\ stored \in [Accounts -> 0..issued]
  /\ issued \in 0..MaxUuids /\ accepted \subseteq 1..issued
  /\ attempts \in [Uuids -> 0..MaxAttempts]
  /\ \A a \in Accounts : reregister[a].stage # "none" =>
       reregister[a].stale \in 1..issued
  /\ index \in [Accounts -> 0..issued] /\ loaded \in BOOLEAN
  /\ writes \in [Accounts -> Seq([uuid : 0..MaxUuids, awaited : BOOLEAN])]
  /\ \A c \in Calls :
       /\ fetches[c].pc \in {"joined", "waiting"} =>
            reregister[fetches[c].account].stage # "none"
       /\ fetches[c].pc \in {"ready", "posted"} => fetches[c].uuid \in 1..issued

(* The wallet gives up a registration only once the scanner refused it or  *)
(* for a newer one, however many calls meet the refusal of an old uuid,    *)
(* late or with their attempts used up, while others register. One that is *)
(* stored and not in the index yet may be lost: the refusal of the uuid    *)
(* before it finds the account there, and removes what is stored.          *)
KeepsRegistration ==
  [][\A a \in Accounts :
       /\ stored[a] \in accepted /\ writes[a] = <<>> => stored'[a] # 0
       /\ stored'[a] # 0 => stored'[a] >= stored[a]]_scannerVars
=============================================================================
