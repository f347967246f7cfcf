----------------------------- MODULE DappAccess -----------------------------
(***************************************************************************)
(* Dapps use the wallet: their connections (DappConnections) decide which  *)
(* of their calls may read records, and those calls, next to the wallet's  *)
(* own, keep the account registered with the scanner                       *)
(* (ScannerRegistration). Both live in the background and stop with it.    *)
(***************************************************************************)
EXTENDS DappConnections

CONSTANTS
  WalletCalls,   \* of the wallet's own pages, to the scanner
  MaxAttempts, MaxUuids,
  MaxStops       \* bound: stops of the background

ASSUME AccessAssumption ==
  /\ "ALEO" \in Coins /\ Coins \subseteq {"ALEO", "ETH", "QTUM"}
  /\ {MaxAttempts, MaxUuids, MaxStops} \subseteq Nat
  /\ None \notin Accounts \cup Permissions \cup Keys
  /\ Past \in Seq(Rows) /\ \A i \in DOMAIN Past : ~Past[i].connected
  /\ \A i, j \in DOMAIN Past : Past[i].key = Past[j].key => i = j
  /\ Calls \cap WalletCalls = {}

VARIABLES
  stored, issued, accepted, attempts, reregister, fetches,
  index, loaded, writes,   \* ScannerRegistration's
  stops

Scanner == INSTANCE ScannerRegistration WITH Calls <- Calls \cup WalletCalls

(* An approval that was carried out, or came to nothing.                   *)
Spent == [key |-> None, permission |-> None]

scannerVars == <<stored, issued, accepted, attempts, reregister, fetches,
                 index, loaded, writes>>
vars == <<dappVars, scannerVars, stops>>

Init == DappInit /\ Scanner!ScannerInit /\ stops = 0

(* The methods of the dapps that do not reach the scanner.                 *)
DappStart(c) ==
  /\ \E s \in Sites :
       \/ \E coin \in Coins, p \in Permissions \cup {None} :
            /\ coin # "ALEO" => p = None
            /\ Connect(c, s, coin, p)
       \/ \E coin \in Coins : Revoke(c, s, coin)
       \/ Disconnect(c, s)
       \/ Use(c, s)
  /\ UNCHANGED <<scannerVars, stops>>

DappStep(c) ==
  /\ \/ Look(c) \/ Count(c) \/ Add(c) \/ Answer(c) \/ Leave(c)
  /\ UNCHANGED <<scannerVars, stops>>

DappConsent(c) == Consent(c) /\ UNCHANGED <<scannerVars, stops>>

(* A dapp that may read records has the scanner asked for them.            *)
DappCheck(c) ==
  /\ Check(c)
  /\ IF calls'[c].pc = "fetching"
     THEN Scanner!Fetch(c, calls[c].key.account, "records")
     ELSE UNCHANGED scannerVars
  /\ UNCHANGED stops

(* A page of the wallet asks for records or for the scanner's progress.    *)
WalletStart(w) ==
  /\ \E a \in Accounts, kind \in {"records", "status"} : Scanner!Fetch(w, a, kind)
  /\ UNCHANGED <<dappVars, stops>>

ScannerStep(c) == Scanner!CallStep(c) /\ UNCHANGED <<dappVars, stops>>
LastPage(c) == Scanner!Accepted(c, TRUE) /\ UNCHANGED <<dappVars, stops>>
AccountStep(a) == Scanner!AccountStep(a) /\ UNCHANGED <<dappVars, stops>>

(* What nobody in the background decides.                                  *)
Outside ==
  /\ \/ /\ \E i \in DOMAIN rows : Expire(i)
        /\ UNCHANGED scannerVars
     \/ /\ \E a \in Accounts : Select(a)
        /\ UNCHANGED scannerVars
     \/ /\ \E u \in Scanner!Uuids : Scanner!Forget(u)
        /\ UNCHANGED dappVars
  /\ UNCHANGED stops

BackgroundStop ==
  /\ stops < MaxStops
  /\ Stop /\ Scanner!ScannerStop
  /\ stops' = stops + 1

Next ==
  \/ \E c \in Calls : DappStart(c) \/ DappStep(c) \/ DappConsent(c) \/ DappCheck(c)
  \/ \E w \in WalletCalls : WalletStart(w)
  \/ \E c \in Calls \cup WalletCalls : ScannerStep(c)
  \/ \E a \in Accounts : AccountStep(a)
  \/ Outside
  \/ BackgroundStop

Spec == Init /\ [][Next]_vars

(* The background goes on with what it began, the requests it sends end,   *)
(* the user answers what is shown, and the scanner's pages end.            *)
Fairness ==
  /\ \A c \in Calls : WF_vars(DappStep(c)) /\ WF_vars(DappCheck(c))
  /\ \A c \in Calls \cup WalletCalls :
       WF_vars(ScannerStep(c)) /\ SF_vars(LastPage(c))
  /\ \A a \in Accounts : WF_vars(AccountStep(a))

FairSpec == Spec /\ Fairness

-----------------------------------------------------------------------------
(* Properties                                                              *)

(* Every variable has its type, and a call asks the scanner only if its    *)
(* site was permitted to read records, and only for the account of that    *)
(* connection.                                                             *)
TypeOK ==
  /\ DappTypeOK /\ Scanner!ScannerTypeOK
  /\ stops \in 0..MaxStops
  /\ \A c \in Calls :
       /\ (fetches[c].pc # "idle") <=> (calls[c].pc = "fetching")
       /\ fetches[c].pc \notin {"idle", "ended"} =>
            fetches[c].account = calls[c].key.account

(* The user's view of the connections: approvals, each carried out at most *)
(* once and as it was given, what the connections permit, or permitted,    *)
(* and under which of them a call reads records.                           *)
Approved(c) ==
  IF c \notin consent THEN None
  ELSE IF calls[c].pc \in {"asking", "adding"}
  THEN [key |-> calls[c].key, permission |-> calls[c].permission]
  ELSE Spent
Permitted(k) == IF Exists(k) THEN RowOf(k).permission ELSE None
Reading(c) == IF calls[c].pc = "fetching" THEN calls[c].key ELSE None

Grants == INSTANCE DappGrants WITH
  approved <- [c \in Calls |-> Approved(c)],
  connected <- {k \in Keys : Connected(k)},
  permitted <- [k \in Keys |-> Permitted(k)],
  reading <- [c \in Calls |-> Reading(c)]

(* A connection changes only by an approval that was not carried out yet,  *)
(* to what that said, or ends; and a dapp reads records under a connection *)
(* that exists and permits something then, whatever other calls, pages and *)
(* restarts do between the awaits.                                         *)
ImplementsGrants == Grants!Spec

(* The wallet's registrations survive whatever dapps and pages ask for.    *)
KeepsRegistration == Scanner!KeepsRegistration

(* Every call of a dapp, and every request to the scanner, ends (a call is *)
(* made once): none is left waiting for a confirmation, a registration or  *)
(* a re-registration that another call started, also when that one fails.  *)
CallsEnd ==
  <>[]/\ \A c \in Calls : calls[c].pc \in Ended \cup {"idle"}
      /\ \A c \in Calls \cup WalletCalls :
           fetches[c].pc \in {"idle", "ended"}
=============================================================================
