--------------------------- MODULE DappConnections ---------------------------
(***************************************************************************)
(* The connections of sites to accounts (DappStorage.ts) and the dapp      *)
(* methods that make, use and end them (ALEOContentServer.ts,              *)
(* ETHContentSever.ts, QTUMContentSever.ts). A connection is a row that a  *)
(* user's approval adds or renews; the approval runs in the confirmation   *)
(* queue, for which ConfirmService stands. A row is stale 12 hours later.  *)
(* The permission is the site's argument, shown to the user; a renewal     *)
(* that names none keeps the row's, even of a connection that had ended.   *)
(***************************************************************************)
EXTENDS Naturals, Sequences

CONSTANTS
  Sites,
  Coins,        \* "ALEO", "ETH", "QTUM"
  Accounts,
  Permissions,  \* what a site may decrypt; "NoDecrypt" is nothing
  Calls,        \* of dapps
  Past,         \* bound: the rows that an earlier use of the wallet left
  None          \* a site may name no permission: the code does not check it

VARIABLES
  rows,         \* the table dapp_history, in the order of insertion
  selected,     \* the account selected in the wallet
  pages,        \* the account an Aleo site's page was told
  calls,        \* what a call is about, and how far it came
  line, consent, effects, outcome,  \* the confirmation queue
  granted       \* history: the permissions the user's decisions left a key

Confirm == INSTANCE ConfirmService WITH Requests <- Calls

confirmVars == <<line, consent, effects, outcome>>
dappVars == <<rows, selected, pages, calls, confirmVars, granted>>

Keys == [site : Sites, coin : Coins, account : Accounts]
Key(s, coin, a) == [site |-> s, coin |-> coin, account |-> a]
Rows == [key : Keys, connected : BOOLEAN, fresh : BOOLEAN,
         permission : Permissions \cup {None}]

NoCall == [pc |-> "idle", method |-> "none", key |-> None,
           permission |-> None, found |-> FALSE]

DappInit ==
  /\ rows = Past
  /\ selected \in Accounts
  /\ pages = [s \in Sites |-> None]
  /\ calls = [c \in Calls |-> NoCall]
  /\ Confirm!Init
  /\ granted = [k \in Keys |-> {}]

(* A call that is "fetching" goes on in ScannerRegistration, for the       *)
(* account of its key; what any other ends with is the outcome of its      *)
(* confirmation, or makes no difference.                                   *)
Ended == {"ended", "fetching"}

At(c, pc) ==
  IF pc \in Ended
  THEN [NoCall EXCEPT !.pc = pc,
                      !.key = IF pc = "fetching" THEN calls[c].key ELSE None]
  ELSE [calls[c] EXCEPT !.pc = pc]
Telling(k) == IF k.coin = "ALEO" THEN [pages EXCEPT ![k.site] = k.account] ELSE pages

Goto(c, pc) == calls' = [calls EXCEPT ![c] = At(c, pc)]

Exists(k) == \E i \in DOMAIN rows : rows[i].key = k
(* The row that "find" gives: the oldest.                                  *)
RowOf(k) == rows[CHOOSE i \in DOMAIN rows :
  rows[i].key = k /\ \A j \in 1..(i - 1) : rows[j].key # k]
Connected(k) == Exists(k) /\ RowOf(k).connected
Live(k) == Connected(k) /\ RowOf(k).fresh

Disconnected(k) == [i \in DOMAIN rows |->
  IF rows[i].key = k THEN [rows[i] EXCEPT !.connected = FALSE] ELSE rows[i]]

(* What the user approved and is not written yet.                          *)
Approving(k, but) ==
  {calls[c].permission : c \in {d \in Calls \ {but} :
    /\ calls[d].key = k /\ d \in consent
    /\ calls[d].pc \in {"asking", "adding"}}}

-----------------------------------------------------------------------------
(* A call begins: with the account selected now, or with the one its page  *)
(* was told.                                                               *)

Begin(c, method, k, permission, pc) ==
  /\ calls[c].pc = "idle"
  /\ calls' = [calls EXCEPT ![c] = [pc |-> pc, method |-> method, key |-> k,
                                    permission |-> permission, found |-> FALSE]]
  /\ UNCHANGED <<rows, selected, pages, confirmVars, granted>>

(* connect; eth_requestAccounts                                            *)
Connect(c, s, coin, permission) ==
  Begin(c, "connect", Key(s, coin, selected), permission, "looking")

(* wallet_revokePermissions                                                *)
Revoke(c, s, coin) ==
  /\ coin # "ALEO"
  /\ Begin(c, "revoke", Key(s, coin, selected), None, "looking")

(* disconnect; requestRecords, requestRecordPlaintexts: only an Aleo page  *)
(* names the account.                                                      *)
Disconnect(c, s) ==
  /\ pages[s] # None
  /\ Begin(c, "disconnect", Key(s, "ALEO", pages[s]), None, "leaving")

Use(c, s) ==
  /\ pages[s] # None
  /\ Begin(c, "records", Key(s, "ALEO", pages[s]), None, "checking")

-----------------------------------------------------------------------------
(* A live connection answers a connect call. Otherwise the user is asked;  *)
(* eth_accounts also disconnects a stale one: it does not wait for that,   *)
(* but the database does it before any later write.                        *)
Look(c) ==
  LET k == calls[c].key IN
  /\ calls[c].pc = "looking"
  /\ IF Live(k)
     THEN /\ Goto(c, IF calls[c].method = "connect" THEN "ended" ELSE "leaving")
          /\ pages' = IF calls[c].method = "connect" THEN Telling(k) ELSE pages
          /\ UNCHANGED <<rows, confirmVars, granted>>
     ELSE /\ IF calls[c].method = "connect"
             THEN Confirm!Submit(c) /\ Goto(c, "asking")
             ELSE UNCHANGED confirmVars /\ Goto(c, "ended")
          /\ IF k.coin # "ALEO" /\ Connected(k)
             THEN /\ rows' = Disconnected(k)
                  /\ granted' = [granted EXCEPT ![k] = Approving(k, c)]
             ELSE UNCHANGED <<rows, granted>>
          /\ UNCHANGED pages
  /\ UNCHANGED selected

(* As if the account that was selected when the site asked were connected. *)
ConsentAsAsked(c) ==
  /\ calls[c].pc = "asking" /\ c \notin consent
  /\ Confirm!Consent(c)
  /\ granted' = [granted EXCEPT ![Key(calls[c].key.site, calls[c].key.coin, selected)] =
                   @ \cup {calls[c].permission}]
  /\ UNCHANGED <<rows, selected, pages, calls>>

(* The user approves the request that is shown, with the account that is   *)
(* selected by then.                                                       *)
Consent(c) ==
  LET k == Key(calls[c].key.site, calls[c].key.coin, selected) IN
  /\ calls[c].pc = "asking" /\ c \notin consent
  /\ Confirm!Consent(c)
  /\ calls' = [calls EXCEPT ![c].key = k]
  /\ granted' = [granted EXCEPT ![k] = @ \cup {calls[c].permission}]
  /\ UNCHANGED <<rows, selected, pages>>

(* As if the history were written when the user is asked.                  *)
CountWhenAsked(c) ==
  /\ calls[c].pc = "asking" /\ line # <<>> /\ c = Head(line)
  /\ calls' = [calls EXCEPT ![c].pc = "adding", ![c].found = Exists(calls[c].key)]
  /\ UNCHANGED <<rows, selected, pages, confirmVars, granted>>

(* addConnectHistory counts the rows first ...                             *)
Count(c) ==
  /\ calls[c].pc = "asking" /\ line # <<>> /\ c = Head(line)
  /\ Confirm!Perform
  /\ calls' = [calls EXCEPT ![c].pc = "adding", ![c].found = Exists(calls[c].key)]
  /\ UNCHANGED <<rows, selected, pages, granted>>

(* ... and then renews those it found, or adds one. A request that names   *)
(* no permission leaves a row the one it has.                              *)
Row(k, p) == [key |-> k, connected |-> TRUE, fresh |-> TRUE, permission |-> p]

Renewed(row, p) == Row(row.key, IF p # None THEN p ELSE row.permission)

Add(c) ==
  LET k == calls[c].key
      p == calls[c].permission
  IN /\ calls[c].pc = "adding"
     /\ rows' = IF calls[c].found
                THEN [i \in DOMAIN rows |->
                        IF rows[i].key = k THEN Renewed(rows[i], p) ELSE rows[i]]
                ELSE Append(rows, Row(k, p))
     /\ granted' = [granted EXCEPT ![k] =
          (@ \cap {p}) \cup Approving(k, c)]
     /\ Goto(c, "added")
     /\ UNCHANGED <<selected, pages, confirmVars>>

(* As if the user had to decide: a surface that is closed denies nothing.  *)
AnswerUnlessClosed(c) ==
  /\ line # <<>> /\ c = Head(line)
  /\ calls[c].pc = "added" /\ Confirm!Answer("approved")
  /\ Goto(c, "ended")
  /\ pages' = Telling(calls[c].key)
  /\ UNCHANGED <<rows, selected, granted>>

(* The queue answers; a confirmation can fail at any time.                 *)
Answer(c) ==
  /\ line # <<>> /\ c = Head(line)
  /\ \/ /\ calls[c].pc = "added" /\ Confirm!Answer("approved")
        /\ Goto(c, "ended")
        /\ pages' = Telling(calls[c].key)
     \/ /\ calls[c].pc = "asking" /\ c \notin consent
        /\ Confirm!Answer("denied") /\ Goto(c, "ended") /\ UNCHANGED pages
     \/ /\ calls[c].pc \in {"asking", "added"}
        /\ Confirm!Answer("error") /\ Goto(c, "ended") /\ UNCHANGED pages
  /\ UNCHANGED <<rows, selected, granted>>

(* The rows of Ethereum accounts hold an address with a checksum. The one  *)
(* to disconnect is in lower case, and so equals none of them.             *)
Leave(c) ==
  LET k == calls[c].key IN
  /\ calls[c].pc = "leaving"
  /\ IF k.coin = "ETH" THEN UNCHANGED <<rows, granted>>
     ELSE /\ rows' = Disconnected(k)
          /\ granted' = [granted EXCEPT ![k] = Approving(k, c)]
  /\ pages' = IF k.coin = "ALEO" THEN [pages EXCEPT ![k.site] = None]
              ELSE pages
  /\ Goto(c, "ended")
  /\ UNCHANGED <<selected, confirmVars>>

(* checkPermissionExist, which does not ask when the connection was made,  *)
(* but refuses one without a permission. decrypt reads the same row, and   *)
(* serves if that permits.                                                 *)
Permits(k) == Connected(k) /\ RowOf(k).permission # None

Check(c) ==
  /\ calls[c].pc = "checking"
  /\ Goto(c, IF Permits(calls[c].key) THEN "fetching" ELSE "ended")
  /\ UNCHANGED <<rows, selected, pages, confirmVars, granted>>

-----------------------------------------------------------------------------
(* Time passes, the user selects another account, the background stops.    *)

Expire(i) ==
  /\ i \in DOMAIN rows /\ rows[i].fresh
  /\ rows' = [rows EXCEPT ![i].fresh = FALSE]
  /\ UNCHANGED <<selected, pages, calls, confirmVars, granted>>

Select(a) ==
  /\ selected # a
  /\ selected' = a
  /\ UNCHANGED <<rows, pages, calls, confirmVars, granted>>

Stop ==
  /\ Confirm!Lose
  /\ calls' = [c \in Calls |->
       IF calls[c].pc \in Ended \cup {"idle"} THEN calls[c]
       ELSE At(c, "ended")]
  /\ UNCHANGED <<rows, selected, pages, granted>>

-----------------------------------------------------------------------------
(* Properties                                                              *)

DappTypeOK ==
  /\ rows \in Seq(Rows)
  /\ selected \in Accounts
  /\ pages \in [Sites -> Accounts \cup {None}]
  /\ granted \in [Keys -> SUBSET (Permissions \cup {None})]
  /\ \A c \in Calls : calls[c].pc \in {"idle", "ended"} \/ calls[c].key \in Keys

(* A site has at most one connection to an account, however many of its    *)
(* requests were approved, so that ending that one ends its access; and    *)
(* what a connection permits the user approved, for that very account, and *)
(* has not withdrawn since: neither of two approvals under way, nor one    *)
(* next to a disconnection, nor a renewal cut off by a restart gives more. *)
(* Only an approval that named no permission, and was not withdrawn, may   *)
(* give one that was.                                                      *)
ConnectionsAreGranted ==
  /\ \A i, j \in DOMAIN rows : rows[i].key = rows[j].key => i = j
  /\ \A i \in DOMAIN rows :
       rows[i].connected =>
         rows[i].permission \in granted[rows[i].key] \/ None \in granted[rows[i].key]
=============================================================================
