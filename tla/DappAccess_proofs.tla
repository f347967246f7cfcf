-------------------------- MODULE DappAccess_proofs --------------------------
(***************************************************************************)
(* Proofs about DappAccess, for any sites, coins, accounts and calls, and  *)
(* any number of stops: connections are what the user granted, and a       *)
(* registration with the scanner is given up only once it was refused.     *)
(* The invariant has a part about each of the two (DappInv, ScannerInv).   *)
(*                                                                         *)
(* DappInv says who may be writing a connection (the first of the queue    *)
(* alone), that it still knows whether there is one, and that what the     *)
(* user approved and is not written is still granted. On it stand the      *)
(* types, for which the calls and their requests to the scanner must keep  *)
(* step (Tied), and the last part, where every step is shown to be one of  *)
(* DappGrants or to change nothing of it.                                  *)
(***************************************************************************)
EXTENDS DappAccess, SequenceTheorems, TLAPS

-----------------------------------------------------------------------------
(* The connections                                                         *)

CallPcs == {"idle", "looking", "asking", "adding", "added", "leaving",
            "checking", "fetching", "ended"}
Methods == {"none", "connect", "revoke", "disconnect", "records"}
Granted == Permissions \cup {None}

CallRecords == [pc : CallPcs, method : Methods, key : Keys \cup {None},
                permission : Granted, found : BOOLEAN]

Typed ==
  /\ rows \in Seq(Rows)
  /\ selected \in Accounts
  /\ pages \in [Sites -> Accounts \cup {None}]
  /\ calls \in [Calls -> CallRecords]
  /\ line \in Seq(Calls)
  /\ granted \in [Keys -> SUBSET Granted]

(* What a call is about.                                                   *)
Keyed == \A c \in Calls :
  calls[c].pc \notin {"idle", "ended"} => calls[c].key \in Keys

(* What is written is asked for and consented to by the first of the queue *)
(* and matches the rows; what is not yet asked for has no consent.         *)
Writing == \A c \in Calls : calls[c].pc = "adding" =>
  /\ c \in consent /\ line # <<>> /\ c = Head(line)
  /\ calls[c].found <=> Exists(calls[c].key)

Consented == \A c \in Calls :
  /\ calls[c].pc \in {"idle", "looking"} => c \notin consent
  /\ calls[c].pc \in {"asking", "adding"} /\ c \in consent =>
       calls[c].permission \in granted[calls[c].key]

DappInv == Typed /\ Keyed /\ Writing /\ Consented /\ ConnectionsAreGranted

LEMMA DappInvInit == DappInit => DappInv
<1> SUFFICES ASSUME DappInit PROVE DappInv
  OBVIOUS
<1>0. rows \in Seq(Rows) /\ \A i \in DOMAIN rows : ~rows[i].connected
  BY AccessAssumption DEF DappInit
<1>1. NoCall \in CallRecords /\ NoCall.pc = "idle"
  BY DEF NoCall, CallRecords, CallPcs, Methods, Granted
<1>2. Typed
  BY <1>0, <1>1 DEF Typed, DappInit, Confirm!Init
<1>3. Keyed /\ Writing /\ Consented
  BY <1>1 DEF Keyed, Writing, Consented, DappInit, Confirm!Init
<1>4. ConnectionsAreGranted
  BY <1>0, AccessAssumption DEF ConnectionsAreGranted, DappInit
<1> QED
  BY <1>2, <1>3, <1>4 DEF DappInv

-----------------------------------------------------------------------------
(* A call begins, with an account of the wallet.                           *)
LEMMA BeginKeeps ==
  ASSUME DappInv, NEW c \in Calls, NEW method \in Methods, NEW k \in Keys,
         NEW permission \in Granted,
         NEW pc \in {"looking", "leaving", "checking"},
         Begin(c, method, k, permission, pc)
  PROVE  DappInv'
<1> DEFINE r == [pc |-> pc, method |-> method, key |-> k,
                 permission |-> permission, found |-> FALSE]
<1>1. /\ r \in CallRecords /\ r.pc = pc /\ r.key = k
      /\ r.method = method /\ r.permission = permission
  BY DEF CallRecords, CallPcs
<1>2. /\ calls[c].pc = "idle" /\ calls' = [calls EXCEPT ![c] = r]
      /\ UNCHANGED <<rows, selected, pages, line, consent, granted>>
  BY DEF Begin, confirmVars
<1> HIDE DEF r
<1>3. Typed'
  BY <1>1, <1>2 DEF DappInv, Typed
<1>4. Keyed'
  BY <1>1, <1>2 DEF DappInv, Typed, Keyed
<1>5. Writing'
  BY <1>1, <1>2 DEF DappInv, Typed, Writing, Exists
<1>6. Consented'
  BY <1>1, <1>2 DEF DappInv, Typed, Consented
<1>7. ConnectionsAreGranted'
  BY <1>2 DEF DappInv, ConnectionsAreGranted
<1> QED
  BY <1>3, <1>4, <1>5, <1>6, <1>7 DEF DappInv

(* How far a call came.                                                    *)
LEMMA AtFact ==
  ASSUME Typed, NEW c \in Calls, NEW pc \in CallPcs
  PROVE  /\ At(c, pc) \in CallRecords /\ At(c, pc).pc = pc
         /\ pc # "ended" => At(c, pc).key = calls[c].key
         /\ pc \notin Ended => /\ At(c, pc).permission = calls[c].permission
                              /\ At(c, pc).found = calls[c].found
<1>1. CASE pc \in Ended
  BY <1>1 DEF Typed, At, Ended, NoCall, CallRecords, CallPcs, Methods, Granted
<1>2. CASE pc \notin Ended
  BY <1>2 DEF Typed, At, CallRecords
<1> QED
  BY <1>1, <1>2

LEMMA KeyFact ==
  ASSUME NEW s \in Sites, NEW coin \in Coins, NEW a \in Accounts
  PROVE  Key(s, coin, a) \in Keys
  BY DEF Key, Keys

(* Ending a connection takes nothing from the table.                       *)
LEMMA DisconnectedFact ==
  ASSUME Typed, NEW k \in Keys
  PROVE  LET new == Disconnected(k) IN
         /\ new \in Seq(Rows) /\ DOMAIN new = DOMAIN rows
         /\ \A i \in DOMAIN rows :
              /\ new[i].key = rows[i].key /\ new[i].permission = rows[i].permission
              /\ new[i].connected => rows[i].connected /\ rows[i].key # k
<1> DEFINE new == Disconnected(k)
<1>1. rows \in [1..Len(rows) -> Rows] /\ Len(rows) \in Nat /\ DOMAIN rows = 1..Len(rows)
  BY DEF Typed
<1>2. ASSUME NEW i \in DOMAIN rows
      PROVE  /\ new[i] \in Rows
             /\ new[i].key = rows[i].key /\ new[i].permission = rows[i].permission
             /\ new[i].connected => rows[i].connected /\ rows[i].key # k
  BY <1>1, <1>2 DEF Disconnected, Rows
<1>3. new \in [1..Len(rows) -> Rows]
  BY <1>1, <1>2 DEF Disconnected
<1>4. new \in Seq(Rows) /\ DOMAIN new = DOMAIN rows
  BY <1>1, <1>3
<1> QED
  BY <1>2, <1>4

(* What is left granted was approved by other calls under way.             *)
LEMMA ApprovingFact ==
  ASSUME Typed, Keyed, NEW k \in Keys, NEW c \in Calls
  PROVE  /\ Approving(k, c) \subseteq Granted
         /\ \A d \in Calls : /\ d # c /\ calls[d].key = k /\ d \in consent
                             /\ calls[d].pc \in {"asking", "adding"}
              => calls[d].permission \in Approving(k, c)
  BY DEF Typed, Keyed, Approving, CallRecords

(* A call that is not to be written ends the connection: nothing else is   *)
(* granted any more than what is being approved.                           *)
LEMMA EndingKeeps ==
  ASSUME DappInv, NEW c \in Calls, NEW r \in CallRecords,
         LET k == calls[c].key IN
           /\ k \in Keys
           /\ rows' = Disconnected(k)
           /\ granted' = [granted EXCEPT ![k] = Approving(k, c)],
         calls' = [calls EXCEPT ![c] = r],
         r.pc # "adding", r.pc \notin {"idle", "ended"} => r.key \in Keys,
         calls[c].pc \in {"looking", "leaving"},
         r.pc \in {"asking", "ended"},
         r.pc = "asking" => calls[c].pc = "looking",
         UNCHANGED <<selected, consent>>,
         pages' \in [Sites -> Accounts \cup {None}],
         line' \in Seq(Calls), line # <<>> => line' # <<>> /\ Head(line') = Head(line)
  PROVE  DappInv'
<1> DEFINE k == calls[c].key
<1>0. Typed
  BY DEF DappInv
<1>1. /\ rows' \in Seq(Rows) /\ DOMAIN rows' = DOMAIN rows
      /\ \A i \in DOMAIN rows :
           /\ rows'[i].key = rows[i].key /\ rows'[i].permission = rows[i].permission
           /\ rows'[i].connected => rows[i].connected /\ rows[i].key # k
  BY <1>0, DisconnectedFact
<1>2. /\ Approving(k, c) \subseteq Granted
      /\ \A d \in Calls : /\ d # c /\ calls[d].key = k /\ d \in consent
                          /\ calls[d].pc \in {"asking", "adding"}
           => calls[d].permission \in Approving(k, c)
  BY <1>0, ApprovingFact DEF DappInv
<1>3. /\ granted' \in [Keys -> SUBSET Granted]
      /\ \A q \in Keys : q # k => granted'[q] = granted[q]
      /\ granted'[k] = Approving(k, c)
  BY <1>0, <1>2 DEF Typed
<1>4. /\ calls' \in [Calls -> CallRecords] /\ calls'[c] = r
      /\ \A d \in Calls : d # c => calls'[d] = calls[d]
  BY <1>0 DEF Typed
<1>5. \A q : Exists(q) <=> Exists(q)'
  BY <1>1 DEF Exists
<1>6. Typed'
  BY <1>0, <1>1, <1>3, <1>4 DEF Typed
<1>7. Keyed'
  BY <1>4 DEF DappInv, Keyed
<1>8. Writing'
  <2> SUFFICES ASSUME NEW d \in Calls, calls'[d].pc = "adding"
               PROVE  /\ d \in consent' /\ line' # <<>> /\ d = Head(line')
                      /\ calls'[d].found <=> Exists(calls[d].key)'
    BY DEF Writing
  <2>1. d # c /\ calls'[d] = calls[d]
    BY <1>4
  <2>2. Exists(calls[d].key)' <=> Exists(calls[d].key)
    BY <1>1, <2>1 DEF Exists
  <2>3. calls[d].pc = "adding" /\ UNCHANGED consent
    BY <2>1
  <2> QED
    BY <2>1, <2>2, <2>3 DEF DappInv, Writing
<1>9. Consented'
  <2> SUFFICES ASSUME NEW d \in Calls
               PROVE  /\ calls'[d].pc \in {"idle", "looking"} => d \notin consent
                      /\ calls'[d].pc \in {"asking", "adding"} /\ d \in consent =>
                           calls'[d].permission \in granted'[calls'[d].key]
    BY DEF Consented
  <2>1. CASE d = c
    BY <1>4, <2>1 DEF DappInv, Consented
  <2>2. CASE d # c
    <3>1. calls'[d] = calls[d]
      BY <1>4, <2>2
    <3> QED
      BY <1>2, <1>3, <2>2, <3>1 DEF DappInv, Consented, Keyed
  <2> QED
    BY <2>1, <2>2
<1>10. ConnectionsAreGranted'
  <2>1. ASSUME NEW i \in DOMAIN rows, rows'[i].connected
        PROVE  rows'[i].permission \in granted'[rows'[i].key] \/ None \in granted'[rows'[i].key]
    <3>0. rows[i] \in Rows
      BY <1>0, <2>1 DEF Typed
    <3>1. /\ rows[i].key \in Keys \ {k} /\ rows'[i].key = rows[i].key
          /\ rows'[i].permission = rows[i].permission /\ rows[i].connected
      BY <1>1, <2>1, <3>0 DEF Rows
    <3>2. granted'[rows[i].key] = granted[rows[i].key]
      BY <1>0, <3>1 DEF Typed
    <3> QED
      BY <3>1, <3>2 DEF DappInv, ConnectionsAreGranted
  <2> QED
    BY <1>1, <2>1 DEF DappInv, ConnectionsAreGranted
<1> QED
  BY <1>6, <1>7, <1>8, <1>9, <1>10 DEF DappInv

(* A call goes on, and the rows and what is granted stay.                  *)
LEMMA GoingOnKeeps ==
  ASSUME DappInv, NEW c \in Calls, NEW r \in CallRecords,
         calls' = [calls EXCEPT ![c] = r],
         calls[c].pc # "idle",
         r.pc \in {"asking", "leaving", "fetching", "ended"},
         r.pc # "ended" => r.key \in Keys,
         r.pc = "asking" => calls[c].pc = "looking",
         UNCHANGED <<rows, granted, selected, consent>>,
         pages' \in [Sites -> Accounts \cup {None}],
         line' \in Seq(Calls),
         \A d \in Calls :
           calls[d].pc = "adding" /\ d # c /\ line # <<>> /\ d = Head(line) =>
             line' # <<>> /\ d = Head(line')
  PROVE  DappInv'
<1>0. Typed
  BY DEF DappInv
<1>1. /\ calls' \in [Calls -> CallRecords] /\ calls'[c] = r
      /\ \A d \in Calls : d # c => calls'[d] = calls[d]
  BY <1>0 DEF Typed
<1>2. Typed'
  BY <1>0, <1>1 DEF Typed
<1>3. Keyed'
  BY <1>1 DEF DappInv, Keyed
<1>4. Writing'
  BY <1>1 DEF DappInv, Writing, Exists
<1>5. Consented'
  BY <1>1 DEF DappInv, Consented
<1>6. ConnectionsAreGranted'
  BY DEF DappInv, ConnectionsAreGranted
<1> QED
  BY <1>2, <1>3, <1>4, <1>5, <1>6 DEF DappInv

LEMMA TellingFact ==
  ASSUME Typed, NEW k \in Keys
  PROVE  Telling(k) \in [Sites -> Accounts \cup {None}]
  BY DEF Typed, Telling, Keys

LEMMA SubmitFact ==
  ASSUME Typed, NEW c \in Calls, Confirm!Submit(c)
  PROVE  /\ line' \in Seq(Calls) /\ consent' = consent
         /\ line # <<>> => line' # <<>> /\ Head(line') = Head(line)
  BY DEF Typed, Confirm!Submit

LEMMA LookKeeps ==
  ASSUME DappInv, NEW c \in Calls, Look(c)
  PROVE  DappInv'
<1> DEFINE k == calls[c].key
<1>0. Typed /\ k \in Keys /\ calls[c].pc = "looking"
  BY DEF DappInv, Keyed, Look
<1>1. CASE Live(k)
  <2> DEFINE pc == IF calls[c].method = "connect" THEN "ended" ELSE "leaving"
  <2>1. /\ At(c, pc) \in CallRecords /\ At(c, pc).pc = pc
        /\ pc = "leaving" => At(c, pc).key = k
    BY <1>0, AtFact DEF CallPcs, Ended
  <2>2. /\ calls' = [calls EXCEPT ![c] = At(c, pc)]
        /\ UNCHANGED <<rows, granted, selected, consent, line>>
        /\ pages' = Telling(k) \/ pages' = pages
    BY <1>1 DEF Look, Goto, confirmVars
  <2>3. pages' \in [Sites -> Accounts \cup {None}]
    BY <1>0, <2>2, TellingFact DEF Typed
  <2>4. line' \in Seq(Calls)
    BY <1>0, <2>2 DEF Typed
  <2> QED
    BY <1>0, <2>1, <2>2, <2>3, <2>4, GoingOnKeeps
<1>2. CASE ~Live(k)
  <2> DEFINE pc == IF calls[c].method = "connect" THEN "asking" ELSE "ended"
  <2>1. /\ At(c, pc) \in CallRecords /\ At(c, pc).pc = pc
        /\ pc = "asking" => At(c, pc).key = k
    BY <1>0, AtFact DEF CallPcs, Ended
  <2>2. /\ calls' = [calls EXCEPT ![c] = At(c, pc)]
        /\ Confirm!Submit(c) \/ UNCHANGED <<line, consent>>
        /\ UNCHANGED <<selected, pages>>
    BY <1>2 DEF Look, Goto, confirmVars
  <2>3. /\ line' \in Seq(Calls) /\ consent' = consent
        /\ line # <<>> => line' # <<>> /\ Head(line') = Head(line)
    BY <1>0, <2>2, SubmitFact DEF Typed
  <2>4. pages' \in [Sites -> Accounts \cup {None}]
    BY <1>0, <2>2 DEF Typed
  <2>5. CASE rows' = Disconnected(k) /\ granted' = [granted EXCEPT ![k] = Approving(k, c)]
    BY <1>0, <2>1, <2>2, <2>3, <2>4, <2>5, EndingKeeps
  <2>6. CASE UNCHANGED <<rows, granted>>
    BY <1>0, <2>1, <2>2, <2>3, <2>4, <2>6, GoingOnKeeps
  <2> QED
    BY <1>2, <2>5, <2>6 DEF Look
<1> QED
  BY <1>1, <1>2

(* The consent, given with the account that is selected, is granted.       *)
LEMMA ConsentKeeps ==
  ASSUME DappInv, NEW c \in Calls, Consent(c)
  PROVE  DappInv'
<1> DEFINE k == Key(calls[c].key.site, calls[c].key.coin, selected)
           r == [calls[c] EXCEPT !.key = k]
<1>0. /\ Typed /\ calls[c] \in CallRecords /\ calls[c].pc = "asking"
      /\ calls[c].key \in Keys /\ calls[c].permission \in Granted
  BY DEF DappInv, Typed, Keyed, Consent, CallRecords
<1>1. k \in Keys
  BY <1>0 DEF Typed, Keys, Key
<1>2. /\ calls' = [calls EXCEPT ![c] = r]
      /\ granted' = [granted EXCEPT ![k] = @ \cup {calls[c].permission}]
      /\ consent' = consent \cup {c}
      /\ UNCHANGED <<rows, selected, pages, line>>
  BY DEF Consent, Confirm!Consent
<1> HIDE DEF k
<1>3. r \in CallRecords /\ r.pc = "asking" /\ r.key = k /\ r.permission = calls[c].permission
      /\ r.permission \in Granted
  BY <1>0, <1>1 DEF CallRecords
<1> HIDE DEF r
<1>4. /\ calls' \in [Calls -> CallRecords] /\ calls'[c] = r
      /\ \A d \in Calls : d # c => calls'[d] = calls[d]
  BY <1>0, <1>2, <1>3 DEF Typed
<1>5. /\ granted' \in [Keys -> SUBSET Granted] /\ r.permission \in granted'[k]
      /\ \A q \in Keys : granted[q] \subseteq granted'[q]
  BY <1>0, <1>1, <1>2, <1>3 DEF Typed
<1>6. Typed'
  BY <1>0, <1>2, <1>4, <1>5 DEF Typed
<1>7. Keyed'
  BY <1>1, <1>3, <1>4 DEF DappInv, Keyed
<1>8. Writing'
  BY <1>2, <1>3, <1>4 DEF DappInv, Writing, Exists
<1>9. Consented'
  <2> SUFFICES ASSUME NEW d \in Calls
               PROVE  /\ calls'[d].pc \in {"idle", "looking"} => d \notin consent'
                      /\ calls'[d].pc \in {"asking", "adding"} /\ d \in consent' =>
                           calls'[d].permission \in granted'[calls'[d].key]
    BY DEF Consented
  <2>1. CASE d = c
    BY <1>3, <1>4, <1>5, <2>1
  <2>2. CASE d # c
    <3>1. calls'[d] = calls[d] /\ (d \in consent' <=> d \in consent)
      BY <1>2, <1>4, <2>2
    <3> QED
      BY <1>5, <3>1 DEF DappInv, Consented, Keyed
  <2> QED
    BY <2>1, <2>2
<1>10. ConnectionsAreGranted'
  <2>1. \A i \in DOMAIN rows : rows[i] \in Rows
    BY <1>0 DEF Typed
  <2>2. \A i \in DOMAIN rows : rows[i].connected =>
          rows[i].permission \in granted'[rows[i].key] \/ None \in granted'[rows[i].key]
    BY <1>5, <2>1 DEF DappInv, ConnectionsAreGranted, Rows
  <2> QED
    BY <1>2, <2>2 DEF DappInv, ConnectionsAreGranted
<1> QED
  BY <1>6, <1>7, <1>8, <1>9, <1>10 DEF DappInv

(* The first of the queue, once consented to, is the one that writes.      *)
LEMMA CountKeeps ==
  ASSUME DappInv, NEW c \in Calls, Count(c)
  PROVE  DappInv'
<1> DEFINE r == [calls[c] EXCEPT !.pc = "adding", !.found = Exists(calls[c].key)]
<1>0. /\ Typed /\ calls[c] \in CallRecords /\ calls[c].pc = "asking"
      /\ calls[c].key \in Keys /\ calls[c].permission \in Granted
  BY DEF DappInv, Typed, Keyed, Count, CallRecords
<1>1. /\ calls' = [calls EXCEPT ![c] = r]
      /\ line # <<>> /\ c = Head(line) /\ c \in consent
      /\ UNCHANGED <<rows, selected, pages, granted, line, consent>>
  BY DEF Count, Confirm!Perform
<1>2. Exists(calls[c].key) \in BOOLEAN
  BY DEF Exists
<1>3. r \in CallRecords /\ r.pc = "adding" /\ r.key = calls[c].key
      /\ r.permission = calls[c].permission /\ r.found = Exists(calls[c].key)
  BY <1>0, <1>2 DEF CallRecords, CallPcs
<1> HIDE DEF r
<1>4. /\ calls' \in [Calls -> CallRecords] /\ calls'[c] = r
      /\ \A d \in Calls : d # c => calls'[d] = calls[d]
  BY <1>0, <1>1, <1>3 DEF Typed
<1>5. Typed'
  BY <1>0, <1>1, <1>4 DEF Typed
<1>6. Keyed'
  BY <1>0, <1>3, <1>4 DEF DappInv, Keyed
<1>7. Writing'
  <2> SUFFICES ASSUME NEW d \in Calls, calls'[d].pc = "adding"
               PROVE  /\ d \in consent' /\ line' # <<>> /\ d = Head(line')
                      /\ calls'[d].found <=> Exists(calls[d].key)'
    BY DEF Writing
  <2>1. calls'[d].key = calls[d].key /\ (Exists(calls[d].key)' <=> Exists(calls[d].key))
    <3>1. calls'[d].key = calls[d].key
      BY <1>3, <1>4
    <3> QED
      BY <1>1, <3>1 DEF Exists
  <2>2. CASE d = c
    BY <1>1, <1>3, <1>4, <2>1, <2>2
  <2>3. CASE d # c
    BY <1>1, <1>4, <2>1, <2>3 DEF DappInv, Writing
  <2> QED
    BY <2>2, <2>3
<1>8. Consented'
  BY <1>0, <1>1, <1>3, <1>4 DEF DappInv, Consented
<1>9. ConnectionsAreGranted'
  BY <1>1 DEF DappInv, ConnectionsAreGranted
<1> QED
  BY <1>5, <1>6, <1>7, <1>8, <1>9 DEF DappInv

(* The rows once call c is written: those of its key are as it says, or,   *)
(* if it names no permission, permit what they did; the others are as      *)
(* before, and there is one of each key.                                   *)
LEMMA WrittenFact ==
  ASSUME DappInv, NEW c \in Calls, Add(c)
  PROVE  LET k == calls[c].key
             p == calls[c].permission
         IN
         /\ rows' \in Seq(Rows)
         /\ \A i, j \in DOMAIN rows' : rows'[i].key = rows'[j].key => i = j
         /\ \A i \in DOMAIN rows' :
              \/ /\ rows'[i].key = k /\ rows'[i].connected
                 /\ \/ (p # None \/ ~Exists(k)) /\ rows'[i].permission = p
                    \/ /\ p = None /\ i \in DOMAIN rows /\ rows[i].key = k
                       /\ rows'[i].permission = rows[i].permission
              \/ rows'[i].key # k /\ i \in DOMAIN rows /\ rows'[i] = rows[i]
         /\ \E i \in DOMAIN rows' : rows'[i].key = k
         /\ \A i \in DOMAIN rows : rows[i].key # k =>
              i \in DOMAIN rows' /\ rows'[i] = rows[i]
<1> DEFINE k == calls[c].key
           p == calls[c].permission
<1>0. /\ Typed /\ calls[c] \in CallRecords /\ k \in Keys
      /\ p \in Granted
      /\ calls[c].found <=> Exists(k)
      /\ \A i, j \in DOMAIN rows : rows[i].key = rows[j].key => i = j
  BY DEF DappInv, Typed, Keyed, Writing, ConnectionsAreGranted, Add, CallRecords
<1>1. ASSUME NEW q \in Granted
      PROVE  LET row == Row(k, q) IN
             row \in Rows /\ row.key = k /\ row.permission = q /\ row.connected
  BY <1>0, <1>1 DEF Row, Rows, Granted
<1>2. rows \in [1..Len(rows) -> Rows] /\ Len(rows) \in Nat /\ DOMAIN rows = 1..Len(rows)
  BY <1>0 DEF Typed
<1>3. CASE Exists(k)
  <2> DEFINE new == [i \in DOMAIN rows |->
                       IF rows[i].key = k THEN Renewed(rows[i], p) ELSE rows[i]]
  <2>1. rows' = new
    BY <1>0, <1>3 DEF Add
  <2>2. ASSUME NEW i \in DOMAIN rows
        PROVE  /\ new[i] \in Rows /\ new[i].key = rows[i].key
               /\ rows[i].key # k => new[i] = rows[i]
               /\ rows[i].key = k =>
                    /\ new[i].connected
                    /\ new[i].permission = IF p # None THEN p ELSE rows[i].permission
    <3>1. rows[i] \in Rows /\ rows[i].permission \in Granted
      BY <1>2, <2>2 DEF Rows, Granted
    <3>2. CASE rows[i].key # k
      BY <3>1, <3>2
    <3>3. CASE rows[i].key = k
      <4> DEFINE q == IF p # None THEN p ELSE rows[i].permission
      <4>1. q \in Granted /\ new[i] = Row(k, q)
        BY <1>0, <3>1, <3>3 DEF Renewed
      <4> QED
        BY <1>1, <3>3, <4>1
    <3> QED
      BY <3>2, <3>3
  <2>3. \E i \in DOMAIN rows : rows[i].key = k
    BY <1>3 DEF Exists
  <2>4. DOMAIN new = DOMAIN rows
    OBVIOUS
  <2> HIDE DEF new
  <2>5. new \in [1..Len(rows) -> Rows]
    BY <1>2, <2>2, <2>4 DEF new
  <2>6. new \in Seq(Rows)
    BY <1>2, <2>5
  <2> QED
    BY <1>0, <1>3, <2>1, <2>2, <2>3, <2>4, <2>6
<1>4. CASE ~Exists(k)
  <2> DEFINE row == Row(k, p)
  <2>0. row \in Rows /\ row.key = k /\ row.permission = p /\ row.connected
    BY <1>0, <1>1
  <2>1. rows' = Append(rows, row)
    BY <1>0, <1>4 DEF Add
  <2> HIDE DEF row
  <2>2. /\ rows' \in Seq(Rows) /\ Len(rows') = Len(rows) + 1
        /\ \A i \in 1..Len(rows) : rows'[i] = rows[i]
        /\ rows'[Len(rows) + 1] = row
        /\ DOMAIN rows' = 1..(Len(rows) + 1)
    BY <1>0, <2>0, <2>1, AppendProperties DEF Typed
  <2>3. \A i \in 1..Len(rows) : rows[i].key # k
    BY <1>2, <1>4 DEF Exists
  <2>4. \A i \in DOMAIN rows' : i = Len(rows) + 1 \/ i \in 1..Len(rows)
    BY <1>2, <2>2
  <2> QED
    BY <1>0, <1>2, <1>4, <2>0, <2>2, <2>3, <2>4
<1> QED
  BY <1>3, <1>4

LEMMA AddKeeps ==
  ASSUME DappInv, NEW c \in Calls, Add(c)
  PROVE  DappInv'
<1> DEFINE k == calls[c].key
<1>0. /\ Typed /\ k \in Keys /\ calls[c] \in CallRecords
      /\ calls[c].permission \in Granted /\ c \in consent /\ line # <<>> /\ c = Head(line)
      /\ calls[c].permission \in granted[k]
      /\ \A d \in Calls : calls[d].pc = "adding" => d = c
  BY DEF DappInv, Typed, Keyed, Writing, Consented, Add, CallRecords
<1>1. /\ calls' = [calls EXCEPT ![c] = At(c, "added")]
      /\ granted' = [granted EXCEPT ![k] = (@ \cap {calls[c].permission}) \cup Approving(k, c)]
      /\ UNCHANGED <<selected, pages, line, consent>>
  BY DEF Add, Goto, confirmVars
<1>2. At(c, "added") \in CallRecords /\ At(c, "added").pc = "added" /\ At(c, "added").key = k
  BY <1>0, AtFact DEF CallPcs, Ended
<1>3. /\ calls' \in [Calls -> CallRecords] /\ calls'[c] = At(c, "added")
      /\ \A d \in Calls : d # c => calls'[d] = calls[d]
  BY <1>0, <1>1, <1>2 DEF Typed
<1>4. /\ Approving(k, c) \subseteq Granted
      /\ \A d \in Calls : /\ d # c /\ calls[d].key = k /\ d \in consent
                          /\ calls[d].pc \in {"asking", "adding"}
           => calls[d].permission \in Approving(k, c)
  BY <1>0, ApprovingFact DEF DappInv
<1>5. /\ granted' \in [Keys -> SUBSET Granted]
      /\ \A q \in Keys : q # k => granted'[q] = granted[q]
      /\ Approving(k, c) \subseteq granted'[k] /\ calls[c].permission \in granted'[k]
  BY <1>0, <1>1, <1>4 DEF Typed
<1>6. /\ rows' \in Seq(Rows)
      /\ \A i, j \in DOMAIN rows' : rows'[i].key = rows'[j].key => i = j
      /\ \A i \in DOMAIN rows' :
           \/ rows'[i].key = k /\ calls[c].permission \in {rows'[i].permission, None}
           \/ rows'[i].key # k /\ i \in DOMAIN rows /\ rows'[i] = rows[i]
  BY WrittenFact
<1>7. Typed'
  BY <1>0, <1>1, <1>3, <1>5, <1>6 DEF Typed
<1>8. Keyed'
  BY <1>0, <1>2, <1>3 DEF DappInv, Keyed
<1>9. Writing'
  BY <1>0, <1>2, <1>3 DEF Writing
<1>10. Consented'
  <2> SUFFICES ASSUME NEW d \in Calls
               PROVE  /\ calls'[d].pc \in {"idle", "looking"} => d \notin consent
                      /\ calls'[d].pc \in {"asking", "adding"} /\ d \in consent =>
                           calls'[d].permission \in granted'[calls'[d].key]
    BY <1>1 DEF Consented
  <2>1. CASE d = c
    BY <1>2, <1>3, <2>1
  <2>2. CASE d # c
    <3>1. calls'[d] = calls[d]
      BY <1>3, <2>2
    <3> QED
      BY <1>4, <1>5, <2>2, <3>1 DEF DappInv, Consented, Keyed
  <2> QED
    BY <2>1, <2>2
<1>11. ConnectionsAreGranted'
  <2> SUFFICES ASSUME NEW i \in DOMAIN rows', rows'[i].connected
               PROVE  rows'[i].permission \in granted'[rows'[i].key] \/ None \in granted'[rows'[i].key]
    BY <1>6 DEF ConnectionsAreGranted
  <2>1. CASE rows'[i].key = k /\ calls[c].permission \in {rows'[i].permission, None}
    BY <1>5, <2>1
  <2>2. CASE rows'[i].key # k /\ i \in DOMAIN rows /\ rows'[i] = rows[i]
    <3>1. rows[i].key \in Keys
      <4>1. rows[i] \in Rows
        BY <1>0, <2>2 DEF Typed
      <4> QED
        BY <4>1 DEF Rows
    <3>2. rows[i].permission \in granted[rows[i].key] \/ None \in granted[rows[i].key]
      BY <2>2 DEF DappInv, ConnectionsAreGranted
    <3> QED
      <4>1. granted'[rows[i].key] = granted[rows[i].key]
        BY <1>5, <2>2, <3>1
      <4> QED
        BY <2>2, <3>2, <4>1
  <2> QED
    BY <1>6, <2>1, <2>2
<1> QED
  BY <1>7, <1>8, <1>9, <1>10, <1>11 DEF DappInv

(* The first of the queue is answered: it is not the one that writes.      *)
LEMMA AnswerKeeps ==
  ASSUME DappInv, NEW c \in Calls, Answer(c)
  PROVE  DappInv'
<1>0. /\ Typed /\ calls[c].pc \in {"asking", "added"} /\ calls[c].key \in Keys
      /\ line # <<>> /\ c = Head(line)
  BY DEF DappInv, Keyed, Answer
<1>1. At(c, "ended") \in CallRecords /\ At(c, "ended").pc = "ended"
  BY <1>0, AtFact DEF CallPcs
<1>2. /\ calls' = [calls EXCEPT ![c] = At(c, "ended")]
      /\ line' = Tail(line)
      /\ UNCHANGED <<rows, granted, selected, consent>>
      /\ pages' = Telling(calls[c].key) \/ pages' = pages
  BY DEF Answer, Goto, Confirm!Answer
<1>3. pages' \in [Sites -> Accounts \cup {None}]
  BY <1>0, <1>2, TellingFact DEF Typed
<1>4. line' \in Seq(Calls)
  BY <1>0, <1>2 DEF Typed
<1>5. \A d \in Calls : calls[d].pc = "adding" => d = c
  BY <1>0 DEF DappInv, Writing
<1> QED
  BY <1>0, <1>1, <1>2, <1>3, <1>4, <1>5, GoingOnKeeps

LEMMA LeaveKeeps ==
  ASSUME DappInv, NEW c \in Calls, Leave(c)
  PROVE  DappInv'
<1> DEFINE k == calls[c].key
<1>0. Typed /\ calls[c].pc = "leaving" /\ k \in Keys
  BY DEF DappInv, Keyed, Leave
<1>1. At(c, "ended") \in CallRecords /\ At(c, "ended").pc = "ended"
  BY <1>0, AtFact DEF CallPcs
<1>2. /\ calls' = [calls EXCEPT ![c] = At(c, "ended")]
      /\ UNCHANGED <<line, selected, consent>>
      /\ pages' = [pages EXCEPT ![k.site] = None] \/ pages' = pages
  BY DEF Leave, Goto, confirmVars
<1>3. pages' \in [Sites -> Accounts \cup {None}]
  BY <1>0, <1>2 DEF Typed
<1>4. line' \in Seq(Calls)
  BY <1>0, <1>2 DEF Typed
<1>5. CASE UNCHANGED <<rows, granted>>
  BY <1>0, <1>1, <1>2, <1>3, <1>4, <1>5, GoingOnKeeps
<1>6. CASE rows' = Disconnected(k) /\ granted' = [granted EXCEPT ![k] = Approving(k, c)]
  BY <1>0, <1>1, <1>2, <1>3, <1>4, <1>6, EndingKeeps
<1> QED
  BY <1>5, <1>6 DEF Leave

LEMMA CheckKeeps ==
  ASSUME DappInv, NEW c \in Calls, Check(c)
  PROVE  DappInv'
<1> DEFINE pc == IF Permits(calls[c].key) THEN "fetching" ELSE "ended"
<1>0. Typed /\ calls[c].pc = "checking"
  BY DEF DappInv, Check
<1>1. /\ At(c, pc) \in CallRecords /\ At(c, pc).pc = pc /\ pc \in {"fetching", "ended"}
      /\ pc = "fetching" => At(c, pc).key \in Keys
  BY <1>0, AtFact DEF CallPcs, DappInv, Keyed
<1>2. /\ calls' = [calls EXCEPT ![c] = At(c, pc)]
      /\ UNCHANGED <<rows, granted, selected, pages, line, consent>>
  BY DEF Check, Goto, confirmVars
<1>3. pages' \in [Sites -> Accounts \cup {None}] /\ line' \in Seq(Calls)
  BY <1>0, <1>2 DEF Typed
<1> HIDE DEF pc
<1> QED
  BY <1>0, <1>1, <1>2, <1>3, GoingOnKeeps

-----------------------------------------------------------------------------
(* What happens around the calls.                                          *)

LEMMA ExpireKeeps ==
  ASSUME DappInv, NEW i \in DOMAIN rows, Expire(i)
  PROVE  DappInv'
<1>1. /\ rows \in [1..Len(rows) -> Rows] /\ Len(rows) \in Nat /\ DOMAIN rows = 1..Len(rows)
      /\ rows' = [rows EXCEPT ![i].fresh = FALSE]
      /\ UNCHANGED <<selected, pages, calls, line, consent, granted>>
  BY DEF DappInv, Typed, Expire, confirmVars
<1>2. rows' \in [1..Len(rows) -> Rows]
  BY <1>1 DEF Rows
<1>3. /\ rows' \in Seq(Rows) /\ DOMAIN rows' = DOMAIN rows
  BY <1>1, <1>2
<1>4. \A j \in DOMAIN rows : /\ rows'[j].key = rows[j].key
                             /\ rows'[j].permission = rows[j].permission
                             /\ rows'[j].connected = rows[j].connected
  BY <1>1 DEF Rows
<1>5. Typed' /\ Keyed' /\ Consented'
  BY <1>1, <1>3 DEF DappInv, Typed, Keyed, Consented
<1>6. Writing'
  BY <1>1, <1>3, <1>4 DEF DappInv, Writing, Exists
<1>7. ConnectionsAreGranted'
  BY <1>1, <1>3, <1>4 DEF DappInv, ConnectionsAreGranted
<1> QED
  BY <1>5, <1>6, <1>7 DEF DappInv

LEMMA SelectKeeps ==
  ASSUME DappInv, NEW a \in Accounts, Select(a)
  PROVE  DappInv'
  BY DEF DappInv, Select, confirmVars, Typed, Keyed, Writing, Exists, Consented,
    ConnectionsAreGranted

LEMMA StopKeeps ==
  ASSUME DappInv, Stop
  PROVE  DappInv'
<1>0. Typed
  BY DEF DappInv
<1>1. /\ line' = <<>> /\ UNCHANGED <<rows, selected, pages, consent, granted>>
      /\ calls' = [c \in Calls |-> IF calls[c].pc \in Ended \cup {"idle"} THEN calls[c]
                                   ELSE At(c, "ended")]
  BY DEF Stop, Confirm!Lose
<1>2. ASSUME NEW c \in Calls
      PROVE  /\ calls'[c] \in CallRecords
             /\ calls'[c].pc \in {"idle", "ended", "fetching"}
             /\ calls'[c].pc = "fetching" => calls'[c] = calls[c]
             /\ calls'[c].pc = "idle" => calls[c].pc = "idle"
  <2>1. At(c, "ended") \in CallRecords /\ At(c, "ended").pc = "ended"
    BY <1>0, AtFact DEF CallPcs
  <2> QED
    BY <1>0, <1>1, <2>1 DEF Typed, Ended
<1>3. Typed'
  BY <1>0, <1>1, <1>2 DEF Typed
<1>4. Keyed' /\ Writing'
  BY <1>2 DEF DappInv, Keyed, Writing
<1>5. Consented'
  BY <1>1, <1>2 DEF DappInv, Consented
<1>6. ConnectionsAreGranted'
  BY <1>1 DEF DappInv, ConnectionsAreGranted
<1> QED
  BY <1>3, <1>4, <1>5, <1>6 DEF DappInv

-----------------------------------------------------------------------------
(* The registrations                                                       *)

AllCalls == Calls \cup WalletCalls

Pcs == {"idle", "viewKey", "registering", "ready", "waiting", "posted",
        "joined", "ended"}
Kinds == {"none", "records", "status"}
Stages == {"none", "resolving", "registering", "clearing"}
Writes == [uuid : 0..MaxUuids, awaited : BOOLEAN]

Fetches == [pc : Pcs, kind : Kinds, account : Accounts \cup {0},
            uuid : Nat, retried : BOOLEAN]

(* A uuid was issued before it is used.                                    *)
HasUuid(f, n) == f.pc \in {"ready", "posted", "waiting", "joined"} =>
                 f.uuid \in 1..n /\ f.account \in Accounts

FetchInv ==
  /\ fetches \in [AllCalls -> Fetches]
  /\ \A c \in AllCalls : HasUuid(fetches[c], issued)

StoredInv ==
  /\ issued \in Nat /\ accepted \subseteq 1..issued
  /\ stored \in [Accounts -> 0..issued]

(* What is registered again the scanner has forgotten, and for good.       *)
StaleInv ==
  /\ reregister \in [Accounts -> [stage : Stages, stale : Nat]]
  /\ \A a \in Accounts : reregister[a].stage # "none" =>
       reregister[a].stale \in 1..issued /\ reregister[a].stale \notin accepted

(* The index is what is stored, once it has heard of every write: the last *)
(* of those it has not heard of is what is stored.                         *)
IndexInv ==
  /\ index \in [Accounts -> 0..issued] /\ loaded \in BOOLEAN
  /\ writes \in [Accounts -> Seq(Writes)]
  /\ \A a \in Accounts :
       /\ \A i \in DOMAIN writes[a] : writes[a][i].uuid <= issued
       /\ writes[a] # <<>> => writes[a][Len(writes[a])].uuid = stored[a]
       /\ writes[a] = <<>> /\ loaded => index[a] = stored[a]

ScannerInv == FetchInv /\ StoredInv /\ StaleInv /\ IndexInv

-----------------------------------------------------------------------------
(* Every step is one of the scanner's, or none of its business.            *)

ScannerNext ==
  \/ \E c \in AllCalls, a \in Accounts, kind \in {"records", "status"} : Scanner!Fetch(c, a, kind)
  \/ \E c \in AllCalls : Scanner!CallStep(c)
  \/ \E a \in Accounts : Scanner!AccountStep(a)
  \/ \E u \in Scanner!Uuids : Scanner!Forget(u)
  \/ Scanner!ScannerStop

KeepsInv == \A a \in Accounts :
  /\ stored[a] \in accepted /\ writes[a] = <<>> => stored'[a] # 0
  /\ stored'[a] # 0 => stored'[a] >= stored[a]

(* There is no index, and nothing it has not heard of.                     *)
LEMMA NothingIndexed ==
  ASSUME NEW ix, NEW ld, NEW wr, NEW n,
         ix = [a \in Accounts |-> 0], ld = FALSE,
         wr = [a \in Accounts |-> <<>>], 0 \in 0..n
  PROVE  /\ ix \in [Accounts -> 0..n] /\ ld \in BOOLEAN
         /\ wr \in [Accounts -> Seq(Writes)]
         /\ \A a \in Accounts : wr[a] = <<>> /\ DOMAIN wr[a] = {}
<1>1. ix \in [Accounts -> 0..n]
  OBVIOUS
<1>2. ld \in BOOLEAN
  OBVIOUS
<1>3. <<>> \in Seq(Writes) /\ DOMAIN <<>> = {}
  OBVIOUS
<1>4. \A a \in Accounts : wr[a] = <<>>
  OBVIOUS
<1>5. \A a \in Accounts : wr[a] \in Seq(Writes) /\ DOMAIN wr[a] = {}
  BY <1>3, <1>4
<1>6. wr \in [Accounts -> Seq(Writes)]
  BY <1>5
<1> QED
  BY <1>1, <1>2, <1>4, <1>5, <1>6

LEMMA NothingWrittenYet ==
  ASSUME index = [a \in Accounts |-> 0], loaded = FALSE,
         writes = [a \in Accounts |-> <<>>], 0 \in 0..issued
  PROVE  IndexInv
<1>1. /\ index \in [Accounts -> 0..issued] /\ loaded \in BOOLEAN
      /\ writes \in [Accounts -> Seq(Writes)]
      /\ \A a \in Accounts : writes[a] = <<>> /\ DOMAIN writes[a] = {}
  BY NothingIndexed
<1>2. \A a \in Accounts : ~loaded
  OBVIOUS
<1> QED
  BY <1>1, <1>2 DEF IndexInv

LEMMA NothingWritten ==
  ASSUME index' = [a \in Accounts |-> 0], loaded' = FALSE,
         writes' = [a \in Accounts |-> <<>>], 0 \in 0..issued'
  PROVE  IndexInv'
<1>1. /\ index' \in [Accounts -> 0..issued'] /\ loaded' \in BOOLEAN
      /\ writes' \in [Accounts -> Seq(Writes)]
      /\ \A a \in Accounts : writes'[a] = <<>> /\ DOMAIN writes'[a] = {}
  BY NothingIndexed
<1>2. \A a \in Accounts : ~loaded'
  OBVIOUS
<1> QED
  BY <1>1, <1>2 DEF IndexInv

LEMMA ScannerStart == Init => ScannerInv
<1> SUFFICES ASSUME Init PROVE ScannerInv
  OBVIOUS
<1>1. FetchInv /\ StoredInv /\ StaleInv
  BY DEF Init, Scanner!ScannerInit, FetchInv, StoredInv, StaleInv,
    AllCalls, Fetches, Pcs, Kinds, Stages, HasUuid, Scanner!NoFetch, Scanner!NoReregistration
<1>2. IndexInv
  <2>1. /\ index = [a \in Accounts |-> 0] /\ loaded = FALSE
        /\ writes = [a \in Accounts |-> <<>>] /\ 0 \in 0..issued
    BY DEF Init, Scanner!ScannerInit
  <2> QED
    BY <2>1, NothingWrittenYet
<1> QED
  BY <1>1, <1>2 DEF ScannerInv

(* The index is loaded, or nothing happens to it.                          *)
LEMMA LookUpKeeps ==
  ASSUME ScannerInv, Scanner!LookUp \/ UNCHANGED <<index, loaded>>,
         UNCHANGED <<stored, issued, writes>>
  PROVE  IndexInv'
<1>1. IndexInv /\ StoredInv
  BY DEF ScannerInv
<1>2. CASE UNCHANGED <<index, loaded>>
  BY <1>1, <1>2 DEF IndexInv
<1>3. CASE Scanner!LookUp
  <2>1. loaded' = TRUE /\ index' = [a \in Accounts |-> IF loaded THEN index[a] ELSE stored[a]]
    BY <1>3 DEF Scanner!LookUp, Scanner!Known
  <2> QED
    BY <1>1, <2>1 DEF IndexInv, StoredInv
<1> QED
  BY <1>2, <1>3

(* An entry is written after those the index has not heard of.             *)
LEMMA WriteFact ==
  ASSUME NEW s \in Seq(Writes), NEW w \in Writes
  PROVE  /\ Append(s, w) \in Seq(Writes) /\ Append(s, w) # <<>>
         /\ Append(s, w)[Len(Append(s, w))] = w
         /\ \A i \in DOMAIN Append(s, w) : Append(s, w)[i] = w
              \/ (i \in DOMAIN s /\ Append(s, w)[i] = s[i])
<1>1. /\ Append(s, w) \in Seq(Writes) /\ Append(s, w) # <<>>
      /\ Len(Append(s, w)) = Len(s) + 1
      /\ \A i \in 1..Len(s) : Append(s, w)[i] = s[i]
      /\ Append(s, w)[Len(s) + 1] = w
  BY AppendProperties
<1> DEFINE t == Append(s, w)
<1>2. /\ Len(s) \in Nat /\ DOMAIN s = 1..Len(s)
      /\ t \in Seq(Writes) /\ Len(t) = Len(s) + 1 /\ t # <<>>
      /\ \A i \in 1..Len(s) : t[i] = s[i]
      /\ t[Len(s) + 1] = w
  BY <1>1
<1> HIDE DEF t
<1>3. DOMAIN t = 1..(Len(s) + 1)
  BY <1>2
<1>4. ASSUME NEW i \in DOMAIN t
      PROVE  t[i] = w \/ (i \in DOMAIN s /\ t[i] = s[i])
  <2>1. i = Len(s) + 1 \/ i \in 1..Len(s)
    BY <1>2, <1>3
  <2> QED
    BY <1>2, <2>1
<1> QED
  BY <1>2, <1>4 DEF t

(* A uuid the scanner has forgotten is given up: what is stored of its     *)
(* owner is removed, which the scanner accepts only if a write to the      *)
(* index is under way.                                                     *)
LEMMA ClearKeeps ==
  ASSUME ScannerInv, NEW u \in Nat, u \notin accepted, u # 0, NEW awaited \in BOOLEAN,
         Scanner!NotRegistered(u, awaited), UNCHANGED <<issued, accepted>>
  PROVE  StoredInv' /\ IndexInv' /\ KeepsInv
<1> DEFINE owners == {a \in Accounts : Scanner!Known(a) = u}
           w == Scanner!Write(0, awaited)
<1>0. /\ stored' = [a \in Accounts |-> IF a \in owners THEN 0 ELSE stored[a]]
      /\ writes' = [a \in Accounts |->
           IF a \in owners THEN Append(writes[a], w) ELSE writes[a]]
      /\ loaded' = TRUE
      /\ index' = [a \in Accounts |-> IF loaded THEN index[a] ELSE stored[a]]
  BY DEF Scanner!NotRegistered, Scanner!LookUp, Scanner!Known
<1>1. StoredInv /\ IndexInv
  BY DEF ScannerInv
<1>2. w \in Writes /\ w.uuid = 0
  BY AccessAssumption DEF Scanner!Write, Writes
<1>3. \A a \in owners : writes[a] = <<>> => stored[a] = u
  BY <1>1 DEF Scanner!Known, IndexInv
<1> HIDE DEF owners, w
<1>4. StoredInv'
  BY <1>0, <1>1 DEF StoredInv
<1>5. KeepsInv
  BY <1>0, <1>1, <1>3 DEF KeepsInv, StoredInv
<1>6. ASSUME NEW a \in Accounts
      PROVE  /\ writes'[a] \in Seq(Writes)
             /\ \A i \in DOMAIN writes'[a] : writes'[a][i].uuid <= issued
             /\ writes'[a] # <<>> => writes'[a][Len(writes'[a])].uuid = stored'[a]
             /\ writes'[a] = <<>> => index'[a] = stored'[a]
  <2>1. CASE a \in owners
    <3>1. writes'[a] = Append(writes[a], w) /\ stored'[a] = 0 /\ writes[a] \in Seq(Writes)
      BY <1>0, <1>1, <2>1 DEF IndexInv
    <3>2. \A i \in DOMAIN writes'[a] : writes'[a][i] = w
            \/ (i \in DOMAIN writes[a] /\ writes'[a][i] = writes[a][i])
      BY <1>2, <3>1, WriteFact
    <3>3. /\ writes'[a] \in Seq(Writes) /\ writes'[a] # <<>>
          /\ writes'[a][Len(writes'[a])] = w
      BY <1>2, <3>1, WriteFact
    <3>4. issued \in Nat /\ \A i \in DOMAIN writes[a] : writes[a][i].uuid <= issued
      BY <1>1 DEF IndexInv, StoredInv
    <3> QED
      BY <1>2, <3>1, <3>2, <3>3, <3>4
  <2>2. CASE a \notin owners
    <3>1. writes'[a] = writes[a] /\ stored'[a] = stored[a]
          /\ index'[a] = IF loaded THEN index[a] ELSE stored[a]
      BY <1>0, <2>2
    <3> QED
      BY <1>1, <3>1 DEF IndexInv
  <2> QED
    BY <2>1, <2>2
<1>7. IndexInv'
  BY <1>0, <1>1, <1>6 DEF IndexInv, StoredInv
<1> QED
  BY <1>4, <1>5, <1>7

(* One call goes on; nothing else changes.                                 *)
LEMMA OneFetch ==
  ASSUME ScannerInv, NEW c \in AllCalls, NEW f \in Fetches, HasUuid(f, issued),
         fetches' = [fetches EXCEPT ![c] = f],
         UNCHANGED issued
  PROVE  FetchInv'
  BY DEF ScannerInv, FetchInv, HasUuid

LEMMA CallStepKeeps ==
  ASSUME ScannerInv, NEW c \in AllCalls, Scanner!CallStep(c)
  PROVE  ScannerInv' /\ KeepsInv
<1> DEFINE f == fetches[c]
<1>0. f \in Fetches /\ HasUuid(f, issued)
  BY DEF ScannerInv, FetchInv
<1>1. Scanner!Over \in Fetches /\ HasUuid(Scanner!Over, issued)
  BY DEF Scanner!Over, Scanner!NoFetch, Fetches, Pcs, Kinds, HasUuid
<1>2. CASE /\ \E g \in Fetches : HasUuid(g, issued) /\ fetches' = [fetches EXCEPT ![c] = g]
           /\ Scanner!LookUp \/ UNCHANGED <<index, loaded>>
           /\ UNCHANGED <<stored, issued, accepted, reregister, writes>>
  <2>1. FetchInv'
    BY <1>2, OneFetch
  <2>2. StoredInv' /\ StaleInv' /\ IndexInv' /\ KeepsInv
    BY <1>2, LookUpKeeps DEF ScannerInv, StoredInv, StaleInv, KeepsInv
  <2> QED
    BY <2>1, <2>2 DEF ScannerInv
<1>3. CASE Scanner!Register(c)
  <2> DEFINE g == [f EXCEPT !.pc = "registering"]
  <2>1. g \in Fetches /\ HasUuid(g, issued)
    BY <1>0 DEF Fetches, Pcs, Kinds, HasUuid
  <2> QED
    BY <1>2, <1>3, <2>1 DEF Scanner!Register, Scanner!indexVars
<1>4. CASE Scanner!Post(c)
  <2>1. PICK pc \in {"waiting", "posted"} : fetches' = [fetches EXCEPT ![c].pc = pc]
    BY <1>4 DEF Scanner!Post
  <2> DEFINE g == [f EXCEPT !.pc = pc]
  <2>2. g \in Fetches /\ HasUuid(g, issued)
    BY <1>0, <1>4 DEF Fetches, Pcs, Kinds, HasUuid, Scanner!Post
  <2> QED
    BY <1>2, <1>4, <2>1, <2>2 DEF Scanner!Post
<1>5. CASE Scanner!Fails(c)
  BY <1>1, <1>2, <1>5 DEF Scanner!Fails, Scanner!indexVars
<1>6. ASSUME NEW last \in BOOLEAN, Scanner!Accepted(c, last)
      PROVE  ScannerInv' /\ KeepsInv
  <2> DEFINE g == [f EXCEPT !.pc = "ready"]
  <2>1. g \in Fetches /\ HasUuid(g, issued)
    BY <1>0, <1>6 DEF Fetches, Pcs, Kinds, HasUuid, Scanner!Accepted
  <2> QED
    BY <1>1, <1>2, <1>6, <2>1 DEF Scanner!Accepted, Scanner!indexVars
<1>7. CASE Scanner!Rejected(c)
  <2> DEFINE u == f.uuid  a == f.account
  <2>1. u \in 1..issued /\ u \notin accepted /\ a \in Accounts
    BY <1>0, <1>7 DEF HasUuid, Scanner!Rejected
  <2>2. CASE f.retried \/ attempts[u] >= MaxAttempts
    <3>1. Scanner!NotRegistered(u, FALSE)
          /\ fetches' = [fetches EXCEPT ![c] = Scanner!Over]
          /\ UNCHANGED <<issued, accepted, reregister>>
      BY <1>7, <2>2 DEF Scanner!Rejected
    <3>2. FetchInv'
      BY <1>1, <3>1, OneFetch
    <3>3. StoredInv' /\ IndexInv' /\ KeepsInv
      <4>1. u \in Nat /\ u # 0 /\ FALSE \in BOOLEAN
        BY <2>1 DEF ScannerInv, StoredInv
      <4> HIDE DEF u
      <4> QED
        BY <2>1, <3>1, <4>1, ClearKeeps
    <3>4. StaleInv'
      BY <3>1 DEF ScannerInv, StaleInv
    <3> QED
      BY <3>2, <3>3, <3>4 DEF ScannerInv
  <2>3. CASE ~(f.retried \/ attempts[u] >= MaxAttempts) /\ Scanner!Known(a) # u
    BY <1>1, <1>2, <1>7, <2>3 DEF Scanner!Rejected
  <2>4. CASE ~(f.retried \/ attempts[u] >= MaxAttempts) /\ Scanner!Known(a) = u
    <3> DEFINE g == [f EXCEPT !.pc = "joined"]
    <3>1. fetches' = [fetches EXCEPT ![c] = g] /\ UNCHANGED <<stored, issued, accepted, writes>>
          /\ Scanner!LookUp
          /\ reregister' = IF reregister[a].stage # "none" THEN reregister
               ELSE [reregister EXCEPT ![a] = [stage |-> "resolving", stale |-> u]]
      BY <1>7, <2>4 DEF Scanner!Rejected
    <3>2. g \in Fetches /\ HasUuid(g, issued)
      BY <1>0, <2>1 DEF Fetches, Pcs, Kinds, HasUuid
    <3>3. FetchInv'
      BY <3>1, <3>2, OneFetch
    <3>4. StoredInv' /\ StaleInv' /\ KeepsInv
      BY <2>1, <3>1 DEF ScannerInv, StoredInv, StaleInv, KeepsInv, Stages
    <3>5. IndexInv'
      BY <3>1, LookUpKeeps
    <3> QED
      BY <3>3, <3>4, <3>5 DEF ScannerInv
  <2> QED
    BY <2>2, <2>3, <2>4
<1> QED
  BY <1>3, <1>4, <1>5, <1>6, <1>7 DEF Scanner!CallStep

(* A fetch that is released goes on with a uuid that was issued, if at all.*)
With(f, pc, v) == [f EXCEPT !.pc = pc, !.uuid = v]
Retried(f, v) == [f EXCEPT !.pc = "posted", !.uuid = v, !.retried = TRUE]

LEMMA GoesOn ==
  ASSUME NEW f \in Fetches, NEW pc \in Pcs, NEW v \in Nat
  PROVE  /\ With(f, pc, v) \in Fetches
         /\ With(f, pc, v).uuid = v /\ With(f, pc, v).account = f.account
  BY DEF Fetches, With

LEMMA GoesOnAgain ==
  ASSUME NEW f \in Fetches, NEW v \in Nat
  PROVE  /\ Retried(f, v) \in Fetches
         /\ Retried(f, v).uuid = v /\ Retried(f, v).account = f.account
<1>1. "posted" \in Pcs
  BY DEF Pcs
<1> QED
  BY <1>1 DEF Fetches, Retried

LEMMA OverIsKnown ==
  ASSUME NEW n \in Nat
  PROVE  Scanner!Over \in Fetches /\ HasUuid(Scanner!Over, n)
  BY DEF Scanner!Over, Scanner!NoFetch, Fetches, Pcs, Kinds, HasUuid

LEMMA ReleasedIsKnown ==
  ASSUME NEW f \in Fetches, NEW n \in Nat, HasUuid(f, n),
         NEW a \in Accounts, NEW u \in 0..n, NEW now \in 0..n
  PROVE  Scanner!Released(f, a, u, now) \in Fetches /\ HasUuid(Scanner!Released(f, a, u, now), n)
<1>0. "posted" \in Pcs
  BY DEF Pcs
<1>1. Scanner!Over \in Fetches /\ HasUuid(Scanner!Over, n)
  BY OverIsKnown
<1>2. CASE f.account = a /\ f.pc = "joined"
  <2> DEFINE g == Retried(f, u)
  <2>1. CASE u # 0 /\ f.kind = "status"
    <3>1. u \in Nat /\ u \in 1..n
      BY <2>1
    <3>2. g \in Fetches /\ g.uuid = u /\ g.account = a
      BY <1>2, <3>1, GoesOnAgain
    <3>3. Scanner!Released(f, a, u, now) = g
      BY <1>2, <2>1 DEF Scanner!Released, Retried
    <3> HIDE DEF g
    <3> QED
      BY <3>1, <3>2, <3>3 DEF HasUuid
  <2>2. CASE ~(u # 0 /\ f.kind = "status")
    <3>1. Scanner!Released(f, a, u, now) = Scanner!Over
      BY <1>2, <2>2 DEF Scanner!Released
    <3> QED
      BY <1>1, <3>1
  <2> QED
    BY <2>1, <2>2
<1>3. CASE f.account = a /\ f.pc = "waiting"
  <2> DEFINE v == IF u # 0 THEN u ELSE IF now # 0 THEN now ELSE f.uuid
             g == With(f, "posted", v)
  <2>1. v \in 1..n /\ v \in Nat
    BY <1>3 DEF HasUuid
  <2>2. Scanner!Released(f, a, u, now) = g
    BY <1>3 DEF Scanner!Released, With
  <2> HIDE DEF v
  <2>3. g \in Fetches /\ g.uuid = v /\ g.account = a
    BY <1>0, <1>3, <2>1, GoesOn
  <2> HIDE DEF g
  <2> QED
    BY <2>1, <2>2, <2>3 DEF HasUuid
<1>4. CASE ~(f.account = a /\ f.pc \in {"joined", "waiting"})
  <2>1. Scanner!Released(f, a, u, now) = f
    BY <1>4 DEF Scanner!Released
  <2> QED
    BY <2>1
<1> QED
  BY <1>2, <1>3, <1>4

(* A re-registration that fails gives up a uuid the scanner has forgotten. *)
LEMMA GivenUp ==
  ASSUME ScannerInv, NEW a \in Accounts, reregister[a].stage # "none",
         Scanner!GivesUp(a), UNCHANGED <<issued, accepted>>
  PROVE  StoredInv' /\ StaleInv' /\ IndexInv' /\ KeepsInv
<1>1. reregister[a].stale \notin accepted /\ reregister[a].stale \in 1..issued
      /\ issued \in Nat
  BY DEF ScannerInv, StaleInv, StoredInv
<1>2. Scanner!NotRegistered(reregister[a].stale, TRUE)
  BY DEF Scanner!GivesUp
<1>3. StoredInv' /\ IndexInv' /\ KeepsInv
  <2>1. reregister[a].stale \in Nat /\ reregister[a].stale # 0 /\ TRUE \in BOOLEAN
    BY <1>1
  <2> QED
    BY <1>1, <1>2, <2>1, ClearKeeps
<1>4. reregister' \in {[reregister EXCEPT ![a].stage = "clearing"],
                       [reregister EXCEPT ![a] = Scanner!NoReregistration]}
  BY DEF Scanner!GivesUp, ScannerInv, StaleInv
<1>5. StaleInv'
  BY <1>1, <1>4 DEF ScannerInv, StaleInv, Stages, Scanner!NoReregistration
<1> QED
  BY <1>3, <1>5

(* A registration: the number of uuids only grows.                         *)
LEMMA Issuing ==
  ASSUME ScannerInv, issued' = issued + 1, accepted' = accepted \cup {issued + 1},
         \/ stored' = stored
         \/ \E a \in Accounts : stored' = [stored EXCEPT ![a] = issued + 1],
         reregister' \in [Accounts -> [stage : Stages, stale : Nat]],
         \A a \in Accounts : reregister'[a].stage # "none" => reregister'[a] = reregister[a]
  PROVE  StoredInv' /\ StaleInv' /\ KeepsInv
<1>1. StoredInv'
  BY DEF ScannerInv, StoredInv
<1>2. StaleInv'
  BY DEF ScannerInv, StoredInv, StaleInv
<1>3. KeepsInv
  BY DEF ScannerInv, StoredInv, KeepsInv
<1> QED
  BY <1>1, <1>2, <1>3

(* The uuid it gave is stored, and the index has yet to hear of it.        *)
LEMMA StoringKeeps ==
  ASSUME ScannerInv, NEW a \in Accounts, Scanner!RegisterSucceeds(a)
  PROVE  IndexInv'
<1> DEFINE u == issued + 1  w == Scanner!Write(u, TRUE)
<1>0. /\ u \in 1..MaxUuids /\ issued' = u
      /\ stored' = [stored EXCEPT ![a] = u]
      /\ writes' = [writes EXCEPT ![a] = Append(@, w)]
      /\ UNCHANGED <<index, loaded>>
  BY DEF Scanner!RegisterSucceeds, Scanner!Uuids
<1>1. StoredInv /\ IndexInv /\ MaxUuids \in Nat
  BY AccessAssumption DEF ScannerInv
<1>2. w \in Writes /\ w.uuid = u
  BY <1>0, <1>1 DEF Scanner!Write, Writes
<1> HIDE DEF w
<1>3. ASSUME NEW b \in Accounts
      PROVE  /\ writes'[b] \in Seq(Writes)
             /\ \A i \in DOMAIN writes'[b] : writes'[b][i].uuid <= u
             /\ writes'[b] # <<>> => writes'[b][Len(writes'[b])].uuid = stored'[b]
             /\ writes'[b] = <<>> /\ loaded => index[b] = stored'[b]
  <2>0. issued \in Nat /\ writes[b] \in Seq(Writes)
        /\ \A i \in DOMAIN writes[b] : writes[b][i] \in Writes /\ writes[b][i].uuid <= issued
    BY <1>1 DEF IndexInv, StoredInv
  <2>1. CASE b = a
    <3>1. writes'[b] = Append(writes[b], w) /\ stored'[b] = u
      BY <1>0, <1>1, <2>1 DEF IndexInv, StoredInv
    <3>2. \A i \in DOMAIN writes'[b] : writes'[b][i] = w
            \/ (i \in DOMAIN writes[b] /\ writes'[b][i] = writes[b][i])
      BY <1>2, <2>0, <3>1, WriteFact
    <3>3. /\ writes'[b] \in Seq(Writes) /\ writes'[b] # <<>>
          /\ writes'[b][Len(writes'[b])] = w
      BY <1>2, <2>0, <3>1, WriteFact
    <3>4. \A i \in DOMAIN writes[b] : writes[b][i].uuid \in Nat
      BY <2>0 DEF Writes
    <3> QED
      BY <1>2, <2>0, <3>1, <3>2, <3>3, <3>4
  <2>2. CASE b # a
    <3>1. writes'[b] = writes[b] /\ stored'[b] = stored[b]
      BY <1>0, <1>1, <2>2 DEF IndexInv, StoredInv
    <3>2. \A i \in DOMAIN writes[b] : writes[b][i].uuid \in Nat
      BY <2>0 DEF Writes
    <3> QED
      BY <1>1, <2>0, <3>1, <3>2 DEF IndexInv
  <2> QED
    BY <2>1, <2>2
<1>4. index \in [Accounts -> 0..u] /\ writes' \in [Accounts -> Seq(Writes)]
  <2>1. issued \in Nat /\ index \in [Accounts -> 0..issued]
    BY <1>1 DEF IndexInv, StoredInv
  <2>2. writes' \in [Accounts -> Seq(Writes)]
    BY <1>0, <1>1, <1>3 DEF IndexInv
  <2> QED
    BY <2>1, <2>2
<1> QED
  BY <1>0, <1>1, <1>3, <1>4 DEF IndexInv

(* The index hears of the oldest write.                                    *)
LEMMA HeardKeeps ==
  ASSUME ScannerInv, NEW a \in Accounts, Scanner!Indexed(a)
  PROVE  /\ IndexInv'
         /\ Head(writes[a]) \in Writes /\ Head(writes[a]).uuid \in 0..issued
<1> DEFINE w == Head(writes[a])
<1>0. /\ writes[a] # <<>>
      /\ writes' = [writes EXCEPT ![a] = Tail(@)]
      /\ index' = IF loaded THEN [index EXCEPT ![a] = w.uuid] ELSE index
      /\ UNCHANGED <<stored, issued, loaded>>
  BY DEF Scanner!Indexed
<1>1. StoredInv /\ IndexInv /\ writes[a] \in Seq(Writes) /\ issued \in Nat
  BY DEF ScannerInv, IndexInv, StoredInv
<1>2. w = writes[a][1] /\ 1 \in DOMAIN writes[a] /\ w \in Writes /\ w.uuid <= issued
  BY <1>0, <1>1 DEF IndexInv
<1>3. w.uuid \in 0..issued
  BY <1>1, <1>2 DEF Writes
<1>4. /\ Tail(writes[a]) \in Seq(Writes) /\ Len(Tail(writes[a])) = Len(writes[a]) - 1
      /\ \A i \in DOMAIN Tail(writes[a]) :
           i + 1 \in DOMAIN writes[a] /\ Tail(writes[a])[i] = writes[a][i + 1]
      /\ Tail(writes[a]) = <<>> => Len(writes[a]) = 1
      /\ Tail(writes[a]) # <<>> => Len(writes[a]) - 1 \in DOMAIN Tail(writes[a])
  <2> DEFINE s == writes[a]  t == Tail(s)
  <2>1. /\ t \in Seq(Writes) /\ Len(t) = Len(s) - 1
        /\ \A i \in 1..Len(t) : t[i] = s[i + 1]
    BY <1>0, <1>1, HeadTailProperties
  <2>2. s \in Seq(Writes) /\ s # <<>>
    BY <1>0, <1>1
  <2> HIDE DEF s, t
  <2>3. /\ Len(s) \in Nat /\ DOMAIN s = 1..Len(s)
        /\ Len(t) \in Nat /\ DOMAIN t = 1..Len(t)
        /\ t = <<>> <=> Len(t) = 0
    BY <2>1, <2>2
  <2>4. /\ \A i \in DOMAIN t : i + 1 \in DOMAIN s /\ t[i] = s[i + 1]
        /\ t = <<>> => Len(s) = 1
        /\ t # <<>> => Len(s) - 1 \in DOMAIN t
    BY <2>1, <2>3
  <2> QED
    BY <2>1, <2>4 DEF s, t
<1> HIDE DEF w
<1>5. ASSUME NEW b \in Accounts
      PROVE  /\ writes'[b] \in Seq(Writes)
             /\ \A i \in DOMAIN writes'[b] : writes'[b][i].uuid <= issued
             /\ writes'[b] # <<>> => writes'[b][Len(writes'[b])].uuid = stored[b]
             /\ writes'[b] = <<>> /\ loaded => index'[b] = stored[b]
  <2>1. CASE b = a
    <3>1. /\ writes'[b] = Tail(writes[a])
          /\ loaded => index'[b] = w.uuid
      BY <1>0, <1>1, <2>1 DEF IndexInv
    <3>2. /\ writes[a][Len(writes[a])].uuid = stored[a]
          /\ \A i \in DOMAIN writes[a] : writes[a][i].uuid <= issued
      BY <1>0, <1>1 DEF IndexInv
    <3>3. Tail(writes[a]) # <<>> =>
            Tail(writes[a])[Len(Tail(writes[a]))] = writes[a][Len(writes[a])]
      <4>1. Len(writes[a]) \in Nat
        BY <1>1
      <4> QED
        BY <1>4, <4>1
    <3> QED
      BY <1>2, <1>4, <2>1, <3>1, <3>2, <3>3
  <2>2. CASE b # a
    <3>1. writes'[b] = writes[b] /\ (loaded => index'[b] = index[b])
      BY <1>0, <1>1, <2>2 DEF IndexInv
    <3> QED
      BY <1>1, <3>1 DEF IndexInv
  <2> QED
    BY <2>1, <2>2
<1>6. index' \in [Accounts -> 0..issued] /\ writes' \in [Accounts -> Seq(Writes)]
  BY <1>0, <1>1, <1>3, <1>4 DEF IndexInv
<1> QED
  BY <1>0, <1>1, <1>2, <1>3, <1>5, <1>6 DEF IndexInv, w

(* The calls a registration or a re-registration ends for.                 *)
LEMMA ReleaseKeeps ==
  ASSUME ScannerInv, NEW a \in Accounts, NEW u \in 0..issued, UNCHANGED issued,
         \/ fetches' = [c \in AllCalls |-> Scanner!Released(fetches[c], a, u, stored[a])]
         \/ \E again : Scanner!Registered(a, u, again)
         \/ UNCHANGED fetches
  PROVE  FetchInv'
<1>0. FetchInv /\ issued \in Nat /\ stored[a] \in 0..issued
  BY DEF ScannerInv, StoredInv
<1>1. ASSUME NEW c \in AllCalls
      PROVE  fetches'[c] \in Fetches /\ HasUuid(fetches'[c], issued)
  <2> DEFINE f == fetches[c]  g == Scanner!Released(f, a, u, stored[a])
  <2>1. f \in Fetches /\ HasUuid(f, issued)
    BY <1>0 DEF FetchInv
  <2>2. g \in Fetches /\ HasUuid(g, issued)
    BY <1>0, <2>1, ReleasedIsKnown
  <2>3. Scanner!Over \in Fetches /\ HasUuid(Scanner!Over, issued)
    BY <1>0, OverIsKnown
  <2>4. CASE fetches'[c] \in {f, g, Scanner!Over}
    <3> HIDE DEF f, g
    <3> QED
      BY <2>1, <2>2, <2>3, <2>4
  <2>5. CASE Scanner!At(c, a, "registering") /\ u # 0 /\ fetches'[c] = With(f, "ready", u)
    <3> DEFINE h == With(f, "ready", u)
    <3>1. "ready" \in Pcs /\ u \in Nat /\ u \in 1..issued /\ f.account = a
      BY <1>0, <2>5 DEF Pcs, Scanner!At
    <3>2. h \in Fetches /\ h.uuid = u /\ h.account = a
      BY <2>1, <3>1, GoesOn
    <3>3. fetches'[c] = h
      BY <2>5
    <3> HIDE DEF h
    <3> QED
      BY <3>1, <3>2, <3>3 DEF HasUuid
  <2>6. fetches'[c] \in {f, g, Scanner!Over}
        \/ (Scanner!At(c, a, "registering") /\ u # 0 /\ fetches'[c] = With(f, "ready", u))
    BY DEF Scanner!Registered, AllCalls, With
  <2> QED
    BY <2>4, <2>5, <2>6
<1>2. fetches' = [c \in AllCalls |-> fetches'[c]]
  BY <1>0 DEF FetchInv, Scanner!Registered, AllCalls
<1> QED
  BY <1>1, <1>2 DEF FetchInv

LEMMA IndexedKeeps ==
  ASSUME ScannerInv, NEW a \in Accounts, Scanner!Indexed(a)
  PROVE  ScannerInv' /\ KeepsInv
<1> DEFINE w == Head(writes[a])
<1>0. IndexInv' /\ w.uuid \in 0..issued /\ 0 \in 0..issued
  BY HeardKeeps DEF ScannerInv, StoredInv
<1>1. /\ UNCHANGED <<stored, issued, accepted>>
      /\ \/ UNCHANGED fetches
         \/ \E again : Scanner!Registered(a, w.uuid, again)
         \/ fetches' = [c \in AllCalls |-> Scanner!Released(fetches[c], a, 0, stored[a])]
      /\ \/ UNCHANGED reregister
         \/ reregister' = [reregister EXCEPT ![a] = Scanner!NoReregistration]
  BY DEF Scanner!Indexed, Scanner!EndReregister, AllCalls
<1> HIDE DEF w
<1>2. FetchInv'
  <2>1. CASE UNCHANGED fetches \/ (\E again : Scanner!Registered(a, w.uuid, again))
    BY <1>0, <1>1, <2>1, ReleaseKeeps
  <2>2. CASE fetches' = [c \in AllCalls |-> Scanner!Released(fetches[c], a, 0, stored[a])]
    BY <1>0, <1>1, <2>2, ReleaseKeeps
  <2> QED
    BY <1>1, <2>1, <2>2
<1>3. StoredInv' /\ KeepsInv
  <2>1. UNCHANGED <<stored, issued, accepted>>
    BY <1>1
  <2> QED
    BY <2>1 DEF ScannerInv, StoredInv, KeepsInv
<1>4. StaleInv'
  <2>1. /\ UNCHANGED <<issued, accepted>>
        /\ \/ UNCHANGED reregister
           \/ reregister' = [reregister EXCEPT ![a] = Scanner!NoReregistration]
    BY <1>1
  <2> QED
    BY <2>1 DEF ScannerInv, StaleInv, Stages, Scanner!NoReregistration
<1> QED
  BY <1>0, <1>2, <1>3, <1>4 DEF ScannerInv

LEMMA AccountStepKeeps ==
  ASSUME ScannerInv, NEW a \in Accounts, Scanner!AccountStep(a)
  PROVE  ScannerInv' /\ KeepsInv
<1>0. 0 \in 0..issued
  BY DEF ScannerInv, StoredInv
<1>1. CASE Scanner!RegisterSucceeds(a)
  <2>1. StoredInv' /\ StaleInv' /\ KeepsInv
    <3>1. reregister' \in [Accounts -> [stage : Stages, stale : Nat]]
          /\ reregister' = reregister
      BY <1>1 DEF ScannerInv, StaleInv, Scanner!RegisterSucceeds
    <3> QED
      BY <1>1, <3>1, Issuing DEF Scanner!RegisterSucceeds
  <2>2. FetchInv'
    BY <1>1 DEF ScannerInv, StoredInv, FetchInv, HasUuid, Scanner!RegisterSucceeds
  <2> QED
    BY <1>1, <2>1, <2>2, StoringKeeps DEF ScannerInv
<1>2. CASE Scanner!RegisterFails(a)
  <2>1. StoredInv' /\ StaleInv' /\ IndexInv' /\ KeepsInv
    <3>1. CASE reregister[a].stage = "registering"
      BY <1>2, <3>1, GivenUp DEF Scanner!RegisterFails
    <3>2. CASE reregister[a].stage # "registering"
      BY <1>2, <3>2 DEF Scanner!RegisterFails, Scanner!indexVars, ScannerInv, StoredInv,
        StaleInv, IndexInv, KeepsInv
    <3> QED
      BY <3>1, <3>2
  <2>2. FetchInv'
    BY <1>0, <1>2, ReleaseKeeps DEF Scanner!RegisterFails
  <2> QED
    BY <2>1, <2>2 DEF ScannerInv
<1>3. CASE Scanner!Resolved(a)
  <2>1. FetchInv' /\ StoredInv' /\ StaleInv' /\ KeepsInv
    BY <1>3 DEF Scanner!Resolved, ScannerInv, FetchInv, HasUuid, StoredInv, StaleInv,
      KeepsInv, Stages
  <2>2. IndexInv'
    BY <1>3 DEF Scanner!Resolved, Scanner!indexVars, ScannerInv, IndexInv
  <2> QED
    BY <2>1, <2>2 DEF ScannerInv
<1>4. CASE Scanner!Unresolved(a)
  <2>1. StoredInv' /\ StaleInv' /\ IndexInv' /\ KeepsInv
    BY <1>4, GivenUp DEF Scanner!Unresolved
  <2>2. FetchInv'
    BY <1>0, <1>4, ReleaseKeeps DEF Scanner!Unresolved, AllCalls
  <2> QED
    BY <2>1, <2>2 DEF ScannerInv
<1>5. CASE Scanner!Indexed(a)
  BY <1>5, IndexedKeeps
<1> QED
  BY <1>1, <1>2, <1>3, <1>4, <1>5 DEF Scanner!AccountStep

-----------------------------------------------------------------------------
(* The other steps: a request begins, the scanner forgets, all stops.      *)
LEMMA ScannerKeeps ==
  ASSUME ScannerInv, ScannerNext
  PROVE  ScannerInv' /\ KeepsInv
<1>0. Scanner!Over \in Fetches /\ HasUuid(Scanner!Over, issued)
  BY DEF Scanner!Over, Scanner!NoFetch, Fetches, Pcs, Kinds, HasUuid
<1>1. ASSUME NEW c \in AllCalls, NEW a \in Accounts, NEW kind \in {"records", "status"},
             Scanner!Fetch(c, a, kind)
      PROVE  ScannerInv' /\ KeepsInv
  <2>1. PICK f \in Fetches : HasUuid(f, issued) /\ fetches' = [fetches EXCEPT ![c] = f]
    <3> DEFINE g == [pc |-> IF stored[a] # 0 THEN "ready" ELSE "viewKey", kind |-> kind,
                     account |-> a, uuid |-> stored[a], retried |-> FALSE]
    <3>0. stored[a] \in 0..issued /\ issued \in Nat
      BY DEF ScannerInv, StoredInv
    <3>1. g \in Fetches /\ HasUuid(g, issued)
      <4>1. stored[a] \in Nat /\ (stored[a] # 0 => stored[a] \in 1..issued)
        BY <3>0
      <4>2. kind \in Kinds /\ {"ready", "viewKey"} \subseteq Pcs
        BY DEF Kinds, Pcs
      <4>3. g \in Fetches
        BY <4>1, <4>2 DEF Fetches
      <4> QED
        BY <4>1, <4>3 DEF HasUuid
    <3>2. CASE stored[a] = 0 /\ kind = "status"
      BY <1>0, <1>1, <3>2 DEF Scanner!Fetch
    <3>3. CASE ~(stored[a] = 0 /\ kind = "status")
      BY <1>1, <3>1, <3>3 DEF Scanner!Fetch
    <3> QED
      BY <3>2, <3>3
  <2>2. FetchInv'
    BY <1>1, <2>1, OneFetch DEF Scanner!Fetch
  <2>3. StoredInv' /\ StaleInv' /\ KeepsInv
    BY <1>1 DEF Scanner!Fetch, ScannerInv, StoredInv, StaleInv, KeepsInv
  <2>4. IndexInv'
    BY <1>1 DEF Scanner!Fetch, Scanner!indexVars, ScannerInv, IndexInv
  <2> QED
    BY <2>2, <2>3, <2>4 DEF ScannerInv
<1>2. ASSUME NEW u \in Scanner!Uuids, Scanner!Forget(u)
      PROVE  ScannerInv' /\ KeepsInv
  <2>1. FetchInv' /\ StaleInv'
    BY <1>2 DEF Scanner!Forget, ScannerInv, FetchInv, HasUuid, StaleInv
  <2>2. StoredInv' /\ KeepsInv
    BY <1>2 DEF Scanner!Forget, ScannerInv, StoredInv, KeepsInv
  <2>3. IndexInv'
    BY <1>2 DEF Scanner!Forget, Scanner!indexVars, ScannerInv, IndexInv
  <2> QED
    BY <2>1, <2>2, <2>3 DEF ScannerInv
<1>3. CASE Scanner!ScannerStop
  <2>1. issued \in Nat /\ issued' \in Nat /\ issued' >= issued
    BY <1>3 DEF Scanner!ScannerStop, ScannerInv, StoredInv
  <2>2. ASSUME NEW c \in AllCalls
        PROVE  fetches'[c] \in Fetches /\ HasUuid(fetches'[c], issued')
    <3>1. fetches'[c] \in {fetches[c], Scanner!Over}
      BY <1>3 DEF Scanner!ScannerStop, AllCalls
    <3>2. fetches[c] \in Fetches /\ HasUuid(fetches[c], issued)
      BY DEF ScannerInv, FetchInv
    <3> QED
      BY <1>0, <2>1, <3>1, <3>2 DEF HasUuid
  <2>3. FetchInv'
    BY <1>3, <2>2 DEF FetchInv, Scanner!ScannerStop, AllCalls
  <2>4. StaleInv'
    BY <1>3 DEF Scanner!ScannerStop, StaleInv, Stages, Scanner!NoReregistration
  <2>5. StoredInv' /\ KeepsInv
    <3>1. CASE UNCHANGED <<issued, accepted>>
      BY <1>3, <3>1 DEF Scanner!ScannerStop, ScannerInv, StoredInv, KeepsInv
    <3>2. CASE issued' = issued + 1 /\ accepted' = accepted \cup {issued + 1}
      BY <1>3, <3>2 DEF Scanner!ScannerStop, ScannerInv, StoredInv, KeepsInv
    <3> QED
      BY <1>3, <3>1, <3>2 DEF Scanner!ScannerStop
  <2>6. IndexInv'
    <3>1. /\ index' = [a \in Accounts |-> 0] /\ loaded' = FALSE
          /\ writes' = [a \in Accounts |-> <<>>] /\ 0 \in 0..issued'
      BY <1>3, <2>1 DEF Scanner!ScannerStop
    <3> QED
      BY <3>1, NothingWritten
  <2> QED
    BY <2>3, <2>4, <2>5, <2>6 DEF ScannerInv
<1> QED
  BY <1>1, <1>2, <1>3, CallStepKeeps, AccountStepKeeps DEF ScannerNext

-----------------------------------------------------------------------------
(* The types of the scanner's part: no more ids and attempts than there    *)
(* are, and who waits for a re-registration waits for one under way.       *)
ScannerTyped ==
  /\ issued <= MaxUuids
  /\ attempts \in [Scanner!Uuids -> 0..MaxAttempts]
  /\ \A c \in AllCalls : fetches[c].pc \in {"joined", "waiting"} =>
       reregister[fetches[c].account].stage # "none"

(* A request to the scanner neither begins nor changes its account.        *)
GoesOnAlike(f, g) ==
  /\ g.pc = "idle" <=> f.pc = "idle"
  /\ f.pc = "ended" => g.pc = "ended"
  /\ g.pc \notin {"idle", "ended"} => g.account = f.account

LEMMA OverIsOver == Scanner!Over.pc = "ended"
  BY DEF Scanner!Over, Scanner!NoFetch

LEMMA ReleasedFact ==
  ASSUME NEW f \in Fetches, NEW a \in Accounts, NEW u \in Nat, NEW now \in Nat
  PROVE  LET g == Scanner!Released(f, a, u, now) IN
         /\ GoesOnAlike(f, g)
         /\ g.pc \in {"joined", "waiting"} => g = f /\ f.account # a
<1> DEFINE g == Scanner!Released(f, a, u, now)
<1>1. CASE f.account = a /\ f.pc = "joined"
  <2>1. CASE f.kind = "status" /\ u # 0
    <3>1. g = Retried(f, u)
      BY <1>1, <2>1 DEF Scanner!Released, Retried
    <3>2. g.pc = "posted" /\ g.account = f.account
      BY <3>1 DEF Retried, Fetches
    <3> QED
      BY <1>1, <3>2 DEF GoesOnAlike
  <2>2. CASE ~(f.kind = "status" /\ u # 0)
    <3>1. g.pc = "ended"
      BY <1>1, <2>2, OverIsOver DEF Scanner!Released
    <3> QED
      BY <1>1, <3>1 DEF GoesOnAlike
  <2> QED
    BY <2>1, <2>2
<1>2. CASE f.account = a /\ f.pc = "waiting"
  <2>1. \E v : g = With(f, "posted", v)
    BY <1>2 DEF Scanner!Released, With
  <2>2. g.pc = "posted" /\ g.account = f.account
    BY <2>1 DEF With, Fetches
  <2> QED
    BY <1>2, <2>2 DEF GoesOnAlike
<1>3. CASE ~(f.account = a /\ f.pc \in {"joined", "waiting"})
  <2>1. g = f
    BY <1>3 DEF Scanner!Released
  <2> QED
    BY <1>3, <2>1 DEF GoesOnAlike
<1> QED
  BY <1>1, <1>2, <1>3

(* What a registration or a re-registration ends with moves the requests   *)
(* that wait for it on.                                                    *)
LEMMA EndsFact ==
  ASSUME ScannerInv, NEW a \in Accounts, NEW u \in Nat, NEW c \in AllCalls,
         NEW again \in BOOLEAN,
         \/ /\ again
            /\ fetches' = [d \in AllCalls |-> Scanner!Released(fetches[d], a, u, stored[a])]
         \/ Scanner!Registered(a, u, again)
  PROVE  /\ GoesOnAlike(fetches[c], fetches'[c])
         /\ fetches'[c].pc \in {"joined", "waiting"} =>
              fetches'[c] = fetches[c] /\ (again => fetches[c].account # a)
<1> DEFINE f == fetches[c]
<1>0. f \in Fetches /\ stored[a] \in Nat
  BY DEF ScannerInv, FetchInv, StoredInv
<1>1. CASE fetches'[c] = Scanner!Released(f, a, u, stored[a])
  BY <1>0, <1>1, ReleasedFact
<1>2. CASE Scanner!At(c, a, "registering")
           /\ fetches'[c] \in {With(f, "ready", u), Scanner!Over}
  <2>1. CASE fetches'[c] = With(f, "ready", u)
    <3>1. fetches'[c].pc = "ready" /\ fetches'[c].account = f.account /\ f.pc = "registering"
      BY <1>0, <1>2, <2>1 DEF Fetches, With, Scanner!At
    <3> QED
      BY <3>1 DEF GoesOnAlike
  <2>2. CASE fetches'[c] = Scanner!Over
    <3>1. fetches'[c].pc = "ended" /\ f.pc = "registering"
      BY <1>2, <2>2, OverIsOver DEF Scanner!At
    <3> QED
      BY <3>1 DEF GoesOnAlike
  <2> QED
    BY <1>2, <2>1, <2>2
<1>3. CASE fetches'[c] = f /\ ~again
  BY <1>3 DEF GoesOnAlike
<1> QED
  BY <1>1, <1>2, <1>3 DEF Scanner!Registered, AllCalls, With

(* A step of an account moves the requests that wait for it on, all of     *)
(* them when its re-registration ends.                                     *)
LEMMA AccountFact ==
  ASSUME ScannerInv, NEW a \in Accounts, Scanner!AccountStep(a), NEW c \in AllCalls
  PROVE  /\ GoesOnAlike(fetches[c], fetches'[c])
         /\ fetches'[c].pc \in {"joined", "waiting"} =>
              /\ fetches'[c] = fetches[c]
              /\ fetches[c].account = a /\ reregister[a].stage # "none" =>
                   reregister'[a].stage # "none"
<1>0. /\ reregister \in [Accounts -> [stage : Stages, stale : Nat]] /\ 0 \in Nat
      /\ issued \in Nat
  BY DEF ScannerInv, StaleInv, StoredInv
<1>1. ASSUME NEW u \in Nat, NEW again \in BOOLEAN,
             \/ /\ again
                /\ fetches' = [d \in AllCalls |-> Scanner!Released(fetches[d], a, u, stored[a])]
             \/ Scanner!Registered(a, u, again),
             ~again /\ reregister[a].stage # "none" => reregister'[a].stage # "none"
      PROVE  /\ GoesOnAlike(fetches[c], fetches'[c])
             /\ fetches'[c].pc \in {"joined", "waiting"} =>
                  /\ fetches'[c] = fetches[c]
                  /\ fetches[c].account = a /\ reregister[a].stage # "none" =>
                       reregister'[a].stage # "none"
  <2>1. /\ GoesOnAlike(fetches[c], fetches'[c])
        /\ fetches'[c].pc \in {"joined", "waiting"} =>
             fetches'[c] = fetches[c] /\ (again => fetches[c].account # a)
    BY <1>1, EndsFact
  <2> QED
    BY <1>1, <2>1
<1>2. CASE UNCHANGED fetches
           /\ (reregister[a].stage # "none" => reregister'[a].stage # "none")
  BY <1>2 DEF GoesOnAlike
<1>3. CASE Scanner!RegisterSucceeds(a)
  BY <1>2, <1>3 DEF Scanner!RegisterSucceeds
<1>4. CASE Scanner!RegisterFails(a)
  <2> DEFINE again == reregister[a].stage = "registering" /\ Scanner!Known(a) # reregister[a].stale
  <2>1. Scanner!Registered(a, 0, again)
    BY <1>4 DEF Scanner!RegisterFails
  <2>2. ~again /\ reregister[a].stage # "none" => reregister'[a].stage # "none"
    BY <1>0, <1>4 DEF Scanner!RegisterFails, Scanner!GivesUp
  <2>3. again \in BOOLEAN
    OBVIOUS
  <2> HIDE DEF again
  <2> QED
    BY <1>0, <1>1, <2>1, <2>2, <2>3
<1>5. CASE Scanner!Resolved(a)
  BY <1>0, <1>2, <1>5 DEF Scanner!Resolved
<1>6. CASE Scanner!Unresolved(a)
  <2>1. CASE Scanner!Known(a) = reregister[a].stale
    BY <1>0, <1>2, <1>6, <2>1 DEF Scanner!Unresolved, Scanner!GivesUp
  <2>2. CASE Scanner!Known(a) # reregister[a].stale
    <3>1. fetches' = [d \in AllCalls |-> Scanner!Released(fetches[d], a, 0, stored[a])]
      BY <1>6, <2>2 DEF Scanner!Unresolved, AllCalls
    <3>2. TRUE \in BOOLEAN
      OBVIOUS
    <3> QED
      BY <1>0, <1>1, <3>1, <3>2
  <2> QED
    BY <2>1, <2>2
<1>7. CASE Scanner!Indexed(a)
  <2> DEFINE w == Head(writes[a])
             again == reregister[a].stage = IF w.uuid # 0 THEN "registering" ELSE "clearing"
  <2>0. w.uuid \in Nat /\ again \in BOOLEAN
    BY <1>0, <1>7, HeardKeeps
  <2>1. CASE ~w.awaited
    BY <1>2, <1>7, <2>1 DEF Scanner!Indexed
  <2>2. CASE w.awaited
    <3>1. /\ Scanner!EndReregister(a, again)
          /\ IF w.uuid # 0 THEN Scanner!Registered(a, w.uuid, again)
             ELSE fetches' = [d \in AllCalls |-> Scanner!Released(fetches[d], a, 0, stored[a])]
      BY <1>7, <2>2 DEF Scanner!Indexed, AllCalls
    <3>2. ~again => UNCHANGED reregister
      BY <3>1 DEF Scanner!EndReregister
    <3> HIDE DEF again
    <3>3. CASE w.uuid # 0
      BY <1>1, <2>0, <3>1, <3>2, <3>3
    <3>4. CASE w.uuid = 0
      <4>1. TRUE \in BOOLEAN
        OBVIOUS
      <4>2. fetches' = [d \in AllCalls |-> Scanner!Released(fetches[d], a, 0, stored[a])]
        BY <3>1, <3>4
      <4> QED
        BY <1>0, <1>1, <4>1, <4>2
    <3> QED
      BY <3>3, <3>4
  <2> QED
    BY <2>1, <2>2
<1> QED
  BY <1>3, <1>4, <1>5, <1>6, <1>7 DEF Scanner!AccountStep

(* A request that goes on keeps its account, and does not begin.           *)
LEMMA CallFact ==
  ASSUME ScannerInv, ScannerTyped, NEW c \in AllCalls, Scanner!CallStep(c)
  PROVE  /\ fetches' \in [AllCalls -> Fetches]
         /\ GoesOnAlike(fetches[c], fetches'[c])
         /\ fetches'[c].pc \in {"joined", "waiting"} =>
              reregister'[fetches'[c].account].stage # "none"
         /\ \A d \in AllCalls : d # c => fetches'[d] = fetches[d]
         /\ \A a \in Accounts : reregister[a].stage # "none" =>
              reregister'[a].stage # "none"
         /\ attempts' \in [Scanner!Uuids -> 0..MaxAttempts]
         /\ UNCHANGED issued
<1> DEFINE f == fetches[c]
<1>0. /\ f \in Fetches /\ HasUuid(f, issued) /\ fetches \in [AllCalls -> Fetches]
      /\ attempts \in [Scanner!Uuids -> 0..MaxAttempts]
      /\ reregister \in [Accounts -> [stage : Stages, stale : Nat]]
  BY DEF ScannerInv, FetchInv, ScannerTyped, StaleInv
<1>1. fetches' \in [AllCalls -> Fetches]
  BY CallStepKeeps DEF ScannerInv, FetchInv
<1>2. ASSUME NEW g, fetches' = [fetches EXCEPT ![c] = g], GoesOnAlike(f, g),
             g.pc \notin {"joined", "waiting"},
             UNCHANGED <<attempts, reregister, issued>>
      PROVE  /\ GoesOnAlike(f, fetches'[c])
             /\ fetches'[c].pc \notin {"joined", "waiting"}
             /\ \A d \in AllCalls : d # c => fetches'[d] = fetches[d]
             /\ \A a \in Accounts : reregister[a].stage # "none" =>
                  reregister'[a].stage # "none"
             /\ attempts' \in [Scanner!Uuids -> 0..MaxAttempts]
             /\ UNCHANGED issued
  BY <1>0, <1>2
<1>3. f.pc # "idle" => GoesOnAlike(f, Scanner!Over)
  BY OverIsOver DEF GoesOnAlike
<1>4. CASE Scanner!Register(c)
  <2> DEFINE g == [f EXCEPT !.pc = "registering"]
  <2>1. GoesOnAlike(f, g) /\ g.pc = "registering"
    BY <1>0, <1>4 DEF Scanner!Register, GoesOnAlike, Fetches
  <2>2. fetches' = [fetches EXCEPT ![c] = g] /\ UNCHANGED <<attempts, reregister, issued>>
    BY <1>4 DEF Scanner!Register
  <2> QED
    BY <1>1, <1>2, <2>1, <2>2
<1>5. CASE Scanner!Post(c)
  <2>1. PICK pc \in {"waiting", "posted"} :
          /\ fetches' = [fetches EXCEPT ![c].pc = pc]
          /\ pc = "waiting" => reregister[f.account].stage # "none"
    BY <1>5 DEF Scanner!Post
  <2>2. fetches'[c].pc = pc /\ fetches'[c].account = f.account /\ f.pc = "ready"
    BY <1>0, <1>5, <2>1 DEF Scanner!Post, Fetches
  <2> QED
    BY <1>0, <1>1, <1>5, <2>1, <2>2 DEF Scanner!Post, GoesOnAlike
<1>6. CASE Scanner!Fails(c)
  BY <1>1, <1>2, <1>3, <1>6, OverIsOver DEF Scanner!Fails
<1>7. ASSUME NEW last \in BOOLEAN, Scanner!Accepted(c, last)
      PROVE  \E g : /\ fetches' = [fetches EXCEPT ![c] = g] /\ GoesOnAlike(f, g)
                    /\ g.pc \notin {"joined", "waiting"}
  <2>0. f.pc = "posted"
    BY <1>7 DEF Scanner!Accepted
  <2>1. CASE fetches' = [fetches EXCEPT ![c] = Scanner!Over]
    BY <1>3, <2>0, <2>1, OverIsOver
  <2>2. CASE fetches' = [fetches EXCEPT ![c].pc = "ready"]
    <3> DEFINE g == [f EXCEPT !.pc = "ready"]
    <3>1. GoesOnAlike(f, g) /\ g.pc = "ready"
      BY <1>0, <2>0 DEF GoesOnAlike, Fetches
    <3> QED
      BY <2>2, <3>1
  <2> QED
    BY <1>7, <2>1, <2>2 DEF Scanner!Accepted
<1>8. CASE Scanner!Rejected(c)
  <2> DEFINE u == f.uuid  a == f.account
  <2>0. f.pc = "posted" /\ a \in Accounts /\ u \in 1..issued /\ u \in Scanner!Uuids
    BY <1>0, <1>8, AccessAssumption
      DEF HasUuid, Scanner!Rejected, ScannerTyped, ScannerInv, StoredInv, Scanner!Uuids
  <2>1. CASE f.retried \/ attempts[u] >= MaxAttempts
    BY <1>0, <1>1, <1>2, <1>3, <1>8, <2>0, <2>1, OverIsOver DEF Scanner!Rejected
  <2>2. CASE ~(f.retried \/ attempts[u] >= MaxAttempts)
    <3>1. attempts' = [attempts EXCEPT ![u] = @ + 1] /\ UNCHANGED issued
      BY <1>8, <2>2 DEF Scanner!Rejected
    <3>2. attempts' \in [Scanner!Uuids -> 0..MaxAttempts]
      <4>1. attempts[u] \in 0..MaxAttempts /\ attempts[u] < MaxAttempts /\ MaxAttempts \in Nat
        BY <1>0, <2>0, <2>2, AccessAssumption
      <4>2. attempts[u] + 1 \in 0..MaxAttempts
        BY <4>1
      <4> QED
        BY <1>0, <3>1, <4>2
    <3>3. CASE Scanner!Known(a) # u
      BY <1>0, <1>1, <1>3, <1>8, <2>0, <2>2, <3>1, <3>2, <3>3, OverIsOver DEF Scanner!Rejected
    <3>4. CASE Scanner!Known(a) = u
      <4>1. /\ fetches' = [fetches EXCEPT ![c].pc = "joined"]
            /\ reregister' = IF reregister[a].stage # "none" THEN reregister
                 ELSE [reregister EXCEPT ![a] = [stage |-> "resolving", stale |-> u]]
        BY <1>8, <2>2, <3>4 DEF Scanner!Rejected
      <4>2. /\ fetches'[c].pc = "joined" /\ fetches'[c].account = a
            /\ \A d \in AllCalls : d # c => fetches'[d] = fetches[d]
        BY <1>0, <4>1 DEF Fetches
      <4>3. reregister'[a].stage # "none"
        BY <1>0, <2>0, <4>1
      <4>4. \A b \in Accounts : reregister[b].stage # "none" => reregister'[b].stage # "none"
        BY <1>0, <2>0, <4>1
      <4> QED
        BY <1>1, <2>0, <3>1, <3>2, <4>2, <4>3, <4>4 DEF GoesOnAlike
    <3> QED
      BY <3>3, <3>4
  <2> QED
    BY <2>1, <2>2
<1> QED
  BY <1>1, <1>2, <1>4, <1>5, <1>6, <1>7, <1>8 DEF Scanner!CallStep, Scanner!Accepted

LEMMA ScannerTypedKeeps ==
  ASSUME ScannerInv, ScannerTyped, ScannerNext
  PROVE  ScannerTyped'
<1>0. /\ issued \in Nat /\ MaxUuids \in Nat /\ MaxAttempts \in Nat /\ issued <= MaxUuids
      /\ attempts \in [Scanner!Uuids -> 0..MaxAttempts]
      /\ fetches \in [AllCalls -> Fetches]
      /\ \A d \in AllCalls : fetches[d].pc \in {"joined", "waiting"} =>
           fetches[d].account \in Accounts /\ reregister[fetches[d].account].stage # "none"
  BY AccessAssumption DEF ScannerInv, StoredInv, FetchInv, HasUuid, ScannerTyped
<1>1. ASSUME NEW c \in AllCalls, NEW a \in Accounts, NEW kind \in {"records", "status"},
             Scanner!Fetch(c, a, kind)
      PROVE  ScannerTyped'
  <2>1. PICK g : fetches' = [fetches EXCEPT ![c] = g] /\ g.pc \in {"ended", "ready", "viewKey"}
    <3>1. CASE stored[a] = 0 /\ kind = "status"
      BY <1>1, <3>1, OverIsOver DEF Scanner!Fetch
    <3>2. CASE ~(stored[a] = 0 /\ kind = "status")
      <4> DEFINE g == [pc |-> IF stored[a] # 0 THEN "ready" ELSE "viewKey", kind |-> kind,
                       account |-> a, uuid |-> stored[a], retried |-> FALSE]
      <4>1. fetches' = [fetches EXCEPT ![c] = g]
        BY <1>1, <3>2 DEF Scanner!Fetch
      <4>2. g.pc \in {"ended", "ready", "viewKey"}
        OBVIOUS
      <4> QED
        BY <4>1, <4>2
    <3> QED
      BY <3>1, <3>2
  <2>2. \A d \in AllCalls : fetches'[d] = fetches[d] \/ fetches'[d].pc \notin {"joined", "waiting"}
    BY <1>0, <2>1
  <2> QED
    BY <1>0, <1>1, <2>2 DEF Scanner!Fetch, ScannerTyped
<1>2. ASSUME NEW c \in AllCalls, Scanner!CallStep(c)
      PROVE  ScannerTyped'
  <2>1. /\ fetches'[c].pc \in {"joined", "waiting"} =>
             reregister'[fetches'[c].account].stage # "none"
        /\ \A d \in AllCalls : d # c => fetches'[d] = fetches[d]
        /\ \A a \in Accounts : reregister[a].stage # "none" => reregister'[a].stage # "none"
        /\ attempts' \in [Scanner!Uuids -> 0..MaxAttempts] /\ UNCHANGED issued
    BY <1>2, CallFact
  <2>2. ASSUME NEW d \in AllCalls, fetches'[d].pc \in {"joined", "waiting"}
        PROVE  reregister'[fetches'[d].account].stage # "none"
    BY <1>0, <2>1, <2>2
  <2> QED
    BY <1>0, <2>1, <2>2 DEF ScannerTyped
<1>3. ASSUME NEW a \in Accounts, Scanner!AccountStep(a)
      PROVE  ScannerTyped'
  <2>1. issued' <= MaxUuids /\ attempts' \in [Scanner!Uuids -> 0..MaxAttempts]
    <3>1. CASE Scanner!RegisterSucceeds(a)
      BY <1>0, <3>1 DEF Scanner!RegisterSucceeds, Scanner!Uuids
    <3>3. CASE Scanner!Indexed(a)
      <4>1. UNCHANGED issued
            /\ attempts' \in {attempts, [attempts EXCEPT ![reregister[a].stale] = 0]}
        BY <3>3 DEF Scanner!Indexed
      <4> QED
        BY <1>0, <4>1
    <3>2. CASE UNCHANGED <<issued, attempts>>
      BY <1>0, <3>2
    <3> QED
      BY <1>3, <3>1, <3>2, <3>3 DEF Scanner!AccountStep, Scanner!RegisterFails,
        Scanner!Resolved, Scanner!Unresolved
  <2>2. \A b \in Accounts : b # a => reregister'[b] = reregister[b]
    BY <1>3 DEF Scanner!AccountStep, Scanner!RegisterSucceeds, Scanner!RegisterFails,
      Scanner!Resolved, Scanner!Unresolved, Scanner!Indexed, Scanner!GivesUp,
      Scanner!EndReregister, ScannerInv, StaleInv
  <2>3. ASSUME NEW d \in AllCalls, fetches'[d].pc \in {"joined", "waiting"}
        PROVE  reregister'[fetches'[d].account].stage # "none"
    <3>1. /\ fetches'[d] = fetches[d]
          /\ fetches[d].account = a /\ reregister[a].stage # "none" =>
               reregister'[a].stage # "none"
      BY <1>3, <2>3, AccountFact
    <3> QED
      BY <1>0, <2>2, <2>3, <3>1
  <2> QED
    BY <2>1, <2>3 DEF ScannerTyped
<1>4. ASSUME NEW u \in Scanner!Uuids, Scanner!Forget(u)
      PROVE  ScannerTyped'
  BY <1>4 DEF Scanner!Forget, ScannerTyped
<1>5. CASE Scanner!ScannerStop
  <2>1. issued' <= MaxUuids /\ attempts' \in [Scanner!Uuids -> 0..MaxAttempts]
    BY <1>0, <1>5 DEF Scanner!ScannerStop, Scanner!Uuids
  <2>2. \A d \in AllCalls : fetches'[d].pc \in {"idle", "ended"}
    BY <1>0, <1>5, OverIsOver DEF Scanner!ScannerStop, AllCalls
  <2> QED
    BY <2>1, <2>2 DEF ScannerTyped
<1> QED
  BY <1>1, <1>2, <1>3, <1>4, <1>5 DEF ScannerNext

-----------------------------------------------------------------------------
(* The two together. A dapp that may read records names an account of the  *)
(* wallet, by DappInv.                                                     *)

IInv == DappInv /\ ScannerInv

LEMMA DappStartKeeps ==
  ASSUME DappInv, NEW c \in Calls, DappStart(c)
  PROVE  DappInv'
<1>0. selected \in Accounts /\ \A s \in Sites : pages[s] # None => pages[s] \in Accounts
  BY DEF DappInv, Typed
<1>1. ASSUME NEW s \in Sites, NEW coin \in Coins, NEW p \in Permissions \cup {None},
             Connect(c, s, coin, p)
      PROVE  DappInv'
  <2>1. /\ Key(s, coin, selected) \in Keys /\ p \in Granted /\ "connect" \in Methods
    BY <1>0, KeyFact DEF Granted, Methods
  <2> QED
    BY <1>1, <2>1, BeginKeeps DEF Connect
<1>2. ASSUME NEW s \in Sites, NEW coin \in Coins, Revoke(c, s, coin)
      PROVE  DappInv'
  <2>1. Key(s, coin, selected) \in Keys /\ None \in Granted /\ "revoke" \in Methods
    BY <1>0, KeyFact DEF Granted, Methods
  <2> QED
    BY <1>2, <2>1, BeginKeeps DEF Revoke
<1>3. ASSUME NEW s \in Sites, Disconnect(c, s) \/ Use(c, s)
      PROVE  DappInv'
  <2>1. /\ Key(s, "ALEO", pages[s]) \in Keys /\ None \in Granted
        /\ {"disconnect", "records"} \subseteq Methods
    BY <1>0, <1>3, KeyFact, AccessAssumption DEF Granted, Methods, Disconnect, Use
  <2> QED
    BY <1>3, <2>1, BeginKeeps DEF Disconnect, Use
<1> QED
  BY <1>1, <1>2, <1>3 DEF DappStart

LEMMA DappKeeps ==
  ASSUME IInv, Next
  PROVE  DappInv'
<1>0. DappInv
  BY DEF IInv
<1>1. CASE UNCHANGED dappVars
  BY <1>0, <1>1 DEF dappVars, confirmVars, DappInv, Typed, Keyed, Writing, Exists,
    Consented, ConnectionsAreGranted
<1>2. ASSUME NEW c \in Calls, DappStep(c) \/ DappConsent(c) \/ DappCheck(c)
      PROVE  DappInv'
  BY <1>0, <1>2, LookKeeps, CountKeeps, AddKeeps, AnswerKeeps, LeaveKeeps, ConsentKeeps,
    CheckKeeps DEF DappStep, DappConsent, DappCheck
<1>3. CASE Outside
  BY <1>0, <1>1, <1>3, ExpireKeeps, SelectKeeps DEF Outside
<1>4. CASE BackgroundStop
  BY <1>0, <1>4, StopKeeps DEF BackgroundStop
<1> QED
  BY <1>0, <1>1, <1>2, <1>3, <1>4, DappStartKeeps
    DEF Next, WalletStart, ScannerStep, AccountStep

LEMMA ScannerSteps ==
  ASSUME IInv, Next
  PROVE  ScannerNext \/ UNCHANGED scannerVars
<1>1. ASSUME NEW c \in Calls, DappCheck(c)
      PROVE  ScannerNext \/ UNCHANGED scannerVars
  <2>1. c \in AllCalls /\ calls[c].key.account \in Accounts
    BY <1>1 DEF IInv, DappInv, Keyed, Keys, DappCheck, Check, AllCalls
  <2> QED
    BY <1>1, <2>1 DEF DappCheck, ScannerNext
<1>2. ASSUME NEW w \in WalletCalls, WalletStart(w)
      PROVE  ScannerNext
  BY <1>2 DEF WalletStart, ScannerNext, AllCalls
<1>3. ASSUME NEW c \in Calls \cup WalletCalls, ScannerStep(c)
      PROVE  ScannerNext
  BY <1>3 DEF ScannerStep, ScannerNext, AllCalls
<1>4. ASSUME NEW a \in Accounts, AccountStep(a)
      PROVE  ScannerNext
  BY <1>4 DEF AccountStep, ScannerNext
<1>5. CASE Outside
  BY <1>5 DEF Outside, ScannerNext
<1>6. CASE BackgroundStop
  BY <1>6 DEF BackgroundStop, ScannerNext
<1> QED
  BY <1>1, <1>2, <1>3, <1>4, <1>5, <1>6 DEF Next, DappStart, DappStep, DappConsent

LEMMA UnchangedKeeps ==
  ASSUME ScannerInv, UNCHANGED scannerVars
  PROVE  ScannerInv' /\ KeepsInv
<1>1. FetchInv' /\ StoredInv' /\ StaleInv' /\ KeepsInv
  BY DEF scannerVars, ScannerInv, FetchInv, HasUuid, StoredInv, StaleInv, KeepsInv
<1>2. IndexInv'
  BY DEF scannerVars, ScannerInv, IndexInv
<1> QED
  BY <1>1, <1>2 DEF ScannerInv

LEMMA StepKeeps ==
  ASSUME IInv, [Next]_vars
  PROVE  IInv' /\ KeepsInv
<1>1. CASE Next
  BY <1>1, DappKeeps, ScannerSteps, ScannerKeeps, UnchangedKeeps DEF IInv
<1>2. CASE UNCHANGED vars
  <2>1. UNCHANGED scannerVars /\ UNCHANGED dappVars
    BY <1>2 DEF vars
  <2>2. DappInv'
    BY <2>1 DEF IInv, dappVars, confirmVars, DappInv, Typed, Keyed, Writing, Exists,
      Consented, ConnectionsAreGranted
  <2> QED
    BY <2>1, <2>2, UnchangedKeeps DEF IInv
<1> QED
  BY <1>1, <1>2

THEOREM Inductive == Spec => []IInv
<1>1. Init => IInv
  BY DappInvInit, ScannerStart DEF Init, IInv
<1>2. IInv /\ [Next]_vars => IInv'
  BY StepKeeps
<1> QED
  BY <1>1, <1>2, PTL DEF Spec

-----------------------------------------------------------------------------
(* A call that reads records is one with its request to the scanner.       *)

Tied ==
  /\ stops \in 0..MaxStops
  /\ \A c \in Calls :
       /\ fetches[c].pc # "idle" <=> calls[c].pc = "fetching"
       /\ fetches[c].pc \notin {"idle", "ended"} =>
            fetches[c].account = calls[c].key.account

(* The calls that read records, or do not begin to.                        *)
Steady(c) ==
  /\ calls'[c].pc = "fetching" <=> calls[c].pc = "fetching"
  /\ calls[c].pc = "fetching" => calls'[c].key = calls[c].key

LEMMA SteadyTied ==
  ASSUME Tied, UNCHANGED <<fetches, stops>>, \A c \in Calls : Steady(c)
  PROVE  Tied'
  BY DEF Tied, Steady

LEMMA OneCall ==
  ASSUME DappInv, NEW c \in Calls, NEW r, calls' = [calls EXCEPT ![c] = r],
         calls[c].pc # "fetching", r.pc # "fetching"
  PROVE  \A d \in Calls : Steady(d)
  BY DEF DappInv, Typed, Steady

LEMMA DappSteady ==
  ASSUME DappInv, NEW c \in Calls, DappStart(c) \/ DappStep(c) \/ DappConsent(c)
  PROVE  \A d \in Calls : Steady(d)
<1>0. Typed
  BY DEF DappInv
<1>1. ASSUME NEW method, NEW k, NEW permission, NEW pc \in {"looking", "leaving", "checking"},
             Begin(c, method, k, permission, pc)
      PROVE  \A d \in Calls : Steady(d)
  <2> DEFINE r == [pc |-> pc, method |-> method, key |-> k,
                   permission |-> permission, found |-> FALSE]
  <2>1. calls' = [calls EXCEPT ![c] = r] /\ calls[c].pc = "idle" /\ r.pc = pc
    BY <1>1 DEF Begin
  <2> QED
    BY <2>1, OneCall
<1>2. CASE DappStart(c)
  BY <1>1, <1>2 DEF DappStart, Connect, Revoke, Disconnect, Use
<1>3. ASSUME NEW pc \in CallPcs \ {"fetching"}, Goto(c, pc), calls[c].pc # "fetching"
      PROVE  \A d \in Calls : Steady(d)
  <2>1. calls' = [calls EXCEPT ![c] = At(c, pc)] /\ At(c, pc).pc = pc
    BY <1>0, <1>3, AtFact DEF Goto
  <2> QED
    BY <1>3, <2>1, OneCall
<1>4. CASE Look(c) \/ Add(c) \/ Answer(c) \/ Leave(c)
  <2>1. \E pc \in CallPcs \ {"fetching"} : Goto(c, pc) /\ calls[c].pc # "fetching"
    BY <1>4 DEF Look, Add, Answer, Leave, CallPcs
  <2> QED
    BY <1>3, <2>1
<1>5. CASE Count(c)
  <2> DEFINE r == [calls[c] EXCEPT !.pc = "adding", !.found = Exists(calls[c].key)]
  <2>1. calls' = [calls EXCEPT ![c] = r] /\ calls[c].pc = "asking" /\ r.pc = "adding"
    BY <1>0, <1>5 DEF Count, Typed, CallRecords
  <2> QED
    BY <2>1, OneCall
<1>6. CASE Consent(c)
  <2> DEFINE k == Key(calls[c].key.site, calls[c].key.coin, selected)
             r == [calls[c] EXCEPT !.key = k]
  <2>1. calls' = [calls EXCEPT ![c] = r] /\ calls[c].pc = "asking"
    BY <1>6 DEF Consent
  <2>2. r.pc = calls[c].pc
    BY <1>0 DEF Typed, CallRecords
  <2> QED
    BY <2>1, <2>2, OneCall
<1> QED
  BY <1>2, <1>4, <1>5, <1>6 DEF DappStep, DappConsent

(* A request to the scanner begins for an account that is not 0.           *)
LEMMA FetchFact ==
  ASSUME ScannerInv, NEW c \in AllCalls, NEW a \in Accounts, NEW kind,
         Scanner!Fetch(c, a, kind)
  PROVE  /\ fetches'[c].pc # "idle"
         /\ fetches'[c].pc # "ended" => fetches'[c].account = a
         /\ \A d \in AllCalls : d # c => fetches'[d] = fetches[d]
         /\ fetches[c].pc = "idle"
<1>0. fetches \in [AllCalls -> Fetches]
  BY DEF ScannerInv, FetchInv
<1>1. CASE stored[a] = 0 /\ kind = "status"
  BY <1>0, <1>1, OverIsOver DEF Scanner!Fetch
<1>2. CASE ~(stored[a] = 0 /\ kind = "status")
  <2> DEFINE g == [pc |-> IF stored[a] # 0 THEN "ready" ELSE "viewKey", kind |-> kind,
                   account |-> a, uuid |-> stored[a], retried |-> FALSE]
  <2>1. fetches' = [fetches EXCEPT ![c] = g] /\ fetches[c].pc = "idle"
    BY <1>2 DEF Scanner!Fetch
  <2>2. g.pc \notin {"idle", "ended"} /\ g.account = a
    OBVIOUS
  <2> HIDE DEF g
  <2> QED
    BY <1>0, <2>1, <2>2
<1> QED
  BY <1>1, <1>2

(* The scanner's own steps leave the calls alone.                          *)
LEMMA AlikeTied ==
  ASSUME Tied, UNCHANGED <<calls, stops>>,
         \A c \in Calls : GoesOnAlike(fetches[c], fetches'[c])
  PROVE  Tied'
  BY DEF Tied, GoesOnAlike

TypeInv == IInv /\ ScannerTyped /\ Tied

LEMMA TiedKeeps ==
  ASSUME TypeInv, Next
  PROVE  Tied'
<1>0. DappInv /\ ScannerInv /\ ScannerTyped /\ Tied /\ Calls \subseteq AllCalls
  BY DEF TypeInv, IInv, AllCalls
<1>1. ASSUME NEW c \in Calls, DappStart(c) \/ DappStep(c) \/ DappConsent(c)
      PROVE  Tied'
  <2>1. UNCHANGED <<fetches, stops>>
    BY <1>1 DEF DappStart, DappStep, DappConsent, scannerVars
  <2> QED
    BY <1>0, <1>1, <2>1, DappSteady, SteadyTied
<1>2. ASSUME NEW c \in Calls, DappCheck(c)
      PROVE  Tied'
  <2> DEFINE pc == IF Permits(calls[c].key) THEN "fetching" ELSE "ended"
  <2>1. /\ calls[c].pc = "checking" /\ UNCHANGED stops
        /\ calls' = [calls EXCEPT ![c] = At(c, pc)]
    BY <1>2 DEF DappCheck, Check, Goto
  <2>2. At(c, pc).pc = pc /\ (pc = "fetching" => At(c, pc).key = calls[c].key)
    BY <1>0, AtFact DEF DappInv, CallPcs
  <2>3. /\ calls'[c] = At(c, pc)
        /\ \A d \in Calls : d # c => calls'[d] = calls[d]
    BY <1>0, <2>1 DEF DappInv, Typed
  <2>4. CASE pc = "ended"
    <3>1. UNCHANGED fetches
      BY <1>2, <2>2, <2>3, <2>4 DEF DappCheck, scannerVars
    <3>2. \A d \in Calls : Steady(d)
      BY <2>1, <2>2, <2>3, <2>4 DEF Steady
    <3> QED
      BY <1>0, <2>1, <3>1, <3>2, SteadyTied
  <2>5. CASE pc = "fetching"
    <3>1. Scanner!Fetch(c, calls[c].key.account, "records")
      BY <1>2, <2>2, <2>3, <2>5 DEF DappCheck
    <3>2. calls[c].key.account \in Accounts
      BY <1>0, <2>1 DEF DappInv, Keyed, Keys
    <3>3. /\ fetches'[c].pc # "idle"
          /\ fetches'[c].pc # "ended" => fetches'[c].account = calls[c].key.account
          /\ \A d \in AllCalls : d # c => fetches'[d] = fetches[d]
      BY <1>0, <3>1, <3>2, FetchFact
    <3> QED
      BY <1>0, <2>1, <2>2, <2>3, <2>5, <3>3 DEF Tied
  <2> QED
    BY <2>4, <2>5
<1>3. ASSUME NEW w \in WalletCalls, WalletStart(w)
      PROVE  Tied'
  <2>1. \A c \in Calls : fetches'[c] = fetches[c]
    <3>1. PICK a \in Accounts, kind \in {"records", "status"} : Scanner!Fetch(w, a, kind)
      BY <1>3 DEF WalletStart
    <3> QED
      BY <1>0, <3>1, FetchFact, AccessAssumption DEF AllCalls
  <2>2. UNCHANGED <<calls, stops>>
    BY <1>3 DEF WalletStart, dappVars
  <2> QED
    BY <1>0, <2>1, <2>2 DEF Tied
<1>4. ASSUME NEW c \in Calls \cup WalletCalls, ScannerStep(c)
      PROVE  Tied'
  <2>1. \A d \in Calls : GoesOnAlike(fetches[d], fetches'[d])
    <3>1. /\ GoesOnAlike(fetches[c], fetches'[c])
          /\ \A d \in AllCalls : d # c => fetches'[d] = fetches[d]
      BY <1>0, <1>4, CallFact DEF ScannerStep, AllCalls
    <3> QED
      BY <1>0, <3>1 DEF GoesOnAlike
  <2> QED
    BY <1>0, <1>4, <2>1, AlikeTied DEF ScannerStep, dappVars
<1>5. ASSUME NEW a \in Accounts, AccountStep(a)
      PROVE  Tied'
  BY <1>0, <1>5, AccountFact, AlikeTied DEF AccountStep, dappVars
<1>6. CASE Outside
  BY <1>0, <1>6 DEF Outside, Expire, Select, Scanner!Forget, scannerVars, dappVars, Tied
<1>7. CASE BackgroundStop
  <2>1. stops' \in 0..MaxStops
    BY <1>0, <1>7, AccessAssumption DEF BackgroundStop, Tied
  <2>2. ASSUME NEW c \in Calls
        PROVE  /\ calls'[c].pc = "fetching" <=> calls[c].pc = "fetching"
               /\ calls[c].pc = "fetching" => calls'[c] = calls[c]
    <3>1. At(c, "ended").pc = "ended"
      BY <1>0, AtFact DEF DappInv, CallPcs
    <3>2. calls'[c] = IF calls[c].pc \in Ended \cup {"idle"} THEN calls[c] ELSE At(c, "ended")
      BY <1>7 DEF BackgroundStop, Stop
    <3> QED
      BY <3>1, <3>2 DEF Ended
  <2>3. ASSUME NEW c \in Calls
        PROVE  /\ fetches'[c].pc \in {"idle", "ended"}
               /\ fetches'[c].pc = "idle" <=> fetches[c].pc = "idle"
    BY <1>0, <1>7, OverIsOver DEF BackgroundStop, Scanner!ScannerStop, AllCalls
  <2> QED
    BY <1>0, <2>1, <2>2, <2>3 DEF Tied
<1> QED
  BY <1>1, <1>2, <1>3, <1>4, <1>5, <1>6, <1>7 DEF Next

(* Every variable has its type, and a call asks the scanner only if its    *)
(* site was permitted to read records, for the account of its connection   *)
(* (requestRecords, checkPermissionExist).                                 *)
THEOREM TypesHold == Spec => []TypeOK
<1>1. Init => Tied /\ ScannerTyped
  <2> SUFFICES ASSUME Init PROVE Tied /\ ScannerTyped
    OBVIOUS
  <2>1. Scanner!NoFetch.pc = "idle" /\ NoCall.pc = "idle"
    BY DEF Scanner!NoFetch, NoCall
  <2>2. stops \in 0..MaxStops /\ MaxAttempts \in Nat /\ MaxUuids \in Nat
    BY AccessAssumption DEF Init
  <2> QED
    BY <2>1, <2>2 DEF Init, DappInit, Scanner!ScannerInit, Tied, ScannerTyped, AllCalls
<1>2. ASSUME IInv, ScannerTyped, Tied, [Next]_vars
      PROVE  Tied' /\ ScannerTyped'
  <2>1. CASE Next
    <3>1. ScannerTyped'
      <4>1. CASE ScannerNext
        BY <1>2, <4>1, ScannerTypedKeeps DEF IInv
      <4>2. CASE UNCHANGED scannerVars
        BY <1>2, <4>2 DEF scannerVars, ScannerTyped
      <4> QED
        BY <1>2, <2>1, <4>1, <4>2, ScannerSteps
    <3> QED
      BY <1>2, <2>1, <3>1, TiedKeeps DEF TypeInv
  <2>2. CASE UNCHANGED vars
    BY <1>2, <2>2 DEF vars, scannerVars, dappVars, Tied, ScannerTyped
  <2> QED
    BY <1>2, <2>1, <2>2
<1>3. IInv /\ ScannerTyped /\ Tied => TypeOK
  <2> SUFFICES ASSUME IInv, ScannerTyped, Tied PROVE TypeOK
    OBVIOUS
  <2>1. DappTypeOK
    BY DEF IInv, DappInv, Typed, Keyed, DappTypeOK, Granted
  <2>2. Scanner!ScannerTypeOK
    <3>1. issued \in 0..MaxUuids
      BY AccessAssumption DEF IInv, ScannerInv, StoredInv, ScannerTyped
    <3> QED
      <4>1. /\ stored \in [Accounts -> 0..issued] /\ accepted \subseteq 1..issued
            /\ attempts \in [Scanner!Uuids -> 0..MaxAttempts]
            /\ \A a \in Accounts : reregister[a].stage # "none" =>
                 reregister[a].stale \in 1..issued
        BY DEF IInv, ScannerInv, StoredInv, StaleInv, ScannerTyped
      <4>2. /\ index \in [Accounts -> 0..issued] /\ loaded \in BOOLEAN
            /\ writes \in [Accounts -> Seq([uuid : 0..MaxUuids, awaited : BOOLEAN])]
        BY DEF IInv, ScannerInv, IndexInv, Writes
      <4>3. \A c \in AllCalls :
              /\ fetches[c].pc \in {"joined", "waiting"} =>
                   reregister[fetches[c].account].stage # "none"
              /\ fetches[c].pc \in {"ready", "posted"} => fetches[c].uuid \in 1..issued
        BY DEF IInv, ScannerInv, FetchInv, HasUuid, ScannerTyped
      <4> QED
        BY <3>1, <4>1, <4>2, <4>3 DEF Scanner!ScannerTypeOK, AllCalls
  <2> QED
    BY <2>1, <2>2 DEF Tied, TypeOK
<1> QED
  BY <1>1, <1>2, <1>3, Inductive, PTL DEF Spec

(* A site has at most one connection to an account, and what a connection  *)
(* permits the user approved for that account and has not withdrawn since, *)
(* unless an approval that named no permission renewed it                  *)
(* (addConnectHistory, disconnect, accountsChange).                        *)
THEOREM ConnectionsGranted == Spec => []ConnectionsAreGranted
<1>1. IInv => ConnectionsAreGranted
  BY DEF IInv, DappInv
<1> QED
  BY <1>1, Inductive, PTL

(* The wallet gives up the uuid of an account only once the scanner        *)
(* refused it, or for a newer one, if the index of uuids has heard of it   *)
(* (handleUuidNotRegistered, reregisterScannerForUuid, setScannerUuid).    *)
THEOREM RegistrationIsKept == Spec => KeepsRegistration
<1>1. IInv /\ [Next]_vars =>
        [\A a \in Accounts :
           /\ stored[a] \in accepted /\ writes[a] = <<>> => stored'[a] # 0
           /\ stored'[a] # 0 => stored'[a] >= stored[a]]_(Scanner!scannerVars)
  BY StepKeeps DEF KeepsInv
<1> QED
  BY <1>1, Inductive, PTL DEF Spec, KeepsRegistration, Scanner!KeepsRegistration

-----------------------------------------------------------------------------
(* The user's view: every step is one of DappGrants, or changes nothing.   *)

Links == {k \in Keys : Connected(k)}

SamePermitted == \A q \in Keys : Permitted(q)' = Permitted(q)
SameApproved(but) == \A d \in Calls \ but : Approved(d)' = Approved(d)
SameReading(but) == \A d \in Calls \ but : Reading(d)' = Reading(d)

LEMMA Stutters ==
  ASSUME SamePermitted, Links' = Links, SameApproved({}), SameReading({})
  PROVE  UNCHANGED Grants!grantVars
  BY DEF SamePermitted, SameApproved, SameReading, Grants!grantVars, Links

LEMMA Approves ==
  ASSUME NEW c \in Calls, NEW a \in Grants!Approval,
         Approved(c) = None, Approved(c)' = a,
         SamePermitted, Links' = Links, SameApproved({c}), SameReading({})
  PROVE  Grants!Next
<1>1. Grants!Approve(c, a)
  BY DEF Grants!Approve, SamePermitted, SameApproved, SameReading, Links
<1> QED
  BY <1>1 DEF Grants!Next

LEMMA Connects ==
  ASSUME NEW c \in Calls, NEW a \in Grants!Approval,
         Approved(c) = a, Approved(c)' = Spent,
         Permitted(a.key)' =
           IF a.permission = None THEN Permitted(a.key) ELSE a.permission,
         \A q \in Keys \ {a.key} : Permitted(q)' = Permitted(q),
         Links' = Links \cup {a.key},
         SameApproved({c}), SameReading({})
  PROVE  Grants!Next
<1> DEFINE permitted == [k \in Keys |-> Permitted(k)]
<1>1. a.key \in Keys
  BY DEF Grants!Approval
<1>2. [k \in Keys |-> Permitted(k)'] =
        IF a.permission = None THEN permitted
        ELSE [permitted EXCEPT ![a.key] = a.permission]
  BY <1>1
<1>3. Grants!Connect(c, a)
  BY <1>2 DEF Grants!Connect, SameApproved, SameReading, Links
<1> QED
  BY <1>3 DEF Grants!Next

LEMMA Withdraws ==
  ASSUME NEW k \in Keys, Links' = Links \ {k},
         SamePermitted, SameApproved({}), SameReading({})
  PROVE  Grants!Next
<1>1. Grants!Withdraw(k)
  BY DEF Grants!Withdraw, SamePermitted, SameApproved, SameReading, Links
<1> QED
  BY <1>1 DEF Grants!Next

LEMMA Drops ==
  ASSUME NEW lost \in SUBSET Calls,
         \A d \in lost : Approved(d) \in Grants!Approval /\ Approved(d)' = Spent,
         SamePermitted, Links' = Links, SameApproved(lost), SameReading({})
  PROVE  Grants!Next
<1>1. Grants!Drop(lost)
  BY DEF Grants!Drop, SamePermitted, SameApproved, SameReading, Links
<1> QED
  BY <1>1 DEF Grants!Next

LEMMA Reads ==
  ASSUME NEW c \in Calls, NEW k \in Keys,
         Connected(k), Permitted(k) # None, Reading(c) = None, Reading(c)' = k,
         SamePermitted, Links' = Links, SameApproved({}), SameReading({c})
  PROVE  Grants!Next
<1>1. Grants!Read(c, k)
  BY DEF Grants!Read, SamePermitted, SameApproved, SameReading, Links
<1> QED
  BY <1>1 DEF Grants!Next

-----------------------------------------------------------------------------
(* What a connection permits, with at most one row of each key.            *)

Unique(table) == \A i, j \in DOMAIN table : table[i].key = table[j].key => i = j
In(table, k) == \E i \in DOMAIN table : table[i].key = k
FirstOf(table, k) == table[CHOOSE i \in DOMAIN table :
  table[i].key = k /\ \A j \in 1..(i - 1) : table[j].key # k]
PermittedBy(table, k) == IF In(table, k) THEN FirstOf(table, k).permission ELSE None
ConnectedBy(table, k) == In(table, k) /\ FirstOf(table, k).connected

LEMMA FirstFact ==
  ASSUME NEW table \in Seq(Rows), Unique(table), NEW k,
         NEW i \in DOMAIN table, table[i].key = k
  PROVE  In(table, k) /\ FirstOf(table, k) = table[i]
<1> DEFINE First(h) == h \in DOMAIN table /\ table[h].key = k
                      /\ \A j \in 1..(h - 1) : table[j].key # k
<1>1. DOMAIN table = 1..Len(table) /\ Len(table) \in Nat
  OBVIOUS
<1>2. ASSUME NEW j \in 1..(i - 1)
      PROVE  table[j].key # k
  BY <1>1 DEF Unique
<1>3. First(i)
  BY <1>2
<1>4. First(CHOOSE h : First(h))
  BY <1>3
<1>5. (CHOOSE h : First(h)) = i
  BY <1>4 DEF Unique
<1>6. (CHOOSE h \in DOMAIN table : /\ table[h].key = k
                                  /\ \A j \in 1..(h - 1) : table[j].key # k)
        = CHOOSE h : First(h)
  OBVIOUS
<1> QED
  BY <1>5, <1>6 DEF In, FirstOf

LEMMA PermittedFact ==
  ASSUME NEW table \in Seq(Rows), Unique(table), NEW k
  PROVE  /\ \A i \in DOMAIN table : table[i].key = k =>
              /\ PermittedBy(table, k) = table[i].permission
              /\ ConnectedBy(table, k) <=> table[i].connected
         /\ ~In(table, k) => PermittedBy(table, k) = None /\ ~ConnectedBy(table, k)
  BY FirstFact DEF PermittedBy, ConnectedBy

LEMMA SeenBy ==
  ASSUME NEW q
  PROVE  /\ Permitted(q) = PermittedBy(rows, q) /\ Permitted(q)' = PermittedBy(rows', q)
         /\ Connected(q) <=> ConnectedBy(rows, q)
         /\ Connected(q)' <=> ConnectedBy(rows', q)
  BY DEF Permitted, Connected, Exists, RowOf, PermittedBy, ConnectedBy, In, FirstOf

(* A table that keeps the keys and the permissions.                        *)
LEMMA SameRows ==
  ASSUME DappInv, rows' \in Seq(Rows), DOMAIN rows' = DOMAIN rows, NEW q,
         \A i \in DOMAIN rows :
           /\ rows'[i].key = rows[i].key
           /\ rows[i].key = q => rows'[i].permission = rows[i].permission
  PROVE  /\ Permitted(q)' = Permitted(q)
         /\ \A i \in DOMAIN rows : rows[i].key = q =>
              /\ Connected(q)' <=> rows'[i].connected
              /\ Connected(q) <=> rows[i].connected
         /\ ~In(rows, q) => ~Connected(q) /\ ~Connected(q)'
<1>0. rows \in Seq(Rows) /\ Unique(rows)
  BY DEF DappInv, Typed, ConnectionsAreGranted, Unique
<1>1. Unique(rows')
  BY <1>0 DEF Unique
<1>2. /\ \A i \in DOMAIN rows' : rows'[i].key = q =>
           /\ PermittedBy(rows', q) = rows'[i].permission
           /\ ConnectedBy(rows', q) <=> rows'[i].connected
      /\ ~In(rows', q) => PermittedBy(rows', q) = None /\ ~ConnectedBy(rows', q)
  BY <1>1, PermittedFact
<1>3. /\ \A i \in DOMAIN rows : rows[i].key = q =>
           /\ PermittedBy(rows, q) = rows[i].permission
           /\ ConnectedBy(rows, q) <=> rows[i].connected
      /\ ~In(rows, q) => PermittedBy(rows, q) = None /\ ~ConnectedBy(rows, q)
  BY <1>0, PermittedFact
<1>4. In(rows', q) <=> In(rows, q)
  BY DEF In
<1>5. Permitted(q)' = Permitted(q)
  BY <1>2, <1>3, <1>4, SeenBy DEF In
<1>6. /\ \A i \in DOMAIN rows : rows[i].key = q =>
           /\ Connected(q)' <=> rows'[i].connected
           /\ Connected(q) <=> rows[i].connected
      /\ ~In(rows, q) => ~Connected(q) /\ ~Connected(q)'
  BY <1>2, <1>3, <1>4, SeenBy DEF In
<1> QED
  BY <1>5, <1>6

-----------------------------------------------------------------------------
(* The steps of the calls, seen so.                                        *)

LEMMA SameTable ==
  ASSUME UNCHANGED rows
  PROVE  SamePermitted /\ Links' = Links
  BY DEF SamePermitted, Links, Permitted, Connected, Exists, RowOf

(* The others are seen as before.                                          *)
LEMMA OthersSame ==
  ASSUME DappInv, NEW c \in Calls, NEW r, calls' = [calls EXCEPT ![c] = r],
         consent' \ {c} = consent \ {c}
  PROVE  SameApproved({c}) /\ SameReading({c})
<1>1. \A d \in Calls \ {c} : calls'[d] = calls[d] /\ (d \in consent' <=> d \in consent)
  BY DEF DappInv, Typed
<1> QED
  BY <1>1 DEF SameApproved, SameReading, Approved, Reading

(* A call goes on from pc to another, and is seen as before.               *)
LEMMA OneSame ==
  ASSUME DappInv, NEW c \in Calls, NEW r, calls' = [calls EXCEPT ![c] = r],
         UNCHANGED consent,
         calls[c].pc # "fetching", r.pc # "fetching",
         \/ c \notin consent
         \/ {calls[c].pc, r.pc} \cap {"asking", "adding"} = {}
         \/ /\ {calls[c].pc, r.pc} \subseteq {"asking", "adding"}
            /\ r.key = calls[c].key /\ r.permission = calls[c].permission
  PROVE  SameApproved({}) /\ SameReading({})
<1>1. SameApproved({c}) /\ SameReading({c})
  BY OthersSame
<1>2. calls'[c] = r
  BY DEF DappInv, Typed
<1>3. Approved(c)' = Approved(c)
  BY <1>2 DEF Approved
<1>4. Reading(c)' = Reading(c)
  BY <1>2 DEF Reading
<1>5. ASSUME NEW d \in Calls
      PROVE  Approved(d)' = Approved(d) /\ Reading(d)' = Reading(d)
  <2>1. CASE d = c
    BY <1>3, <1>4, <2>1
  <2>2. CASE d # c
    BY <1>1, <2>2 DEF SameApproved, SameReading
  <2> QED
    BY <2>1, <2>2
<1> QED
  BY <1>5 DEF SameApproved, SameReading

(* The rows of key k are disconnected: nothing else changes.               *)
LEMMA DisconnectedPermits ==
  ASSUME DappInv, NEW k \in Keys, rows' = Disconnected(k)
  PROVE  SamePermitted /\ Links' = Links \ {k}
<1>0. Typed /\ rows \in Seq(Rows)
  BY DEF DappInv, Typed
<1>1. /\ rows' \in Seq(Rows) /\ DOMAIN rows' = DOMAIN rows
      /\ \A i \in DOMAIN rows :
           /\ rows'[i].key = rows[i].key /\ rows'[i].permission = rows[i].permission
           /\ rows'[i].connected => rows[i].key # k
           /\ rows[i].key # k => rows'[i] = rows[i]
  BY <1>0, DisconnectedFact DEF Disconnected
<1>2. ASSUME NEW q \in Keys
      PROVE  /\ Permitted(q)' = Permitted(q)
             /\ Connected(q)' <=> (Connected(q) /\ q # k)
  <2>1. /\ Permitted(q)' = Permitted(q)
        /\ \A i \in DOMAIN rows : rows[i].key = q =>
             /\ Connected(q)' <=> rows'[i].connected
             /\ Connected(q) <=> rows[i].connected
        /\ ~In(rows, q) => ~Connected(q) /\ ~Connected(q)'
    BY <1>1, SameRows
  <2>2. CASE In(rows, q)
    <3>1. PICK i \in DOMAIN rows : rows[i].key = q
      BY <2>2 DEF In
    <3> QED
      BY <1>1, <2>1, <3>1
  <2> QED
    BY <2>1, <2>2
<1>3. SamePermitted
  BY <1>2 DEF SamePermitted
<1>4. Links' = Links \ {k}
  BY <1>2 DEF Links
<1> QED
  BY <1>3, <1>4

Seen == Grants!Next \/ UNCHANGED Grants!grantVars

LEMMA BeginSeen ==
  ASSUME DappInv, NEW c \in Calls, DappStart(c)
  PROVE  Seen
<1>1. ASSUME NEW method, NEW k, NEW permission, NEW pc \in {"looking", "leaving", "checking"},
             Begin(c, method, k, permission, pc)
      PROVE  Seen
  <2> DEFINE r == [pc |-> pc, method |-> method, key |-> k,
                   permission |-> permission, found |-> FALSE]
  <2>1. /\ calls' = [calls EXCEPT ![c] = r] /\ calls[c].pc = "idle" /\ r.pc = pc
        /\ UNCHANGED <<rows, consent>>
    BY <1>1 DEF Begin, confirmVars
  <2>2. c \notin consent
    BY <2>1 DEF DappInv, Consented
  <2> HIDE DEF r
  <2> QED
    BY <2>1, <2>2, SameTable, OneSame, Stutters DEF Seen
<1> QED
  BY <1>1 DEF DappStart, Connect, Revoke, Disconnect, Use

LEMMA LookSeen ==
  ASSUME DappInv, NEW c \in Calls, Look(c)
  PROVE  Seen
<1> DEFINE k == calls[c].key
<1>0. Typed /\ k \in Keys /\ calls[c].pc = "looking" /\ c \notin consent
  BY DEF DappInv, Keyed, Consented, Look
<1>1. PICK pc \in {"ended", "leaving", "asking"} : Goto(c, pc)
  BY DEF Look
<1>2. calls' = [calls EXCEPT ![c] = At(c, pc)] /\ At(c, pc).pc = pc
  BY <1>0, <1>1, AtFact DEF Goto, CallPcs
<1>3. UNCHANGED consent
  BY DEF Look, confirmVars, Confirm!Submit
<1>4. SameApproved({}) /\ SameReading({})
  BY <1>0, <1>2, <1>3, OneSame
<1>5. CASE UNCHANGED rows
  BY <1>4, <1>5, SameTable, Stutters DEF Seen
<1>6. CASE rows' = Disconnected(k)
  BY <1>0, <1>4, <1>6, DisconnectedPermits, Withdraws DEF Seen
<1> QED
  BY <1>5, <1>6 DEF Look

LEMMA LeaveSeen ==
  ASSUME DappInv, NEW c \in Calls, Leave(c)
  PROVE  Seen
<1> DEFINE k == calls[c].key
<1>0. Typed /\ k \in Keys /\ calls[c].pc = "leaving"
  BY DEF DappInv, Keyed, Leave
<1>1. calls' = [calls EXCEPT ![c] = At(c, "ended")] /\ At(c, "ended").pc = "ended"
  BY <1>0, AtFact DEF Leave, Goto, CallPcs
<1>2. UNCHANGED consent
  BY DEF Leave, confirmVars
<1>3. SameApproved({}) /\ SameReading({})
  BY <1>0, <1>1, <1>2, OneSame
<1>4. CASE UNCHANGED rows
  BY <1>3, <1>4, SameTable, Stutters DEF Seen
<1>5. CASE rows' = Disconnected(k)
  BY <1>0, <1>3, <1>5, DisconnectedPermits, Withdraws DEF Seen
<1> QED
  BY <1>4, <1>5 DEF Leave

LEMMA ConsentSeen ==
  ASSUME DappInv, NEW c \in Calls, Consent(c)
  PROVE  Seen
<1> DEFINE k == Key(calls[c].key.site, calls[c].key.coin, selected)
           r == [calls[c] EXCEPT !.key = k]
           a == [key |-> k, permission |-> calls[c].permission]
<1>0. /\ Typed /\ calls[c] \in CallRecords /\ calls[c].pc = "asking" /\ c \notin consent
      /\ calls[c].key \in Keys /\ calls[c].permission \in Granted
  BY DEF DappInv, Typed, Keyed, Consent, CallRecords
<1>1. k \in Keys
  BY <1>0 DEF Typed, Keys, Key
<1>2. calls' = [calls EXCEPT ![c] = r] /\ consent' = consent \cup {c} /\ UNCHANGED rows
  BY DEF Consent, Confirm!Consent
<1> HIDE DEF k
<1>3. r.pc = "asking" /\ r.key = k /\ r.permission = calls[c].permission
  BY <1>0 DEF CallRecords
<1>4. SameApproved({c}) /\ SameReading({c})
  BY <1>2, OthersSame
<1> HIDE DEF r
<1>5. calls'[c] = r
  BY <1>0, <1>2 DEF Typed
<1>6. a \in Grants!Approval
  BY <1>0, <1>1 DEF Grants!Approval, Granted
<1>7. Approved(c) = None /\ Approved(c)' = a
  BY <1>0, <1>2, <1>3, <1>5 DEF Approved
<1>8. SameReading({})
  BY <1>0, <1>3, <1>4, <1>5 DEF SameReading, Reading
<1> HIDE DEF a
<1> QED
  BY <1>2, <1>4, <1>6, <1>7, <1>8, SameTable, Approves DEF Seen

LEMMA CountSeen ==
  ASSUME DappInv, NEW c \in Calls, Count(c)
  PROVE  Seen
<1> DEFINE r == [calls[c] EXCEPT !.pc = "adding", !.found = Exists(calls[c].key)]
<1>0. Typed /\ calls[c] \in CallRecords /\ calls[c].pc = "asking"
  BY DEF DappInv, Typed, Count
<1>1. calls' = [calls EXCEPT ![c] = r] /\ UNCHANGED <<rows, consent>>
  BY DEF Count, Confirm!Perform
<1>2. r.pc = "adding" /\ r.key = calls[c].key /\ r.permission = calls[c].permission
  BY <1>0 DEF CallRecords
<1> HIDE DEF r
<1> QED
  BY <1>0, <1>1, <1>2, SameTable, OneSame, Stutters DEF Seen

LEMMA AddSeen ==
  ASSUME DappInv, NEW c \in Calls, Add(c)
  PROVE  Seen
<1> SUFFICES ASSUME NEW k, NEW p, k = calls[c].key, p = calls[c].permission
             PROVE  Seen
  OBVIOUS
<1> DEFINE a == [key |-> k, permission |-> p]
<1>0. /\ Typed /\ k \in Keys /\ p \in Granted /\ calls[c].pc = "adding" /\ c \in consent
      /\ rows \in Seq(Rows) /\ Unique(rows)
  BY DEF DappInv, Typed, Keyed, Writing, Add, ConnectionsAreGranted, Unique, CallRecords
<1>1. calls' = [calls EXCEPT ![c] = At(c, "added")] /\ UNCHANGED consent
  BY DEF Add, Goto, confirmVars
<1>2. calls'[c].pc = "added"
  BY <1>0, <1>1, AtFact DEF Typed, CallPcs
<1>3. SameApproved({c}) /\ SameReading({c})
  BY <1>1, OthersSame
<1>4. SameReading({})
  BY <1>0, <1>2, <1>3 DEF SameReading, Reading
<1>5. Approved(c) = a /\ Approved(c)' = Spent
  BY <1>0, <1>1, <1>2 DEF Approved
<1>6. /\ rows' \in Seq(Rows)
      /\ Unique(rows')
      /\ \A i \in DOMAIN rows' :
           \/ /\ rows'[i].key = k /\ rows'[i].connected
              /\ \/ (p # None \/ ~Exists(k)) /\ rows'[i].permission = p
                 \/ /\ p = None /\ i \in DOMAIN rows /\ rows[i].key = k
                    /\ rows'[i].permission = rows[i].permission
           \/ rows'[i].key # k /\ i \in DOMAIN rows /\ rows'[i] = rows[i]
      /\ \E i \in DOMAIN rows' : rows'[i].key = k
      /\ \A i \in DOMAIN rows : rows[i].key # k =>
           i \in DOMAIN rows' /\ rows'[i] = rows[i]
  BY WrittenFact DEF Unique
<1>7. Permitted(k)' = (IF p = None THEN Permitted(k) ELSE p) /\ Connected(k)'
  <2>1. PICK i \in DOMAIN rows' : rows'[i].key = k
    BY <1>6
  <2>2. rows'[i].connected
    BY <1>6, <2>1
  <2>3. Permitted(k)' = rows'[i].permission /\ Connected(k)'
    BY <1>6, <2>1, <2>2, PermittedFact, SeenBy
  <2>4. CASE p # None
    BY <1>6, <2>1, <2>3, <2>4
  <2>5. CASE p = None /\ ~Exists(k)
    <3>1. ~In(rows, k)
      BY <2>5 DEF Exists, In
    <3>2. Permitted(k) = None
      BY <1>0, <3>1, PermittedFact, SeenBy
    <3>3. rows'[i].permission = None
      BY <1>6, <2>1, <2>5 DEF Exists
    <3> QED
      BY <2>3, <2>5, <3>2, <3>3
  <2>6. CASE p = None /\ Exists(k)
    <3>1. i \in DOMAIN rows /\ rows[i].key = k /\ rows'[i].permission = rows[i].permission
      BY <1>6, <2>1, <2>6
    <3>2. Permitted(k) = rows[i].permission
      BY <1>0, <3>1, PermittedFact, SeenBy
    <3> QED
      BY <2>3, <2>6, <3>1, <3>2
  <2> QED
    BY <2>4, <2>5, <2>6
<1>8. ASSUME NEW q \in Keys \ {k}
      PROVE  Permitted(q)' = Permitted(q) /\ (Connected(q)' <=> Connected(q))
  <2>1. CASE In(rows, q)
    <3>1. PICK i \in DOMAIN rows : rows[i].key = q
      BY <2>1 DEF In
    <3>2. i \in DOMAIN rows' /\ rows'[i] = rows[i]
      BY <1>6, <3>1
    <3>3. Permitted(q) = rows[i].permission /\ (Connected(q) <=> rows[i].connected)
      BY <1>0, <3>1, PermittedFact, SeenBy
    <3>4. Permitted(q)' = rows'[i].permission /\ (Connected(q)' <=> rows'[i].connected)
      BY <1>6, <3>1, <3>2, PermittedFact, SeenBy
    <3> QED
      BY <3>2, <3>3, <3>4
  <2>2. CASE ~In(rows, q)
    <3>1. ~In(rows', q)
      BY <1>6, <2>2 DEF In
    <3>2. Permitted(q) = None /\ ~Connected(q) /\ Permitted(q)' = None /\ ~Connected(q)'
      BY <1>0, <1>6, <2>2, <3>1, PermittedFact, SeenBy
    <3> QED
      BY <3>2
  <2> QED
    BY <2>1, <2>2
<1>9. Links' = Links \cup {k}
  BY <1>0, <1>7, <1>8 DEF Links
<1>10. a \in Grants!Approval /\ a.key = k /\ a.permission = p
  BY <1>0 DEF Grants!Approval, Granted
<1> HIDE DEF a
<1> QED
  BY <1>3, <1>4, <1>5, <1>7, <1>8, <1>9, <1>10, Connects DEF Seen

LEMMA AnswerSeen ==
  ASSUME DappInv, NEW c \in Calls, Answer(c)
  PROVE  Seen
<1> DEFINE a == [key |-> calls[c].key, permission |-> calls[c].permission]
<1>0. Typed /\ calls[c].pc \in {"asking", "added"}
  BY DEF DappInv, Answer
<1>1. /\ calls' = [calls EXCEPT ![c] = At(c, "ended")] /\ At(c, "ended").pc = "ended"
      /\ UNCHANGED <<rows, consent>>
  BY <1>0, AtFact DEF Answer, Goto, CallPcs, Confirm!Answer
<1>2. CASE calls[c].pc = "added" \/ c \notin consent
  BY <1>0, <1>1, <1>2, SameTable, OneSame, Stutters DEF Seen
<1>3. CASE calls[c].pc = "asking" /\ c \in consent
  <2>1. a \in Grants!Approval
    BY <1>3 DEF DappInv, Typed, Keyed, CallRecords, Granted, Grants!Approval
  <2>2. calls'[c].pc = "ended"
    BY <1>0, <1>1 DEF Typed
  <2>3. Approved(c) = a /\ Approved(c)' = Spent
    BY <1>1, <1>3, <2>2 DEF Approved
  <2>4. SameApproved({c}) /\ SameReading({c})
    BY <1>1, OthersSame
  <2>5. SameReading({})
    BY <1>3, <2>2, <2>4 DEF SameReading, Reading
  <2> QED
    BY <1>1, <2>1, <2>3, <2>4, <2>5, SameTable, Drops DEF Seen
<1> QED
  BY <1>0, <1>2, <1>3

LEMMA CheckSeen ==
  ASSUME DappInv, NEW c \in Calls, Check(c)
  PROVE  Seen
<1> DEFINE k == calls[c].key
           pc == IF Permits(k) THEN "fetching" ELSE "ended"
<1>0. Typed /\ calls[c].pc = "checking" /\ k \in Keys
  BY DEF DappInv, Keyed, Check
<1>1. /\ calls' = [calls EXCEPT ![c] = At(c, pc)] /\ UNCHANGED <<rows, consent>>
  BY DEF Check, Goto, confirmVars
<1>2. At(c, pc).pc = pc /\ (pc = "fetching" => At(c, pc).key = k)
  BY <1>0, AtFact DEF CallPcs
<1>3. CASE ~Permits(k)
  <2>1. pc = "ended"
    BY <1>3
  <2> QED
    BY <1>0, <1>1, <1>2, <2>1, SameTable, OneSame, Stutters DEF Seen
<1>4. CASE Permits(k)
  <2>0. pc = "fetching"
    BY <1>4
  <2> HIDE DEF pc
  <2>1. calls'[c].pc = "fetching" /\ calls'[c].key = k
    BY <1>0, <1>1, <1>2, <2>0 DEF Typed
  <2>2. SameApproved({c}) /\ SameReading({c})
    BY <1>1, OthersSame
  <2>3. Reading(c) = None /\ Reading(c)' = k
    BY <1>0, <2>1 DEF Reading
  <2>4. Approved(c)' = Approved(c)
    BY <1>0, <1>1, <2>1 DEF Approved
  <2>5. SameApproved({})
    BY <2>2, <2>4 DEF SameApproved
  <2>6. Connected(k) /\ Permitted(k) # None
    BY <1>4 DEF Permits, Connected, Permitted
  <2> QED
    BY <1>0, <1>1, <2>2, <2>3, <2>5, <2>6, SameTable, Reads DEF Seen
<1> QED
  BY <1>3, <1>4

-----------------------------------------------------------------------------
(* What happens around the calls, seen so.                                 *)

LEMMA ExpireSeen ==
  ASSUME DappInv, NEW i \in DOMAIN rows, Expire(i)
  PROVE  Seen
<1>1. /\ rows \in [1..Len(rows) -> Rows] /\ Len(rows) \in Nat /\ DOMAIN rows = 1..Len(rows)
      /\ rows' = [rows EXCEPT ![i].fresh = FALSE]
      /\ UNCHANGED <<calls, consent>>
  BY DEF DappInv, Typed, Expire, confirmVars
<1>2. rows' \in [1..Len(rows) -> Rows]
  BY <1>1 DEF Rows
<1>3. rows' \in Seq(Rows) /\ DOMAIN rows' = DOMAIN rows
  BY <1>1, <1>2
<1>4. \A j \in DOMAIN rows : /\ rows'[j].key = rows[j].key
                             /\ rows'[j].permission = rows[j].permission
                             /\ rows'[j].connected = rows[j].connected
  BY <1>1 DEF Rows
<1>5. SamePermitted /\ Links' = Links
  <2>1. ASSUME NEW q \in Keys
        PROVE  Permitted(q)' = Permitted(q) /\ (Connected(q)' <=> Connected(q))
    <3>1. /\ Permitted(q)' = Permitted(q)
          /\ \A j \in DOMAIN rows : rows[j].key = q =>
               /\ Connected(q)' <=> rows'[j].connected
               /\ Connected(q) <=> rows[j].connected
          /\ ~In(rows, q) => ~Connected(q) /\ ~Connected(q)'
      BY <1>1, <1>3, <1>4, SameRows
    <3> QED
      BY <1>4, <3>1 DEF In
  <2> QED
    BY <2>1 DEF SamePermitted, Links
<1>6. SameApproved({}) /\ SameReading({})
  BY <1>1 DEF SameApproved, SameReading, Approved, Reading
<1> QED
  BY <1>5, <1>6, Stutters DEF Seen

LEMMA StopSeen ==
  ASSUME DappInv, Stop
  PROVE  Seen
<1> DEFINE lost == {d \in Calls : d \in consent /\ calls[d].pc \in {"asking", "adding"}}
<1>0. /\ Typed /\ UNCHANGED <<rows, consent>>
      /\ calls' = [c \in Calls |-> IF calls[c].pc \in Ended \cup {"idle"} THEN calls[c]
                                   ELSE At(c, "ended")]
  BY DEF DappInv, Stop, Confirm!Lose
<1>1. ASSUME NEW d \in Calls
      PROVE  IF calls[d].pc \in Ended \cup {"idle"} THEN calls'[d] = calls[d]
             ELSE calls'[d].pc = "ended"
  BY <1>0, AtFact DEF CallPcs
<1>2. ASSUME NEW d \in lost
      PROVE  Approved(d) \in Grants!Approval /\ Approved(d)' = Spent
  <2>1. calls'[d].pc = "ended"
    BY <1>1 DEF Ended
  <2>2. Approved(d)' = Spent
    BY <1>0, <2>1 DEF Approved
  <2>3. Approved(d) = [key |-> calls[d].key, permission |-> calls[d].permission]
    BY DEF Approved
  <2> QED
    BY <2>2, <2>3 DEF DappInv, Typed, Keyed, CallRecords, Granted, Grants!Approval
<1>3. SameApproved(lost)
  BY <1>0, <1>1 DEF SameApproved, Approved, Ended
<1>4. SameReading({})
  BY <1>1 DEF SameReading, Reading, Ended
<1> HIDE DEF lost
<1>5. lost \in SUBSET Calls
  BY DEF lost
<1> QED
  BY <1>0, <1>2, <1>3, <1>4, <1>5, SameTable, Drops DEF Seen

LEMMA StepSeen ==
  ASSUME IInv, [Next]_vars
  PROVE  [Grants!Next]_(Grants!grantVars)
<1>0. DappInv
  BY DEF IInv
<1>1. CASE UNCHANGED <<rows, calls, consent>>
  <2>1. SameApproved({}) /\ SameReading({})
    BY <1>1 DEF SameApproved, SameReading, Approved, Reading
  <2> QED
    BY <1>1, <2>1, SameTable, Stutters
<1>2. ASSUME NEW c \in Calls, DappStart(c) \/ DappStep(c) \/ DappConsent(c) \/ DappCheck(c)
      PROVE  Seen
  BY <1>0, <1>2, BeginSeen, LookSeen, CountSeen, AddSeen, AnswerSeen, LeaveSeen,
    ConsentSeen, CheckSeen DEF DappStep, DappConsent, DappCheck
<1>3. CASE Outside
  BY <1>0, <1>1, <1>3, ExpireSeen DEF Outside, Select, confirmVars, dappVars, Seen
<1>4. CASE BackgroundStop
  BY <1>0, <1>4, StopSeen DEF BackgroundStop, Seen
<1>5. CASE UNCHANGED dappVars
  BY <1>1, <1>5 DEF dappVars, confirmVars
<1>6. CASE Next
  <2>1. ASSUME NEW x, WalletStart(x) \/ ScannerStep(x) \/ AccountStep(x)
        PROVE  UNCHANGED dappVars
    BY <2>1 DEF WalletStart, ScannerStep, AccountStep
  <2>2. CASE Seen
    BY <2>2 DEF Seen
  <2> QED
    BY <1>2, <1>3, <1>4, <1>5, <1>6, <2>1, <2>2 DEF Next
<1> QED
  BY <1>5, <1>6 DEF vars

(* Whatever other calls, pages and restarts do between the awaits, a       *)
(* connection changes only by an approval that was not carried out yet, to *)
(* what that said, or ends; and a dapp reads records under a connection    *)
(* that exists and permits something then (addConnectHistory, disconnect,  *)
(* checkPermissionExist).                                                  *)
THEOREM GrantsImplemented == Spec => ImplementsGrants
<1>1. Init => Grants!Init
  <2> SUFFICES ASSUME Init PROVE Grants!Init
    OBVIOUS
  <2>1. /\ rows \in Seq(Rows) /\ \A i \in DOMAIN rows : ~rows[i].connected
        /\ Unique(rows)
    BY AccessAssumption DEF Init, DappInit, Unique
  <2>2. /\ consent = {} /\ calls = [c \in Calls |-> NoCall]
        /\ NoCall.pc = "idle"
    BY DEF Init, DappInit, Confirm!Init, NoCall
  <2>3. ASSUME NEW k \in Keys
        PROVE  ~Connected(k) /\ Permitted(k) \in Permissions \cup {None}
    <3>1. CASE In(rows, k)
      <4>1. PICK i \in DOMAIN rows : rows[i].key = k
        BY <3>1 DEF In
      <4>2. Permitted(k) = rows[i].permission /\ ~Connected(k)
        BY <2>1, <4>1, PermittedFact, SeenBy
      <4>3. rows[i] \in Rows
        BY <2>1, <4>1
      <4> QED
        BY <4>2, <4>3 DEF Rows
    <3>2. CASE ~In(rows, k)
      BY <2>1, <3>2, PermittedFact, SeenBy
    <3> QED
      BY <3>1, <3>2
  <2>4. \A c \in Calls : Approved(c) = None /\ Reading(c) = None
    BY <2>2 DEF Approved, Reading
  <2> QED
    BY <2>3, <2>4 DEF Grants!Init
<1>2. IInv /\ [Next]_vars => [Grants!Next]_(Grants!grantVars)
  BY StepSeen
<1> QED
  BY <1>1, <1>2, Inductive, PTL DEF Spec, ImplementsGrants, Grants!Spec
=============================================================================
