------------------------------ MODULE RecordSync ------------------------------
(***************************************************************************)
(* The record synchronisation of the Aleo scanner (RecordSyncService.ts).  *)
(* Screens that show records are consumers of a view scope, one for each   *)
(* scanner id and filter. A scope fetches the owned records of all the     *)
(* programs of its consumers, now and then in full ("hard"), more often    *)
(* from the height of its last fetch on, less Lookback blocks ("light"),   *)
(* and after each fetch asks which of its unspent records were spent. The  *)
(* chain and the scanner behind it are the environment.                    *)
(***************************************************************************)
EXTENDS Integers, FiniteSets

CONSTANTS
  Records, Programs,
  ProgramOf,     \* the program of a record
  Consumers,
  Wanted,        \* the programs a consumer asks for
  FilterOf,      \* "all", "unspent" or "spent": what a consumer asks for
  Uuids,         \* the ids the scanner knows an account by
  None,
  Lookback,      \* RECORD_SYNC_BLOCK_HEIGHT_LOOKBACK
  Lag,           \* the blocks by which the scanner may be behind the chain
  Slack,         \* the blocks mined between the two answers of a refresh
  MaxHeight,     \* bound: blocks
  MaxCalls,      \* bound: view calls
  MaxScopes      \* bound: scopes created

ASSUME SyncAssumption ==
  /\ ProgramOf \in [Records -> Programs]
  /\ Wanted \in [Consumers -> (SUBSET Programs) \ {{}}]
  /\ FilterOf \in [Consumers -> {"all", "unspent", "spent"}]
  /\ None \notin Uuids \X {"all", "unspent", "spent"}
  /\ {Lookback, Lag, Slack} \subseteq Nat
  /\ {MaxHeight, MaxCalls, MaxScopes} \subseteq Nat
  /\ Lag + Slack <= Lookback

VARIABLES
  height,           \* the chain's
  chain,            \* where each record stands, and its block
  viewScopes,       \* the live scope of a key, 0 for none
  consumerToScope,  \* the key of a consumer's scope, or None
  scopes,           \* every scope created, those disposed of included
  created,          \* their number
  calls

environment == <<height, chain>>
index == <<viewScopes, consumerToScope, created>>
vars == <<environment, index, scopes, calls>>

Keys == Uuids \X {"all", "unspent", "spent"}
Ids == 1..MaxScopes
Calls == 1..MaxCalls
Stages == {"absent", "indexed", "tagged", "spent"}
Flags == {"none", "unspent", "spent"}

Nothing == [r \in Records |-> "none"]

(* No refresh in flight. "answer" is what the scanner held of the programs *)
(* when it was asked, of which it sends what is not older than "start".    *)
Idle == [stage |-> "none", mode |-> "none", programs |-> {}, start |-> 0,
         owned |-> "open", answer |-> Nothing,
         tip |-> "open", latestHeight |-> 0, apart |-> 0]

(* "timer" tells that a hard timer waits for the refresh in flight;        *)
(* history: "ever" holds the records once known as spent, "covered" the    *)
(* programs every successful fetch since the last hard one asked for.      *)
Fresh(k) ==
  [key |-> k, disposed |-> FALSE, records |-> Nothing, consumers |-> {},
   initialized |-> FALSE, pendingHardRefresh |-> FALSE, timer |-> FALSE,
   hardOnce |-> FALSE, lastHeight |-> 0, refresh |-> Idle,
   ever |-> {}, covered |-> {}]

Call(pc, i, mode) == [pc |-> pc, scope |-> i, mode |-> mode]

Init ==
  /\ height = 0
  /\ chain = [r \in Records |-> [stage |-> "absent", block |-> 0]]
  /\ viewScopes = [k \in Keys |-> 0]
  /\ consumerToScope = [u \in Consumers |-> None]
  /\ scopes = [i \in Ids |-> Fresh(None)]
  /\ created = 0
  /\ calls = [c \in Calls |-> Call("idle", 0, "none")]

Live(i) == i <= created /\ ~scopes[i].disposed
InFlight(i) == scopes[i].refresh.stage # "none"

-----------------------------------------------------------------------------
(* Chain and scanner                                                       *)

(* No more than Slack blocks are mined between the two answers of a        *)
(* refresh.                                                                *)
MineBlock ==
  LET halfway(i) == scopes[i].refresh.owned = "answered"
                    /\ scopes[i].refresh.tip = "open"
  IN /\ height < MaxHeight
     /\ \A i \in Ids : halfway(i) => scopes[i].refresh.apart < Slack
     /\ height' = height + 1
     /\ scopes' = [i \in Ids |->
          IF halfway(i) THEN [scopes[i] EXCEPT !.refresh.apart = @ + 1]
          ELSE scopes[i]]
     /\ UNCHANGED <<chain, index, calls>>

(* The scanner finds a record, no more than Lag blocks after it was mined; *)
(* once it is spent, the answer about tags may say so before the answer    *)
(* about owned records does.                                               *)
Advance(r) ==
  /\ \/ /\ chain[r].stage = "absent"
        /\ \E b \in 0..height :
             /\ height <= b + Lag
             /\ chain' = [chain EXCEPT ![r] = [stage |-> "indexed", block |-> b]]
     \/ /\ chain[r].stage = "indexed"
        /\ chain' = [chain EXCEPT ![r].stage = "tagged"]
     \/ /\ chain[r].stage = "tagged"
        /\ chain' = [chain EXCEPT ![r].stage = "spent"]
  /\ UNCHANGED <<height, index, scopes, calls>>

(* What the scanner answers of a record to a request with this filter.     *)
Owned(filter, r) ==
  CASE chain[r].stage \in {"indexed", "tagged"} ->
         IF filter = "spent" THEN "none" ELSE "unspent"
    [] chain[r].stage = "spent" ->
         IF filter = "unspent" THEN "none" ELSE "spent"
    [] OTHER -> "none"

-----------------------------------------------------------------------------
(* Scopes and their refreshes                                              *)

ProgramsOf(consumers) == UNION {Wanted[u] : u \in consumers}

(* disposeScope. A refresh in flight goes on; what it is answered no       *)
(* longer matters.                                                         *)
Disposed(s) ==
  [Fresh(s.key) EXCEPT
    !.disposed = TRUE, !.refresh.stage = s.refresh.stage]

(* The scope when a refresh starts.                                        *)
Begun(s, mode) ==
  [s EXCEPT
    !.pendingHardRefresh = IF mode = "hard" THEN FALSE ELSE @,
    !.refresh = [Idle EXCEPT
      !.stage = "fetch", !.mode = mode, !.programs = ProgramsOf(s.consumers),
      !.start = IF mode = "light" /\ s.lastHeight > Lookback
                THEN s.lastHeight - Lookback ELSE 0]]

(* As if a hard refresh just joined the one in flight.                     *)
RefreshedJoined(s, mode) ==
  IF s.refresh.stage = "none" THEN Begun(s, mode) ELSE s

(* The scope after refreshScope was called: it joins a refresh in flight,  *)
(* a hard one asks the light one in flight for another.                    *)
Refreshed(s, mode) ==
  IF s.refresh.stage = "none" THEN Begun(s, mode)
  ELSE IF mode = "hard" /\ s.refresh.mode = "light"
       THEN [s EXCEPT !.pendingHardRefresh = TRUE]
       ELSE s

(* The scopes once consumer u has left the one it uses.                    *)
Without(u) ==
  [i \in Ids |->
    IF u \notin scopes[i].consumers THEN scopes[i]
    ELSE IF scopes[i].consumers = {u} THEN Disposed(scopes[i])
         ELSE [scopes[i] EXCEPT !.consumers = @ \ {u}]]

(* The keys that have a live scope among s.                                *)
Indexed(s) ==
  [k \in Keys |->
    IF viewScopes[k] # 0 /\ s[viewScopes[k]].disposed THEN 0 ELSE viewScopes[k]]

(* getViewOwnedRecords: a consumer that used another scope leaves it; the  *)
(* scope of the key is found or created; a call that needs a refresh waits *)
(* for it. "auto" means hard for a scope that no call has initialized yet. *)
View(c, u, uuid, mode) ==
  LET k == <<uuid, FilterOf[u]>>
      left == IF consumerToScope[u] \in {None, k} THEN scopes ELSE Without(u)
      i == IF viewScopes[k] # 0 THEN viewScopes[k] ELSE created + 1
      found == IF viewScopes[k] # 0 THEN left[i] ELSE Fresh(k)
      joined == [found EXCEPT !.consumers = @ \cup {u}]
      effective == IF mode = "auto" /\ ~found.initialized THEN "hard" ELSE mode
  IN /\ calls[c].pc = "idle" /\ \A d \in 1..(c - 1) : calls[d].pc # "idle"
     /\ i \in Ids
     /\ created' = IF i > created THEN i ELSE created
     /\ viewScopes' = [Indexed(left) EXCEPT ![k] = i]
     /\ consumerToScope' = [consumerToScope EXCEPT ![u] = k]
     /\ IF effective \in {"light", "hard"}
        THEN /\ scopes' = [left EXCEPT ![i] = Refreshed(joined, effective)]
             /\ calls' = [calls EXCEPT ![c] = Call("waiting", i, effective)]
        ELSE /\ scopes' = [left EXCEPT ![i] = [joined EXCEPT !.initialized = TRUE]]
             /\ calls' = [calls EXCEPT ![c] = Call("returned", 0, "none")]
     /\ UNCHANGED <<environment>>

(* deactivateViewConsumer, when a screen is left.                          *)
Deactivate(u) ==
  /\ consumerToScope[u] # None
  /\ consumerToScope' = [consumerToScope EXCEPT ![u] = None]
  /\ scopes' = Without(u)
  /\ viewScopes' = Indexed(Without(u))
  /\ UNCHANGED <<environment, created, calls>>

(* resetAddress and resetChain: every scope of the account goes.           *)
Reset ==
  /\ \E k \in Keys : viewScopes[k] # 0
  /\ scopes' = [i \in Ids |-> IF Live(i) THEN Disposed(scopes[i]) ELSE scopes[i]]
  /\ viewScopes' = [k \in Keys |-> 0]
  /\ consumerToScope' = [u \in Consumers |->
       IF \E i \in Ids : u \in scopes[i].consumers THEN None
       ELSE consumerToScope[u]]
  /\ UNCHANGED <<environment, created, calls>>

(* As if the hard timer, like the light one, came after a hard refresh.    *)
HardTickAfterFirst(i) ==
  /\ Live(i)
  /\ scopes[i].hardOnce /\ ~InFlight(i)
  /\ scopes' = [scopes EXCEPT ![i] = Begun(@, "hard")]
  /\ UNCHANGED <<environment, index, calls>>

(* The timers of a scope; what joins a refresh of its own kind is left out.*)
HardTick(i) ==
  /\ Live(i)
  /\ InFlight(i) => scopes[i].refresh.mode = "light" /\ ~scopes[i].timer
  /\ scopes' = [scopes EXCEPT ![i] =
       [Refreshed(scopes[i], "hard") EXCEPT !.timer = InFlight(i)]]
  /\ UNCHANGED <<environment, index, calls>>

LightTick(i) ==
  /\ Live(i)
  /\ scopes[i].hardOnce /\ ~InFlight(i)
  /\ scopes' = [scopes EXCEPT ![i] = Begun(@, "light")]
  /\ UNCHANGED <<environment, index, calls>>

-----------------------------------------------------------------------------
(* The steps of a refresh                                                  *)

Fetching(i) == Live(i) /\ scopes[i].refresh.stage = "fetch"
Tagging(i) == Live(i) /\ scopes[i].refresh.stage = "tags"

OwnedAnswered(i) ==
  /\ Fetching(i) /\ scopes[i].refresh.owned = "open"
  /\ scopes' = [scopes EXCEPT
       ![i].refresh.owned = "answered",
       ![i].refresh.answer = [r \in Records |->
         IF ProgramOf[r] \in scopes[i].refresh.programs
         THEN Owned(scopes[i].key[2], r) ELSE "none"]]
  /\ UNCHANGED <<environment, index, calls>>

OwnedFails(i) ==
  /\ Fetching(i) /\ scopes[i].refresh.owned = "open"
  /\ scopes' = [scopes EXCEPT ![i].refresh.owned = "failed"]
  /\ UNCHANGED <<environment, index, calls>>

HeightAnswered(i) ==
  /\ Fetching(i) /\ scopes[i].refresh.tip = "open"
  /\ scopes' = [scopes EXCEPT ![i].refresh.tip = "answered",
                              ![i].refresh.latestHeight = height]
  /\ UNCHANGED <<environment, index, calls>>

HeightFails(i) ==
  /\ Fetching(i) /\ scopes[i].refresh.tip = "open"
  /\ scopes' = [scopes EXCEPT ![i].refresh.tip = "failed"]
  /\ UNCHANGED <<environment, index, calls>>

(* As if the answer to the request for owned records were always right.    *)
MergedPlain(old, new) == IF new = "none" THEN old ELSE new

(* The records a refresh is sent.                                          *)
Sent(f) == [r \in Records |->
  IF chain[r].block >= f.start THEN f.answer[r] ELSE "none"]

Merged(old, new) ==
  IF "spent" \in {old, new} THEN "spent" ELSE IF new = "none" THEN old ELSE new

(* replaceRecordsForPrograms: a record that is not in the answer goes.     *)
Replaced(s) ==
  [r \in Records |->
    IF ProgramOf[r] \notin s.refresh.programs THEN s.records[r]
    ELSE IF Sent(s.refresh)[r] = "none" THEN "none"
    ELSE Merged(s.records[r], Sent(s.refresh)[r])]

(* mergeRecordsIntoScope                                                   *)
MergedIn(s) == [r \in Records |-> Merged(s.records[r], Sent(s.refresh)[r])]

SpentIn(records) == {r \in Records : records[r] = "spent"}
UnspentIn(records) == {r \in Records : records[r] = "unspent"}

(* As if the height were kept when the records could not be had.           *)
FetchedHeight(s) ==
  LET hard == s.refresh.mode = "hard"
      records == IF hard THEN Replaced(s) ELSE MergedIn(s)
      height_ == IF s.refresh.tip = "answered" THEN s.refresh.latestHeight
                 ELSE s.lastHeight
  IN IF s.refresh.owned = "failed" THEN [s EXCEPT !.lastHeight = height_]
     ELSE [s EXCEPT
            !.records = records,
            !.lastHeight = height_,
            !.hardOnce = @ \/ hard,
            !.ever = @ \cup SpentIn(records),
            !.covered = s.refresh.programs \cap IF hard THEN Programs ELSE @]

(* A live scope after both answers of a fetch are in.                      *)
Fetched(s) ==
  LET hard == s.refresh.mode = "hard"
      records == IF hard THEN Replaced(s) ELSE MergedIn(s)
  IN IF s.refresh.owned = "failed" THEN s
     ELSE [s EXCEPT
            !.records = records,
            !.lastHeight = IF s.refresh.tip = "answered"
                           THEN s.refresh.latestHeight ELSE @,
            !.hardOnce = @ \/ hard,
            !.ever = @ \cup SpentIn(records),
            !.covered = s.refresh.programs \cap IF hard THEN Programs ELSE @]

(* Scope s after its refresh has ended, for those that wait for it.        *)
HardWaits(i, s) ==
  \/ s.timer
  \/ \E c \in Calls : /\ calls[c].pc = "waiting" /\ calls[c].scope = i
                      /\ calls[c].mode = "hard"

(* A refresh ends: those that asked for a hard one meanwhile start it,     *)
(* unless the scope was disposed of; the others return.                    *)
End(i, s) ==
  LET mode == s.refresh.mode
      again == /\ ~s.disposed /\ mode = "light"
               /\ s.pendingHardRefresh /\ HardWaits(i, s)
      done == {c \in Calls : /\ calls[c].pc = "waiting" /\ calls[c].scope = i
                             /\ again => calls[c].mode # "hard"}
      ended == [s EXCEPT !.refresh = Idle, !.timer = FALSE,
                         !.initialized = @ \/ done # {}]
  IN /\ scopes' = [scopes EXCEPT ![i] =
          IF again THEN Begun(ended, "hard") ELSE ended]
     /\ calls' = [c \in Calls |->
          IF c \notin done THEN calls[c]
          ELSE Call(IF s.disposed THEN "cut" ELSE "returned", 0, "none")]

(* Both answers are in. A hard refresh without records ends, a light one   *)
(* goes on to the tags, unless no record needs one.                        *)
Fetch(i) ==
  LET s == scopes[i]
      next == Fetched(s)
  IN /\ Fetching(i)
     /\ s.refresh.owned # "open" /\ s.refresh.tip # "open"
     /\ IF \/ s.refresh.owned = "failed" /\ s.refresh.mode = "hard"
           \/ UnspentIn(next.records) = {}
        THEN End(i, next)
        ELSE /\ scopes' = [scopes EXCEPT ![i] =
                  [next EXCEPT !.refresh = [Idle EXCEPT
                     !.stage = "tags", !.mode = s.refresh.mode]]]
             /\ UNCHANGED calls
     /\ UNCHANGED <<environment, index>>

(* updateSpentFromTags                                                     *)
TagsAnswered(i) ==
  LET s == scopes[i]
      records == [r \in Records |->
        IF s.records[r] = "unspent" /\ chain[r].stage \in {"tagged", "spent"}
        THEN "spent" ELSE s.records[r]]
  IN /\ Tagging(i)
     /\ End(i, [s EXCEPT !.records = records, !.ever = @ \cup SpentIn(records)])
     /\ UNCHANGED <<environment, index>>

TagsFail(i) ==
  /\ Tagging(i)
  /\ End(i, scopes[i])
  /\ UNCHANGED <<environment, index>>

(* The credentials for the tags cannot be had: the refresh, and those that *)
(* wait for it, fail. A pending hard refresh is left for the next one.     *)
RefreshThrows(i) ==
  /\ i <= created /\ scopes[i].refresh.stage = "tags"
  /\ scopes' = [scopes EXCEPT ![i].refresh = Idle, ![i].timer = FALSE]
  /\ calls' = [c \in Calls |->
       IF calls[c].pc = "waiting" /\ calls[c].scope = i
       THEN Call("failed", 0, "none") ELSE calls[c]]
  /\ UNCHANGED <<environment, index>>

(* As if a late answer were merged into it.                                *)
AbandonLate(i) ==
  /\ scopes[i].disposed /\ InFlight(i)
  /\ End(i, [scopes[i] EXCEPT !.records =
               [r \in Records |-> Owned(scopes[i].key[2], r)]])
  /\ UNCHANGED <<environment, index>>

(* The refresh of a scope that was disposed of looks at "disposed" when    *)
(* the answers it waits for are in, or failed, and ends.                   *)
Abandon(i) ==
  /\ scopes[i].disposed /\ InFlight(i)
  /\ End(i, scopes[i])
  /\ UNCHANGED <<environment, index>>

Step(i) ==
  \/ OwnedAnswered(i) \/ OwnedFails(i) \/ HeightAnswered(i) \/ HeightFails(i)
  \/ Fetch(i) \/ TagsAnswered(i) \/ TagsFail(i) \/ RefreshThrows(i)
  \/ Abandon(i)

Next ==
  \/ MineBlock
  \/ \E r \in Records : Advance(r)
  \/ \E c \in Calls, u \in Consumers, uuid \in Uuids,
        mode \in {"auto", "light", "hard", "none"} : View(c, u, uuid, mode)
  \/ \E u \in Consumers : Deactivate(u)
  \/ Reset
  \/ \E i \in Ids : HardTick(i) \/ LightTick(i) \/ Step(i)

Spec == Init /\ [][Next]_vars

(* Requests are answered or fail; what is asked again and again is         *)
(* answered some time; and while the wallet is in use a scope's hard timer *)
(* comes round.                                                            *)
FairSpec ==
  /\ Spec
  /\ \A i \in Ids :
       /\ WF_vars(Step(i)) /\ WF_vars(HardTick(i))
       /\ SF_vars(scopes[i].refresh.mode = "hard" /\ OwnedAnswered(i))
       /\ SF_vars(TagsAnswered(i))

-----------------------------------------------------------------------------
(* Properties                                                              *)

(* Every variable stays within its type.                                   *)
TypeOK ==
  /\ height \in 0..MaxHeight
  /\ chain \in [Records -> [stage : Stages, block : 0..MaxHeight]]
  /\ created \in 0..MaxScopes
  /\ viewScopes \in [Keys -> 0..created]
  /\ consumerToScope \in [Consumers -> Keys \cup {None}]
  /\ \A c \in Calls :
       /\ calls[c].pc \in {"idle", "waiting", "returned", "cut", "failed"}
       /\ calls[c].pc = "waiting" =>
            calls[c].scope \in 1..created /\ InFlight(calls[c].scope)
  /\ \A i \in Ids :
       /\ scopes[i].records \in [Records -> Flags]
       /\ scopes[i].consumers \subseteq Consumers
       /\ scopes[i].lastHeight \in 0..MaxHeight
       /\ scopes[i].refresh.stage \in {"none", "fetch", "tags"}

(* Scopes and consumers agree, whatever is left, switched or reset: a      *)
(* scope lives, with its timers, exactly as long as a consumer uses it,    *)
(* and one that was disposed of holds no records, not even those of an     *)
(* answer that came later.                                                 *)
ScopesAreOwned ==
  /\ \A i \in 1..created :
       /\ Live(i) = (scopes[i].consumers # {})
       /\ Live(i) = (viewScopes[scopes[i].key] = i)
       /\ ~Live(i) => scopes[i].records = Nothing
       /\ \A u \in scopes[i].consumers : consumerToScope[u] = scopes[i].key
  /\ \A u \in Consumers : consumerToScope[u] # None =>
       /\ viewScopes[consumerToScope[u]] # 0
       /\ u \in scopes[viewScopes[consumerToScope[u]]].consumers

(* A record that a scope once knew as spent is never shown as unspent      *)
(* again, although the scanner may go on listing it as unspent after it    *)
(* was tagged, and may leave it out of an answer.                          *)
SpentWins ==
  \A i \in Ids : Live(i) =>
    \A r \in scopes[i].ever : scopes[i].records[r] # "unspent"

(* A view call that wanted a hard refresh returns after one, also when it  *)
(* came while a light one was in flight.                                   *)
HardIsHard ==
  [][\A c \in Calls :
       /\ calls[c].pc = "waiting" /\ calls[c].mode = "hard"
       /\ calls'[c].pc = "returned"
       => scopes[calls[c].scope].refresh.mode = "hard"]_vars

(* Light refreshes leave no gap: a scope that lists unspent records holds  *)
(* every record of the programs it has fetched since its last hard refresh *)
(* that the scanner had when it was last asked, as long as the scanner is  *)
(* not further behind than Lookback allows. One that lists only spent      *)
(* records, which no screen asks for, may miss a record spent long after   *)
(* it was mined.                                                           *)
NoGap ==
  [][\A i \in Ids :
       /\ Fetching(i) /\ Fetch(i) /\ scopes[i].refresh.owned = "answered"
       /\ scopes[i].key[2] # "spent"
       => \A r \in Records :
            scopes[i].refresh.answer[r] # "none" =>
              \/ scopes'[i].records[r] # "none"
              \/ ProgramOf[r] \notin scopes'[i].covered]_vars

Shown(i, r) ==
  LET owned == Owned(scopes[i].key[2], r)
  IN IF owned = "unspent" /\ chain[r].stage = "tagged" THEN "spent" ELSE owned

(* When the chain comes to rest, a scope ends up with the scanner's view   *)
(* of its consumers' records, whatever failed before, and no call is left  *)
(* waiting.                                                                *)
Converges ==
  <>[](/\ \A c \in Calls : calls[c].pc # "waiting"
       /\ \A i \in Ids : Live(i) =>
            \A r \in Records : ProgramOf[r] \in ProgramsOf(scopes[i].consumers) =>
              scopes[i].records[r] = Shown(i, r))
=============================================================================
