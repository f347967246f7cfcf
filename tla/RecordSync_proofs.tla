-------------------------- MODULE RecordSync_proofs --------------------------
(***************************************************************************)
(* Proofs about RecordSync for any records, programs, consumers, ids and   *)
(* bounds.                                                                 *)
(*                                                                         *)
(* Next to the types, and to ScopesAreOwned, which is inductive with them, *)
(* the invariant says of each scope what it knows about spent records      *)
(* (SpentInv), and of each call that waits that a refresh is under way     *)
(* which will do for it, or will be followed by one (CallsInv).            *)
(***************************************************************************)
EXTENDS RecordSync, TLAPS

Modes == {"light", "hard"}
Answers == {"open", "answered", "failed"}

RefreshType ==
  [stage : {"none", "fetch", "tags"}, mode : Modes \cup {"none"},
   programs : SUBSET Programs, start : Nat, owned : Answers,
   answer : [Records -> Flags], tip : Answers,
   latestHeight : 0..MaxHeight, apart : Nat]

ScopeType ==
  [key : Keys \cup {None}, disposed : BOOLEAN, records : [Records -> Flags],
   consumers : SUBSET Consumers, initialized : BOOLEAN,
   pendingHardRefresh : BOOLEAN, timer : BOOLEAN, hardOnce : BOOLEAN,
   lastHeight : 0..MaxHeight, refresh : RefreshType,
   ever : SUBSET Records, covered : SUBSET Programs]

CallType ==
  [pc : {"idle", "waiting", "returned", "cut", "failed"}, scope : 0..MaxScopes,
   mode : Modes \cup {"none"}]

ChainType == [Records -> [stage : Stages, block : 0..MaxHeight]]

Typed ==
  /\ height \in 0..MaxHeight
  /\ chain \in ChainType
  /\ created \in 0..MaxScopes
  /\ viewScopes \in [Keys -> 0..created]
  /\ consumerToScope \in [Consumers -> Keys \cup {None}]
  /\ scopes \in [Ids -> ScopeType]
  /\ \A i \in 1..created : scopes[i].key \in Keys
  /\ \A i \in Ids : i > created => scopes[i] = Fresh(None)
  /\ \A k \in Keys : viewScopes[k] # 0 => scopes[viewScopes[k]].key = k
  /\ calls \in [Calls -> CallType]

(* The scanner will not list this record again to a scope with this key.   *)
Gone(key, r, ch) == ch[r].stage = "spent" /\ key[2] = "unspent"

(* A record once known as spent is spent; it leaves the scope only when    *)
(* the scanner no longer lists it. An answer that leaves it out says so.   *)
SpentInv(s, ch) ==
  /\ s.refresh.mode = "hard" => s.refresh.start = 0
  /\ s.refresh.stage = "tags" => s.refresh.owned = "open"
  /\ \A r \in Records :
       /\ s.records[r] = "spent" => r \in s.ever
       /\ s.records[r] = "unspent" \/ s.refresh.answer[r] = "unspent"
            => s.key[2] # "spent"
       /\ s.refresh.answer[r] = "spent" => ch[r].stage = "spent"
       /\ r \in s.ever =>
            /\ ch[r].stage \in {"tagged", "spent"}
            /\ s.key[2] = "spent" => ch[r].stage = "spent"
            /\ \/ s.records[r] = "spent"
               \/ /\ s.records[r] = "none" /\ s.refresh.answer[r] = "none"
                  /\ Gone(s.key, r, ch)
            /\ /\ s.refresh.owned = "answered" /\ s.refresh.answer[r] = "none"
               /\ ProgramOf[r] \in s.refresh.programs
               => Gone(s.key, r, ch)

(* A live refresh has its mode.                                            *)
ModeInv(s) ==
  s.refresh.stage # "none" /\ ~s.disposed => s.refresh.mode \in Modes

(* What a call waits for.                                                  *)
Served(call, s) ==
  /\ s.refresh.stage # "none"
  /\ call.mode = "hard" /\ ~s.disposed /\ s.refresh.mode = "light"
       => s.pendingHardRefresh

CallsInv == \A c \in Calls : calls[c].pc = "waiting" =>
  /\ calls[c].scope \in 1..created
  /\ Served(calls[c], scopes[calls[c].scope])

ScopesInv == \A i \in Ids : SpentInv(scopes[i], chain) /\ ModeInv(scopes[i])

IInv == Typed /\ ScopesAreOwned /\ ScopesInv /\ CallsInv

-----------------------------------------------------------------------------
(* What becomes of a scope                                                 *)

(* Types of the constants, and of what scopes start with.                  *)
LEMMA ConstantsFact ==
  /\ ProgramOf \in [Records -> Programs]
  /\ \A u \in Consumers : Wanted[u] \subseteq Programs
  /\ \A u \in Consumers, n \in Uuids : <<n, FilterOf[u]>> \in Keys
  /\ None \notin Keys
  /\ Lookback \in Nat /\ MaxHeight \in Nat /\ MaxCalls \in Nat /\ MaxScopes \in Nat
  BY SyncAssumption DEF Keys

LEMMA IdleFact == Idle \in RefreshType /\ Nothing \in [Records -> Flags]
  BY ConstantsFact DEF Idle, Nothing, RefreshType, Answers, Flags

LEMMA FreshFact ==
  ASSUME NEW k \in Keys \cup {None}, NEW ch
  PROVE  /\ Fresh(k) \in ScopeType
         /\ Fresh(k).key = k /\ ~Fresh(k).disposed /\ Fresh(k).consumers = {}
         /\ Fresh(k).records = Nothing /\ Fresh(k).refresh = Idle
         /\ SpentInv(Fresh(k), ch) /\ ModeInv(Fresh(k))
<1>1. Fresh(k) \in ScopeType
  BY IdleFact, ConstantsFact DEF Fresh, ScopeType
<1>2. SpentInv(Fresh(k), ch) /\ ModeInv(Fresh(k))
  BY DEF Fresh, SpentInv, ModeInv, Idle, Nothing
<1> QED
  BY <1>1, <1>2 DEF Fresh

(* A scope that is disposed of knows nothing.                              *)
LEMMA DisposedFact ==
  ASSUME NEW s \in ScopeType, NEW ch
  PROVE  /\ Disposed(s) \in ScopeType
         /\ Disposed(s).key = s.key /\ Disposed(s).disposed
         /\ Disposed(s).consumers = {} /\ Disposed(s).records = Nothing
         /\ Disposed(s).refresh.stage = s.refresh.stage
         /\ SpentInv(Disposed(s), ch) /\ ModeInv(Disposed(s))
<1>1. s.key \in Keys \cup {None} /\ s.refresh.stage \in {"none", "fetch", "tags"}
  BY DEF ScopeType, RefreshType
<1>2. Fresh(s.key) \in ScopeType /\ SpentInv(Fresh(s.key), ch)
  BY <1>1, FreshFact
<1>3. Disposed(s) \in ScopeType
  BY <1>1, <1>2 DEF Disposed, ScopeType, RefreshType
<1>4. SpentInv(Disposed(s), ch) /\ ModeInv(Disposed(s))
  BY DEF Disposed, Fresh, SpentInv, ModeInv, Idle, Nothing
<1> QED
  BY <1>3, <1>4 DEF Disposed, Fresh, Idle

(* A new refresh knows no answer yet.                                      *)
LEMMA NewRefresh ==
  ASSUME NEW s \in ScopeType, NEW t \in ScopeType, NEW ch, SpentInv(s, ch),
         t.key = s.key, t.records = s.records, t.ever = s.ever,
         t.refresh.answer = Nothing, t.refresh.owned = "open",
         t.refresh.mode = "hard" => t.refresh.start = 0
  PROVE  SpentInv(t, ch)
  BY DEF SpentInv, Nothing, Gone

(* Begun starts a refresh in the given mode.                               *)
LEMMA BegunFact ==
  ASSUME NEW s \in ScopeType, NEW mode \in Modes, NEW ch, SpentInv(s, ch)
  PROVE  /\ Begun(s, mode) \in ScopeType
         /\ Begun(s, mode).key = s.key /\ Begun(s, mode).disposed = s.disposed
         /\ Begun(s, mode).consumers = s.consumers
         /\ Begun(s, mode).records = s.records
         /\ Begun(s, mode).refresh.stage = "fetch"
         /\ Begun(s, mode).refresh.mode = mode
         /\ SpentInv(Begun(s, mode), ch) /\ ModeInv(Begun(s, mode))
<1> DEFINE t == Begun(s, mode)
           start == IF mode = "light" /\ s.lastHeight > Lookback
                    THEN s.lastHeight - Lookback ELSE 0
           f == [Idle EXCEPT !.stage = "fetch", !.mode = mode,
                  !.programs = ProgramsOf(s.consumers), !.start = start]
<1>1. ProgramsOf(s.consumers) \subseteq Programs
  BY ConstantsFact DEF ProgramsOf, ScopeType
<1>2. s.lastHeight \in Nat
  BY ConstantsFact DEF ScopeType
<1>3. start \in Nat /\ (mode = "hard" => start = 0)
  BY <1>2, ConstantsFact
<1>3a. f \in RefreshType
  <2> HIDE DEF start
  <2> QED
    BY <1>1, <1>3, IdleFact DEF RefreshType, Modes
<1>4. f.stage = "fetch" /\ f.mode = mode /\ f.answer = Nothing /\ f.owned = "open"
      /\ (mode = "hard" => f.start = 0)
  BY <1>3 DEF Idle
<1>5. t = [s EXCEPT !.pendingHardRefresh = IF mode = "hard" THEN FALSE ELSE @,
                    !.refresh = f]
  BY DEF Begun
<1>6. t \in ScopeType /\ t.key = s.key /\ t.disposed = s.disposed
      /\ t.consumers = s.consumers /\ t.records = s.records /\ t.ever = s.ever
      /\ t.refresh = f
  <2> HIDE DEF f, t
  <2> QED
    BY <1>3a, <1>5 DEF ScopeType
<1>7. SpentInv(t, ch)
  <2> HIDE DEF f, t
  <2> QED
    BY <1>4, <1>6, NewRefresh
<1>8. ModeInv(t)
  <2> HIDE DEF f, t
  <2> QED
    BY <1>4, <1>6 DEF ModeInv
<1> QED
  <2> HIDE DEF f
  <2> QED
    BY <1>4, <1>6, <1>7, <1>8

(* Refreshed joins a refresh or starts one.                                *)
LEMMA RefreshedFact ==
  ASSUME NEW s \in ScopeType, NEW mode \in Modes, NEW ch,
         SpentInv(s, ch), ModeInv(s)
  PROVE  /\ Refreshed(s, mode) \in ScopeType
         /\ Refreshed(s, mode).key = s.key
         /\ Refreshed(s, mode).disposed = s.disposed
         /\ Refreshed(s, mode).consumers = s.consumers
         /\ Refreshed(s, mode).records = s.records
         /\ Refreshed(s, mode).refresh.stage # "none"
         /\ SpentInv(Refreshed(s, mode), ch) /\ ModeInv(Refreshed(s, mode))
         /\ mode = "hard" /\ Refreshed(s, mode).refresh.mode = "light"
              => Refreshed(s, mode).pendingHardRefresh
         /\ s.refresh.stage # "none" =>
              /\ Refreshed(s, mode).refresh = s.refresh
              /\ s.pendingHardRefresh => Refreshed(s, mode).pendingHardRefresh
<1>1. CASE s.refresh.stage = "none"
  <2>1. Refreshed(s, mode) = Begun(s, mode)
    BY <1>1 DEF Refreshed
  <2> QED
    BY <1>1, <2>1, BegunFact
<1>2. CASE s.refresh.stage # "none" /\ mode = "hard" /\ s.refresh.mode = "light"
  <2> DEFINE t == [s EXCEPT !.pendingHardRefresh = TRUE]
  <2>1. Refreshed(s, mode) = t
    BY <1>2 DEF Refreshed
  <2>2. t \in ScopeType /\ t.key = s.key /\ t.disposed = s.disposed
        /\ t.consumers = s.consumers /\ t.records = s.records /\ t.ever = s.ever
        /\ t.refresh = s.refresh /\ t.pendingHardRefresh
    BY DEF ScopeType
  <2>3. SpentInv(t, ch) /\ ModeInv(t)
    <3> HIDE DEF t
    <3> QED
      BY <2>2 DEF SpentInv, ModeInv
  <2> HIDE DEF t
  <2> QED
    BY <1>2, <2>1, <2>2, <2>3
<1>3. CASE s.refresh.stage # "none" /\ ~(mode = "hard" /\ s.refresh.mode = "light")
  <2>1. Refreshed(s, mode) = s
    BY <1>3 DEF Refreshed
  <2> QED
    BY <1>3, <2>1
<1> QED
  BY <1>1, <1>2, <1>3

(* An answer merged into what a scope holds.                               *)
LEMMA MergedFact ==
  ASSUME NEW a \in Flags, NEW b \in Flags
  PROVE  /\ Merged(a, b) \in Flags
         /\ Merged(a, b) = "spent" <=> a = "spent" \/ b = "spent"
         /\ Merged(a, b) = "none" <=> a = "none" /\ b = "none"
  BY DEF Merged, Flags

LEMMA SentFact ==
  ASSUME NEW f \in RefreshType, chain \in ChainType, NEW r \in Records
  PROVE  /\ Sent(f)[r] \in Flags
         /\ Sent(f)[r] \in {"none", f.answer[r]}
         /\ f.start = 0 => Sent(f)[r] = f.answer[r]
<1>1. chain[r].block \in Nat /\ f.answer[r] \in Flags
  BY ConstantsFact DEF ChainType, RefreshType
<1>2. Sent(f)[r] = IF chain[r].block >= f.start THEN f.answer[r] ELSE "none"
  BY DEF Sent
<1>3. f.start = 0 => chain[r].block >= f.start
  BY <1>1
<1> QED
  BY <1>1, <1>2, <1>3 DEF Flags

(* The records of a scope after an answer, of either kind.                 *)
LEMMA FetchedRecords ==
  ASSUME NEW s \in ScopeType, chain \in ChainType, SpentInv(s, chain),
         s.refresh.mode \in Modes, s.refresh.owned = "answered",
         NEW records,
         records = IF s.refresh.mode = "hard" THEN Replaced(s) ELSE MergedIn(s)
  PROVE  /\ records \in [Records -> Flags]
         /\ \A r \in Records :
              /\ records[r] = "spent" =>
                   r \in s.ever \/ s.refresh.answer[r] = "spent"
              /\ records[r] = "unspent" => s.key[2] # "spent"
              /\ r \in s.ever =>
                   \/ records[r] = "spent"
                   \/ /\ records[r] = "none" /\ s.refresh.answer[r] = "none"
                      /\ Gone(s.key, r, chain)
<1> DEFINE f == s.refresh
<1> USE DEF Modes
<1>0. f \in RefreshType /\ s.records \in [Records -> Flags]
  BY DEF ScopeType
<1>1. ASSUME NEW r \in Records
      PROVE  \/ records[r] = s.records[r] /\ ProgramOf[r] \notin f.programs
             \/ records[r] = Merged(s.records[r], Sent(f)[r])
             \/ /\ records[r] = "none" /\ Sent(f)[r] = "none"
                /\ f.mode = "hard" /\ ProgramOf[r] \in f.programs
  BY DEF Replaced, MergedIn
<1>2. ASSUME NEW r \in Records
      PROVE  s.records[r] \in Flags /\ Sent(f)[r] \in Flags
             /\ Merged(s.records[r], Sent(f)[r]) \in Flags
  BY <1>0, SentFact, MergedFact
<1>3. records \in [Records -> Flags]
  <2>1. \A r \in Records : records[r] \in Flags
    BY <1>1, <1>2 DEF Flags
  <2>2. records = [r \in Records |-> records[r]]
    BY DEF Replaced, MergedIn
  <2> QED
    BY <2>1, <2>2
<1>4. ASSUME NEW r \in Records
      PROVE  /\ records[r] = "spent" => r \in s.ever \/ f.answer[r] = "spent"
             /\ records[r] = "unspent" => s.key[2] # "spent"
             /\ r \in s.ever =>
                  \/ records[r] = "spent"
                  \/ /\ records[r] = "none" /\ f.answer[r] = "none"
                     /\ Gone(s.key, r, chain)
  <2>1. /\ Sent(f)[r] \in {"none", f.answer[r]}
        /\ f.start = 0 => Sent(f)[r] = f.answer[r]
    BY <1>0, SentFact
  <2>2. /\ f.mode = "hard" => f.start = 0
        /\ s.records[r] = "spent" => r \in s.ever
        /\ s.records[r] = "unspent" \/ f.answer[r] = "unspent" => s.key[2] # "spent"
        /\ r \in s.ever =>
             /\ \/ s.records[r] = "spent"
                \/ /\ s.records[r] = "none" /\ f.answer[r] = "none"
                   /\ Gone(s.key, r, chain)
             /\ f.answer[r] = "none" /\ ProgramOf[r] \in f.programs
                  => Gone(s.key, r, chain)
    BY DEF SpentInv
  <2>3. CASE records[r] = s.records[r]
    BY <2>2, <2>3
  <2>4. CASE records[r] = Merged(s.records[r], Sent(f)[r])
    <3> DEFINE m == Merged(s.records[r], Sent(f)[r])
    <3>1. /\ m \in Flags
          /\ m = "spent" <=> s.records[r] = "spent" \/ Sent(f)[r] = "spent"
          /\ m = "none" <=> s.records[r] = "none" /\ Sent(f)[r] = "none"
      BY <1>2, MergedFact
    <3> HIDE DEF m
    <3>2. records[r] = m /\ s.records[r] \in Flags /\ Sent(f)[r] \in Flags
      BY <1>2, <2>4 DEF m
    <3>3. records[r] = "unspent" =>
            s.records[r] = "unspent" \/ Sent(f)[r] = "unspent"
      BY <3>1, <3>2 DEF Flags
    <3>4. Sent(f)[r] # "none" => f.answer[r] = Sent(f)[r]
      BY <2>1
    <3> QED
      BY <2>1, <2>2, <3>1, <3>2, <3>3, <3>4
  <2>5. CASE /\ records[r] = "none" /\ Sent(f)[r] = "none"
             /\ f.mode = "hard" /\ ProgramOf[r] \in f.programs
    BY <2>1, <2>2, <2>5
  <2> QED
    BY <1>1, <2>3, <2>4, <2>5
<1> QED
  BY <1>3, <1>4

(* What a fetch makes of a live scope.                                     *)
LEMMA FetchedFact ==
  ASSUME NEW s \in ScopeType, chain \in ChainType, SpentInv(s, chain),
         s.refresh.mode \in Modes, s.refresh.owned # "open"
  PROVE  /\ Fetched(s) \in ScopeType
         /\ Fetched(s).key = s.key /\ Fetched(s).disposed = s.disposed
         /\ Fetched(s).consumers = s.consumers
         /\ Fetched(s).refresh = s.refresh
         /\ Fetched(s).pendingHardRefresh = s.pendingHardRefresh
         /\ SpentInv(Fetched(s), chain)
<1>1. CASE s.refresh.owned = "failed"
  BY <1>1 DEF Fetched
<1>2. CASE s.refresh.owned = "answered"
  <2> DEFINE records == IF s.refresh.mode = "hard" THEN Replaced(s) ELSE MergedIn(s)
             hard == s.refresh.mode = "hard"
             tip == IF s.refresh.tip = "answered" THEN s.refresh.latestHeight
                    ELSE s.lastHeight
             covered == s.refresh.programs \cap IF hard THEN Programs ELSE s.covered
             t == [s EXCEPT !.records = records, !.lastHeight = tip,
                    !.hardOnce = @ \/ hard, !.ever = @ \cup SpentIn(records),
                    !.covered = covered]
  <2>1. /\ records \in [Records -> Flags]
        /\ \A r \in Records :
              /\ records[r] = "spent" =>
                   r \in s.ever \/ s.refresh.answer[r] = "spent"
              /\ records[r] = "unspent" => s.key[2] # "spent"
              /\ r \in s.ever =>
                   \/ records[r] = "spent"
                   \/ /\ records[r] = "none" /\ s.refresh.answer[r] = "none"
                      /\ Gone(s.key, r, chain)
    BY <1>2, FetchedRecords
  <2>2. tip \in 0..MaxHeight /\ covered \in SUBSET Programs /\ hard \in BOOLEAN
    BY DEF ScopeType, RefreshType
  <2>3. Fetched(s) = t
    BY <1>2 DEF Fetched
  <2> HIDE DEF records, tip, covered, hard
  <2>4. SpentIn(records) \in SUBSET Records
    BY DEF SpentIn
  <2>5. /\ t \in ScopeType
        /\ t.key = s.key /\ t.disposed = s.disposed /\ t.consumers = s.consumers
        /\ t.refresh = s.refresh /\ t.pendingHardRefresh = s.pendingHardRefresh
        /\ t.records = records /\ t.ever = s.ever \cup SpentIn(records)
    BY <2>1, <2>2, <2>4 DEF ScopeType
  <2> HIDE DEF t
  <2>6. SpentInv(t, chain)
    <3>1. /\ t.refresh.mode = "hard" => t.refresh.start = 0
          /\ t.refresh.stage = "tags" => t.refresh.owned = "open"
      BY <2>5 DEF SpentInv
    <3>2. ASSUME NEW r \in Records
          PROVE  /\ t.records[r] = "spent" => r \in t.ever
                 /\ t.records[r] = "unspent" \/ t.refresh.answer[r] = "unspent"
                      => t.key[2] # "spent"
                 /\ t.refresh.answer[r] = "spent" => chain[r].stage = "spent"
      BY <2>1, <2>5 DEF SpentInv, SpentIn
    <3>3. ASSUME NEW r \in Records, r \in t.ever
          PROVE  /\ chain[r].stage \in {"tagged", "spent"}
                 /\ t.key[2] = "spent" => chain[r].stage = "spent"
                 /\ \/ t.records[r] = "spent"
                    \/ /\ t.records[r] = "none" /\ t.refresh.answer[r] = "none"
                       /\ Gone(t.key, r, chain)
                 /\ /\ t.refresh.owned = "answered" /\ t.refresh.answer[r] = "none"
                    /\ ProgramOf[r] \in t.refresh.programs
                    => Gone(t.key, r, chain)
      <4>1. CASE r \in s.ever
        BY <2>1, <2>5, <4>1 DEF SpentInv
      <4>2. CASE r \notin s.ever
        <5>1. records[r] = "spent" /\ s.refresh.answer[r] = "spent"
          BY <2>1, <2>5, <3>3, <4>2 DEF SpentIn
        <5> QED
          BY <2>5, <5>1 DEF SpentInv
      <4> QED
        BY <4>1, <4>2
    <3> QED
      BY <3>1, <3>2, <3>3 DEF SpentInv
  <2> QED
    BY <2>3, <2>5, <2>6
<1> QED
  BY <1>1, <1>2 DEF ScopeType, RefreshType, Answers

-----------------------------------------------------------------------------
(* Steps that change one scope                                             *)

(* A call that asked for a hard refresh returns after one.                 *)
HardStep ==
  \A c \in Calls :
    /\ calls[c].pc = "waiting" /\ calls[c].mode = "hard"
    /\ calls'[c].pc = "returned"
    => scopes[calls[c].scope].refresh.mode = "hard"

(* Such a step may change what the scope holds, not who uses it.           *)
LEMMA OneScope ==
  ASSUME IInv, NEW i \in 1..created, NEW t \in ScopeType,
         t.key = scopes[i].key, t.disposed = scopes[i].disposed,
         t.consumers = scopes[i].consumers,
         t.disposed => t.records = Nothing,
         SpentInv(t, chain), ModeInv(t),
         scopes' = [scopes EXCEPT ![i] = t], UNCHANGED <<environment, index>>,
         calls' \in [Calls -> CallType]
  PROVE  Typed' /\ ScopesAreOwned' /\ ScopesInv'
<1> USE DEF IInv, environment, index
<1>1. i \in Ids /\ created \in 0..MaxScopes /\ \A j \in 1..created : j \in Ids
  BY ConstantsFact DEF Typed, Ids
<1>2. scopes \in [Ids -> ScopeType] /\ scopes' \in [Ids -> ScopeType]
  BY <1>1 DEF Typed
<1>3. scopes'[i] = t /\ \A j \in Ids : j # i => scopes'[j] = scopes[j]
  BY <1>1, <1>2
<1>4. Typed'
  <2>1. \A j \in 1..created : scopes'[j].key \in Keys
    BY <1>1, <1>3 DEF Typed
  <2>2. \A j \in Ids : j > created => scopes'[j] = Fresh(None)
    BY <1>1, <1>3 DEF Typed
  <2> QED
    BY <1>2, <2>1, <2>2 DEF Typed
<1>5. ScopesAreOwned'
  <2>1. \A j \in Ids : /\ scopes'[j].consumers = scopes[j].consumers
                       /\ scopes'[j].key = scopes[j].key
                       /\ scopes'[j].disposed = scopes[j].disposed
                       /\ Live(j)' <=> Live(j)
    BY <1>1, <1>2, <1>3 DEF Live
  <2>2. ASSUME NEW j \in 1..created
        PROVE  /\ Live(j)' = (scopes'[j].consumers # {})
               /\ Live(j)' = (viewScopes'[scopes'[j].key] = j)
               /\ ~Live(j)' => scopes'[j].records = Nothing
               /\ \A u \in scopes'[j].consumers : consumerToScope'[u] = scopes'[j].key
    BY <1>1, <1>3, <2>1 DEF ScopesAreOwned, Live
  <2>3. ASSUME NEW u \in Consumers, consumerToScope'[u] # None
        PROVE  /\ viewScopes'[consumerToScope'[u]] # 0
               /\ u \in scopes'[viewScopes'[consumerToScope'[u]]].consumers
    <3>1. consumerToScope[u] \in Keys /\ viewScopes[consumerToScope[u]] \in 0..created
      BY <2>3 DEF Typed
    <3>2. viewScopes[consumerToScope[u]] \in Ids
      BY <1>1, <2>3, <3>1 DEF ScopesAreOwned
    <3> QED
      BY <2>1, <2>3, <3>2 DEF ScopesAreOwned
  <2> QED
    BY <2>2, <2>3 DEF ScopesAreOwned
<1>6. ScopesInv'
  <2>1. \A j \in Ids : SpentInv(scopes'[j], chain) /\ ModeInv(scopes'[j])
    BY <1>3 DEF ScopesInv
  <2> QED
    BY <2>1 DEF ScopesInv
<1> QED
  BY <1>4, <1>5, <1>6

(* If the scope still serves whoever waits for it, nothing else is needed. *)
LEMMA OneScopeServes ==
  ASSUME IInv, NEW i \in 1..created, NEW t \in ScopeType,
         t.key = scopes[i].key, t.disposed = scopes[i].disposed,
         t.consumers = scopes[i].consumers,
         t.disposed => t.records = Nothing,
         SpentInv(t, chain), ModeInv(t),
         scopes' = [scopes EXCEPT ![i] = t],
         UNCHANGED <<environment, index>>, UNCHANGED calls,
         \A c \in Calls : Served(calls[c], scopes[i]) => Served(calls[c], t)
  PROVE  IInv' /\ HardStep
<1>1. calls \in [Calls -> CallType] /\ created \in 0..MaxScopes
      /\ scopes \in [Ids -> ScopeType] /\ i \in Ids /\ 1..created \subseteq Ids
  BY ConstantsFact DEF IInv, Typed, Ids
<1>2. Typed' /\ ScopesAreOwned' /\ ScopesInv'
  BY <1>1, OneScope
<1>3. CallsInv'
  <2> SUFFICES ASSUME NEW c \in Calls, calls[c].pc = "waiting"
               PROVE  /\ calls[c].scope \in 1..created
                      /\ Served(calls[c], scopes'[calls[c].scope])
    BY DEF CallsInv, index, Served
  <2>1. calls[c].scope \in 1..created /\ Served(calls[c], scopes[calls[c].scope])
    BY DEF IInv, CallsInv
  <2> QED
    BY <1>1, <2>1
<1>4. HardStep
  BY DEF HardStep
<1> QED
  BY <1>2, <1>3, <1>4 DEF IInv

(* A refresh ends. s is the scope with what the refresh brought.           *)
LEMMA EndFact ==
  ASSUME IInv, NEW i \in 1..created, NEW s \in ScopeType,
         s.key = scopes[i].key, s.disposed = scopes[i].disposed,
         s.consumers = scopes[i].consumers,
         s.disposed => s.records = Nothing,
         s.refresh = scopes[i].refresh,
         s.pendingHardRefresh = scopes[i].pendingHardRefresh,
         s.refresh.stage # "none", SpentInv(s, chain),
         End(i, s), UNCHANGED <<environment, index>>
  PROVE  IInv' /\ HardStep
<1> DEFINE mode == s.refresh.mode
           again == /\ ~s.disposed /\ mode = "light"
                    /\ s.pendingHardRefresh /\ HardWaits(i, s)
           done == {c \in Calls : /\ calls[c].pc = "waiting" /\ calls[c].scope = i
                                  /\ again => calls[c].mode # "hard"}
           some == s.initialized \/ done # {}
           ended == [s EXCEPT !.refresh = Idle, !.timer = FALSE,
                              !.initialized = some]
           t == IF again THEN Begun(ended, "hard") ELSE ended
<1>1. /\ scopes' = [scopes EXCEPT ![i] = t]
      /\ calls' = [c \in Calls |->
            IF c \notin done THEN calls[c]
            ELSE Call(IF s.disposed THEN "cut" ELSE "returned", 0, "none")]
  BY DEF End
<1>2. calls \in [Calls -> CallType] /\ created \in 0..MaxScopes
      /\ scopes \in [Ids -> ScopeType] /\ i \in Ids /\ 1..created \subseteq Ids
  BY ConstantsFact DEF IInv, Typed, Ids
<1>3. /\ ended \in ScopeType
      /\ ended.key = s.key /\ ended.disposed = s.disposed
      /\ ended.consumers = s.consumers /\ ended.records = s.records
      /\ ended.ever = s.ever /\ ended.refresh = Idle
  <2>1. some \in BOOLEAN
    OBVIOUS
  <2> HIDE DEF some
  <2> QED
    BY <2>1, IdleFact DEF ScopeType
<1> HIDE DEF ended
<1>4. SpentInv(ended, chain) /\ ModeInv(ended)
  <2>1. Idle.answer = Nothing /\ Idle.owned = "open" /\ Idle.mode = "none"
        /\ Idle.stage = "none"
    BY DEF Idle
  <2>2. SpentInv(ended, chain)
    BY <1>3, <2>1, NewRefresh
  <2> QED
    BY <1>3, <2>1, <2>2 DEF ModeInv
<1>5. /\ t \in ScopeType
      /\ t.key = s.key /\ t.disposed = s.disposed /\ t.consumers = s.consumers
      /\ t.records = s.records /\ SpentInv(t, chain) /\ ModeInv(t)
      /\ again => t.refresh.stage = "fetch" /\ t.refresh.mode = "hard"
  <2>1. CASE again
    <3>1. t = Begun(ended, "hard") /\ "hard" \in Modes
      BY <2>1 DEF Modes
    <3> HIDE DEF t, again
    <3> QED
      BY <1>3, <1>4, <3>1, BegunFact
  <2>2. CASE ~again
    <3>1. t = ended
      BY <2>2
    <3> HIDE DEF t, again
    <3> QED
      BY <1>3, <1>4, <2>2, <3>1
  <2> QED
    BY <2>1, <2>2
<1>6. \A c \in Calls :
        \/ calls'[c] = calls[c] /\ c \notin done
        \/ calls'[c].pc \in {"cut", "returned"} /\ c \in done
  BY <1>1 DEF Call
<1>7. calls' \in [Calls -> CallType]
  <2>1. Call("cut", 0, "none") \in CallType /\ Call("returned", 0, "none") \in CallType
    BY ConstantsFact DEF Call, CallType
  <2>2. Call(IF s.disposed THEN "cut" ELSE "returned", 0, "none") \in CallType
    BY <2>1
  <2> HIDE DEF done
  <2> QED
    BY <1>1, <1>2, <2>2
<1>8. Typed' /\ ScopesAreOwned' /\ ScopesInv'
  <2> HIDE DEF t
  <2> QED
    BY <1>1, <1>5, <1>7, OneScope
<1>9. CallsInv'
  <2> SUFFICES ASSUME NEW c \in Calls, calls'[c].pc = "waiting"
               PROVE  /\ calls'[c].scope \in 1..created
                      /\ Served(calls'[c], scopes'[calls'[c].scope])
    BY DEF CallsInv, index, Served
  <2>1. calls'[c] = calls[c] /\ c \notin done
    BY <1>6
  <2>2. calls[c].scope \in 1..created /\ Served(calls[c], scopes[calls[c].scope])
    BY <2>1 DEF IInv, CallsInv
  <2>3. CASE calls[c].scope = i
    <3>1. again
      BY <2>1, <2>3
    <3>2. scopes'[i] = t
      <4> HIDE DEF t
      <4> QED
        BY <1>1, <1>2
    <3> HIDE DEF t, again
    <3> QED
      BY <1>5, <2>1, <2>2, <2>3, <3>1, <3>2 DEF Served
  <2>4. CASE calls[c].scope # i
    <3> HIDE DEF t
    <3> QED
      BY <1>1, <1>2, <2>1, <2>2, <2>4
  <2> QED
    BY <2>3, <2>4
<1>10. HardStep
  <2> SUFFICES ASSUME NEW c \in Calls, calls[c].pc = "waiting",
                      calls[c].mode = "hard", calls'[c].pc = "returned"
               PROVE  scopes[calls[c].scope].refresh.mode = "hard"
    BY DEF HardStep
  <2>1. c \in done
    BY <1>6
  <2>2. calls[c].scope = i /\ ~again
    BY <2>1
  <2>3. HardWaits(i, s)
    BY <2>2 DEF HardWaits
  <2>4. ~s.disposed
    <3> HIDE DEF done
    <3> QED
      BY <1>1, <2>1 DEF Call
  <2>5. s.refresh.mode \in Modes
    BY <1>2, <2>4 DEF IInv, ScopesInv, ModeInv
  <2>6. Served(calls[c], scopes[i])
    BY <2>2 DEF IInv, CallsInv
  <2> QED
    BY <2>2, <2>3, <2>4, <2>5, <2>6 DEF Served, Modes
<1> QED
  BY <1>8, <1>9, <1>10 DEF IInv

-----------------------------------------------------------------------------
(* The refreshes                                                           *)

(* Shorthand for what every one of these steps needs.                      *)
LEMMA StepFact ==
  ASSUME IInv, NEW i \in Ids, i <= created
  PROVE  /\ i \in 1..created /\ scopes \in [Ids -> ScopeType]
         /\ scopes[i] \in ScopeType /\ scopes[i].refresh \in RefreshType
         /\ scopes[i].key \in Keys /\ chain \in ChainType
         /\ SpentInv(scopes[i], chain) /\ ModeInv(scopes[i])
         /\ scopes[i].disposed => scopes[i].records = Nothing
<1>1. i \in 1..created /\ scopes[i] \in ScopeType
  BY ConstantsFact DEF IInv, Typed, Ids
<1> QED
  BY <1>1 DEF IInv, Typed, ScopesInv, ScopesAreOwned, Live, ScopeType

(* The part of a refresh that one answer changes.                          *)
LEMMA OneAnswer ==
  ASSUME IInv, NEW i \in Ids, Fetching(i), NEW f \in RefreshType,
         f.stage = scopes[i].refresh.stage, f.mode = scopes[i].refresh.mode,
         scopes' = [scopes EXCEPT ![i].refresh = f],
         SpentInv([scopes[i] EXCEPT !.refresh = f], chain),
         UNCHANGED <<environment, index, calls>>
  PROVE  IInv' /\ HardStep
<1> DEFINE t == [scopes[i] EXCEPT !.refresh = f]
<1>1. i \in 1..created /\ scopes[i] \in ScopeType
      /\ (scopes[i].disposed => scopes[i].records = Nothing) /\ ModeInv(scopes[i])
  BY StepFact DEF Fetching, Live
<1>2. /\ t \in ScopeType /\ t.key = scopes[i].key
      /\ t.disposed = scopes[i].disposed /\ t.consumers = scopes[i].consumers
      /\ t.records = scopes[i].records /\ t.refresh = f
      /\ t.pendingHardRefresh = scopes[i].pendingHardRefresh
  BY <1>1 DEF ScopeType
<1>3. scopes' = [scopes EXCEPT ![i] = t]
  OBVIOUS
<1> HIDE DEF t
<1>4. ModeInv(t) /\ \A c \in Calls : Served(calls[c], scopes[i]) => Served(calls[c], t)
  BY <1>1, <1>2 DEF ModeInv, Served
<1>5. SpentInv(t, chain)
  BY DEF t
<1> QED
  BY <1>1, <1>2, <1>3, <1>4, <1>5, OneScopeServes

LEMMA OwnedAnsweredKeeps ==
  ASSUME IInv, NEW i \in Ids, OwnedAnswered(i)
  PROVE  IInv' /\ HardStep
<1> DEFINE s == scopes[i]
           answer == [r \in Records |->
             IF ProgramOf[r] \in s.refresh.programs THEN Owned(s.key[2], r) ELSE "none"]
           f == [s.refresh EXCEPT !.owned = "answered", !.answer = answer]
           t == [s EXCEPT !.refresh = f]
<1>1. /\ s \in ScopeType /\ s.refresh \in RefreshType /\ s.key \in Keys
      /\ SpentInv(s, chain) /\ chain \in ChainType /\ scopes \in [Ids -> ScopeType]
      /\ s.refresh.stage = "fetch"
  BY StepFact DEF OwnedAnswered, Fetching, Live
<1>2. s.key[2] \in {"all", "unspent", "spent"}
  BY <1>1 DEF Keys
<1>3. ASSUME NEW r \in Records
      PROVE  /\ chain[r].stage \in Stages
             /\ answer[r] = IF ProgramOf[r] \in s.refresh.programs
                            THEN Owned(s.key[2], r) ELSE "none"
             /\ Owned(s.key[2], r) \in Flags
             /\ Owned(s.key[2], r) = "unspent" => s.key[2] # "spent"
             /\ Owned(s.key[2], r) = "spent" => chain[r].stage = "spent"
             /\ Owned(s.key[2], r) = "none" =>
                  \/ chain[r].stage \notin {"tagged", "spent"}
                  \/ chain[r].stage = "spent" /\ s.key[2] = "unspent"
                  \/ chain[r].stage # "spent" /\ s.key[2] = "spent"
             /\ chain[r].stage = "spent" /\ s.key[2] = "unspent" =>
                  Owned(s.key[2], r) = "none"
  <2>1. chain[r].stage \in Stages
    BY <1>1 DEF ChainType
  <2> QED
    BY <1>2, <2>1 DEF Owned, Stages, Flags
<1>4. answer \in [Records -> Flags]
  BY <1>3 DEF Flags
<1> HIDE DEF answer
<1>5. /\ f \in RefreshType /\ f.stage = s.refresh.stage /\ f.mode = s.refresh.mode
      /\ f.start = s.refresh.start /\ f.programs = s.refresh.programs
      /\ f.answer = answer
  BY <1>1, <1>4 DEF RefreshType, Answers
<1>6. scopes' = [scopes EXCEPT ![i].refresh = f]
  <2>1. scopes' = [scopes EXCEPT ![i].refresh.owned = "answered",
                                 ![i].refresh.answer = answer]
    BY DEF OwnedAnswered, answer
  <2>2. [scopes EXCEPT ![i].refresh.owned = "answered", ![i].refresh.answer = answer]
        = [scopes EXCEPT ![i].refresh = f]
    BY <1>1, <1>4 DEF ScopeType, RefreshType
  <2> QED
    BY <2>1, <2>2
<1>7. t.key = s.key /\ t.records = s.records /\ t.ever = s.ever /\ t.refresh = f
  BY <1>1 DEF ScopeType
<1>8. SpentInv(t, chain)
  <2> HIDE DEF t, f
  <2> QED
    BY <1>1, <1>3, <1>5, <1>7 DEF SpentInv, Gone
<1> QED
  BY <1>5, <1>6, <1>8, OneAnswer DEF OwnedAnswered

(* The other answers say nothing of records.                               *)
LEMMA OtherAnswerKeeps ==
  ASSUME IInv, NEW i \in Ids, OwnedFails(i) \/ HeightAnswered(i) \/ HeightFails(i)
  PROVE  IInv' /\ HardStep
<1> DEFINE s == scopes[i]
<1>0. Fetching(i) /\ UNCHANGED <<environment, index, calls>>
  BY DEF OwnedFails, HeightAnswered, HeightFails
<1>1. /\ s \in ScopeType /\ s.refresh \in RefreshType
      /\ SpentInv(s, chain) /\ scopes \in [Ids -> ScopeType] /\ height \in 0..MaxHeight
      /\ s.refresh.stage = "fetch"
  BY <1>0, StepFact DEF Fetching, Live, IInv, Typed
<1>2. PICK f \in RefreshType :
        /\ f.stage = s.refresh.stage /\ f.mode = s.refresh.mode
        /\ f.start = s.refresh.start /\ f.programs = s.refresh.programs
        /\ f.answer = s.refresh.answer
        /\ f.owned = "answered" => s.refresh.owned = "answered"
        /\ scopes' = [scopes EXCEPT ![i].refresh = f]
  <2>1. CASE OwnedFails(i)
    <3> DEFINE g == [s.refresh EXCEPT !.owned = "failed"]
    <3>1. g \in RefreshType
      BY <1>1 DEF RefreshType, Answers
    <3>2. scopes' = [scopes EXCEPT ![i].refresh = g]
      BY <1>1, <2>1 DEF OwnedFails, ScopeType, RefreshType
    <3> QED
      BY <1>1, <3>1, <3>2 DEF RefreshType
  <2>2. CASE HeightAnswered(i)
    <3> DEFINE g == [s.refresh EXCEPT !.tip = "answered", !.latestHeight = height]
    <3>1. g \in RefreshType
      BY <1>1 DEF RefreshType, Answers
    <3>2. scopes' = [scopes EXCEPT ![i].refresh = g]
      BY <1>1, <2>2 DEF HeightAnswered, ScopeType, RefreshType
    <3> QED
      BY <1>1, <3>1, <3>2 DEF RefreshType
  <2>3. CASE HeightFails(i)
    <3> DEFINE g == [s.refresh EXCEPT !.tip = "failed"]
    <3>1. g \in RefreshType
      BY <1>1 DEF RefreshType, Answers
    <3>2. scopes' = [scopes EXCEPT ![i].refresh = g]
      BY <1>1, <2>3 DEF HeightFails, ScopeType, RefreshType
    <3> QED
      BY <1>1, <3>1, <3>2 DEF RefreshType
  <2> QED
    BY <2>1, <2>2, <2>3
<1> DEFINE t == [s EXCEPT !.refresh = f]
<1>3. t.key = s.key /\ t.records = s.records /\ t.ever = s.ever /\ t.refresh = f
  BY <1>1 DEF ScopeType
<1>4. SpentInv(t, chain)
  <2> HIDE DEF t
  <2> QED
    BY <1>1, <1>2, <1>3 DEF SpentInv
<1> QED
  BY <1>0, <1>2, <1>4, OneAnswer

(* Both answers are in.                                                    *)
LEMMA FetchKeeps ==
  ASSUME IInv, NEW i \in Ids, Fetch(i)
  PROVE  IInv' /\ HardStep
<1> DEFINE s == scopes[i]
           next == Fetched(s)
           f == [Idle EXCEPT !.stage = "tags", !.mode = s.refresh.mode]
           t == [next EXCEPT !.refresh = f]
<1>1. /\ Live(i) /\ s.refresh.stage = "fetch" /\ s.refresh.owned # "open"
      /\ UNCHANGED <<environment, index>>
      /\ \/ End(i, next)
         \/ scopes' = [scopes EXCEPT ![i] = t] /\ UNCHANGED calls
  BY DEF Fetch, Fetching
<1>2. /\ i \in 1..created /\ s \in ScopeType /\ SpentInv(s, chain)
      /\ chain \in ChainType /\ s.refresh.mode \in Modes /\ ~s.disposed
      /\ scopes[i].disposed => scopes[i].records = Nothing
  BY <1>1, StepFact DEF Live, ModeInv
<1>3. /\ next \in ScopeType
      /\ next.key = s.key /\ next.disposed = s.disposed
      /\ next.consumers = s.consumers /\ next.refresh = s.refresh
      /\ next.pendingHardRefresh = s.pendingHardRefresh
      /\ SpentInv(next, chain)
  BY <1>1, <1>2, FetchedFact
<1> HIDE DEF next
<1>4. CASE End(i, next)
  BY <1>1, <1>2, <1>3, <1>4, EndFact
<1>5. CASE scopes' = [scopes EXCEPT ![i] = t] /\ UNCHANGED calls
  <2>1. /\ f \in RefreshType /\ f.stage = "tags" /\ f.mode = s.refresh.mode
        /\ f.answer = Nothing /\ f.owned = "open" /\ f.start = 0
    <3>1. f \in RefreshType
      BY <1>2, IdleFact DEF RefreshType
    <3> QED
      BY <3>1 DEF Idle
  <2> HIDE DEF f
  <2>2. /\ t \in ScopeType /\ t.key = next.key /\ t.disposed = next.disposed
        /\ t.consumers = next.consumers /\ t.records = next.records
        /\ t.ever = next.ever /\ t.refresh = f
        /\ t.pendingHardRefresh = next.pendingHardRefresh
    BY <1>3, <2>1 DEF ScopeType
  <2> HIDE DEF t
  <2>3. SpentInv(t, chain)
    BY <1>3, <2>1, <2>2, NewRefresh
  <2>4. ModeInv(t) /\ \A c \in Calls : Served(calls[c], scopes[i]) => Served(calls[c], t)
    BY <1>2, <1>3, <2>1, <2>2 DEF ModeInv, Served
  <2> QED
    BY <1>1, <1>2, <1>3, <1>5, <2>2, <2>3, <2>4, OneScopeServes
<1> QED
  BY <1>1, <1>4, <1>5

(* The tags are in: what they name is spent.                               *)
LEMMA TagsAnsweredKeeps ==
  ASSUME IInv, NEW i \in Ids, TagsAnswered(i)
  PROVE  IInv' /\ HardStep
<1> DEFINE s == scopes[i]
           records == [r \in Records |->
             IF s.records[r] = "unspent" /\ chain[r].stage \in {"tagged", "spent"}
             THEN "spent" ELSE s.records[r]]
           ever == s.ever \cup SpentIn(records)
           t == [s EXCEPT !.records = records, !.ever = ever]
<1>1. /\ Live(i) /\ s.refresh.stage = "tags" /\ End(i, t)
      /\ UNCHANGED <<environment, index>>
  BY DEF TagsAnswered, Tagging
<1>2. /\ i \in 1..created /\ s \in ScopeType /\ SpentInv(s, chain) /\ ~s.disposed
  BY <1>1, StepFact DEF Live
<1>3. records \in [Records -> Flags] /\ ever \in SUBSET Records
  BY <1>2 DEF ScopeType, SpentIn, Flags
<1>4. \A r \in Records :
        /\ records[r] = IF s.records[r] = "unspent" /\ chain[r].stage \in {"tagged", "spent"}
                        THEN "spent" ELSE s.records[r]
        /\ r \in ever <=> r \in s.ever \/ records[r] = "spent"
  BY DEF SpentIn
<1> HIDE DEF records, ever
<1>5. /\ t \in ScopeType /\ t.key = s.key /\ t.disposed = s.disposed
      /\ t.consumers = s.consumers /\ t.records = records /\ t.ever = ever
      /\ t.refresh = s.refresh /\ t.pendingHardRefresh = s.pendingHardRefresh
  BY <1>2, <1>3 DEF ScopeType
<1> HIDE DEF t
<1>6. SpentInv(t, chain)
  <2>1. s.refresh.owned = "open"
    BY <1>1, <1>2 DEF SpentInv
  <2> QED
    BY <1>2, <1>4, <1>5, <2>1 DEF SpentInv, Gone
<1> QED
  BY <1>1, <1>2, <1>5, <1>6, EndFact

(* A refresh that ends without news, live or not.                          *)
LEMMA EndsKeep ==
  ASSUME IInv, NEW i \in Ids, TagsFail(i) \/ Abandon(i)
  PROVE  IInv' /\ HardStep
<1>1. /\ scopes[i].refresh.stage # "none" /\ End(i, scopes[i])
      /\ UNCHANGED <<environment, index>>
  BY DEF TagsFail, Tagging, Abandon, InFlight
<1>2. i \in 1..created
  <2>1. CASE TagsFail(i)
    BY <2>1, StepFact DEF TagsFail, Tagging, Live
  <2>2. CASE Abandon(i)
    <3>1. scopes[i].disposed
      BY <2>2 DEF Abandon
    <3>2. created \in 0..MaxScopes /\ i \in 1..MaxScopes
          /\ (i > created => scopes[i] = Fresh(None))
      BY DEF IInv, Typed, Ids
    <3>3. ~Fresh(None).disposed
      BY DEF Fresh
    <3> QED
      BY <3>1, <3>2, <3>3, ConstantsFact
  <2> QED
    BY <2>1, <2>2
<1>3. i <= created
  BY <1>2 DEF IInv, Typed
<1>4. /\ scopes[i] \in ScopeType /\ SpentInv(scopes[i], chain)
      /\ scopes[i].disposed => scopes[i].records = Nothing
  BY <1>3, StepFact
<1> QED
  BY <1>1, <1>2, <1>4, EndFact

(* A refresh that throws lets nobody wait.                                 *)
LEMMA RefreshThrowsKeeps ==
  ASSUME IInv, NEW i \in Ids, RefreshThrows(i)
  PROVE  IInv' /\ HardStep
<1> DEFINE s == scopes[i]
           t == [s EXCEPT !.refresh = Idle, !.timer = FALSE]
           over(c) == calls[c].pc = "waiting" /\ calls[c].scope = i
<1>1. /\ i <= created /\ UNCHANGED <<environment, index>>
      /\ scopes' = [scopes EXCEPT ![i] = t]
      /\ calls' = [c \in Calls |->
                     IF over(c) THEN Call("failed", 0, "none") ELSE calls[c]]
  <2>1. scopes' = [scopes EXCEPT ![i].refresh = Idle, ![i].timer = FALSE]
    BY DEF RefreshThrows
  <2>2. scopes \in [Ids -> ScopeType]
    BY DEF IInv, Typed
  <2>3. scopes' = [scopes EXCEPT ![i] = t]
    BY <2>1, <2>2, IdleFact DEF ScopeType
  <2> QED
    BY <2>3 DEF RefreshThrows
<1>2. /\ i \in 1..created /\ s \in ScopeType /\ SpentInv(s, chain)
      /\ s.disposed => s.records = Nothing
  BY <1>1, StepFact
<1>3. /\ t \in ScopeType /\ t.key = s.key /\ t.disposed = s.disposed
      /\ t.consumers = s.consumers /\ t.records = s.records /\ t.ever = s.ever
      /\ t.refresh = Idle
  BY <1>2, IdleFact DEF ScopeType
<1> HIDE DEF t
<1>4. SpentInv(t, chain) /\ ModeInv(t)
  <2>1. Idle.answer = Nothing /\ Idle.owned = "open" /\ Idle.mode = "none"
        /\ Idle.stage = "none"
    BY DEF Idle
  <2>2. SpentInv(t, chain)
    BY <1>2, <1>3, <2>1, NewRefresh
  <2> QED
    BY <1>3, <2>1, <2>2 DEF ModeInv
<1>5. calls' \in [Calls -> CallType]
  <2>1. Call("failed", 0, "none") \in CallType /\ calls \in [Calls -> CallType]
    BY ConstantsFact DEF Call, CallType, IInv, Typed
  <2> QED
    BY <1>1, <2>1
<1>6. Typed' /\ ScopesAreOwned' /\ ScopesInv'
  BY <1>1, <1>2, <1>3, <1>4, <1>5, OneScope
<1>7. \A c \in Calls : calls'[c].pc # "failed" => calls'[c] = calls[c] /\ ~over(c)
  BY <1>1 DEF Call
<1>8. CallsInv'
  <2> SUFFICES ASSUME NEW c \in Calls, calls'[c].pc = "waiting"
               PROVE  /\ calls'[c].scope \in 1..created
                      /\ Served(calls'[c], scopes'[calls'[c].scope])
    BY <1>1 DEF CallsInv, index, Served
  <2>1. calls'[c] = calls[c] /\ calls[c].scope # i
    BY <1>7
  <2>2. calls[c].scope \in 1..created /\ Served(calls[c], scopes[calls[c].scope])
    BY <2>1 DEF IInv, CallsInv
  <2>3. calls[c].scope \in Ids /\ scopes \in [Ids -> ScopeType]
    BY <2>2, ConstantsFact DEF IInv, Typed, Ids
  <2> QED
    BY <1>1, <2>1, <2>2, <2>3
<1>9. HardStep
  BY <1>7 DEF HardStep
<1> QED
  BY <1>6, <1>8, <1>9 DEF IInv

(* The timers.                                                             *)
LEMMA TicksKeep ==
  ASSUME IInv, NEW i \in Ids, HardTick(i) \/ LightTick(i)
  PROVE  IInv' /\ HardStep
<1> DEFINE s == scopes[i]
<1>0. Live(i) /\ UNCHANGED <<environment, index>> /\ UNCHANGED calls
  BY DEF HardTick, LightTick
<1>1. /\ i \in 1..created /\ s \in ScopeType /\ SpentInv(s, chain) /\ ModeInv(s)
      /\ ~s.disposed /\ scopes \in [Ids -> ScopeType]
  BY <1>0, StepFact DEF Live
<1>2. CASE HardTick(i)
  <2> DEFINE u == Refreshed(s, "hard")
             t == [u EXCEPT !.timer = InFlight(i)]
  <2>1. "hard" \in Modes
    BY DEF Modes
  <2>2. /\ u \in ScopeType /\ u.key = s.key /\ u.disposed = s.disposed
        /\ u.consumers = s.consumers /\ SpentInv(u, chain) /\ ModeInv(u)
        /\ u.refresh.stage # "none"
        /\ u.refresh.mode = "light" => u.pendingHardRefresh
    BY <1>1, <2>1, RefreshedFact
  <2>3. scopes' = [scopes EXCEPT ![i] = t]
    BY <1>2 DEF HardTick
  <2> HIDE DEF u
  <2>4. /\ t \in ScopeType /\ t.key = u.key /\ t.disposed = u.disposed
        /\ t.consumers = u.consumers /\ t.records = u.records /\ t.ever = u.ever
        /\ t.refresh = u.refresh /\ t.pendingHardRefresh = u.pendingHardRefresh
    BY <2>2 DEF ScopeType, InFlight
  <2> HIDE DEF t
  <2>5. SpentInv(t, chain) /\ ModeInv(t)
    BY <2>2, <2>4 DEF SpentInv, ModeInv
  <2>6. \A c \in Calls : Served(calls[c], scopes[i]) => Served(calls[c], t)
    BY <2>2, <2>4 DEF Served
  <2> QED
    BY <1>0, <1>1, <2>2, <2>3, <2>4, <2>5, <2>6, OneScopeServes
<1>3. CASE LightTick(i)
  <2> DEFINE t == Begun(s, "light")
  <2>1. "light" \in Modes
    BY DEF Modes
  <2>2. /\ t \in ScopeType /\ t.key = s.key /\ t.disposed = s.disposed
        /\ t.consumers = s.consumers /\ SpentInv(t, chain) /\ ModeInv(t)
    BY <1>1, <2>1, BegunFact
  <2>3. scopes' = [scopes EXCEPT ![i] = t] /\ s.refresh.stage = "none"
    BY <1>3 DEF LightTick, InFlight
  <2>4. \A c \in Calls : Served(calls[c], scopes[i]) => Served(calls[c], t)
    BY <2>3 DEF Served
  <2> HIDE DEF t
  <2> QED
    BY <1>0, <1>1, <2>2, <2>3, <2>4, OneScopeServes
<1> QED
  BY <1>2, <1>3

LEMMA StepKeeps ==
  ASSUME IInv, NEW i \in Ids, Step(i)
  PROVE  IInv' /\ HardStep
  BY OwnedAnsweredKeeps, OtherAnswerKeeps, FetchKeeps, TagsAnsweredKeeps,
     EndsKeep, RefreshThrowsKeeps DEF Step

-----------------------------------------------------------------------------
(* Chain and scanner                                                       *)

LEMMA MineBlockKeeps ==
  ASSUME IInv, MineBlock
  PROVE  IInv' /\ HardStep
<1> DEFINE half(i) == scopes[i].refresh.owned = "answered"
                      /\ scopes[i].refresh.tip = "open"
           later(i) == [scopes[i] EXCEPT !.refresh.apart = @ + 1]
<1>1. /\ height' \in 0..MaxHeight
      /\ scopes' = [i \in Ids |-> IF half(i) THEN later(i) ELSE scopes[i]]
      /\ UNCHANGED <<chain, index, calls>>
  BY ConstantsFact DEF MineBlock, IInv, Typed
<1>2. scopes \in [Ids -> ScopeType] /\ created \in 0..MaxScopes
      /\ 1..created \subseteq Ids
  BY ConstantsFact DEF IInv, Typed, Ids
<1>3. ASSUME NEW i \in Ids
      PROVE  /\ scopes'[i] \in ScopeType
             /\ scopes'[i].key = scopes[i].key
             /\ scopes'[i].disposed = scopes[i].disposed
             /\ scopes'[i].consumers = scopes[i].consumers
             /\ scopes'[i].records = scopes[i].records
             /\ scopes'[i].ever = scopes[i].ever
             /\ scopes'[i].pendingHardRefresh = scopes[i].pendingHardRefresh
             /\ scopes'[i].refresh.stage = scopes[i].refresh.stage
             /\ scopes'[i].refresh.mode = scopes[i].refresh.mode
             /\ scopes'[i].refresh.start = scopes[i].refresh.start
             /\ scopes'[i].refresh.owned = scopes[i].refresh.owned
             /\ scopes'[i].refresh.answer = scopes[i].refresh.answer
             /\ scopes'[i].refresh.programs = scopes[i].refresh.programs
  <2>1. scopes[i] \in ScopeType /\ scopes[i].refresh \in RefreshType
    BY <1>2 DEF ScopeType
  <2> DEFINE f == [scopes[i].refresh EXCEPT !.apart = @ + 1]
  <2>2. later(i) = [scopes[i] EXCEPT !.refresh = f]
    BY <2>1 DEF ScopeType
  <2>3. /\ f \in RefreshType
        /\ f.stage = scopes[i].refresh.stage /\ f.mode = scopes[i].refresh.mode
        /\ f.start = scopes[i].refresh.start /\ f.owned = scopes[i].refresh.owned
        /\ f.answer = scopes[i].refresh.answer
        /\ f.programs = scopes[i].refresh.programs
    BY <2>1 DEF RefreshType
  <2>4. scopes'[i] = IF half(i) THEN later(i) ELSE scopes[i]
    BY <1>1
  <2> HIDE DEF f, later, half
  <2> QED
    BY <2>1, <2>2, <2>3, <2>4 DEF ScopeType
<1>4. \A i \in Ids : i > created => scopes'[i] = Fresh(None)
  <2>1. ASSUME NEW i \in Ids, i > created
        PROVE  scopes[i] = Fresh(None) /\ ~half(i)
    BY <2>1 DEF IInv, Typed, Fresh, Idle
  <2> HIDE DEF half, later
  <2> QED
    BY <1>1, <2>1
<1>5. Typed'
  <2>1. scopes' \in [Ids -> ScopeType]
    <3> HIDE DEF half, later
    <3> QED
      BY <1>1, <1>3
  <2>2. \A i \in 1..created : scopes'[i].key \in Keys
    BY <1>2, <1>3 DEF IInv, Typed
  <2>3. \A k \in Keys : viewScopes[k] # 0 => scopes'[viewScopes[k]].key = k
    BY <1>2, <1>3 DEF IInv, Typed
  <2> QED
    BY <1>1, <1>4, <2>1, <2>2, <2>3 DEF IInv, Typed, index
<1>6. ScopesAreOwned'
  <2> USE DEF index
  <2>1. \A i \in Ids : Live(i)' <=> Live(i)
    BY <1>1, <1>3 DEF Live
  <2>2. \A i \in 1..created :
          /\ Live(i)' = (scopes'[i].consumers # {})
          /\ Live(i)' = (viewScopes'[scopes'[i].key] = i)
          /\ ~Live(i)' => scopes'[i].records = Nothing
          /\ \A u \in scopes'[i].consumers : consumerToScope'[u] = scopes'[i].key
    BY <1>1, <1>2, <1>3, <2>1 DEF IInv, ScopesAreOwned, Live
  <2>3. ASSUME NEW u \in Consumers, consumerToScope'[u] # None
        PROVE  /\ viewScopes'[consumerToScope'[u]] # 0
               /\ u \in scopes'[viewScopes'[consumerToScope'[u]]].consumers
    <3>1. viewScopes[consumerToScope[u]] \in 0..created
          /\ viewScopes[consumerToScope[u]] # 0
          /\ u \in scopes[viewScopes[consumerToScope[u]]].consumers
      BY <1>1, <2>3 DEF IInv, Typed, ScopesAreOwned
    <3>2. viewScopes[consumerToScope[u]] \in Ids
      BY <1>2, <3>1
    <3> QED
      BY <1>1, <1>3, <3>1, <3>2
  <2> QED
    BY <1>1, <2>2, <2>3 DEF ScopesAreOwned
<1>7. ScopesInv'
  <2>1. ASSUME NEW i \in Ids
        PROVE  SpentInv(scopes'[i], chain) /\ ModeInv(scopes'[i])
    BY <1>3 DEF IInv, ScopesInv, SpentInv, ModeInv
  <2> QED
    BY <1>1, <2>1 DEF ScopesInv
<1>8. CallsInv'
  <2>1. ASSUME NEW c \in Calls, calls[c].pc = "waiting"
        PROVE  /\ calls[c].scope \in 1..created
               /\ Served(calls[c], scopes'[calls[c].scope])
    <3>1. calls[c].scope \in 1..created /\ Served(calls[c], scopes[calls[c].scope])
      BY <2>1 DEF IInv, CallsInv
    <3> QED
      BY <1>2, <1>3, <3>1 DEF Served
  <2> QED
    BY <1>1, <2>1 DEF CallsInv, Served, index
<1>9. HardStep
  BY <1>1 DEF HardStep
<1> QED
  BY <1>5, <1>6, <1>7, <1>8, <1>9 DEF IInv

(* The scanner finds a record, or that it is spent: never the reverse.     *)
LEMMA AdvanceKeeps ==
  ASSUME IInv, NEW r \in Records, Advance(r)
  PROVE  IInv' /\ HardStep
<1>1. UNCHANGED <<height, index, scopes, calls>> /\ chain \in ChainType
      /\ height \in 0..MaxHeight
  BY DEF Advance, IInv, Typed
<1>2. chain' \in ChainType
  <2>1. ASSUME NEW b \in 0..height,
               chain' = [chain EXCEPT ![r] = [stage |-> "indexed", block |-> b]]
        PROVE  chain' \in ChainType
    BY <1>1, <2>1, ConstantsFact DEF ChainType, Stages
  <2>2. ASSUME NEW g \in {"tagged", "spent"}, chain' = [chain EXCEPT ![r].stage = g]
        PROVE  chain' \in ChainType
    BY <1>1, <2>2 DEF ChainType, Stages
  <2> QED
    BY <2>1, <2>2 DEF Advance
<1>3. \A q \in Records :
        /\ chain[q].stage \in {"tagged", "spent"} => chain'[q].stage \in {"tagged", "spent"}
        /\ chain[q].stage = "spent" => chain'[q].stage = "spent"
  BY <1>1 DEF Advance, ChainType
<1>4. ScopesInv'
  <2>1. ASSUME NEW i \in Ids
        PROVE  SpentInv(scopes[i], chain') /\ ModeInv(scopes[i])
    BY <1>3 DEF IInv, ScopesInv, SpentInv, Gone
  <2> QED
    BY <1>1, <2>1 DEF ScopesInv
<1>5. Typed'
  BY <1>1, <1>2 DEF IInv, Typed, index
<1>6. ScopesAreOwned' /\ CallsInv'
  BY <1>1 DEF IInv, ScopesAreOwned, CallsInv, Live, index
<1>7. HardStep
  BY <1>1 DEF HardStep
<1> QED
  BY <1>4, <1>5, <1>6, <1>7 DEF IInv

-----------------------------------------------------------------------------
(* Consumers come and go                                                   *)

(* Calls that wait are served as well by scopes that are disposed of.      *)
LEMMA CallsStay ==
  ASSUME IInv, NEW w \in [Ids -> ScopeType],
         \A i \in Ids : /\ w[i].refresh.stage = scopes[i].refresh.stage
                        /\ \/ w[i].disposed
                           \/ /\ w[i].refresh = scopes[i].refresh
                              /\ w[i].disposed = scopes[i].disposed
                              /\ w[i].pendingHardRefresh = scopes[i].pendingHardRefresh
  PROVE  \A c \in Calls : calls[c].pc = "waiting" =>
           /\ calls[c].scope \in 1..created /\ calls[c].scope \in Ids
           /\ Served(calls[c], scopes[calls[c].scope])
           /\ Served(calls[c], w[calls[c].scope])
<1> TAKE c \in Calls
<1> HAVE calls[c].pc = "waiting"
<1>1. calls[c].scope \in 1..created /\ Served(calls[c], scopes[calls[c].scope])
  BY DEF IInv, CallsInv
<1>2. calls[c].scope \in Ids
  BY <1>1, ConstantsFact DEF IInv, Typed, Ids
<1> QED
  BY <1>1, <1>2 DEF Served

(* The scopes, and their index, once a consumer has left.                  *)
LEMMA WithoutFact ==
  ASSUME IInv, NEW u \in Consumers
  PROVE  /\ Without(u) \in [Ids -> ScopeType]
         /\ Indexed(Without(u)) \in [Keys -> 0..created]
         /\ \A i \in Ids :
              /\ Without(u)[i].key = scopes[i].key
              /\ i > created => Without(u)[i] = Fresh(None)
              /\ SpentInv(Without(u)[i], chain) /\ ModeInv(Without(u)[i])
              /\ Without(u)[i].consumers = scopes[i].consumers \ {u}
              /\ Without(u)[i].refresh.stage = scopes[i].refresh.stage
              /\ \/ Without(u)[i].disposed
                 \/ /\ Without(u)[i].refresh = scopes[i].refresh
                    /\ Without(u)[i].disposed = scopes[i].disposed
                    /\ Without(u)[i].pendingHardRefresh = scopes[i].pendingHardRefresh
         /\ \A i \in 1..created :
              /\ ~Without(u)[i].disposed <=> Without(u)[i].consumers # {}
              /\ Without(u)[i].disposed => Without(u)[i].records = Nothing
              /\ ~Without(u)[i].disposed <=> Indexed(Without(u))[scopes[i].key] = i
         /\ \A k \in Keys :
              /\ consumerToScope[u] # k => Indexed(Without(u))[k] = viewScopes[k]
              /\ Indexed(Without(u))[k] # 0 => Indexed(Without(u))[k] = viewScopes[k]
         /\ \A v \in Consumers \ {u} : consumerToScope[v] # None =>
              /\ Indexed(Without(u))[consumerToScope[v]] # 0
              /\ v \in Without(u)[Indexed(Without(u))[consumerToScope[v]]].consumers
<1> DEFINE w == Without(u)
           x == Indexed(w)
<1>1. /\ scopes \in [Ids -> ScopeType] /\ created \in 0..MaxScopes
      /\ 1..created \subseteq Ids /\ viewScopes \in [Keys -> 0..created]
      /\ consumerToScope \in [Consumers -> Keys \cup {None}]
      /\ \A i \in 1..created : scopes[i].key \in Keys
      /\ \A i \in Ids : i > created => scopes[i] = Fresh(None)
      /\ \A i \in Ids : i <= created <=> i \in 1..created
      /\ None \notin Keys
  BY ConstantsFact DEF IInv, Typed, Ids
<1>2. \A i \in Ids :
        \/ w[i] = scopes[i] /\ u \notin scopes[i].consumers
        \/ /\ w[i] = Disposed(scopes[i]) /\ scopes[i].consumers = {u}
        \/ /\ w[i] = [scopes[i] EXCEPT !.consumers = @ \ {u}]
           /\ u \in scopes[i].consumers /\ scopes[i].consumers # {u}
  BY DEF Without
<1>3. ASSUME NEW i \in Ids
      PROVE  /\ w[i] \in ScopeType /\ w[i].key = scopes[i].key
             /\ SpentInv(w[i], chain) /\ ModeInv(w[i])
             /\ w[i].consumers = scopes[i].consumers \ {u}
             /\ w[i].refresh.stage = scopes[i].refresh.stage
             /\ \/ w[i].disposed /\ w[i].records = Nothing
                                 /\ scopes[i].consumers = {u}
                \/ /\ w[i].refresh = scopes[i].refresh
                   /\ w[i].disposed = scopes[i].disposed
                   /\ w[i].records = scopes[i].records
                   /\ w[i].pendingHardRefresh = scopes[i].pendingHardRefresh
                   /\ scopes[i].consumers # {u}
  <2>0. scopes[i] \in ScopeType /\ SpentInv(scopes[i], chain) /\ ModeInv(scopes[i])
    BY <1>1 DEF IInv, ScopesInv
  <2>1. CASE w[i] = scopes[i] /\ u \notin scopes[i].consumers
    <3> HIDE DEF w
    <3> QED
      BY <2>0, <2>1 DEF ScopeType
  <2>2. CASE w[i] = Disposed(scopes[i]) /\ scopes[i].consumers = {u}
    <3>1. /\ Disposed(scopes[i]) \in ScopeType
          /\ Disposed(scopes[i]).key = scopes[i].key /\ Disposed(scopes[i]).disposed
          /\ Disposed(scopes[i]).consumers = {} /\ Disposed(scopes[i]).records = Nothing
          /\ Disposed(scopes[i]).refresh.stage = scopes[i].refresh.stage
          /\ SpentInv(Disposed(scopes[i]), chain) /\ ModeInv(Disposed(scopes[i]))
      BY <2>0, DisposedFact
    <3> HIDE DEF w
    <3> QED
      BY <2>2, <3>1
  <2>3. CASE /\ w[i] = [scopes[i] EXCEPT !.consumers = @ \ {u}]
             /\ u \in scopes[i].consumers /\ scopes[i].consumers # {u}
    <3> DEFINE t == [scopes[i] EXCEPT !.consumers = @ \ {u}]
    <3>1. /\ t \in ScopeType /\ t.key = scopes[i].key
          /\ t.disposed = scopes[i].disposed /\ t.records = scopes[i].records
          /\ t.ever = scopes[i].ever /\ t.refresh = scopes[i].refresh
          /\ t.pendingHardRefresh = scopes[i].pendingHardRefresh
          /\ t.consumers = scopes[i].consumers \ {u}
      BY <2>0 DEF ScopeType
    <3>2. w[i] = t
      BY <2>3
    <3> HIDE DEF w, t
    <3>3. SpentInv(t, chain) /\ ModeInv(t)
      BY <2>0, <3>1 DEF SpentInv, ModeInv
    <3> QED
      BY <2>3, <3>1, <3>2, <3>3
  <2> QED
    BY <1>2, <2>1, <2>2, <2>3
<1>4. \A i \in Ids : i > created => w[i] = Fresh(None)
  <2>1. ASSUME NEW i \in Ids, i > created
        PROVE  u \notin scopes[i].consumers
    BY <1>1, <2>1 DEF Fresh
  <2> QED
    BY <1>1, <1>2, <2>1
<1>5. w \in [Ids -> ScopeType]
  <2>1. w = [i \in Ids |-> w[i]]
    BY DEF Without
  <2> HIDE DEF w
  <2> QED
    BY <1>3, <2>1
<1>6. \A k \in Keys :
        x[k] = IF viewScopes[k] # 0 /\ w[viewScopes[k]].disposed
               THEN 0 ELSE viewScopes[k]
  BY DEF Indexed
<1>7. x \in [Keys -> 0..created]
  <2>1. \A k \in Keys : x[k] \in 0..created
    <3> HIDE DEF x, w
    <3> QED
      BY <1>1, <1>6
  <2>2. x = [k \in Keys |-> x[k]]
    BY DEF Indexed
  <2> HIDE DEF x
  <2> QED
    BY <2>1, <2>2
<1> HIDE DEF w, x
<1>8. ASSUME NEW i \in 1..created
      PROVE  /\ ~scopes[i].disposed <=> scopes[i].consumers # {}
             /\ ~scopes[i].disposed <=> viewScopes[scopes[i].key] = i
             /\ scopes[i].disposed => scopes[i].records = Nothing
             /\ \A v \in scopes[i].consumers : consumerToScope[v] = scopes[i].key
  BY <1>1 DEF IInv, ScopesAreOwned, Live
<1>9. ASSUME NEW i \in 1..created
      PROVE  /\ ~w[i].disposed <=> w[i].consumers # {}
             /\ w[i].disposed => w[i].records = Nothing
             /\ ~w[i].disposed <=> x[scopes[i].key] = i
  <2>1. i \in Ids /\ i # 0 /\ scopes[i].key \in Keys
    BY <1>1
  <2>2. ~w[i].disposed <=> w[i].consumers # {}
    BY <1>3, <1>8, <2>1
  <2>3. w[i].disposed => w[i].records = Nothing
    BY <1>3, <1>8, <2>1
  <2>4. ~w[i].disposed <=> x[scopes[i].key] = i
    <3>1. ~w[i].disposed => ~scopes[i].disposed
      BY <1>3, <2>1
    <3> QED
      BY <1>6, <1>8, <2>1, <3>1
  <2> QED
    BY <2>2, <2>3, <2>4
<1>10. ASSUME NEW v \in Consumers, consumerToScope[v] # None
       PROVE  /\ consumerToScope[v] \in Keys
              /\ viewScopes[consumerToScope[v]] \in 1..created
              /\ v \in scopes[viewScopes[consumerToScope[v]]].consumers
  BY <1>1, <1>10 DEF IInv, ScopesAreOwned
<1>11. ASSUME NEW k \in Keys, consumerToScope[u] # k
       PROVE  x[k] = viewScopes[k]
  <2>1. CASE viewScopes[k] = 0
    BY <1>6, <2>1
  <2>2. CASE viewScopes[k] # 0
    <3> DEFINE i == viewScopes[k]
    <3>1. i \in 1..created /\ i \in Ids
      BY <1>1, <2>2
    <3>2. scopes[i].key = k /\ ~scopes[i].disposed
      BY <1>8, <2>2, <3>1 DEF IInv, Typed
    <3>3. u \notin scopes[i].consumers
      BY <1>8, <1>11, <3>1, <3>2
    <3>4. ~w[i].disposed
      BY <1>3, <3>1, <3>2, <3>3
    <3> QED
      BY <1>6, <3>4
  <2> QED
    BY <2>1, <2>2
<1>12. ASSUME NEW v \in Consumers \ {u}, consumerToScope[v] # None
       PROVE  /\ x[consumerToScope[v]] # 0
              /\ v \in w[x[consumerToScope[v]]].consumers
  <2> DEFINE k == consumerToScope[v]
             i == viewScopes[k]
  <2>1. k \in Keys /\ i \in 1..created /\ i \in Ids /\ v \in scopes[i].consumers
    BY <1>1, <1>10, <1>12
  <2>2. scopes[i].consumers # {u} /\ v \in scopes[i].consumers \ {u}
    BY <2>1
  <2>3. i # 0 /\ ~scopes[i].disposed
    BY <1>8, <2>1
  <2>4. ~w[i].disposed /\ w[i].consumers = scopes[i].consumers \ {u}
    BY <1>3, <2>1, <2>2, <2>3
  <2>5. x[k] = i
    BY <1>6, <2>1, <2>3, <2>4
  <2> QED
    BY <2>1, <2>2, <2>3, <2>4, <2>5
<1>13. \A k \in Keys : x[k] # 0 => x[k] = viewScopes[k]
  BY <1>6
<1> QED
  BY <1>3, <1>4, <1>5, <1>7, <1>9, <1>11, <1>12, <1>13 DEF w, x

(* A screen is left.                                                       *)
LEMMA DeactivateKeeps ==
  ASSUME IInv, NEW u \in Consumers, Deactivate(u)
  PROVE  IInv' /\ HardStep
<1> DEFINE w == Without(u)
           x == Indexed(w)
<1>1. /\ consumerToScope' = [consumerToScope EXCEPT ![u] = None]
      /\ scopes' = w /\ viewScopes' = x
      /\ UNCHANGED <<height, chain, created, calls>>
  BY DEF Deactivate, environment
<1>2. /\ created \in 0..MaxScopes /\ 1..created \subseteq Ids
      /\ consumerToScope \in [Consumers -> Keys \cup {None}]
      /\ \A i \in 1..created : scopes[i].key \in Keys /\ i <= created
      /\ \A k \in Keys : viewScopes[k] # 0 => scopes[viewScopes[k]].key = k
      /\ viewScopes \in [Keys -> 0..created]
  BY ConstantsFact DEF IInv, Typed, Ids
<1>3. /\ w \in [Ids -> ScopeType] /\ x \in [Keys -> 0..created]
      /\ \A i \in Ids :
           /\ w[i].key = scopes[i].key
           /\ i > created => w[i] = Fresh(None)
           /\ SpentInv(w[i], chain) /\ ModeInv(w[i])
           /\ w[i].consumers = scopes[i].consumers \ {u}
           /\ w[i].refresh.stage = scopes[i].refresh.stage
           /\ \/ w[i].disposed
              \/ /\ w[i].refresh = scopes[i].refresh
                 /\ w[i].disposed = scopes[i].disposed
                 /\ w[i].pendingHardRefresh = scopes[i].pendingHardRefresh
      /\ \A i \in 1..created :
           /\ ~w[i].disposed <=> w[i].consumers # {}
           /\ w[i].disposed => w[i].records = Nothing
           /\ ~w[i].disposed <=> x[scopes[i].key] = i
      /\ \A k \in Keys : x[k] # 0 => x[k] = viewScopes[k]
      /\ \A v \in Consumers \ {u} : consumerToScope[v] # None =>
           /\ x[consumerToScope[v]] # 0
           /\ v \in w[x[consumerToScope[v]]].consumers
  BY WithoutFact
<1> HIDE DEF w, x
<1>4. Typed'
  <2>1. consumerToScope' \in [Consumers -> Keys \cup {None}]
    BY <1>1, <1>2
  <2>2. \A i \in 1..created : w[i].key \in Keys
    BY <1>2, <1>3
  <2>3. \A k \in Keys : x[k] # 0 => w[x[k]].key = k
    BY <1>2, <1>3
  <2> QED
    BY <1>1, <1>3, <2>1, <2>2, <2>3 DEF IInv, Typed
<1>5. ScopesAreOwned'
  <2>1. ASSUME NEW i \in 1..created
        PROVE  /\ Live(i)' = (scopes'[i].consumers # {})
               /\ Live(i)' = (viewScopes'[scopes'[i].key] = i)
               /\ ~Live(i)' => scopes'[i].records = Nothing
               /\ \A v \in scopes'[i].consumers : consumerToScope'[v] = scopes'[i].key
    <3>1. i \in Ids /\ i <= created
      BY <1>2
    <3>2. Live(i)' <=> ~w[i].disposed
      BY <1>1, <3>1 DEF Live
    <3>3. ASSUME NEW v \in w[i].consumers
          PROVE  consumerToScope'[v] = w[i].key
      <4>1. v # u /\ v \in scopes[i].consumers /\ w[i].key = scopes[i].key
        BY <1>3, <3>1
      <4>2. consumerToScope[v] = scopes[i].key
        BY <4>1 DEF IInv, ScopesAreOwned
      <4>3. v \in Consumers
        BY <1>3, <3>1 DEF ScopeType
      <4> QED
        BY <1>1, <1>2, <4>1, <4>2, <4>3
    <3> QED
      BY <1>1, <1>3, <3>1, <3>2, <3>3 DEF Live
  <2>2. ASSUME NEW v \in Consumers, consumerToScope'[v] # None
        PROVE  /\ viewScopes'[consumerToScope'[v]] # 0
               /\ v \in scopes'[viewScopes'[consumerToScope'[v]]].consumers
    <3>1. v # u /\ consumerToScope'[v] = consumerToScope[v]
      BY <1>1, <1>2, <2>2
    <3> QED
      BY <1>1, <1>3, <2>2, <3>1
  <2> QED
    BY <1>1, <2>1, <2>2 DEF ScopesAreOwned
<1>6. ScopesInv'
  BY <1>1, <1>3 DEF ScopesInv
<1>7. CallsInv'
  <2>1. \A c \in Calls : calls[c].pc = "waiting" =>
          calls[c].scope \in 1..created /\ Served(calls[c], w[calls[c].scope])
    BY <1>3, CallsStay
  <2> QED
    BY <1>1, <2>1 DEF CallsInv, Served
<1>8. HardStep
  BY <1>1 DEF HardStep
<1> QED
  BY <1>4, <1>5, <1>6, <1>7, <1>8 DEF IInv

(* A reset leaves no scope alive.                                          *)
LEMMA ResetKeeps ==
  ASSUME IInv, Reset
  PROVE  IInv' /\ HardStep
<1> DEFINE w == [i \in Ids |-> IF Live(i) THEN Disposed(scopes[i]) ELSE scopes[i]]
<1>1. /\ scopes' = w /\ viewScopes' = [k \in Keys |-> 0]
      /\ consumerToScope' = [u \in Consumers |->
           IF \E i \in Ids : u \in scopes[i].consumers THEN None
           ELSE consumerToScope[u]]
      /\ UNCHANGED <<height, chain, created, calls>>
  BY DEF Reset, environment
<1>2. /\ created \in 0..MaxScopes /\ 1..created \subseteq Ids
      /\ scopes \in [Ids -> ScopeType]
      /\ \A i \in 1..created : scopes[i].key \in Keys /\ i <= created
      /\ \A i \in Ids : i <= created => i \in 1..created
      /\ viewScopes \in [Keys -> 0..created]
      /\ consumerToScope \in [Consumers -> Keys \cup {None}]
  BY ConstantsFact DEF IInv, Typed, Ids
<1>3. ASSUME NEW i \in Ids
      PROVE  /\ w[i] \in ScopeType /\ w[i].key = scopes[i].key
             /\ SpentInv(w[i], chain) /\ ModeInv(w[i])
             /\ w[i].refresh.stage = scopes[i].refresh.stage
             /\ \/ w[i].disposed /\ w[i].consumers = {} /\ w[i].records = Nothing
                \/ w[i] = scopes[i] /\ ~Live(i)
  <2>1. scopes[i] \in ScopeType /\ SpentInv(scopes[i], chain) /\ ModeInv(scopes[i])
    BY <1>2 DEF IInv, ScopesInv
  <2>2. CASE Live(i)
    BY <2>1, <2>2, DisposedFact
  <2>3. CASE ~Live(i)
    BY <2>1, <2>3
  <2> QED
    BY <2>2, <2>3
<1>4. \A i \in Ids : i > created => w[i] = scopes[i]
  BY <1>2, ConstantsFact DEF Live, Ids
<1>5. w \in [Ids -> ScopeType]
  <2>1. w = [i \in Ids |-> w[i]]
    OBVIOUS
  <2> HIDE DEF w
  <2> QED
    BY <1>3, <2>1
<1> HIDE DEF w
<1>6. \A u \in Consumers : consumerToScope'[u] = None
  <2> SUFFICES ASSUME NEW u \in Consumers, \A i \in Ids : u \notin scopes[i].consumers,
                      consumerToScope[u] # None
               PROVE  FALSE
    BY <1>1
  <2>1. /\ viewScopes[consumerToScope[u]] \in Ids
        /\ u \in scopes[viewScopes[consumerToScope[u]]].consumers
    BY <1>2 DEF IInv, ScopesAreOwned
  <2> QED
    BY <2>1
<1>7. \A i \in 1..created : w[i].disposed /\ w[i].consumers = {} /\ w[i].records = Nothing
  <2> TAKE i \in 1..created
  <2>1. i \in Ids /\ i <= created
    BY <1>2
  <2>2. CASE w[i] = scopes[i] /\ ~Live(i)
    BY <2>1, <2>2 DEF IInv, ScopesAreOwned, Live
  <2> QED
    BY <1>3, <2>1, <2>2
<1>8. Typed'
  <2>1. consumerToScope' \in [Consumers -> Keys \cup {None}]
    <3>1. consumerToScope' = [u \in Consumers |-> consumerToScope'[u]]
      BY <1>1
    <3> QED
      BY <1>6, <3>1
  <2>2. viewScopes' \in [Keys -> 0..created]
    BY <1>1, <1>2
  <2>3. \A i \in 1..created : w[i].key \in Keys
    BY <1>2, <1>3
  <2>4. \A k \in Keys : viewScopes'[k] = 0
    BY <1>1
  <2>5. \A i \in Ids : i > created => w[i] = Fresh(None)
    BY <1>4 DEF IInv, Typed
  <2> QED
    BY <1>1, <1>5, <2>1, <2>2, <2>3, <2>4, <2>5 DEF IInv, Typed
<1>9. ScopesAreOwned'
  <2>1. ASSUME NEW i \in 1..created
        PROVE  /\ Live(i)' = (scopes'[i].consumers # {})
               /\ Live(i)' = (viewScopes'[scopes'[i].key] = i)
               /\ ~Live(i)' => scopes'[i].records = Nothing
               /\ \A v \in scopes'[i].consumers : consumerToScope'[v] = scopes'[i].key
    <3>1. i \in Ids /\ scopes[i].key \in Keys /\ i # 0
      BY <1>2
    <3>2. ~Live(i)'
      BY <1>1, <1>7 DEF Live
    <3>3. viewScopes'[w[i].key] = 0
      BY <1>1, <1>3, <3>1
    <3> QED
      BY <1>1, <1>7, <3>1, <3>2, <3>3 DEF Live
  <2> QED
    BY <1>1, <1>6, <2>1 DEF ScopesAreOwned
<1>10. ScopesInv'
  BY <1>1, <1>3 DEF ScopesInv
<1>11. CallsInv'
  <2>1. \A c \in Calls : calls[c].pc = "waiting" =>
          calls[c].scope \in 1..created /\ Served(calls[c], w[calls[c].scope])
    BY <1>3, <1>5, CallsStay
  <2> QED
    BY <1>1, <2>1 DEF CallsInv, Served
<1>12. HardStep
  BY <1>1 DEF HardStep
<1> QED
  BY <1>8, <1>9, <1>10, <1>11, <1>12 DEF IInv

(* A view call leaves the scope its consumer uses, unless it is the one it *)
(* asks for, or there is none.                                             *)
Left(u, k) == IF consumerToScope[u] \in {None, k} THEN scopes ELSE Without(u)

LEMMA LeftFact ==
  ASSUME IInv, NEW u \in Consumers, NEW k \in Keys
  PROVE  /\ Left(u, k) \in [Ids -> ScopeType]
         /\ Indexed(Left(u, k)) \in [Keys -> 0..created]
         /\ \A i \in Ids :
              /\ Left(u, k)[i].key = scopes[i].key
              /\ i > created => Left(u, k)[i] = Fresh(None)
              /\ SpentInv(Left(u, k)[i], chain) /\ ModeInv(Left(u, k)[i])
              /\ Left(u, k)[i].refresh.stage = scopes[i].refresh.stage
              /\ \/ Left(u, k)[i].disposed
                 \/ /\ Left(u, k)[i].refresh = scopes[i].refresh
                    /\ Left(u, k)[i].disposed = scopes[i].disposed
                    /\ Left(u, k)[i].pendingHardRefresh = scopes[i].pendingHardRefresh
         /\ \A i \in 1..created :
              /\ ~Left(u, k)[i].disposed <=> Left(u, k)[i].consumers # {}
              /\ Left(u, k)[i].disposed => Left(u, k)[i].records = Nothing
              /\ ~Left(u, k)[i].disposed <=> Indexed(Left(u, k))[scopes[i].key] = i
              /\ \A v \in Left(u, k)[i].consumers :
                   IF v = u THEN scopes[i].key = k
                   ELSE consumerToScope[v] = scopes[i].key
         /\ Indexed(Left(u, k))[k] = viewScopes[k]
         /\ \A l \in Keys : Indexed(Left(u, k))[l] # 0 =>
              Indexed(Left(u, k))[l] = viewScopes[l]
         /\ \A v \in Consumers \ {u} : consumerToScope[v] # None =>
              /\ Indexed(Left(u, k))[consumerToScope[v]] # 0
              /\ v \in Left(u, k)[Indexed(Left(u, k))[consumerToScope[v]]].consumers
<1>1. /\ scopes \in [Ids -> ScopeType] /\ created \in 0..MaxScopes
      /\ 1..created \subseteq Ids /\ viewScopes \in [Keys -> 0..created]
      /\ consumerToScope \in [Consumers -> Keys \cup {None}]
      /\ \A i \in 1..created : scopes[i].key \in Keys /\ i <= created
      /\ \A i \in Ids : i > created => scopes[i] = Fresh(None)
      /\ \A l \in Keys : viewScopes[l] # 0 => scopes[viewScopes[l]].key = l
      /\ None \notin Keys
  BY ConstantsFact DEF IInv, Typed, Ids
<1>2. ASSUME NEW i \in 1..created
      PROVE  /\ ~scopes[i].disposed <=> scopes[i].consumers # {}
             /\ ~scopes[i].disposed <=> viewScopes[scopes[i].key] = i
             /\ scopes[i].disposed => scopes[i].records = Nothing
             /\ \A v \in scopes[i].consumers : consumerToScope[v] = scopes[i].key
  BY <1>1 DEF IInv, ScopesAreOwned, Live
<1>3. CASE consumerToScope[u] \in {None, k}
  <2>1. Left(u, k) = scopes
    BY <1>3 DEF Left
  <2>2. Indexed(scopes) = viewScopes
    <3>1. ASSUME NEW l \in Keys, viewScopes[l] # 0
          PROVE  ~scopes[viewScopes[l]].disposed
      <4>1. viewScopes[l] \in 1..created /\ scopes[viewScopes[l]].key = l
        BY <1>1, <3>1
      <4> QED
        BY <1>2, <4>1
    <3>2. \A l \in Keys :
            (IF viewScopes[l] # 0 /\ scopes[viewScopes[l]].disposed THEN 0
             ELSE viewScopes[l]) = viewScopes[l]
      BY <3>1
    <3>3. viewScopes = [l \in Keys |-> viewScopes[l]]
      BY <1>1
    <3> QED
      BY <3>2, <3>3 DEF Indexed
  <2>3. \A i \in 1..created : \A v \in scopes[i].consumers :
          IF v = u THEN scopes[i].key = k ELSE consumerToScope[v] = scopes[i].key
    <3> TAKE i \in 1..created
    <3> TAKE v \in scopes[i].consumers
    <3>1. consumerToScope[v] = scopes[i].key /\ scopes[i].key \in Keys
      BY <1>1, <1>2
    <3> QED
      BY <1>1, <1>3, <3>1
  <2>4. \A i \in Ids : SpentInv(scopes[i], chain) /\ ModeInv(scopes[i])
    BY DEF IInv, ScopesInv
  <2>5. \A v \in Consumers \ {u} : consumerToScope[v] # None =>
          /\ viewScopes[consumerToScope[v]] # 0
          /\ v \in scopes[viewScopes[consumerToScope[v]]].consumers
    BY DEF IInv, ScopesAreOwned
  <2> QED
    BY <1>1, <1>2, <2>1, <2>2, <2>3, <2>4, <2>5
<1>4. CASE consumerToScope[u] \notin {None, k}
  <2> DEFINE w == Without(u)
             x == Indexed(w)
  <2>1. Left(u, k) = w
    BY <1>4 DEF Left
  <2>2. /\ w \in [Ids -> ScopeType] /\ x \in [Keys -> 0..created]
        /\ \A i \in Ids :
             /\ w[i].key = scopes[i].key
             /\ i > created => w[i] = Fresh(None)
             /\ SpentInv(w[i], chain) /\ ModeInv(w[i])
             /\ w[i].consumers = scopes[i].consumers \ {u}
             /\ w[i].refresh.stage = scopes[i].refresh.stage
             /\ \/ w[i].disposed
                \/ /\ w[i].refresh = scopes[i].refresh
                   /\ w[i].disposed = scopes[i].disposed
                   /\ w[i].pendingHardRefresh = scopes[i].pendingHardRefresh
        /\ \A i \in 1..created :
             /\ ~w[i].disposed <=> w[i].consumers # {}
             /\ w[i].disposed => w[i].records = Nothing
             /\ ~w[i].disposed <=> x[scopes[i].key] = i
        /\ \A l \in Keys :
             /\ consumerToScope[u] # l => x[l] = viewScopes[l]
             /\ x[l] # 0 => x[l] = viewScopes[l]
        /\ \A v \in Consumers \ {u} : consumerToScope[v] # None =>
             /\ x[consumerToScope[v]] # 0
             /\ v \in w[x[consumerToScope[v]]].consumers
    BY WithoutFact
  <2> HIDE DEF w, x
  <2>3. x[k] = viewScopes[k]
    BY <1>4, <2>2
  <2>4. \A i \in 1..created : \A v \in w[i].consumers :
          IF v = u THEN scopes[i].key = k ELSE consumerToScope[v] = scopes[i].key
    <3> TAKE i \in 1..created
    <3> TAKE v \in w[i].consumers
    <3>1. v \in scopes[i].consumers \ {u}
      BY <1>1, <2>2
    <3> QED
      BY <1>2, <3>1
  <2>5. Indexed(Left(u, k)) = x
    BY <2>1 DEF x
  <2> QED
    BY <2>1, <2>2, <2>3, <2>4, <2>5
<1> QED
  BY <1>3, <1>4

(* Who uses a scope, and its marks, do not matter to what it holds.        *)
LEMMA JoinedFact ==
  ASSUME NEW s, NEW t, NEW ch, SpentInv(s, ch), ModeInv(s),
         t.key = s.key, t.disposed = s.disposed, t.records = s.records,
         t.ever = s.ever, t.refresh = s.refresh
  PROVE  SpentInv(t, ch) /\ ModeInv(t)
  BY DEF SpentInv, ModeInv

(* Scope i, of key k, becomes t, with u among its consumers, after u has   *)
(* left the scope it used.                                                 *)
LEMMA OneJoins ==
  ASSUME IInv, NEW u \in Consumers, NEW k \in Keys, NEW i \in Ids,
         i = IF viewScopes[k] # 0 THEN viewScopes[k] ELSE created + 1,
         NEW found, found = IF viewScopes[k] # 0 THEN Left(u, k)[i] ELSE Fresh(k),
         NEW t \in ScopeType, t.key = k, ~t.disposed,
         t.consumers = found.consumers \cup {u},
         SpentInv(t, chain), ModeInv(t),
         scopes' = [Left(u, k) EXCEPT ![i] = t],
         viewScopes' = [Indexed(Left(u, k)) EXCEPT ![k] = i],
         consumerToScope' = [consumerToScope EXCEPT ![u] = k],
         created' = (IF i > created THEN i ELSE created),
         calls' \in [Calls -> CallType], UNCHANGED environment
  PROVE  Typed' /\ ScopesAreOwned' /\ ScopesInv'
<1> DEFINE w == Left(u, k)
           x == Indexed(w)
<1>1. /\ created \in 0..MaxScopes /\ MaxScopes \in Nat /\ Ids = 1..MaxScopes
      /\ 1..created \subseteq Ids /\ viewScopes \in [Keys -> 0..created]
      /\ consumerToScope \in [Consumers -> Keys \cup {None}]
      /\ \A j \in 1..created : scopes[j].key \in Keys
      /\ \A l \in Keys : viewScopes[l] # 0 => scopes[viewScopes[l]].key = l
      /\ None \notin Keys /\ height' = height /\ chain' = chain
      /\ height \in 0..MaxHeight /\ chain \in ChainType
  BY ConstantsFact DEF IInv, Typed, Ids, environment
<1>2. /\ w \in [Ids -> ScopeType] /\ x \in [Keys -> 0..created]
      /\ \A j \in Ids :
           /\ w[j].key = scopes[j].key
           /\ j > created => w[j] = Fresh(None)
           /\ SpentInv(w[j], chain) /\ ModeInv(w[j])
      /\ \A j \in 1..created :
           /\ ~w[j].disposed <=> w[j].consumers # {}
           /\ w[j].disposed => w[j].records = Nothing
           /\ ~w[j].disposed <=> x[scopes[j].key] = j
           /\ \A v \in w[j].consumers :
                IF v = u THEN scopes[j].key = k
                ELSE consumerToScope[v] = scopes[j].key
      /\ x[k] = viewScopes[k]
      /\ \A l \in Keys : x[l] # 0 => x[l] = viewScopes[l]
      /\ \A v \in Consumers \ {u} : consumerToScope[v] # None =>
           /\ x[consumerToScope[v]] # 0
           /\ v \in w[x[consumerToScope[v]]].consumers
  BY LeftFact
<1> HIDE DEF w, x
<1>3. /\ scopes' = [w EXCEPT ![i] = t] /\ viewScopes' = [x EXCEPT ![k] = i]
      /\ found = IF viewScopes[k] # 0 THEN w[i] ELSE Fresh(k)
  BY DEF w, x
<1>4. /\ \A j \in Ids : scopes'[j] = IF j = i THEN t ELSE w[j]
      /\ \A l \in Keys : viewScopes'[l] = IF l = k THEN i ELSE x[l]
      /\ \A v \in Consumers : consumerToScope'[v] = IF v = u THEN k ELSE consumerToScope[v]
  BY <1>1, <1>2, <1>3
<1>5. /\ created' \in 0..MaxScopes /\ i \in 1..created' /\ i # 0
      /\ created' >= created
      /\ \A j \in 1..created' : j \in Ids /\ (j # i => j \in 1..created)
      /\ \A j \in Ids : j > created' => j > created /\ j # i
  <2>1. i \in 1..MaxScopes /\ viewScopes[k] \in 0..created
    BY <1>1
  <2>2. i = viewScopes[k] \/ i = created + 1
    OBVIOUS
  <2> QED
    BY <1>1, <2>1, <2>2
<1>6. \A l \in Keys \ {k} : x[l] # i
  <2> SUFFICES ASSUME NEW l \in Keys \ {k}, x[l] = i
               PROVE  FALSE
    OBVIOUS
  <2>1. viewScopes[l] = i /\ i \in 1..created /\ scopes[i].key = l
    BY <1>1, <1>2, <1>5
  <2>2. viewScopes[k] # 0 => i = viewScopes[k] /\ scopes[i].key = k
    BY <1>1
  <2>3. viewScopes[k] = 0 => i = created + 1
    OBVIOUS
  <2> QED
    BY <1>1, <2>1, <2>2, <2>3
<1>7. Typed'
  <2>1. scopes' \in [Ids -> ScopeType]
    <3>1. \A j \in Ids : scopes'[j] \in ScopeType
      BY <1>2, <1>4
    <3>2. w \in [Ids -> ScopeType]
      BY <1>2
    <3>3. scopes' = [j \in Ids |-> scopes'[j]]
      BY <1>3, <3>2
    <3> QED
      BY <3>1, <3>3
  <2>2. viewScopes' \in [Keys -> 0..created']
    <3>1. \A l \in Keys : viewScopes'[l] \in 0..created'
      BY <1>1, <1>2, <1>4, <1>5
    <3>2. viewScopes' = [l \in Keys |-> viewScopes'[l]]
      BY <1>2, <1>3
    <3> QED
      BY <3>1, <3>2
  <2>3. consumerToScope' \in [Consumers -> Keys \cup {None}]
    BY <1>1
  <2>4. ASSUME NEW j \in 1..created'
        PROVE  scopes'[j].key \in Keys
    <3>1. j \in Ids /\ (j # i => j \in 1..created)
      BY <1>5
    <3>2. scopes'[j] = IF j = i THEN t ELSE w[j]
      BY <1>4, <3>1
    <3>3. j # i => w[j].key \in Keys
      BY <1>1, <1>2, <3>1
    <3> QED
      BY <3>2, <3>3
  <2>5. \A j \in Ids : j > created' => scopes'[j] = Fresh(None)
    BY <1>2, <1>4, <1>5
  <2>6. \A l \in Keys : viewScopes'[l] # 0 => scopes'[viewScopes'[l]].key = l
    <3> TAKE l \in Keys
    <3> HAVE viewScopes'[l] # 0
    <3>1. CASE l = k
      BY <1>4, <3>1
    <3>2. CASE l # k
      <4>1. viewScopes'[l] = x[l] /\ x[l] # i /\ x[l] = viewScopes[l] /\ x[l] \in Ids
        BY <1>1, <1>2, <1>4, <1>6, <3>2
      <4>2. scopes'[x[l]] = w[x[l]] /\ w[x[l]].key = scopes[x[l]].key
        BY <1>2, <1>4, <4>1
      <4> QED
        BY <1>1, <4>1, <4>2
    <3> QED
      BY <3>1, <3>2
  <2>7. height' \in 0..MaxHeight /\ chain' \in ChainType
    BY <1>1
  <2> QED
    BY <1>5, <2>1, <2>2, <2>3, <2>4, <2>5, <2>6, <2>7 DEF Typed
<1>8. ScopesAreOwned'
  <2>1. ASSUME NEW j \in 1..created'
        PROVE  /\ Live(j)' = (scopes'[j].consumers # {})
               /\ Live(j)' = (viewScopes'[scopes'[j].key] = j)
               /\ ~Live(j)' => scopes'[j].records = Nothing
               /\ \A v \in scopes'[j].consumers : consumerToScope'[v] = scopes'[j].key
    <3>1. j \in Ids /\ j <= created'
      BY <1>5
    <3>2. Live(j)' <=> ~scopes'[j].disposed
      BY <3>1 DEF Live
    <3>3. CASE j = i
      <4>1. scopes'[j] = t /\ viewScopes'[k] = i
        BY <1>4, <3>3
      <4>2. ASSUME NEW v \in t.consumers
            PROVE  consumerToScope'[v] = k
        <5>1. v \in Consumers
          BY DEF ScopeType
        <5>2. CASE v = u
          BY <1>4, <5>2
        <5>3. CASE v # u
          <6>1. v \in found.consumers
            BY <5>3
          <6>2. viewScopes[k] # 0
            BY <1>3, <6>1 DEF Fresh
          <6>3. i \in 1..created /\ v \in w[i].consumers /\ scopes[i].key = k
            BY <1>1, <1>3, <6>1, <6>2
          <6>4. consumerToScope[v] = k
            BY <1>2, <5>3, <6>3
          <6> QED
            BY <1>4, <5>1, <5>3, <6>4
        <5> QED
          BY <5>2, <5>3
      <4>3. t.consumers # {}
        OBVIOUS
      <4> QED
        BY <3>2, <3>3, <4>1, <4>2, <4>3 DEF Live
    <3>4. CASE j # i
      <4>1. j \in 1..created /\ scopes'[j] = w[j] /\ w[j].key = scopes[j].key
            /\ scopes[j].key \in Keys
        BY <1>1, <1>2, <1>4, <1>5, <3>1, <3>4
      <4>2. viewScopes'[scopes[j].key] = j <=> x[scopes[j].key] = j
        <5>1. CASE scopes[j].key = k
          <6>1. x[k] # j
            <7>1. viewScopes[k] # 0 => i = viewScopes[k]
              OBVIOUS
            <7>2. j # 0
              BY <1>1, <4>1
            <7> QED
              BY <1>2, <3>4, <7>1, <7>2
          <6>2. viewScopes'[k] = i
            BY <1>4
          <6> QED
            BY <3>4, <5>1, <6>1, <6>2
        <5>2. CASE scopes[j].key # k
          BY <1>4, <4>1, <5>2
        <5> QED
          BY <5>1, <5>2
      <4>3. ASSUME NEW v \in w[j].consumers
            PROVE  consumerToScope'[v] = w[j].key
        <5>1. v \in Consumers
          BY <1>2, <3>1 DEF ScopeType
        <5> QED
          BY <1>2, <1>4, <4>1, <5>1
      <4> QED
        BY <1>2, <3>2, <4>1, <4>2, <4>3 DEF Live
    <3> QED
      BY <3>3, <3>4
  <2>2. ASSUME NEW v \in Consumers, consumerToScope'[v] # None
        PROVE  /\ viewScopes'[consumerToScope'[v]] # 0
               /\ v \in scopes'[viewScopes'[consumerToScope'[v]]].consumers
    <3>1. CASE v = u
      <4>1. consumerToScope'[v] = k /\ viewScopes'[k] = i /\ scopes'[i] = t
        BY <1>4, <3>1
      <4> QED
        BY <1>5, <3>1, <4>1
    <3>2. CASE v # u
      <4> DEFINE l == consumerToScope[v]
      <4>1. consumerToScope'[v] = l /\ l \in Keys /\ x[l] # 0 /\ x[l] \in Ids
            /\ v \in w[x[l]].consumers
        BY <1>1, <1>2, <1>4, <2>2, <3>2
      <4>2. CASE l = k
        <5>1. viewScopes[k] # 0 /\ i = viewScopes[k] /\ x[l] = i /\ found = w[i]
          BY <1>2, <1>3, <4>1, <4>2
        <5>2. viewScopes'[l] = i /\ scopes'[i] = t /\ v \in t.consumers
          BY <1>4, <4>1, <4>2, <5>1
        <5> QED
          BY <1>5, <4>1, <5>2
      <4>3. CASE l # k
        <5>1. viewScopes'[l] = x[l] /\ x[l] # i /\ scopes'[x[l]] = w[x[l]]
          BY <1>4, <1>6, <4>1, <4>3
        <5> QED
          BY <4>1, <5>1
      <4> QED
        BY <4>2, <4>3
    <3> QED
      BY <3>1, <3>2
  <2> QED
    BY <2>1, <2>2 DEF ScopesAreOwned
<1>9. ScopesInv'
  BY <1>1, <1>2, <1>4 DEF ScopesInv
<1> QED
  BY <1>7, <1>8, <1>9

(* A view call.                                                            *)
LEMMA ViewKeeps ==
  ASSUME IInv, NEW c \in Calls, NEW u \in Consumers, NEW uuid \in Uuids,
         NEW mode \in {"auto", "light", "hard", "none"}, View(c, u, uuid, mode)
  PROVE  IInv' /\ HardStep
<1> DEFINE k == <<uuid, FilterOf[u]>>
           w == Left(u, k)
           i == IF viewScopes[k] # 0 THEN viewScopes[k] ELSE created + 1
           found == IF viewScopes[k] # 0 THEN w[i] ELSE Fresh(k)
           joined == [found EXCEPT !.consumers = @ \cup {u}]
           effective == IF mode = "auto" /\ ~found.initialized THEN "hard" ELSE mode
           waits == effective \in {"light", "hard"}
           t == IF waits THEN Refreshed(joined, effective)
                ELSE [joined EXCEPT !.initialized = TRUE]
           call == IF waits THEN Call("waiting", i, effective)
                   ELSE Call("returned", 0, "none")
<1>1. /\ calls[c].pc = "idle" /\ i \in Ids
      /\ created' = IF i > created THEN i ELSE created
      /\ viewScopes' = [Indexed(w) EXCEPT ![k] = i]
      /\ consumerToScope' = [consumerToScope EXCEPT ![u] = k]
      /\ scopes' = [w EXCEPT ![i] = t]
      /\ calls' = [calls EXCEPT ![c] = call]
      /\ UNCHANGED environment
  BY DEF View, Left
<1>2. /\ k \in Keys /\ created \in 0..MaxScopes /\ MaxScopes \in Nat
      /\ Ids = 1..MaxScopes /\ viewScopes \in [Keys -> 0..created]
      /\ scopes \in [Ids -> ScopeType] /\ calls \in [Calls -> CallType]
      /\ \A l \in Keys : viewScopes[l] # 0 => scopes[viewScopes[l]].key = l
  BY ConstantsFact DEF IInv, Typed, Ids
<1>3. /\ w \in [Ids -> ScopeType]
      /\ \A j \in Ids :
           /\ w[j].key = scopes[j].key
           /\ SpentInv(w[j], chain) /\ ModeInv(w[j])
           /\ w[j].refresh.stage = scopes[j].refresh.stage
           /\ \/ w[j].disposed
              \/ /\ w[j].refresh = scopes[j].refresh
                 /\ w[j].disposed = scopes[j].disposed
                 /\ w[j].pendingHardRefresh = scopes[j].pendingHardRefresh
      /\ \A j \in 1..created :
           ~w[j].disposed <=> Indexed(w)[scopes[j].key] = j
      /\ Indexed(w)[k] = viewScopes[k]
  <2>1. k \in Keys
    BY <1>2
  <2> HIDE DEF k
  <2> QED
    BY <2>1, LeftFact
<1> HIDE DEF k, w
<1>4. viewScopes[k] # 0 => i = viewScopes[k] /\ i \in 1..created /\ scopes[i].key = k
  BY <1>2
<1>5. /\ found \in ScopeType /\ found.key = k /\ ~found.disposed
      /\ SpentInv(found, chain) /\ ModeInv(found)
  <2>1. CASE viewScopes[k] # 0
    <3>1. found = w[i] /\ i \in 1..created /\ scopes[i].key = k /\ viewScopes[k] = i
      BY <1>4, <2>1
    <3> QED
      BY <1>1, <1>3, <3>1
  <2>2. CASE viewScopes[k] = 0
    BY <1>2, <2>2, FreshFact
  <2> QED
    BY <2>1, <2>2
<1> HIDE DEF i
<1> HIDE DEF found
<1>6. /\ joined \in ScopeType /\ joined.key = k /\ ~joined.disposed
      /\ joined.consumers = found.consumers \cup {u}
      /\ joined.refresh = found.refresh
      /\ joined.pendingHardRefresh = found.pendingHardRefresh
      /\ SpentInv(joined, chain) /\ ModeInv(joined)
  <2>1. /\ joined \in ScopeType /\ joined.key = found.key
        /\ joined.disposed = found.disposed
        /\ joined.consumers = found.consumers \cup {u}
        /\ joined.records = found.records /\ joined.ever = found.ever
        /\ joined.refresh = found.refresh
        /\ joined.pendingHardRefresh = found.pendingHardRefresh
    BY <1>5 DEF ScopeType
  <2> HIDE DEF joined
  <2>2. SpentInv(joined, chain) /\ ModeInv(joined)
    BY <1>5, <2>1, JoinedFact
  <2> QED
    BY <1>5, <2>1, <2>2
<1>7. /\ t \in ScopeType /\ t.key = k /\ ~t.disposed
      /\ t.consumers = found.consumers \cup {u}
      /\ SpentInv(t, chain) /\ ModeInv(t)
      /\ found.refresh.stage # "none" =>
           /\ t.refresh = found.refresh
           /\ found.pendingHardRefresh => t.pendingHardRefresh
      /\ waits => t.refresh.stage # "none"
      /\ waits /\ effective = "hard" /\ t.refresh.mode = "light"
           => t.pendingHardRefresh
  <2>1. CASE waits
    <3>1. t = Refreshed(joined, effective) /\ effective \in Modes
      BY <2>1 DEF Modes
    <3> HIDE DEF joined, effective, t
    <3> QED
      BY <1>6, <3>1, RefreshedFact
  <2>2. CASE ~waits
    <3>1. /\ t \in ScopeType /\ t.key = joined.key
          /\ t.disposed = joined.disposed /\ t.consumers = joined.consumers
          /\ t.records = joined.records /\ t.ever = joined.ever
          /\ t.refresh = joined.refresh
          /\ t.pendingHardRefresh = joined.pendingHardRefresh
      <4>1. t = [joined EXCEPT !.initialized = TRUE]
        BY <2>2
      <4> HIDE DEF t, waits, joined
      <4> QED
        BY <1>6, <4>1 DEF ScopeType
    <3> HIDE DEF t, waits, joined
    <3>2. SpentInv(t, chain) /\ ModeInv(t)
      BY <1>6, <3>1, JoinedFact
    <3> QED
      BY <1>6, <2>2, <3>1, <3>2
  <2> QED
    BY <2>1, <2>2
<1>8. call \in CallType /\ (call.pc = "waiting" <=> waits)
      /\ (waits => call.scope = i /\ call.mode = effective)
  BY <1>1, <1>2 DEF Call, CallType, Modes
<1> HIDE DEF joined, effective, waits, t
<1> HIDE DEF call
<1>9. calls' \in [Calls -> CallType]
      /\ \A d \in Calls : calls'[d] = IF d = c THEN call ELSE calls[d]
  BY <1>1, <1>2, <1>8
<1>10. Typed' /\ ScopesAreOwned' /\ ScopesInv'
  <2>1. viewScopes' = [Indexed(Left(u, k)) EXCEPT ![k] = i]
        /\ scopes' = [Left(u, k) EXCEPT ![i] = t]
        /\ i = (IF viewScopes[k] # 0 THEN viewScopes[k] ELSE created + 1)
        /\ found = IF viewScopes[k] # 0 THEN Left(u, k)[i] ELSE Fresh(k)
    BY <1>1 DEF w, i, found
  <2> QED
    <3>1. /\ k \in Keys /\ i \in Ids /\ t \in ScopeType /\ t.key = k /\ ~t.disposed
          /\ t.consumers = found.consumers \cup {u}
          /\ SpentInv(t, chain) /\ ModeInv(t)
          /\ calls' \in [Calls -> CallType]
      BY <1>1, <1>2, <1>7, <1>9
    <3>2. /\ consumerToScope' = [consumerToScope EXCEPT ![u] = k]
          /\ created' = (IF i > created THEN i ELSE created)
          /\ UNCHANGED environment
      BY <1>1
    <3> QED
      BY <2>1, <3>1, <3>2, OneJoins
<1>11. CallsInv'
  <2> SUFFICES ASSUME NEW d \in Calls, calls'[d].pc = "waiting"
               PROVE  /\ calls'[d].scope \in 1..created'
                      /\ Served(calls'[d], scopes'[calls'[d].scope])
    BY DEF CallsInv
  <2>0. /\ created' >= created /\ created' \in Nat /\ i \in 1..created'
        /\ \A j \in Ids : scopes'[j] = IF j = i THEN t ELSE w[j]
    BY <1>1, <1>2, <1>3
  <2>1. CASE d = c
    <3>1. calls'[d] = call /\ waits /\ call.scope = i /\ call.mode = effective
          /\ scopes'[i] = t
      BY <1>1, <1>8, <1>9, <2>0, <2>1
    <3> QED
      BY <1>7, <2>0, <3>1 DEF Served
  <2>2. CASE d # c
    <3> DEFINE j == calls[d].scope
    <3>1. calls'[d] = calls[d] /\ calls[d].pc = "waiting"
      BY <1>9, <2>2
    <3>2. j \in 1..created /\ j \in Ids /\ Served(calls[d], w[j])
      BY <1>3, <3>1, CallsStay
    <3>3. j \in 1..created'
      BY <1>2, <2>0, <3>2
    <3>4. CASE j # i
      BY <2>0, <3>1, <3>2, <3>3, <3>4
    <3>5. CASE j = i
      <4>1. found = w[i]
        <5>1. i \in 1..created
          BY <3>2, <3>5
        <5>2. viewScopes[k] # 0
          BY <1>2, <5>1 DEF i
        <5> QED
          BY <5>2 DEF found
      <4>2. Served(calls[d], t)
        BY <1>7, <1>5, <3>2, <3>5, <4>1 DEF Served
      <4> QED
        BY <2>0, <3>1, <3>2, <3>3, <3>5, <4>2
    <3> QED
      BY <3>4, <3>5
  <2> QED
    BY <2>1, <2>2
<1>12. HardStep
  BY <1>1, <1>9 DEF HardStep
<1> QED
  BY <1>10, <1>11, <1>12 DEF IInv

-----------------------------------------------------------------------------
(* The invariant, and what follows from it                                 *)

(* Nothing is there at first.                                              *)
LEMMA InitIInv == Init => IInv
<1> SUFFICES ASSUME Init
             PROVE  IInv
  OBVIOUS
<1>1. /\ Fresh(None) \in ScopeType /\ Fresh(None).key = None
      /\ SpentInv(Fresh(None), chain) /\ ModeInv(Fresh(None))
  BY FreshFact
<1>2. \A i \in Ids : scopes[i] = Fresh(None)
  BY DEF Init
<1>3. created = 0 /\ 1..created = {}
  BY DEF Init
<1>4. Typed
  <2>1. height \in 0..MaxHeight /\ created \in 0..MaxScopes
    BY ConstantsFact DEF Init
  <2>2. chain \in ChainType
    BY ConstantsFact DEF Init, ChainType, Stages
  <2>3. viewScopes \in [Keys -> 0..created]
        /\ consumerToScope \in [Consumers -> Keys \cup {None}]
    BY DEF Init
  <2>4. scopes \in [Ids -> ScopeType]
    BY <1>1 DEF Init
  <2>5. calls \in [Calls -> CallType]
    BY ConstantsFact DEF Init, Call, CallType
  <2>6. \A k \in Keys : viewScopes[k] = 0
    BY DEF Init
  <2> QED
    BY <1>2, <1>3, <2>1, <2>2, <2>3, <2>4, <2>5, <2>6 DEF Typed
<1>5. ScopesAreOwned
  BY <1>3 DEF ScopesAreOwned, Init
<1>6. ScopesInv
  BY <1>1, <1>2 DEF ScopesInv
<1>7. CallsInv
  BY DEF CallsInv, Init, Call
<1> QED
  BY <1>4, <1>5, <1>6, <1>7 DEF IInv

(* Every step keeps the invariant, and is a step HardIsHard allows.        *)
LEMMA Inductive == IInv /\ [Next]_vars => IInv' /\ HardStep
<1> SUFFICES ASSUME IInv, [Next]_vars
             PROVE  IInv' /\ HardStep
  OBVIOUS
<1>1. CASE MineBlock
  BY <1>1, MineBlockKeeps
<1>2. CASE \E r \in Records : Advance(r)
  BY <1>2, AdvanceKeeps
<1>3. CASE \E c \in Calls, u \in Consumers, uuid \in Uuids,
             mode \in {"auto", "light", "hard", "none"} : View(c, u, uuid, mode)
  BY <1>3, ViewKeeps
<1>4. CASE \E u \in Consumers : Deactivate(u)
  BY <1>4, DeactivateKeeps
<1>5. CASE Reset
  BY <1>5, ResetKeeps
<1>6. CASE \E i \in Ids : HardTick(i) \/ LightTick(i) \/ Step(i)
  BY <1>6, TicksKeep, StepKeeps
<1>7. CASE UNCHANGED vars
  <2>1. /\ height' = height /\ chain' = chain /\ created' = created
        /\ viewScopes' = viewScopes /\ consumerToScope' = consumerToScope
        /\ scopes' = scopes /\ calls' = calls
    BY <1>7 DEF vars, environment, index
  <2>2. Typed' /\ ScopesInv' /\ CallsInv'
    BY <2>1 DEF IInv, Typed, ScopesInv, CallsInv
  <2>3. ScopesAreOwned'
    BY <2>1 DEF IInv, ScopesAreOwned, Live
  <2>4. HardStep
    BY <2>1 DEF HardStep
  <2> QED
    BY <2>2, <2>3, <2>4 DEF IInv
<1> QED
  BY <1>1, <1>2, <1>3, <1>4, <1>5, <1>6, <1>7 DEF Next

LEMMA Invariant == Spec => []IInv
  BY InitIInv, Inductive, PTL DEF Spec

(* The types of TypeOK are among those of the invariant; that a call waits *)
(* only for a refresh under way is the first part of Served.               *)
LEMMA IInvTypes == IInv => TypeOK
<1> SUFFICES ASSUME IInv
             PROVE  TypeOK
  OBVIOUS
<1>1. /\ height \in 0..MaxHeight /\ chain \in ChainType /\ created \in 0..MaxScopes
      /\ viewScopes \in [Keys -> 0..created]
      /\ consumerToScope \in [Consumers -> Keys \cup {None}]
      /\ scopes \in [Ids -> ScopeType] /\ calls \in [Calls -> CallType]
  BY DEF IInv, Typed
<1>2. ASSUME NEW c \in Calls
      PROVE  /\ calls[c].pc \in {"idle", "waiting", "returned", "cut", "failed"}
             /\ calls[c].pc = "waiting" =>
                  calls[c].scope \in 1..created /\ InFlight(calls[c].scope)
  BY <1>1 DEF IInv, CallsInv, CallType, Served, InFlight
<1>3. ASSUME NEW i \in Ids
      PROVE  /\ scopes[i].records \in [Records -> Flags]
             /\ scopes[i].consumers \subseteq Consumers
             /\ scopes[i].lastHeight \in 0..MaxHeight
             /\ scopes[i].refresh.stage \in {"none", "fetch", "tags"}
  BY <1>1 DEF ScopeType, RefreshType
<1> QED
  BY <1>1, <1>2, <1>3 DEF TypeOK, ChainType

(* Every variable of the record synchronisation stays within its type, and *)
(* a view call waits only for a refresh that is under way.                 *)
THEOREM TypesHold == Spec => []TypeOK
  BY Invariant, IInvTypes, PTL

(* A scope, with its timers and records, lives exactly as long as a        *)
(* consumer uses it, however view calls, switches of account, resets and   *)
(* late answers interleave.                                                *)
THEOREM ScopesHaveOwners == Spec => []ScopesAreOwned
<1>1. IInv => ScopesAreOwned
  BY DEF IInv
<1> QED
  BY <1>1, Invariant, PTL

(* A record once known as spent is not shown as unspent again: neither a   *)
(* hard refresh that replaces the records, nor a light one that merges an  *)
(* answer older than the tags, brings it back.                             *)
THEOREM SpentStays == Spec => []SpentWins
<1>1. IInv => SpentWins
  <2> SUFFICES ASSUME IInv, NEW i \in Ids, NEW r \in scopes[i].ever
               PROVE  scopes[i].records[r] # "unspent"
    BY DEF SpentWins
  <2>1. r \in Records
    BY DEF IInv, Typed, ScopeType
  <2> QED
    BY <2>1 DEF IInv, ScopesInv, SpentInv
<1> QED
  BY <1>1, Invariant, PTL

(* A view call that wanted a hard refresh returns only when one has ended, *)
(* also when it joined a light one.                                        *)
THEOREM HardWins == Spec => HardIsHard
<1>1. IInv /\ [Next]_vars => HardStep
  BY Inductive
<1>2. HardStep => [HardStep]_vars
  OBVIOUS
<1> QED
  BY <1>1, Invariant, PTL DEF Spec, HardIsHard, HardStep
-----------------------------------------------------------------------------
(* Light refreshes leave no gap                                            *)

(* The scanner has no such record for the scope, or not any more.          *)
Unlisted(key, r, ch) == ch[r].stage = "absent" \/ Gone(key, r, ch)

(* Record r is not left out of an answer that starts Lookback before n.    *)
Within(r, n, ch) == n <= ch[r].block + Lookback

(* What a scope holds: of the programs it covers nothing is missing but    *)
(* what the next light refresh will be sent.                               *)
HeldInv(s, ch, h) ==
  /\ s.lastHeight <= h
  /\ s.key[2] # "spent" =>
       \A r \in Records : ProgramOf[r] \in s.covered =>
         \/ s.records[r] # "none"
         \/ Unlisted(s.key, r, ch)
         \/ Within(r, s.lastHeight, ch)

(* What is known of record r, left out of an answer to f or not.           *)
LeftOut(s, r, ch, h) ==
  \/ Unlisted(s.key, r, ch)
  \/ /\ Within(r, s.lastHeight, ch) /\ Within(r, s.refresh.latestHeight, ch)
     /\ s.refresh.tip = "open" => h <= ch[r].block + Lag + s.refresh.apart
NotLeftOut(s, r, ch) ==
  /\ ch[r].stage # "absent"
  /\ s.refresh.owned = "answered" /\ ProgramOf[r] \in s.covered =>
       s.records[r] # "none" \/ Within(r, s.lastHeight, ch)

(* What a refresh in flight was answered: a record that is not in the      *)
(* answer was found since, and so lies close to the height that is or will *)
(* be noted with it.                                                       *)
AnswerInv(s, ch, h) ==
  /\ s.refresh.apart <= Slack
  /\ s.refresh.latestHeight <= h
  /\ s.refresh.start = 0 \/ s.refresh.start + Lookback <= s.lastHeight
  /\ s.key[2] # "spent" => \A r \in Records :
       /\ /\ s.refresh.answer[r] = "none"
          /\ s.refresh.owned = "answered" /\ ProgramOf[r] \in s.refresh.programs
          => LeftOut(s, r, ch, h)
       /\ s.refresh.answer[r] # "none" => NotLeftOut(s, r, ch)

GapInv(s, ch, h) == HeldInv(s, ch, h) /\ AnswerInv(s, ch, h)
GapsInv == \A i \in Ids : GapInv(scopes[i], chain, height)

(* Numbers that a refresh starts with.                                     *)
Rested(f) ==
  f.owned = "open" /\ f.answer = Nothing /\ f.apart = 0 /\ f.latestHeight = 0

(* A refresh that was answered nothing yet asks from far enough back.      *)
LEMMA RestedGap ==
  ASSUME NEW t, NEW ch, NEW h \in Nat, HeldInv(t, ch, h), Rested(t.refresh),
         t.refresh.start = 0 \/ t.refresh.start + Lookback <= t.lastHeight
  PROVE  GapInv(t, ch, h)
  BY SyncAssumption DEF GapInv, AnswerInv, Rested, Nothing

LEMMA IdleRests == Rested(Idle) /\ Idle.start = 0
  BY DEF Rested, Idle

(* Consumers, timers and marks do not matter.                              *)
LEMMA SameGap ==
  ASSUME NEW s, NEW t, NEW ch, NEW h, GapInv(s, ch, h), t.key = s.key,
         t.records = s.records, t.covered = s.covered,
         t.lastHeight = s.lastHeight, t.refresh = s.refresh
  PROVE  GapInv(t, ch, h)
  BY DEF GapInv, HeldInv, AnswerInv, LeftOut, NotLeftOut

LEMMA FreshGap ==
  ASSUME NEW k, NEW ch, NEW h \in Nat
  PROVE  GapInv(Fresh(k), ch, h)
<1>1. HeldInv(Fresh(k), ch, h) /\ Fresh(k).refresh = Idle
  BY DEF Fresh, HeldInv
<1> QED
  BY <1>1, IdleRests, RestedGap

LEMMA DisposedGap ==
  ASSUME NEW s, NEW ch, NEW h \in Nat
  PROVE  GapInv(Disposed(s), ch, h)
<1>1. /\ HeldInv(Disposed(s), ch, h)
      /\ Rested(Disposed(s).refresh) /\ Disposed(s).refresh.start = 0
  BY DEF Disposed, Fresh, HeldInv, Rested, Idle
<1> QED
  BY <1>1, RestedGap

LEMMA BegunGap ==
  ASSUME NEW s \in ScopeType, NEW mode, NEW ch, NEW h \in Nat, HeldInv(s, ch, h)
  PROVE  GapInv(Begun(s, mode), ch, h)
<1> DEFINE start == IF mode = "light" /\ s.lastHeight > Lookback
                    THEN s.lastHeight - Lookback ELSE 0
           f == [Idle EXCEPT !.stage = "fetch", !.mode = mode,
                  !.programs = ProgramsOf(s.consumers), !.start = start]
           t == [s EXCEPT !.pendingHardRefresh = IF mode = "hard" THEN FALSE ELSE @,
                          !.refresh = f]
<1>1. start = 0 \/ start + Lookback <= s.lastHeight
  BY ConstantsFact DEF ScopeType
<1>2. Rested(f) /\ f.start = start
  BY DEF Rested, Idle
<1>3. /\ Begun(s, mode) = t
      /\ t.key = s.key /\ t.records = s.records /\ t.covered = s.covered
      /\ t.lastHeight = s.lastHeight /\ t.refresh = f
  BY DEF Begun, ScopeType
<1> HIDE DEF t, f, start
<1>4. HeldInv(t, ch, h)
  BY <1>3 DEF HeldInv
<1> QED
  BY <1>1, <1>2, <1>3, <1>4, RestedGap

LEMMA RefreshedGap ==
  ASSUME NEW s \in ScopeType, NEW mode, NEW ch, NEW h \in Nat, GapInv(s, ch, h)
  PROVE  GapInv(Refreshed(s, mode), ch, h)
<1> DEFINE t == [s EXCEPT !.pendingHardRefresh = TRUE]
<1>1. CASE Refreshed(s, mode) = Begun(s, mode)
  BY <1>1, BegunGap DEF GapInv
<1>2. CASE Refreshed(s, mode) = t
  <2>1. t.key = s.key /\ t.records = s.records /\ t.covered = s.covered
        /\ t.lastHeight = s.lastHeight /\ t.refresh = s.refresh
    BY DEF ScopeType
  <2> HIDE DEF t
  <2> QED
    BY <1>2, <2>1, SameGap
<1>3. CASE Refreshed(s, mode) = s
  BY <1>3
<1> QED
  BY <1>1, <1>2, <1>3 DEF Refreshed

(* Both answers of a fetch are in: what was found is held, and what was    *)
(* not will be sent to the next light refresh.                             *)
FoundIsHeld(s, t) ==
  s.refresh.owned = "answered" /\ s.key[2] # "spent" =>
    \A r \in Records : s.refresh.answer[r] # "none" =>
      t.records[r] # "none" \/ ProgramOf[r] \notin t.covered

LEMMA FetchedGap ==
  ASSUME NEW s \in ScopeType, chain \in ChainType, height \in Nat,
         SpentInv(s, chain), s.refresh.mode \in Modes,
         s.refresh.owned # "open", s.refresh.tip # "open",
         GapInv(s, chain, height)
  PROVE  HeldInv(Fetched(s), chain, height) /\ FoundIsHeld(s, Fetched(s))
<1>1. CASE s.refresh.owned = "failed"
  BY <1>1 DEF Fetched, GapInv, FoundIsHeld
<1>2. CASE s.refresh.owned = "answered"
  <2> DEFINE f == s.refresh
             hard == f.mode = "hard"
             records == IF hard THEN Replaced(s) ELSE MergedIn(s)
             last == IF f.tip = "answered" THEN f.latestHeight ELSE s.lastHeight
             covered == f.programs \cap IF hard THEN Programs ELSE s.covered
             t == [s EXCEPT !.records = records, !.lastHeight = last,
                    !.hardOnce = @ \/ hard, !.ever = @ \cup SpentIn(records),
                    !.covered = covered]
  <2>0. f \in RefreshType /\ s.records \in [Records -> Flags] /\ s.lastHeight \in Nat
    BY ConstantsFact DEF ScopeType
  <2>1. Fetched(s) = t
    BY <1>2 DEF Fetched
  <2>2. t.key = s.key /\ t.records = records /\ t.lastHeight = last
        /\ t.covered = covered
    BY DEF ScopeType
  <2> HIDE DEF t
  <2>3. last <= height
    BY DEF GapInv, HeldInv, AnswerInv
  <2>4. ASSUME NEW r \in Records, s.key[2] # "spent", ProgramOf[r] \in covered,
               f.answer[r] # "none"
        PROVE  records[r] # "none"
    <3>1. /\ ProgramOf[r] \in f.programs /\ (~hard => ProgramOf[r] \in s.covered)
          /\ s.records[r] \in Flags /\ Sent(f)[r] \in Flags
      BY <2>0, <2>4, SentFact
    <3>2. Merged(s.records[r], Sent(f)[r]) = "none"
            <=> s.records[r] = "none" /\ Sent(f)[r] = "none"
      BY <3>1, MergedFact
    <3>3. CASE hard
      <4>1. Sent(f)[r] = f.answer[r]
        BY <2>0, <3>3, SentFact DEF SpentInv
      <4> QED
        BY <2>4, <3>1, <3>2, <3>3, <4>1 DEF Replaced
    <3>4. CASE ~hard
      <4>1. s.records[r] # "none" \/ Within(r, s.lastHeight, chain)
        BY <1>2, <2>4, <3>1, <3>4 DEF GapInv, AnswerInv, NotLeftOut
      <4>2. Within(r, s.lastHeight, chain) => Sent(f)[r] = f.answer[r]
        <5>1. chain[r].block \in Nat /\ f.start \in Nat
          BY <2>0, ConstantsFact DEF ChainType, RefreshType
        <5>2. Within(r, s.lastHeight, chain) => chain[r].block >= f.start
          BY <2>0, <5>1, ConstantsFact DEF GapInv, AnswerInv, Within
        <5> QED
          BY <5>2 DEF Sent
      <4>3. records[r] = Merged(s.records[r], Sent(f)[r])
        BY <3>4 DEF MergedIn
      <4> QED
        BY <2>4, <3>2, <4>1, <4>2, <4>3
    <3> QED
      BY <3>3, <3>4
  <2>5. ASSUME NEW r \in Records, s.key[2] # "spent", ProgramOf[r] \in covered,
               f.answer[r] = "none"
        PROVE  Unlisted(s.key, r, chain) \/ Within(r, last, chain)
    BY <1>2, <2>5 DEF GapInv, AnswerInv, LeftOut
  <2> HIDE DEF records, last, covered
  <2>6. HeldInv(t, chain, height)
    BY <2>2, <2>3, <2>4, <2>5 DEF HeldInv
  <2>7. FoundIsHeld(s, t)
    BY <2>2, <2>4 DEF FoundIsHeld
  <2> QED
    BY <2>1, <2>6, <2>7
<1> QED
  BY <1>1, <1>2 DEF ScopeType, RefreshType, Answers

(* A step that changes one scope.                                          *)
LEMMA OneGap ==
  ASSUME IInv, GapsInv, NEW i \in Ids, NEW t, GapInv(t, chain, height),
         scopes' = [scopes EXCEPT ![i] = t], UNCHANGED environment
  PROVE  GapsInv'
<1>1. ASSUME NEW j \in Ids  PROVE GapInv(scopes'[j], chain, height)
  <2>1. scopes'[j] = t \/ scopes'[j] = scopes[j]
    BY DEF IInv, Typed
  <2> QED
    BY <2>1 DEF GapsInv
<1> QED
  BY <1>1 DEF GapsInv, environment

(* A refresh ends, and leaves what it brought.                             *)
LEMMA EndGap ==
  ASSUME IInv, GapsInv, NEW i \in Ids, NEW s \in ScopeType,
         HeldInv(s, chain, height), End(i, s), UNCHANGED environment
  PROVE  GapsInv' /\ (scopes'[i].records = s.records /\ scopes'[i].covered = s.covered)
<1>1. PICK again \in BOOLEAN, some \in BOOLEAN :
        scopes' = [scopes EXCEPT ![i] =
          IF again
          THEN Begun([s EXCEPT !.refresh = Idle, !.timer = FALSE, !.initialized = some],
                     "hard")
          ELSE [s EXCEPT !.refresh = Idle, !.timer = FALSE, !.initialized = some]]
  <2> DEFINE done(a) == {c \in Calls : /\ calls[c].pc = "waiting" /\ calls[c].scope = i
                                       /\ a => calls[c].mode # "hard"}
             again == /\ ~s.disposed /\ s.refresh.mode = "light"
                      /\ s.pendingHardRefresh /\ HardWaits(i, s)
             some == s.initialized \/ done(again) # {}
  <2>1. again \in BOOLEAN /\ some \in BOOLEAN
    BY DEF ScopeType, HardWaits
  <2>2. scopes' = [scopes EXCEPT ![i] =
          IF again
          THEN Begun([s EXCEPT !.refresh = Idle, !.timer = FALSE, !.initialized = some],
                     "hard")
          ELSE [s EXCEPT !.refresh = Idle, !.timer = FALSE, !.initialized = some]]
    BY DEF End
  <2> HIDE DEF again, some
  <2> QED
    BY <2>1, <2>2, Zenon
<1> DEFINE u == [s EXCEPT !.refresh = Idle, !.timer = FALSE, !.initialized = some]
           t == IF again THEN Begun(u, "hard") ELSE u
<1>2. u \in ScopeType /\ u.key = s.key /\ u.records = s.records
      /\ u.covered = s.covered /\ u.lastHeight = s.lastHeight /\ u.refresh = Idle
  BY IdleFact DEF ScopeType
<1>3. scopes' = [scopes EXCEPT ![i] = t]
  BY <1>1
<1> HIDE DEF u
<1>4. HeldInv(u, chain, height) /\ height \in Nat
  BY <1>2, ConstantsFact DEF HeldInv, IInv, Typed
<1>5. GapInv(u, chain, height) /\ GapInv(Begun(u, "hard"), chain, height)
  BY <1>2, <1>4, IdleRests, RestedGap, BegunGap
<1>6. Begun(u, "hard").records = u.records /\ Begun(u, "hard").covered = u.covered
  BY <1>2 DEF Begun, ScopeType
<1>7. GapInv(t, chain, height) /\ t.records = s.records /\ t.covered = s.covered
  BY <1>2, <1>5, <1>6
<1> HIDE DEF t
<1>8. scopes'[i] = t
  BY <1>3 DEF IInv, Typed
<1> QED
  BY <1>3, <1>7, <1>8, OneGap

(* What NoGap says of a step.                                              *)
GapStep ==
  \A i \in Ids : Fetching(i) /\ Fetch(i) => FoundIsHeld(scopes[i], scopes'[i])

LEMMA FetchGap ==
  ASSUME IInv, GapsInv, NEW i \in Ids, Fetch(i)
  PROVE  GapsInv' /\ FoundIsHeld(scopes[i], scopes'[i])
<1> DEFINE s == scopes[i]
           next == Fetched(s)
           f == [Idle EXCEPT !.stage = "tags", !.mode = s.refresh.mode]
           t == [next EXCEPT !.refresh = f]
<1>1. /\ Live(i) /\ s.refresh.stage = "fetch"
      /\ s.refresh.owned # "open" /\ s.refresh.tip # "open"
      /\ UNCHANGED environment
      /\ \/ End(i, next)
         \/ scopes' = [scopes EXCEPT ![i] = t]
  BY DEF Fetch, Fetching
<1>2. /\ s \in ScopeType /\ SpentInv(s, chain) /\ s.refresh.mode \in Modes
      /\ chain \in ChainType /\ height \in Nat /\ scopes \in [Ids -> ScopeType]
      /\ GapInv(s, chain, height)
  BY <1>1, StepFact, ConstantsFact DEF Live, ModeInv, IInv, Typed, GapsInv
<1>3. HeldInv(next, chain, height) /\ FoundIsHeld(s, next) /\ next \in ScopeType
  BY <1>1, <1>2, FetchedGap, FetchedFact
<1> HIDE DEF next
<1>4. CASE End(i, next)
  BY <1>1, <1>3, <1>4, EndGap DEF FoundIsHeld
<1>5. CASE scopes' = [scopes EXCEPT ![i] = t]
  <2>1. Rested(f) /\ f.start = 0
    BY DEF Rested, Idle
  <2> HIDE DEF f
  <2>2. /\ t.key = next.key /\ t.records = next.records /\ t.covered = next.covered
        /\ t.lastHeight = next.lastHeight /\ t.refresh = f /\ scopes'[i] = t
    BY <1>2, <1>3, <1>5 DEF ScopeType
  <2> HIDE DEF t
  <2>3. GapInv(t, chain, height)
    <3>1. HeldInv(t, chain, height)
      BY <1>3, <2>2 DEF HeldInv
    <3> QED
      BY <1>2, <2>1, <2>2, <3>1, RestedGap
  <2> QED
    BY <1>1, <1>3, <1>5, <2>2, <2>3, OneGap DEF FoundIsHeld
<1> QED
  BY <1>1, <1>4, <1>5

(* An answer about records says of each whether the scanner has it.        *)
LEMMA OwnedAnsweredGap ==
  ASSUME IInv, GapsInv, NEW i \in Ids, OwnedAnswered(i)
  PROVE  GapsInv'
<1> DEFINE s == scopes[i]
           answer == [r \in Records |->
             IF ProgramOf[r] \in s.refresh.programs THEN Owned(s.key[2], r) ELSE "none"]
           f == [s.refresh EXCEPT !.owned = "answered", !.answer = answer]
           t == [s EXCEPT !.refresh = f]
<1>1. /\ s \in ScopeType /\ s.refresh \in RefreshType /\ s.key \in Keys
      /\ chain \in ChainType /\ scopes \in [Ids -> ScopeType]
      /\ GapInv(s, chain, height)
  BY StepFact DEF OwnedAnswered, Fetching, Live, GapsInv
<1>2. ASSUME NEW r \in Records, s.key[2] # "spent"
      PROVE  /\ ProgramOf[r] \in s.refresh.programs /\ answer[r] = "none"
                  => Unlisted(s.key, r, chain)
             /\ answer[r] # "none" => /\ chain[r].stage # "absent"
                                      /\ ~Unlisted(s.key, r, chain)
  <2>1. chain[r].stage \in Stages /\ s.key[2] \in {"all", "unspent"}
    BY <1>1, <1>2 DEF ChainType, Keys
  <2>2. answer[r] = IF ProgramOf[r] \in s.refresh.programs
                    THEN Owned(s.key[2], r) ELSE "none"
    OBVIOUS
  <2> QED
    BY <2>1, <2>2 DEF Owned, Stages, Unlisted, Gone
<1> HIDE DEF answer
<1>3. scopes' = [scopes EXCEPT ![i] = t] /\ UNCHANGED environment
  <2>1. scopes' = [scopes EXCEPT ![i].refresh.owned = "answered",
                                 ![i].refresh.answer = answer]
    BY DEF OwnedAnswered, answer
  <2>2. [scopes EXCEPT ![i].refresh.owned = "answered", ![i].refresh.answer = answer]
        = [scopes EXCEPT ![i] = t]
    BY <1>1 DEF ScopeType, RefreshType
  <2> QED
    BY <2>1, <2>2 DEF OwnedAnswered
<1>4. /\ t.key = s.key /\ t.records = s.records /\ t.covered = s.covered
      /\ t.lastHeight = s.lastHeight /\ t.refresh = f
      /\ f.owned = "answered" /\ f.answer = answer /\ f.tip = s.refresh.tip
      /\ f.programs = s.refresh.programs /\ f.start = s.refresh.start
      /\ f.apart = s.refresh.apart /\ f.latestHeight = s.refresh.latestHeight
  BY <1>1 DEF ScopeType, RefreshType
<1> HIDE DEF t, f
<1>5. HeldInv(t, chain, height)
  BY <1>1, <1>4 DEF GapInv, HeldInv
<1>6. AnswerInv(t, chain, height)
  <2>1. ASSUME NEW r \in Records, s.key[2] # "spent"
        PROVE  /\ /\ f.answer[r] = "none" /\ ProgramOf[r] \in f.programs
                  => LeftOut(t, r, chain, height)
               /\ f.answer[r] # "none" => NotLeftOut(t, r, chain)
    BY <1>2, <1>4, <1>5, <2>1 DEF LeftOut, NotLeftOut, HeldInv
  <2> QED
    BY <1>1, <1>4, <2>1 DEF GapInv, AnswerInv
<1> QED
  BY <1>3, <1>5, <1>6, OneGap DEF GapInv

(* The answer about the height notes one that is close to any record found *)
(* since the answer about records; a failure leaves the height as it was.  *)
LEMMA OtherAnswerGap ==
  ASSUME IInv, GapsInv, NEW i \in Ids,
         OwnedFails(i) \/ HeightAnswered(i) \/ HeightFails(i)
  PROVE  GapsInv'
<1> DEFINE s == scopes[i]
<1>1. /\ s \in ScopeType /\ s.refresh \in RefreshType /\ UNCHANGED environment
      /\ chain \in ChainType /\ scopes \in [Ids -> ScopeType]
      /\ GapInv(s, chain, height) /\ height \in 0..MaxHeight /\ height \in Nat
      /\ s.lastHeight \in Nat
  BY StepFact, ConstantsFact DEF OwnedFails, HeightAnswered, HeightFails, Fetching,
     Live, GapsInv, IInv, Typed, ScopeType
<1>2. PICK f \in RefreshType :
        /\ scopes' = [scopes EXCEPT ![i] = [s EXCEPT !.refresh = f]]
        /\ f.start = s.refresh.start /\ f.programs = s.refresh.programs
        /\ f.answer = s.refresh.answer /\ f.apart = s.refresh.apart
        /\ f.owned = "answered" => s.refresh.owned = "answered"
        /\ f.tip = "open" => s.refresh.tip = "open"
        /\ \/ f.latestHeight = s.refresh.latestHeight
           \/ f.latestHeight = height /\ s.refresh.tip = "open"
  <2>1. CASE OwnedFails(i)
    <3> DEFINE g == [s.refresh EXCEPT !.owned = "failed"]
    <3>1. g \in RefreshType
      BY <1>1 DEF RefreshType, Answers
    <3>2. scopes' = [scopes EXCEPT ![i] = [s EXCEPT !.refresh = g]]
      BY <1>1, <2>1 DEF OwnedFails, ScopeType, RefreshType
    <3> QED
      BY <1>1, <3>1, <3>2 DEF RefreshType
  <2>2. CASE HeightAnswered(i)
    <3> DEFINE g == [s.refresh EXCEPT !.tip = "answered", !.latestHeight = height]
    <3>1. g \in RefreshType /\ s.refresh.tip = "open"
      BY <1>1, <2>2 DEF RefreshType, Answers, HeightAnswered
    <3>2. scopes' = [scopes EXCEPT ![i] = [s EXCEPT !.refresh = g]]
      BY <1>1, <2>2 DEF HeightAnswered, ScopeType, RefreshType
    <3> QED
      BY <1>1, <3>1, <3>2 DEF RefreshType
  <2>3. CASE HeightFails(i)
    <3> DEFINE g == [s.refresh EXCEPT !.tip = "failed"]
    <3>1. g \in RefreshType
      BY <1>1 DEF RefreshType, Answers
    <3>2. scopes' = [scopes EXCEPT ![i] = [s EXCEPT !.refresh = g]]
      BY <1>1, <2>3 DEF HeightFails, ScopeType, RefreshType
    <3> QED
      BY <1>1, <3>1, <3>2 DEF RefreshType
  <2> QED
    BY <2>1, <2>2, <2>3
<1> DEFINE t == [s EXCEPT !.refresh = f]
<1>3. /\ t.key = s.key /\ t.records = s.records /\ t.covered = s.covered
      /\ t.lastHeight = s.lastHeight /\ t.refresh = f
      /\ scopes' = [scopes EXCEPT ![i] = t]
  BY <1>1, <1>2 DEF ScopeType
<1> HIDE DEF t
<1>4. HeldInv(t, chain, height)
  BY <1>1, <1>3 DEF GapInv, HeldInv
<1>5. ASSUME NEW r \in Records, s.key[2] # "spent", f.answer[r] = "none",
             f.owned = "answered", ProgramOf[r] \in f.programs
      PROVE  LeftOut(t, r, chain, height)
  <2>1. LeftOut(s, r, chain, height)
    BY <1>1, <1>2, <1>5 DEF GapInv, AnswerInv
  <2>2. CASE f.latestHeight = s.refresh.latestHeight
    BY <1>2, <1>3, <2>1, <2>2 DEF LeftOut
  <2>3. CASE f.latestHeight = height /\ s.refresh.tip = "open"
    <3>1. chain[r].block \in Nat /\ s.refresh.apart \in Nat
      BY <1>1, ConstantsFact DEF ChainType, RefreshType
    <3>2. s.refresh.apart <= Slack
      BY <1>1 DEF GapInv, AnswerInv
    <3>3. ~Unlisted(s.key, r, chain) => height <= chain[r].block + Lookback
      BY <1>1, <2>1, <2>3, <3>1, <3>2, SyncAssumption DEF LeftOut
    <3> QED
      BY <1>2, <1>3, <2>1, <2>3, <3>3 DEF LeftOut, Within
  <2> QED
    BY <1>2, <2>2, <2>3
<1>6. ASSUME NEW r \in Records, s.key[2] # "spent", f.answer[r] # "none"
      PROVE  NotLeftOut(t, r, chain)
  BY <1>1, <1>2, <1>3, <1>6 DEF GapInv, AnswerInv, NotLeftOut
<1>7. AnswerInv(t, chain, height)
  BY <1>1, <1>2, <1>3, <1>5, <1>6 DEF GapInv, AnswerInv
<1> QED
  BY <1>1, <1>3, <1>4, <1>7, OneGap DEF GapInv

(* The other ends of a refresh.                                            *)
LEMMA EndsGap ==
  ASSUME IInv, GapsInv, NEW i \in Ids,
         TagsAnswered(i) \/ TagsFail(i) \/ RefreshThrows(i) \/ Abandon(i)
  PROVE  GapsInv'
<1> DEFINE s == scopes[i]
<1>1. /\ s \in ScopeType /\ HeldInv(s, chain, height) /\ GapInv(s, chain, height)
      /\ scopes \in [Ids -> ScopeType] /\ height \in Nat
  BY ConstantsFact DEF IInv, Typed, GapsInv, GapInv
<1>2. CASE TagsAnswered(i)
  <2> DEFINE records == [r \in Records |->
               IF s.records[r] = "unspent" /\ chain[r].stage \in {"tagged", "spent"}
               THEN "spent" ELSE s.records[r]]
             ever == s.ever \cup SpentIn(records)
             t == [s EXCEPT !.records = records, !.ever = ever]
  <2>1. End(i, t) /\ UNCHANGED environment
    BY <1>2 DEF TagsAnswered
  <2>2. records \in [Records -> Flags] /\ ever \in SUBSET Records
    BY <1>1 DEF ScopeType, SpentIn, Flags
  <2>3. \A r \in Records : s.records[r] # "none" => records[r] # "none"
    OBVIOUS
  <2> HIDE DEF records, ever
  <2>4. t \in ScopeType /\ t.key = s.key /\ t.records = records
        /\ t.covered = s.covered /\ t.lastHeight = s.lastHeight
    BY <1>1, <2>2 DEF ScopeType
  <2> HIDE DEF t
  <2>5. HeldInv(t, chain, height)
    BY <1>1, <2>3, <2>4 DEF HeldInv
  <2> QED
    BY <2>1, <2>4, <2>5, EndGap
<1>3. CASE TagsFail(i) \/ Abandon(i)
  <2>1. End(i, s) /\ UNCHANGED environment
    BY <1>3 DEF TagsFail, Abandon
  <2> QED
    BY <1>1, <2>1, EndGap
<1>4. CASE RefreshThrows(i)
  <2> DEFINE t == [s EXCEPT !.refresh = Idle, !.timer = FALSE]
  <2>1. scopes' = [scopes EXCEPT ![i] = t] /\ UNCHANGED environment
    <3>1. scopes' = [scopes EXCEPT ![i].refresh = Idle, ![i].timer = FALSE]
      BY <1>4 DEF RefreshThrows
    <3> QED
      BY <1>1, <1>4, <3>1, IdleFact DEF ScopeType, RefreshThrows
  <2>2. t.key = s.key /\ t.records = s.records /\ t.covered = s.covered
        /\ t.lastHeight = s.lastHeight /\ t.refresh = Idle
    BY <1>1 DEF ScopeType
  <2> HIDE DEF t
  <2>3. HeldInv(t, chain, height)
    BY <1>1, <2>2 DEF HeldInv
  <2> QED
    BY <1>1, <2>1, <2>2, <2>3, IdleRests, RestedGap, OneGap
<1> QED
  BY <1>2, <1>3, <1>4

LEMMA TicksGap ==
  ASSUME IInv, GapsInv, NEW i \in Ids, HardTick(i) \/ LightTick(i)
  PROVE  GapsInv'
<1> DEFINE s == scopes[i]
<1>1. /\ s \in ScopeType /\ HeldInv(s, chain, height) /\ GapInv(s, chain, height)
      /\ scopes \in [Ids -> ScopeType] /\ height \in Nat
      /\ SpentInv(s, chain) /\ ModeInv(s) /\ "hard" \in Modes
  BY ConstantsFact DEF IInv, Typed, GapsInv, GapInv, ScopesInv, Modes
<1>2. CASE HardTick(i)
  <2> DEFINE u == Refreshed(s, "hard")
             t == [u EXCEPT !.timer = InFlight(i)]
  <2>1. scopes' = [scopes EXCEPT ![i] = t] /\ UNCHANGED environment
    BY <1>2 DEF HardTick
  <2>2. u \in ScopeType /\ GapInv(u, chain, height)
    BY <1>1, RefreshedFact, RefreshedGap
  <2> HIDE DEF u
  <2>3. t.key = u.key /\ t.records = u.records /\ t.covered = u.covered
        /\ t.lastHeight = u.lastHeight /\ t.refresh = u.refresh
    BY <2>2 DEF ScopeType
  <2> HIDE DEF t
  <2> QED
    BY <2>1, <2>2, <2>3, SameGap, OneGap
<1>3. CASE LightTick(i)
  BY <1>1, <1>3, BegunGap, OneGap DEF LightTick
<1> QED
  BY <1>2, <1>3

(* Scopes lose a consumer, or all of them.                                 *)
LEMMA WithoutGap ==
  ASSUME IInv, GapsInv, NEW u \in Consumers, NEW i \in Ids
  PROVE  GapInv(Without(u)[i], chain, height)
<1> DEFINE s == scopes[i]
           t == [s EXCEPT !.consumers = @ \ {u}]
<1>1. s \in ScopeType /\ GapInv(s, chain, height) /\ height \in Nat
  BY ConstantsFact DEF IInv, Typed, GapsInv
<1>2. t.key = s.key /\ t.records = s.records /\ t.covered = s.covered
      /\ t.lastHeight = s.lastHeight /\ t.refresh = s.refresh
  BY <1>1 DEF ScopeType
<1>3. Without(u)[i] \in {s, t, Disposed(s)}
  BY DEF Without
<1> HIDE DEF t
<1>4. GapInv(t, chain, height)
  BY <1>1, <1>2, SameGap
<1> QED
  BY <1>1, <1>3, <1>4, DisposedGap

LEMMA LeavingGap ==
  ASSUME IInv, GapsInv, Reset \/ \E u \in Consumers : Deactivate(u)
  PROVE  GapsInv'
<1>1. CASE Reset
  <2>1. height \in Nat
    BY ConstantsFact DEF IInv, Typed
  <2>2. ASSUME NEW i \in Ids  PROVE GapInv(scopes'[i], chain, height)
    <3>1. scopes'[i] \in {Disposed(scopes[i]), scopes[i]}
      BY <1>1 DEF Reset
    <3> QED
      BY <2>1, <3>1, DisposedGap DEF GapsInv
  <2> QED
    BY <1>1, <2>2 DEF GapsInv, Reset, environment
<1>2. CASE \E u \in Consumers : Deactivate(u)
  BY <1>2, WithoutGap DEF Deactivate, GapsInv, environment
<1> QED
  BY <1>1, <1>2

LEMMA ViewGap ==
  ASSUME IInv, GapsInv, NEW c \in Calls, NEW u \in Consumers, NEW uuid \in Uuids,
         NEW mode \in {"auto", "light", "hard", "none"}, View(c, u, uuid, mode)
  PROVE  GapsInv'
<1> DEFINE k == <<uuid, FilterOf[u]>>
           w == Left(u, k)
           i == IF viewScopes[k] # 0 THEN viewScopes[k] ELSE created + 1
           found == IF viewScopes[k] # 0 THEN w[i] ELSE Fresh(k)
           joined == [found EXCEPT !.consumers = @ \cup {u}]
           effective == IF mode = "auto" /\ ~found.initialized THEN "hard" ELSE mode
           t == IF effective \in {"light", "hard"} THEN Refreshed(joined, effective)
                ELSE [joined EXCEPT !.initialized = TRUE]
<1>1. i \in Ids /\ scopes' = [w EXCEPT ![i] = t] /\ UNCHANGED environment
  BY DEF View, Left
<1>2. k \in Keys /\ height \in Nat /\ scopes \in [Ids -> ScopeType]
  BY ConstantsFact DEF IInv, Typed
<1> HIDE DEF k
<1>3. w \in [Ids -> ScopeType] /\ \A j \in Ids : GapInv(w[j], chain, height)
  BY <1>2, LeftFact, WithoutGap DEF Left, GapsInv
<1> HIDE DEF w, i
<1>4. found \in ScopeType /\ GapInv(found, chain, height)
  BY <1>1, <1>2, <1>3, FreshFact, FreshGap
<1> HIDE DEF found
<1>5. joined \in ScopeType /\ GapInv(joined, chain, height)
  <2>1. joined \in ScopeType /\ joined.key = found.key
        /\ joined.records = found.records /\ joined.covered = found.covered
        /\ joined.lastHeight = found.lastHeight /\ joined.refresh = found.refresh
    BY <1>4 DEF ScopeType
  <2> HIDE DEF joined
  <2> QED
    BY <1>4, <2>1, SameGap
<1> HIDE DEF joined
<1>6. GapInv(t, chain, height)
  <2> DEFINE v == [joined EXCEPT !.initialized = TRUE]
  <2>1. v.key = joined.key /\ v.records = joined.records
        /\ v.covered = joined.covered /\ v.lastHeight = joined.lastHeight
        /\ v.refresh = joined.refresh
    BY <1>5 DEF ScopeType
  <2>2. t = Refreshed(joined, effective) \/ t = v
    OBVIOUS
  <2> HIDE DEF v, t, effective
  <2>3. GapInv(v, chain, height) /\ GapInv(Refreshed(joined, effective), chain, height)
    BY <1>2, <1>5, <2>1, SameGap, RefreshedGap
  <2> QED
    BY <2>2, <2>3
<1> HIDE DEF t
<1>7. \A j \in Ids : scopes'[j] = t \/ scopes'[j] = w[j]
  BY <1>1, <1>3
<1> QED
  BY <1>1, <1>3, <1>6, <1>7 DEF GapsInv, environment

(* A block puts the chain further from what was answered, but never more   *)
(* than Slack within one refresh.                                          *)
LEMMA MineBlockGap ==
  ASSUME IInv, GapsInv, MineBlock
  PROVE  GapsInv'
<1> SUFFICES ASSUME NEW i \in Ids  PROVE GapInv(scopes'[i], chain, height + 1)
  BY DEF GapsInv, MineBlock
<1> DEFINE s == scopes[i]
           half == s.refresh.owned = "answered" /\ s.refresh.tip = "open"
           f == [s.refresh EXCEPT !.apart = @ + 1]
           t == [s EXCEPT !.refresh = f]
<1>1. /\ s \in ScopeType /\ s.refresh \in RefreshType /\ GapInv(s, chain, height)
      /\ height \in Nat /\ s.lastHeight \in Nat /\ s.refresh.apart \in Nat
      /\ s.refresh.latestHeight \in Nat /\ chain \in ChainType
  BY ConstantsFact DEF IInv, Typed, ScopeType, RefreshType, GapsInv
<1>2. scopes'[i] = IF half THEN t ELSE s
  BY <1>1 DEF MineBlock, ScopeType
<1>3. half => s.refresh.apart < Slack
  BY DEF MineBlock
<1>4. /\ t.key = s.key /\ t.records = s.records /\ t.covered = s.covered
      /\ t.lastHeight = s.lastHeight /\ t.refresh = f
      /\ f.owned = s.refresh.owned /\ f.answer = s.refresh.answer
      /\ f.tip = s.refresh.tip /\ f.programs = s.refresh.programs
      /\ f.start = s.refresh.start /\ f.latestHeight = s.refresh.latestHeight
      /\ f.apart = s.refresh.apart + 1
  BY <1>1 DEF ScopeType, RefreshType
<1> HIDE DEF t, f
<1>5. CASE ~half
  <2>1. ASSUME NEW r \in Records, s.refresh.owned = "answered",
               LeftOut(s, r, chain, height)
        PROVE  LeftOut(s, r, chain, height + 1)
    BY <1>5, <2>1 DEF LeftOut
  <2>2. HeldInv(s, chain, height + 1) /\ AnswerInv(s, chain, height + 1)
    BY <1>1, <2>1 DEF GapInv, HeldInv, AnswerInv
  <2> QED
    BY <1>2, <1>5, <2>2 DEF GapInv
<1>6. CASE half
  <2>1. HeldInv(t, chain, height + 1)
    BY <1>1, <1>4 DEF GapInv, HeldInv
  <2>2. ASSUME NEW r \in Records, LeftOut(s, r, chain, height)
        PROVE  LeftOut(t, r, chain, height + 1)
    <3>1. chain[r].block \in Nat /\ Lag \in Nat
      BY <1>1, ConstantsFact, SyncAssumption DEF ChainType
    <3> QED
      BY <1>1, <1>4, <2>2, <3>1 DEF LeftOut
  <2>3. AnswerInv(t, chain, height + 1)
    <3>1. f.apart <= Slack
      BY <1>1, <1>3, <1>4, <1>6, SyncAssumption
    <3> QED
      BY <1>1, <1>4, <2>2, <3>1 DEF GapInv, AnswerInv, NotLeftOut
  <2> QED
    BY <1>2, <1>6, <2>1, <2>3 DEF GapInv
<1> QED
  BY <1>5, <1>6

(* A record is found soon after it was mined.                              *)
LEMMA AdvanceGap ==
  ASSUME IInv, GapsInv, NEW q \in Records, Advance(q)
  PROVE  GapsInv'
<1> SUFFICES ASSUME NEW i \in Ids  PROVE GapInv(scopes[i], chain', height)
  BY DEF GapsInv, Advance
<1> DEFINE s == scopes[i]
<1>1. /\ s \in ScopeType /\ s.refresh \in RefreshType /\ GapInv(s, chain, height)
      /\ height \in Nat /\ s.lastHeight \in Nat /\ s.refresh.apart \in Nat
      /\ s.refresh.latestHeight \in Nat /\ chain \in ChainType
      /\ s.lastHeight <= height /\ s.refresh.latestHeight <= height
  BY ConstantsFact DEF IInv, Typed, ScopeType, RefreshType, GapsInv, GapInv, HeldInv,
     AnswerInv
<1>2. ASSUME NEW r \in Records
      PROVE  \/ chain'[r] = chain[r]
             \/ /\ chain[r].stage \notin {"absent", "spent"}
                /\ chain'[r].stage # "absent" /\ chain'[r].block = chain[r].block
             \/ /\ chain[r].stage = "absent" /\ chain'[r].stage # "absent"
                /\ chain'[r].block \in Nat /\ height <= chain'[r].block + Lag
  BY <1>1 DEF Advance, ChainType
<1>3. ASSUME NEW r \in Records, NEW n \in Nat, n <= height
      PROVE  /\ Within(r, n, chain) => \/ Within(r, n, chain')
                                       \/ chain[r].stage = "absent"
             /\ Unlisted(s.key, r, chain) => \/ Unlisted(s.key, r, chain')
                                             \/ /\ Within(r, n, chain')
                                                /\ height <= chain'[r].block + Lag
             /\ chain[r].stage = "absent" => \/ Unlisted(s.key, r, chain')
                                             \/ Within(r, n, chain')
  <2>1. Lag \in Nat /\ Slack \in Nat /\ Lookback \in Nat /\ Lag <= Lookback
    BY SyncAssumption
  <2> QED
    BY <1>1, <1>2, <1>3, <2>1 DEF Within, Unlisted, Gone
<1>4. HeldInv(s, chain', height)
  BY <1>1, <1>3 DEF GapInv, HeldInv
<1>5. ASSUME NEW r \in Records, LeftOut(s, r, chain, height)
      PROVE  LeftOut(s, r, chain', height)
  <2>1. CASE Unlisted(s.key, r, chain')
    BY <2>1 DEF LeftOut
  <2>2. CASE ~Unlisted(s.key, r, chain') /\ Unlisted(s.key, r, chain)
    <3>1. /\ Within(r, s.lastHeight, chain') /\ Within(r, s.refresh.latestHeight, chain')
          /\ height <= chain'[r].block + Lag
      BY <1>1, <1>3, <2>2
    <3>2. chain'[r].block \in Nat /\ Lag \in Nat
      BY <1>1, <1>2, ConstantsFact, SyncAssumption DEF ChainType
    <3> QED
      BY <1>1, <3>1, <3>2 DEF LeftOut
  <2>3. CASE ~Unlisted(s.key, r, chain') /\ ~Unlisted(s.key, r, chain)
    <3>1. chain'[r].block = chain[r].block
      BY <1>2, <2>3 DEF Unlisted
    <3> QED
      BY <1>5, <2>3, <3>1 DEF LeftOut, Within
  <2> QED
    BY <2>1, <2>2, <2>3
<1>6. ASSUME NEW r \in Records, NotLeftOut(s, r, chain)
      PROVE  NotLeftOut(s, r, chain')
  BY <1>2, <1>6 DEF NotLeftOut, Within
<1>7. AnswerInv(s, chain', height)
  BY <1>1, <1>5, <1>6 DEF GapInv, AnswerInv
<1> QED
  BY <1>4, <1>7 DEF GapInv

LEMMA InitGaps == Init => GapsInv
  BY FreshGap DEF Init, GapsInv

(* Every step keeps both parts of the invariant; a step of Fetch is one    *)
(* that NoGap allows.                                                      *)
LEMMA InductiveGaps == IInv /\ GapsInv /\ [Next]_vars => GapsInv' /\ GapStep
<1> SUFFICES ASSUME IInv, GapsInv, [Next]_vars
             PROVE  GapsInv' /\ GapStep
  OBVIOUS
<1>1. GapStep
  BY FetchGap DEF GapStep
<1>2. GapsInv'
  <2>1. CASE MineBlock
    BY <2>1, MineBlockGap
  <2>2. CASE \E r \in Records : Advance(r)
    BY <2>2, AdvanceGap
  <2>3. CASE \E c \in Calls, u \in Consumers, uuid \in Uuids,
               mode \in {"auto", "light", "hard", "none"} : View(c, u, uuid, mode)
    BY <2>3, ViewGap
  <2>4. CASE Reset \/ \E u \in Consumers : Deactivate(u)
    BY <2>4, LeavingGap
  <2>5. CASE \E i \in Ids : HardTick(i) \/ LightTick(i)
    BY <2>5, TicksGap
  <2>6. CASE \E i \in Ids : Step(i)
    BY <2>6, OwnedAnsweredGap, OtherAnswerGap, FetchGap, EndsGap DEF Step
  <2>7. CASE UNCHANGED vars
    BY <2>7 DEF vars, environment, GapsInv
  <2> QED
    BY <2>1, <2>2, <2>3, <2>4, <2>5, <2>6, <2>7 DEF Next
<1> QED
  BY <1>1, <1>2

(* Light refreshes leave no gap: what the scanner had for a scope that     *)
(* lists unspent records, when it was last asked, the scope holds, though  *)
(* it asked only for what lies Lookback before the height of its last      *)
(* answers, and any of them may have failed or come late.                  *)
THEOREM NothingIsMissed == Spec => NoGap
<1>1. IInv /\ GapsInv /\ [Next]_vars => GapsInv' /\ GapStep
  BY InductiveGaps
<1>2. GapStep => [\A i \in Ids :
         /\ Fetching(i) /\ Fetch(i) /\ scopes[i].refresh.owned = "answered"
         /\ scopes[i].key[2] # "spent"
         => \A r \in Records :
              scopes[i].refresh.answer[r] # "none" =>
                \/ scopes'[i].records[r] # "none"
                \/ ProgramOf[r] \notin scopes'[i].covered]_vars
  BY DEF GapStep, FoundIsHeld
<1> QED
  BY <1>1, <1>2, InitGaps, Invariant, PTL DEF Spec, NoGap
=============================================================================
