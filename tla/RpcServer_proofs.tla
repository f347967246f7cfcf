-------------------------- MODULE RpcServer_proofs ---------------------------
(***************************************************************************)
(* Proofs about RpcServer, for any nodes, lists and calls: types, the      *)
(* preference, and which nodes a call asks and what it reports.            *)
(***************************************************************************)
EXTENDS RpcServer, SequenceTheorems, TLAPS

(* A call that runs began in this session; one that began is not new.      *)
SessionInv ==
  \A c \in Calls :
    /\ status[c] = "running" => c \in session
    /\ c \in session => status[c] # "new"

(* The preference carries the number of the newest call that won.          *)
PrefInv ==
  \A l \in Lists :
    /\ preferences[l].url = None => Won(l) = {}
    /\ preferences[l].url # None =>
         \E c \in Won(l) :
           /\ preferences[l] = [url |-> Node(c, offset[c]), seq |-> sequence[c]]
           /\ \A d \in Won(l) : sequence[d] <= sequence[c]

(* The nodes asked are those of offsets 0 up to the current one.           *)
AskedBy(c) ==
  /\ status[c] = "new" => asked[c] = <<>> /\ offset[c] = 0 /\ refused[c] = {}
  /\ Len(asked[c]) <= Len(list[c])
  /\ \A i \in 1..Len(asked[c]) : asked[c][i] = Node(c, i - 1)
  /\ status[c] = "running" => Len(asked[c]) = offset[c] + 1
  /\ status[c] = "failed" /\ refused[c] = {} => Len(asked[c]) = Len(list[c])

AskedInv == \A c \in Calls : AskedBy(c)

(* Node n is the first of the nodes call c asked that refused it.          *)
FirstRefusal(c, n) ==
  \E i \in 1..Len(asked[c]) :
    /\ asked[c][i] = n
    /\ n \in refused[c]
    /\ \A j \in 1..(i - 1) : asked[c][j] \notin refused[c]

(* What the call will report is known while it runs.                       *)
RefusedBy(c) ==
  /\ refused[c] # {} => FirstRefusal(c, providerError[c])
  /\ refused[c] = {} => providerError[c] = None
  /\ c \in Once /\ status[c] = "running" => refused[c] = {}
  /\ c \in Once /\ refused[c] # {} =>
       /\ status[c] \in {"failed", "lost"}
       /\ refused[c] = {asked[c][Len(asked[c])]}

RefusedInv == \A c \in Calls : RefusedBy(c)

IInv == TypeOK /\ SessionInv /\ PrefInv /\ AskedInv /\ RefusedInv

-----------------------------------------------------------------------------
(* Lists and their rotations                                               *)

(* A remainder of a number below twice the divisor.                        *)
LEMMA SmallRemainder ==
  ASSUME NEW n \in Nat \ {0}, NEW a \in Nat, a < n + n
  PROVE  a % n = IF a < n THEN a ELSE a - n
  OBVIOUS

(* A node of a list is found by its index.                                 *)
LEMMA IndexOfInList ==
  ASSUME NEW l \in Lists, NEW k \in 1..Len(l)
  PROVE  /\ IndexOf(l, l[k]) \in Nat
         /\ IndexOf(l, l[k]) < Len(l)
         /\ l[IndexOf(l, l[k]) + 1] = l[k]
<1>1. l \in Seq(Nodes) /\ Len(l) \in Nat
  BY RpcAssumption
<1>2. k - 1 \in 0..(Len(l) - 1) /\ l[(k - 1) + 1] = l[k]
  BY <1>1
<1>3. IndexOf(l, l[k]) \in 0..(Len(l) - 1) /\ l[IndexOf(l, l[k]) + 1] = l[k]
  BY <1>2 DEF IndexOf
<1>. QED  BY <1>1, <1>3

(* Every offset leads to a node of the call's list.                        *)
LEMMA NodeInList ==
  ASSUME TypeOK, NEW c \in Calls, NEW o \in Nat
  PROVE  /\ Node(c, o) \in Nodes
         /\ \E k \in 1..Len(list[c]) : Node(c, o) = list[c][k]
<1>1. list[c] \in Lists /\ list[c] \in Seq(Nodes) /\ list[c] # <<>>
  BY RpcAssumption DEF TypeOK
<1>2. Len(list[c]) \in Nat /\ Len(list[c]) > 0
  BY <1>1, EmptySeq
<1>3. (firstIndex[c] + o) % Len(list[c]) \in 0..(Len(list[c]) - 1)
  BY <1>2 DEF TypeOK
<1>4. ((firstIndex[c] + o) % Len(list[c])) + 1 \in 1..Len(list[c])
  BY <1>2, <1>3
<1>. QED  BY <1>1, <1>4 DEF Node

(* Different offsets lead to different nodes.                              *)
LEMMA NodeDistinct ==
  ASSUME TypeOK, NEW c \in Calls, NEW i \in Nat, NEW j \in Nat,
         i < Len(list[c]), j < Len(list[c]), Node(c, i) = Node(c, j)
  PROVE  i = j
<1> DEFINE n == Len(list[c])
           f == firstIndex[c]
<1>1. /\ list[c] \in Lists /\ list[c] \in Seq(Nodes)
      /\ n \in Nat \ {0} /\ f \in Nat /\ f < n /\ i < n /\ j < n
  BY RpcAssumption, EmptySeq DEF TypeOK
<1>2. \A a, b \in 1..n : list[c][a] = list[c][b] => a = b
  BY <1>1, RpcAssumption
<1> HIDE DEF n, f
<1>3. ASSUME NEW k \in Nat, k < n
      PROVE  (f + k) % n = IF f + k < n THEN f + k ELSE f + k - n
  <2>1. PICK a \in Nat : a = f + k /\ a < n + n
    BY <1>1, <1>3
  <2>2. n \in Nat \ {0}
    BY <1>1
  <2>3. a % n = IF a < n THEN a ELSE a - n
    BY <2>1, <2>2, SmallRemainder
  <2>. QED  BY <1>1, <2>1, <2>3
<1>4. /\ ((f + i) % n) + 1 \in 1..n /\ ((f + j) % n) + 1 \in 1..n
  BY <1>1, <1>3
<1>5. list[c][((f + i) % n) + 1] = list[c][((f + j) % n) + 1]
  BY DEF Node, n, f
<1>6. ((f + i) % n) + 1 = ((f + j) % n) + 1
  BY <1>2, <1>4, <1>5
<1>. QED  BY <1>1, <1>3, <1>6

-----------------------------------------------------------------------------
(* Types                                                                   *)

(* A preferred node belongs to the list that prefers it.                   *)
LEMMA PreferredInList ==
  ASSUME TypeOK, PrefInv, NEW l \in Lists, preferences[l].url # None
  PROVE  \E k \in 1..Len(l) : preferences[l].url = l[k]
<1>1. PICK c \in Won(l) :
        preferences[l] = [url |-> Node(c, offset[c]), seq |-> sequence[c]]
  BY DEF PrefInv
<1>2. c \in Calls /\ list[c] = l /\ offset[c] \in Nat
  BY DEF Won, TypeOK
<1>3. PICK k \in 1..Len(list[c]) : Node(c, offset[c]) = list[c][k]
  BY <1>2, NodeInList
<1>. QED  BY <1>1, <1>2, <1>3

(* A call begins at a node of its list.                                    *)
LEMMA FirstInList ==
  ASSUME TypeOK, PrefInv, NEW l \in Lists
  PROVE  /\ CurrentRpcIndex(l) \in Nat
         /\ CurrentRpcIndex(l) < Len(l)
<1>1. Len(l) \in Nat /\ Len(l) > 0
  BY RpcAssumption, EmptySeq
<1>2. CASE preferences[l].url = None
  BY <1>1, <1>2 DEF CurrentRpcIndex
<1>3. CASE preferences[l].url # None
  <2>1. PICK k \in 1..Len(l) : preferences[l].url = l[k]
    BY <1>3, PreferredInList
  <2>2. IndexOf(l, l[k]) \in Nat /\ IndexOf(l, l[k]) < Len(l)
    BY IndexOfInList
  <2>. QED  BY <1>3, <2>1, <2>2 DEF CurrentRpcIndex
<1>. QED  BY <1>2, <1>3

(* What asking the next node does to the types.                            *)
LEMMA AdvanceTypes ==
  ASSUME TypeOK, NEW c \in Calls, status[c] = "running", Advance(c)
  PROVE  /\ offset' \in [Calls -> Nat]
         /\ status' \in [Calls -> {"new", "running", "ok", "failed", "lost"}]
         /\ asked' \in [Calls -> Seq(Nodes)]
         /\ \A d \in Calls : status'[d] = "running" => offset'[d] < Len(list[d])
<1>1. offset[c] + 1 \in Nat /\ Node(c, offset[c] + 1) \in Nodes
  BY NodeInList DEF TypeOK
<1>2. asked[c] \in Seq(Nodes) /\ Append(asked[c], Node(c, offset[c] + 1)) \in Seq(Nodes)
  BY <1>1, AppendProperties DEF TypeOK
<1>3. Len(list[c]) \in Nat
  BY RpcAssumption DEF TypeOK
<1>. QED  BY <1>1, <1>2, <1>3 DEF Advance, TypeOK

(* Every step keeps the types.                                             *)
LEMMA TypeStep ==
  ASSUME TypeOK, PrefInv, AskedInv, [Next]_vars
  PROVE  TypeOK'
<1>1. ASSUME NEW c \in Calls, Begin(c)
      PROVE  TypeOK'
  <2>1. /\ list[c] \in Lists /\ list[c] \in Seq(Nodes) /\ Len(list[c]) \in Nat
        /\ CurrentRpcIndex(list[c]) \in Nat
        /\ CurrentRpcIndex(list[c]) < Len(list[c])
    BY FirstInList, RpcAssumption DEF TypeOK
  <2>2. list[c][CurrentRpcIndex(list[c]) + 1] \in Nodes
    BY <2>1
  <2>3. asked' \in [Calls -> Seq(Nodes)]
    BY <1>1, <2>2 DEF Begin, TypeOK
  <2>4. offset[c] < Len(list[c])
    BY <1>1, <2>1, EmptySeq, RpcAssumption DEF Begin, AskedInv, AskedBy
  <2>. QED  BY <1>1, <2>1, <2>3, <2>4 DEF Begin, TypeOK
<1>2. ASSUME NEW c \in Calls, Succeed(c)
      PROVE  TypeOK'
  <2>1. Node(c, offset[c]) \in Nodes
    BY NodeInList DEF TypeOK
  <2>2. preferences' \in [Lists -> [url : Nodes \cup {None}, seq : Nat]]
    BY <1>2, <2>1 DEF Succeed, TypeOK
  <2>. QED  BY <1>2, <2>2 DEF Succeed, TypeOK, progress
<1>3. ASSUME NEW c \in Calls, NodeFails(c)
      PROVE  TypeOK'
  <2>1. status[c] = "running" /\ Advance(c)
    BY <1>3 DEF NodeFails
  <2>. QED  BY <1>3, <2>1, AdvanceTypes DEF NodeFails, TypeOK, shared, progress
<1>4. ASSUME NEW c \in Calls, NodeRefuses(c)
      PROVE  TypeOK'
  <2>1. Node(c, offset[c]) \in Nodes /\ status[c] = "running"
    BY <1>4, NodeInList DEF TypeOK, NodeRefuses
  <2>2. /\ refused' \in [Calls -> SUBSET Nodes]
        /\ providerError' \in [Calls -> Nodes \cup {None}]
    BY <1>4, <2>1 DEF NodeRefuses, TypeOK
  <2>3. /\ offset' \in [Calls -> Nat]
        /\ status' \in [Calls -> {"new", "running", "ok", "failed", "lost"}]
        /\ asked' \in [Calls -> Seq(Nodes)]
        /\ \A d \in Calls : status'[d] = "running" => offset'[d] < Len(list[d])
    <3>1. CASE c \in Once
      BY <1>4, <2>1, <3>1 DEF NodeRefuses, TypeOK
    <3>2. CASE c \notin Once
      BY <1>4, <2>1, <3>2, AdvanceTypes DEF NodeRefuses
    <3>. QED  BY <3>1, <3>2
  <2>. QED  BY <1>4, <2>2, <2>3 DEF NodeRefuses, TypeOK, shared, progress
<1>5. ASSUME Restart
      PROVE  TypeOK'
  BY <1>5, RpcAssumption DEF Restart, TypeOK, progress, NoPreference
<1>6. CASE UNCHANGED vars
  BY <1>6 DEF vars, shared, progress, TypeOK
<1>. QED  BY <1>1, <1>2, <1>3, <1>4, <1>5, <1>6 DEF Next

-----------------------------------------------------------------------------
(* Sessions and the preference                                             *)

(* Every step keeps SessionInv.                                            *)
LEMMA SessionStep ==
  ASSUME TypeOK, SessionInv, [Next]_vars
  PROVE  SessionInv'
<1>1. ASSUME NEW c \in Calls, Begin(c) \/ Succeed(c)
      PROVE  SessionInv'
  BY <1>1 DEF Begin, Succeed, SessionInv, TypeOK
<1>2. ASSUME NEW c \in Calls, NodeFails(c) \/ NodeRefuses(c)
      PROVE  SessionInv'
  BY <1>2 DEF NodeFails, NodeRefuses, Advance, SessionInv, TypeOK
<1>3. CASE Restart
  BY <1>3 DEF Restart, SessionInv, TypeOK
<1>4. CASE UNCHANGED vars
  BY <1>4 DEF vars, SessionInv
<1>. QED  BY <1>1, <1>2, <1>3, <1>4 DEF Next

(* A step that leaves the preferences, the winners and what they asked     *)
(* alone keeps PrefInv.                                                    *)
LEMMA PrefFrame ==
  ASSUME PrefInv, UNCHANGED preferences,
         \A l \in Lists : Won(l)' = Won(l),
         \A l \in Lists : \A c \in Won(l) :
           /\ Node(c, offset[c])' = Node(c, offset[c])
           /\ sequence'[c] = sequence[c]
  PROVE  PrefInv'
<1> SUFFICES ASSUME NEW l \in Lists
             PROVE  /\ preferences[l].url = None => Won(l) = {}
                    /\ preferences[l].url # None =>
                         \E c \in Won(l) :
                           /\ preferences[l] = [url |-> Node(c, offset[c])',
                                                seq |-> sequence'[c]]
                           /\ \A d \in Won(l) : sequence'[d] <= sequence'[c]
  BY DEF PrefInv
<1>. QED  BY DEF PrefInv

(* The newest result so far becomes the preference, an older one does not. *)
LEMMA SucceedPref ==
  ASSUME TypeOK, SessionInv, PrefInv, NEW c \in Calls, Succeed(c)
  PROVE  PrefInv'
<1> DEFINE url == Node(c, offset[c])
<1>0. PICK l \in Lists : l = list[c]
  BY DEF TypeOK
<1>1. /\ status[c] = "running" /\ c \in session
      /\ url \in Nodes /\ url # None /\ sequence \in [Calls -> Nat]
  BY NodeInList, RpcAssumption DEF Succeed, SessionInv, TypeOK
<1>2. \A d \in Calls : Node(d, offset[d])' = Node(d, offset[d])
  BY DEF Succeed, progress, Node
<1>3. UNCHANGED sequence
  BY DEF Succeed, progress
<1>4. Won(l)' = Won(l) \cup {c}
  BY <1>0, <1>1 DEF Succeed, progress, Won, TypeOK
<1>5. \A k \in Lists \ {l} : Won(k)' = Won(k) /\ preferences'[k] = preferences[k]
  BY <1>0, <1>1 DEF Succeed, progress, Won, TypeOK
<1>6. \A k \in Lists : Won(k) \subseteq Calls
  BY DEF Won, TypeOK
<1> SUFFICES ASSUME NEW k \in Lists
             PROVE  /\ preferences'[k].url = None => Won(k)' = {}
                    /\ preferences'[k].url # None =>
                         \E d \in Won(k)' :
                           /\ preferences'[k] = [url |-> Node(d, offset[d]),
                                                 seq |-> sequence[d]]
                           /\ \A e \in Won(k)' : sequence[e] <= sequence[d]
  <2>1. \A k \in Lists : \A d \in Won(k)' : d \in Calls
    BY DEF Won, Succeed, TypeOK
  <2>. QED  BY <1>2, <1>3, <2>1 DEF PrefInv
<1>7. CASE k # l
  BY <1>5, <1>7 DEF PrefInv
<1>8. CASE k = l /\ preferences[l].url = None
  <2>1. preferences'[l] = [url |-> url, seq |-> sequence[c]]
    BY <1>0, <1>1, <1>8 DEF Succeed, TypeOK
  <2>2. Won(l)' = {c}
    BY <1>1, <1>4, <1>8 DEF PrefInv
  <2>. QED  BY <1>1, <1>8, <2>1, <2>2
<1>9. CASE k = l /\ preferences[l].url # None
  <2>1. PICK d \in Won(l) :
          /\ preferences[l] = [url |-> Node(d, offset[d]), seq |-> sequence[d]]
          /\ \A e \in Won(l) : sequence[e] <= sequence[d]
    BY <1>1, <1>9 DEF PrefInv
  <2>2. /\ preferences[l].seq = sequence[d] /\ d \in Calls
        /\ \A e \in Won(l) : sequence[e] \in Nat
    BY <1>1, <1>6, <2>1
  <2>3. CASE sequence[c] >= sequence[d]
    <3>1. preferences'[l] = [url |-> url, seq |-> sequence[c]]
      BY <1>0, <1>1, <2>2, <2>3 DEF Succeed, TypeOK
    <3>2. \A e \in Won(l)' : sequence[e] <= sequence[c]
      BY <1>1, <1>4, <2>1, <2>2, <2>3
    <3>. QED  BY <1>1, <1>4, <1>9, <3>1, <3>2
  <2>4. CASE ~(sequence[c] >= sequence[d])
    <3>1. preferences'[l] = preferences[l]
      BY <1>0, <1>1, <1>9, <2>2, <2>4 DEF Succeed, TypeOK
    <3>2. \A e \in Won(l)' : sequence[e] <= sequence[d]
      BY <1>1, <1>4, <2>1, <2>2, <2>4
    <3>. QED  BY <1>4, <1>9, <2>1, <3>1, <3>2
  <2>. QED  BY <2>3, <2>4
<1>. QED  BY <1>7, <1>8, <1>9

(* Every step keeps PrefInv.                                               *)
LEMMA PrefStep ==
  ASSUME TypeOK, SessionInv, PrefInv, [Next]_vars
  PROVE  PrefInv'
<1>0. \A l \in Lists : \A c \in Won(l) :
        c \in Calls /\ c \in session /\ status[c] = "ok"
  BY DEF Won, TypeOK
<1>1. ASSUME NEW c \in Calls, Begin(c)
      PROVE  PrefInv'
  <2>1. status[c] = "new" /\ c \notin session
    BY <1>1 DEF Begin, SessionInv
  <2>2. \A l \in Lists : Won(l)' = Won(l)
    BY <1>1, <2>1 DEF Begin, Won, TypeOK
  <2>3. \A l \in Lists : \A d \in Won(l) :
          /\ Node(d, offset[d])' = Node(d, offset[d])
          /\ sequence'[d] = sequence[d]
    BY <1>0, <1>1, <2>1 DEF Begin, Node, TypeOK
  <2>. QED  BY <1>1, <2>2, <2>3, PrefFrame DEF Begin
<1>2. ASSUME NEW c \in Calls, Succeed(c)
      PROVE  PrefInv'
  BY <1>2, SucceedPref
<1>3. ASSUME NEW c \in Calls, NodeFails(c) \/ NodeRefuses(c)
      PROVE  PrefInv'
  <2>1. /\ status[c] = "running"
        /\ status'[c] \in {"running", "failed"}
        /\ \A d \in Calls \ {c} : status'[d] = status[d] /\ offset'[d] = offset[d]
        /\ UNCHANGED <<preferences, list, sequence, firstIndex, session>>
    BY <1>3 DEF NodeFails, NodeRefuses, Advance, TypeOK, shared, progress
  <2>2. \A l \in Lists : Won(l)' = Won(l)
    BY <2>1 DEF Won, TypeOK
  <2>3. \A l \in Lists : \A d \in Won(l) :
          /\ Node(d, offset[d])' = Node(d, offset[d])
          /\ sequence'[d] = sequence[d]
    BY <1>0, <2>1 DEF Node
  <2>. QED  BY <2>1, <2>2, <2>3, PrefFrame
<1>4. CASE Restart
  BY <1>4 DEF Restart, PrefInv, Won, NoPreference
<1>5. CASE UNCHANGED vars
  BY <1>5, PrefFrame DEF vars, shared, progress, Won, Node
<1>. QED  BY <1>1, <1>2, <1>3, <1>4, <1>5 DEF Next

-----------------------------------------------------------------------------
(* The nodes a call asks                                                   *)

(* The next node asked is the one at the next offset; a call that ends     *)
(* this way has asked them all.                                            *)
LEMMA AdvanceAsked ==
  ASSUME TypeOK, AskedInv, NEW c \in Calls, status[c] = "running", Advance(c)
  PROVE  /\ status'[c] \in {"running", "failed"}
         /\ Len(asked'[c]) \in 1..Len(list[c])
         /\ Len(asked[c]) \in 1..Len(asked'[c])
         /\ \A i \in 1..Len(asked'[c]) : asked'[c][i] = Node(c, i - 1)
         /\ \A i \in 1..Len(asked[c]) : asked'[c][i] = asked[c][i]
         /\ status'[c] = "running" => Len(asked'[c]) = offset'[c] + 1
         /\ status'[c] = "failed" => Len(asked'[c]) = Len(list[c])
         /\ \A d \in Calls \ {c} : /\ status'[d] = status[d]
                                   /\ offset'[d] = offset[d]
                                   /\ asked'[d] = asked[d]
<1> DEFINE next == offset[c] + 1
<1>1. /\ asked[c] \in Seq(Nodes) /\ offset[c] \in Nat /\ Len(list[c]) \in Nat
      /\ Len(asked[c]) = next /\ next <= Len(list[c]) /\ Node(c, next) \in Nodes
  BY NodeInList, RpcAssumption DEF TypeOK, AskedInv, AskedBy
<1>2. \A i \in 1..Len(asked[c]) : asked[c][i] = Node(c, i - 1)
  BY DEF AskedInv, AskedBy
<1>3. \A d \in Calls \ {c} : /\ status'[d] = status[d]
                             /\ offset'[d] = offset[d]
                             /\ asked'[d] = asked[d]
  BY DEF Advance, TypeOK
<1>4. CASE next < Len(list[c])
  <2>1. /\ asked'[c] = Append(asked[c], Node(c, next))
        /\ status'[c] = "running" /\ offset'[c] = next
    BY <1>4 DEF Advance, TypeOK
  <2>2. /\ Len(asked'[c]) = next + 1
        /\ \A i \in 1..Len(asked[c]) : asked'[c][i] = asked[c][i]
        /\ asked'[c][next + 1] = Node(c, next)
    BY <1>1, <2>1, AppendProperties
  <2>3. \A i \in 1..Len(asked'[c]) : asked'[c][i] = Node(c, i - 1)
    BY <1>1, <1>2, <2>2
  <2>. QED  BY <1>1, <1>3, <1>4, <2>1, <2>2, <2>3
<1>5. CASE ~(next < Len(list[c]))
  <2>1. status'[c] = "failed" /\ UNCHANGED asked
    BY <1>5 DEF Advance, TypeOK
  <2>2. Len(asked[c]) = Len(list[c])
    BY <1>1, <1>5
  <2>. QED  BY <1>1, <1>2, <1>3, <2>1, <2>2
<1>. QED  BY <1>4, <1>5

(* A step that leaves a call alone, or ends it, keeps what it asked.       *)
LEMMA AskedFrame ==
  ASSUME NEW d \in Calls, AskedBy(d), UNCHANGED list,
         firstIndex'[d] = firstIndex[d], asked'[d] = asked[d],
         offset'[d] = offset[d], refused'[d] = refused[d],
         status'[d] \in {status[d], "ok", "lost"}
  PROVE  AskedBy(d)'
<1>1. ASSUME NEW i \in 1..Len(asked[d])
      PROVE  asked'[d][i] = Node(d, i - 1)'
  BY DEF AskedBy, Node
<1>. QED  BY <1>1 DEF AskedBy

(* The step to the next node keeps it too.                                 *)
LEMMA AdvanceKeepsAsked ==
  ASSUME TypeOK, AskedInv, NEW c \in Calls, status[c] = "running", Advance(c),
         UNCHANGED <<list, firstIndex>>,
         \A d \in Calls \ {c} : refused'[d] = refused[d]
  PROVE  AskedInv'
<1>1. ASSUME NEW d \in Calls \ {c}
      PROVE  AskedBy(d)'
  BY <1>1, AdvanceAsked, AskedFrame DEF AskedInv
<1>2. \A i \in 1..Len(asked'[c]) : asked'[c][i] = Node(c, i - 1)'
  BY AdvanceAsked DEF Node
<1>3. Len(list[c]) \in Nat
  BY RpcAssumption DEF TypeOK
<1>4. AskedBy(c)'
  BY <1>2, <1>3, AdvanceAsked DEF AskedBy
<1>. QED  BY <1>1, <1>4 DEF AskedInv

(* Every step keeps AskedInv.                                              *)
LEMMA AskedStep ==
  ASSUME TypeOK, PrefInv, AskedInv, [Next]_vars
  PROVE  AskedInv'
<1>1. ASSUME NEW c \in Calls, Begin(c)
      PROVE  AskedInv'
  <2> DEFINE first == CurrentRpcIndex(list[c])
  <2>1. /\ list[c] \in Lists /\ Len(list[c]) \in Nat /\ list[c] \in Seq(Nodes)
        /\ first \in Nat /\ first < Len(list[c])
    BY FirstInList, RpcAssumption DEF TypeOK
  <2>2. /\ UNCHANGED <<list, offset, refused>> /\ status[c] = "new"
        /\ status'[c] = "running" /\ firstIndex'[c] = first
        /\ asked'[c] = <<list[c][first + 1]>>
        /\ \A d \in Calls \ {c} : /\ status'[d] = status[d]
                                  /\ firstIndex'[d] = firstIndex[d]
                                  /\ asked'[d] = asked[d]
    BY <1>1 DEF Begin, TypeOK
  <2>3. (first + 0) % Len(list[c]) = first
    BY <2>1, SmallRemainder
  <2>4. Node(c, 0)' = list[c][first + 1]
    BY <2>2, <2>3 DEF Node
  <2>5. Len(asked'[c]) = 1 /\ asked'[c][1] = Node(c, 0)' /\ offset[c] = 0
    BY <2>2, <2>4 DEF AskedInv, AskedBy
  <2>6. \A i \in 1..Len(asked'[c]) : asked'[c][i] = Node(c, i - 1)'
    BY <2>5
  <2>7. AskedBy(c)'
    BY <2>1, <2>2, <2>5, <2>6 DEF AskedBy
  <2>8. ASSUME NEW d \in Calls \ {c}
        PROVE  AskedBy(d)'
    BY <2>2, AskedFrame DEF AskedInv
  <2>. QED  BY <2>7, <2>8 DEF AskedInv
<1>2. ASSUME NEW c \in Calls, Succeed(c)
      PROVE  AskedInv'
  BY <1>2, AskedFrame DEF Succeed, progress, AskedInv, TypeOK
<1>3. ASSUME NEW c \in Calls, NodeFails(c)
      PROVE  AskedInv'
  BY <1>3, AdvanceKeepsAsked DEF NodeFails, progress
<1>4. ASSUME NEW c \in Calls, NodeRefuses(c)
      PROVE  AskedInv'
  <2>1. /\ status[c] = "running" /\ UNCHANGED <<list, firstIndex>>
        /\ refused'[c] # {}
        /\ \A d \in Calls \ {c} : refused'[d] = refused[d]
    BY <1>4 DEF NodeRefuses, progress, TypeOK
  <2>2. CASE c \in Once
    <3>1. /\ UNCHANGED <<offset, asked>> /\ status'[c] = "failed"
          /\ \A d \in Calls \ {c} : status'[d] = status[d]
      BY <1>4, <2>2 DEF NodeRefuses, TypeOK
    <3>2. \A d \in Calls \ {c} : AskedBy(d)'
      BY <2>1, <3>1, AskedFrame DEF AskedInv
    <3>3. AskedBy(c)'
      BY <2>1, <3>1 DEF AskedInv, AskedBy, Node
    <3>. QED  BY <3>2, <3>3 DEF AskedInv
  <2>3. CASE c \notin Once
    BY <1>4, <2>1, <2>3, AdvanceKeepsAsked DEF NodeRefuses
  <2>. QED  BY <2>2, <2>3
<1>5. CASE Restart
  BY <1>5, AskedFrame DEF Restart, progress, AskedInv
<1>6. CASE UNCHANGED vars
  BY <1>6, AskedFrame DEF vars, progress, AskedInv
<1>. QED  BY <1>1, <1>2, <1>3, <1>4, <1>5, <1>6 DEF Next

-----------------------------------------------------------------------------
(* The nodes that refuse a call                                            *)

(* A step that leaves a call alone, or ends it, keeps what it will report. *)
LEMMA RefusedFrame ==
  ASSUME NEW d \in Calls, RefusedBy(d), asked'[d] = asked[d],
         refused'[d] = refused[d], providerError'[d] = providerError[d],
         \/ status'[d] = status[d]
         \/ status[d] = "running" /\ status'[d] \in {"ok", "lost"}
  PROVE  RefusedBy(d)'
  BY DEF RefusedBy, FirstRefusal

(* The nodes a call asked are distinct.                                    *)
LEMMA AskedDistinct ==
  ASSUME TypeOK, AskedInv, NEW c \in Calls,
         NEW i \in 1..Len(asked[c]), NEW j \in 1..Len(asked[c]),
         asked[c][i] = asked[c][j]
  PROVE  i = j
<1>1. /\ Len(asked[c]) \in Nat /\ Len(list[c]) \in Nat
      /\ Len(asked[c]) <= Len(list[c])
      /\ asked[c][i] = Node(c, i - 1) /\ asked[c][j] = Node(c, j - 1)
  BY RpcAssumption DEF TypeOK, AskedInv, AskedBy
<1>2. /\ i - 1 \in Nat /\ j - 1 \in Nat
      /\ i - 1 < Len(list[c]) /\ j - 1 < Len(list[c])
  BY <1>1
<1>3. i - 1 = j - 1
  BY <1>1, <1>2, NodeDistinct
<1>. QED  BY <1>3

(* A node that fails is one more node asked.                               *)
LEMMA FailsKeepsRefused ==
  ASSUME TypeOK, AskedInv, RefusedInv, NEW c \in Calls, NodeFails(c)
  PROVE  RefusedInv'
<1>1. /\ status[c] = "running" /\ Advance(c)
      /\ UNCHANGED <<refused, providerError>>
  BY DEF NodeFails
<1>2. \A d \in Calls \ {c} : RefusedBy(d)'
  BY <1>1, AdvanceAsked, RefusedFrame DEF RefusedInv
<1>3. /\ Len(asked[c]) \in Nat /\ Len(asked'[c]) \in Nat
      /\ Len(asked[c]) <= Len(asked'[c])
      /\ \A i \in 1..Len(asked[c]) : asked'[c][i] = asked[c][i]
  BY <1>1, AdvanceAsked, RpcAssumption DEF TypeOK
<1>4. ASSUME refused[c] # {}
      PROVE  FirstRefusal(c, providerError[c])'
  <2>1. PICK i \in 1..Len(asked[c]) :
          /\ asked[c][i] = providerError[c]
          /\ providerError[c] \in refused[c]
          /\ \A j \in 1..(i - 1) : asked[c][j] \notin refused[c]
    BY <1>4 DEF RefusedInv, RefusedBy, FirstRefusal
  <2>2. i \in 1..Len(asked'[c]) /\ asked'[c][i] = providerError[c]
    BY <1>3, <2>1
  <2>3. \A j \in 1..(i - 1) : asked'[c][j] \notin refused[c]
    BY <1>3, <2>1
  <2>. QED  BY <1>1, <2>1, <2>2, <2>3 DEF FirstRefusal
<1>5. RefusedBy(c)'
  BY <1>1, <1>4 DEF RefusedInv, RefusedBy
<1>. QED  BY <1>2, <1>5 DEF RefusedInv

(* A node that refuses is the last one asked, and the first that refused   *)
(* if no other has.                                                        *)
LEMMA RefusesKeepsRefused ==
  ASSUME TypeOK, AskedInv, RefusedInv, NEW c \in Calls, NodeRefuses(c)
  PROVE  RefusedInv'
<1> DEFINE n == Node(c, offset[c])
           k == Len(asked[c])
<1>1. /\ status[c] = "running" /\ k \in Nat /\ offset[c] \in Nat
      /\ k = offset[c] + 1 /\ asked[c][k] = n /\ n # None
      /\ RefusedBy(c) /\ k \in 1..k
  <2>1. /\ status[c] = "running" /\ k \in Nat /\ offset[c] \in Nat
        /\ k = offset[c] + 1 /\ RefusedBy(c) /\ n # None
    BY NodeInList, RpcAssumption
    DEF NodeRefuses, TypeOK, AskedInv, AskedBy, RefusedInv
  <2>2. k \in 1..k /\ k - 1 = offset[c]
    BY <2>1
  <2>. QED  BY <2>1, <2>2 DEF AskedInv, AskedBy
<1>2. /\ refused'[c] = refused[c] \cup {n}
      /\ providerError'[c] = IF providerError[c] = None THEN n
                             ELSE providerError[c]
      /\ \A d \in Calls \ {c} : /\ refused'[d] = refused[d]
                                /\ providerError'[d] = providerError[d]
  BY DEF NodeRefuses, TypeOK
<1>3. /\ Len(asked'[c]) \in Nat /\ k <= Len(asked'[c])
      /\ \A i \in 1..k : asked'[c][i] = asked[c][i]
      /\ c \in Once => status'[c] = "failed" /\ asked'[c] = asked[c]
      /\ \A d \in Calls \ {c} : /\ status'[d] = status[d]
                                /\ asked'[d] = asked[d]
  <2>1. CASE c \in Once
    BY <1>1, <2>1 DEF NodeRefuses, TypeOK
  <2>2. CASE c \notin Once
    BY <1>1, <2>2, AdvanceAsked, RpcAssumption DEF NodeRefuses, TypeOK
  <2>. QED  BY <2>1, <2>2
<1>4. \A d \in Calls \ {c} : RefusedBy(d)'
  BY <1>2, <1>3, RefusedFrame DEF RefusedInv
<1>5. \A j \in 1..k : j # k => asked[c][j] # n
  BY <1>1, AskedDistinct
<1>6. FirstRefusal(c, providerError[c])'
  <2>1. CASE refused[c] = {}
    <3>1. providerError'[c] = n /\ refused'[c] = {n}
      BY <1>1, <1>2, <2>1 DEF RefusedBy
    <3>2. k \in 1..Len(asked'[c]) /\ asked'[c][k] = n
      BY <1>1, <1>3
    <3>3. \A j \in 1..(k - 1) : j \in 1..k /\ j # k
      BY <1>1
    <3>4. \A j \in 1..(k - 1) : asked'[c][j] \notin {n}
      BY <1>3, <1>5, <3>3
    <3>. QED  BY <3>1, <3>2, <3>4 DEF FirstRefusal
  <2>2. CASE refused[c] # {}
    <3>1. PICK i \in 1..k :
            /\ asked[c][i] = providerError[c]
            /\ providerError[c] \in refused[c]
            /\ \A j \in 1..(i - 1) : asked[c][j] \notin refused[c]
      BY <1>1, <2>2 DEF RefusedBy, FirstRefusal
    <3>2. providerError'[c] = providerError[c]
      BY <1>2, <3>1, RpcAssumption DEF TypeOK
    <3>3. i \in 1..Len(asked'[c]) /\ asked'[c][i] = providerError[c]
      BY <1>1, <1>3, <3>1
    <3>4. \A j \in 1..(i - 1) : j \in 1..k /\ j # k
      BY <1>1, <3>1
    <3>5. \A j \in 1..(i - 1) : asked'[c][j] \notin refused[c] \cup {n}
      BY <1>3, <1>5, <3>1, <3>4
    <3>. QED  BY <1>2, <3>1, <3>2, <3>3, <3>5 DEF FirstRefusal
  <2>. QED  BY <2>1, <2>2
<1>7. ASSUME c \in Once
      PROVE  /\ status'[c] = "failed"
             /\ refused'[c] = {asked'[c][Len(asked'[c])]}
  <2>1. refused[c] = {}
    BY <1>1, <1>7 DEF RefusedBy
  <2>. QED  BY <1>1, <1>2, <1>3, <1>7, <2>1
<1>8. RefusedBy(c)'
  BY <1>2, <1>6, <1>7 DEF RefusedBy
<1>. QED  BY <1>4, <1>8 DEF RefusedInv

(* Every step keeps RefusedInv.                                            *)
LEMMA RefusedStep ==
  ASSUME TypeOK, AskedInv, RefusedInv, [Next]_vars
  PROVE  RefusedInv'
<1>1. ASSUME NEW c \in Calls, Begin(c)
      PROVE  RefusedInv'
  <2>1. /\ status[c] = "new" /\ refused[c] = {} /\ providerError[c] = None
        /\ UNCHANGED <<refused, providerError>>
        /\ \A d \in Calls \ {c} : /\ status'[d] = status[d]
                                  /\ asked'[d] = asked[d]
    BY <1>1 DEF Begin, AskedInv, AskedBy, RefusedInv, RefusedBy, TypeOK
  <2>2. \A d \in Calls \ {c} : RefusedBy(d)'
    BY <2>1, RefusedFrame DEF RefusedInv
  <2>3. RefusedBy(c)'
    BY <2>1 DEF RefusedBy
  <2>. QED  BY <2>2, <2>3 DEF RefusedInv
<1>2. ASSUME NEW c \in Calls, Succeed(c)
      PROVE  RefusedInv'
  BY <1>2, RefusedFrame DEF Succeed, RefusedInv, TypeOK
<1>3. CASE Restart
  BY <1>3, RefusedFrame DEF Restart, RefusedInv
<1>4. CASE UNCHANGED vars
  BY <1>4, RefusedFrame DEF vars, RefusedInv
<1>. QED  BY <1>1, <1>2, <1>3, <1>4, FailsKeepsRefused, RefusesKeepsRefused
     DEF Next

-----------------------------------------------------------------------------
(* The theorems                                                            *)

(* The initial states satisfy the invariant.                               *)
LEMMA InitInv == Init => IInv
<1> SUFFICES ASSUME Init PROVE IInv
  OBVIOUS
<1>1. \A l \in Lists : l \in Seq(Nodes) /\ Len(l) \in Nat /\ Len(l) > 0
  BY RpcAssumption, EmptySeq
<1>2. TypeOK
  BY <1>1, RpcAssumption DEF Init, TypeOK, NoPreference
<1>3. SessionInv /\ PrefInv
  BY DEF Init, SessionInv, PrefInv, Won, NoPreference
<1>4. AskedInv
  BY <1>1 DEF Init, AskedInv, AskedBy
<1>5. RefusedInv
  BY DEF Init, RefusedInv, RefusedBy
<1>. QED  BY <1>2, <1>3, <1>4, <1>5 DEF IInv

(* IInv is an inductive invariant.                                         *)
THEOREM Invariance == Spec => []IInv
<1>1. IInv /\ [Next]_vars => IInv'
  BY TypeStep, SessionStep, PrefStep, AskedStep, RefusedStep DEF IInv
<1>. QED  BY <1>1, InitInv, PTL DEF Spec

(* Every variable of every instance stays within its type.                 *)
THEOREM TypeCorrect == Spec => []TypeOK
<1>1. IInv => TypeOK
  BY DEF IInv
<1>. QED  BY <1>1, Invariance, PTL

(* For any number of concurrent calls, nodes and lists, the preferred node *)
(* of a list is the one that answered its newest call with a result.       *)
THEOREM NewestWinsHolds == Spec => []NewestWins
<1>1. ASSUME IInv PROVE NewestWins
  <2> SUFFICES ASSUME NEW l \in Lists, preferences[l].url # None
               PROVE  \E c \in Won(l) :
                        /\ preferences[l].url = Node(c, offset[c])
                        /\ \A d \in Won(l) : sequence[d] <= sequence[c]
    BY <1>1 DEF IInv, PrefInv, NewestWins
  <2>1. PICK c \in Won(l) :
          /\ preferences[l] = [url |-> Node(c, offset[c]), seq |-> sequence[c]]
          /\ \A d \in Won(l) : sequence[d] <= sequence[c]
    BY <1>1 DEF IInv, PrefInv
  <2>. QED  BY <2>1
<1>. QED  BY <1>1, Invariance, PTL

(* No call asks a node twice, however the preference moves meanwhile.      *)
THEOREM EachNodeOnceHolds == Spec => []EachNodeOnce
<1>1. ASSUME IInv PROVE EachNodeOnce
  BY <1>1, AskedDistinct DEF IInv, AskedInv, AskedBy, EachNodeOnce
<1>. QED  BY <1>1, Invariance, PTL

(* A failed call reports its first refusal; a refused transaction is sent  *)
(* to no other node.                                                       *)
THEOREM RefusalDecidesHolds == Spec => []RefusalDecides
<1>1. ASSUME IInv PROVE RefusalDecides
  BY <1>1 DEF IInv, RefusedInv, RefusedBy, FirstRefusal, RefusalDecides
<1>. QED  BY <1>1, Invariance, PTL

=============================================================================
