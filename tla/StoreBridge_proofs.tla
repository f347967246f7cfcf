-------------------------- MODULE StoreBridge_proofs --------------------------
(***************************************************************************)
(* Proofs about StoreBridge, for any pages and updates and any bounds: the *)
(* store implements the durable log, no page sees the default state, and   *)
(* pages read their own writes and do not go back.                         *)
(*                                                                         *)
(* The invariant says that what is saved, what is being written and the    *)
(* state are prefixes of one another, in that order; that a served update  *)
(* is in the state, or in the write it waits for; that a result on its way *)
(* to a page is of a saved update; and that the updates a port has yet to  *)
(* deliver come after those of the port that were applied. A second part,  *)
(* SeenInv, relates what the pages show, and are sent, to the store. That  *)
(* pages are told of every state needs the first part only.                *)
(***************************************************************************)
EXTENDS StoreBridge, SequenceTheorems, FiniteSetTheorems, TLAPS

States == Seq(Updates \cup {Old})
Holds(s, u) == \E i \in 1..Len(s) : s[i] = u
Prefix(s, t) == Len(s) <= Len(t) /\ \A i \in 1..Len(s) : t[i] = s[i]
Before(s, v, u) == \E i, j \in 1..Len(s) : i < j /\ s[i] = v /\ s[j] = u
Hides(s) == s # <<>> /\ s[1] = Old

Content == IF phase = "ready" THEN state ELSE saved

Messages == [type : {"state", "result", "error"}, update : Updates \cup {None},
             state : States \cup {None}]

(* What the pages may be sent while sv is saved.                           *)
Good(sv) == {m \in Messages :
  /\ m.update # None /\ m.type # "error" => Holds(sv, m.update)
  /\ m.state # None => Hides(m.state)}

StoreTyped ==
  /\ phase \in {"restoring", "ready", "failed"}
  /\ state \in States /\ saved \in States /\ issued \in States
  /\ writes \in Seq(States) /\ writeError \in BOOLEAN

ServerTyped ==
  /\ open \subseteq Ports /\ primed \subseteq Ports
  /\ inbox \in [Ports -> Seq(Updates)]
  /\ serving \in [Ports -> [update : Updates, need : Int] \cup {None}]

PageTyped ==
  /\ gen \in [Pages -> 0..MaxConnections] /\ connected \in [Pages -> BOOLEAN]
  /\ \A p \in Pages : connected[p] => gen[p] # 0
  /\ mirror \in [Pages -> States \cup {None}]
  /\ outcome \in [Updates -> {"new", "pending", "resolved", "rejected"}]
  /\ sentOn \in [Updates -> Ports \cup {None}]
  /\ sent \in Seq(Updates)

WritesInv ==
  /\ Hides(saved)
  /\ phase # "ready" => writes = <<>>
  /\ phase = "ready" =>
       /\ Prefix(saved, state)
       /\ \A i \in 1..Len(writes) :
            Prefix(saved, writes[i]) /\ Prefix(writes[i], state)
       /\ \A i, j \in 1..Len(writes) : i <= j => Prefix(writes[i], writes[j])
       /\ writes = <<>> => writeError \/ issued = saved
       /\ writes # <<>> => issued = writes[Len(writes)]

ServedInv == \A q \in Ports : serving[q] # None =>
  /\ phase = "ready"
  /\ serving[q].need = -1 => Holds(state, serving[q].update)
  /\ serving[q].need # -1 =>
       /\ serving[q].need \in 1..Len(writes)
       /\ Holds(writes[serving[q].need], serving[q].update)

MessagesInv ==
  /\ outbox \in [Pages -> Seq(Good(saved))]
  /\ DefaultIsHidden

(* An update that a port has yet to deliver.                               *)
Awaited(q, u) ==
  /\ sentOn[u] = q /\ Holds(sent, u) /\ outcome[u] # "new"
  /\ ~Holds(Content, u)
  /\ \A v \in Updates : Holds(Content, v) /\ sentOn[v] = q => Before(sent, v, u)

OrderInv ==
  /\ \A u \in Updates : Holds(Content, u) => Holds(sent, u) /\ outcome[u] # "new"
  /\ \A q \in Ports : \A i \in 1..Len(inbox[q]) : Awaited(q, inbox[q][i])
  /\ \A q \in Ports : \A i, j \in 1..Len(inbox[q]) : i < j =>
       inbox[q][i] # inbox[q][j] /\ Before(sent, inbox[q][i], inbox[q][j])

IInv ==
  /\ StoreTyped /\ ServerTyped /\ PageTyped
  /\ WritesInv /\ ServedInv /\ MessagesInv /\ OrderInv

-----------------------------------------------------------------------------
(* Prefixes                                                                *)

LEMMA PrefixFacts ==
  ASSUME NEW S, NEW s \in Seq(S), NEW t \in Seq(S)
  PROVE  /\ Prefix(s, s)
         /\ Prefix(s, t) => \A u : Holds(s, u) => Holds(t, u)
         /\ Prefix(s, t) => SubSeq(t, 1, Len(s)) = s /\ Len(s) \in 0..Len(t)
<1>1. Prefix(s, s)
  BY DEF Prefix
<1>2. ASSUME Prefix(s, t), NEW u, Holds(s, u)
      PROVE  Holds(t, u)
  BY <1>2 DEF Prefix, Holds
<1>3. ASSUME Prefix(s, t)
      PROVE  SubSeq(t, 1, Len(s)) = s /\ Len(s) \in 0..Len(t)
  <2>1. Len(s) \in 0..Len(t) /\ Len(s) \in Nat
    BY <1>3 DEF Prefix
  <2>2. \A i \in 1..Len(s) : t[i] \in S
    BY <2>1
  <2>3. /\ SubSeq(t, 1, Len(s)) \in Seq(S) /\ Len(SubSeq(t, 1, Len(s))) = Len(s)
        /\ \A i \in 1..Len(s) : SubSeq(t, 1, Len(s))[i] = t[i]
    BY <2>1, <2>2, SubSeqProperties
  <2> QED
    BY <1>3, <2>1, <2>3, SeqEqual DEF Prefix
<1> QED
  BY <1>1, <1>2, <1>3

LEMMA PrefixTrans ==
  ASSUME NEW S, NEW r \in Seq(S), NEW s \in Seq(S), NEW t \in Seq(S),
         Prefix(r, s), Prefix(s, t)
  PROVE  Prefix(r, t)
  BY DEF Prefix

LEMMA PrefixAppend ==
  ASSUME NEW S, NEW s \in Seq(S), NEW x \in S
  PROVE  /\ Append(s, x) \in Seq(S) /\ Prefix(s, Append(s, x))
         /\ \A u : Holds(Append(s, x), u) <=> Holds(s, u) \/ u = x
<1>1. /\ Append(s, x) \in Seq(S) /\ Len(Append(s, x)) = Len(s) + 1 /\ Len(s) \in Nat
      /\ \A i \in 1..Len(s) : Append(s, x)[i] = s[i]
      /\ Append(s, x)[Len(s) + 1] = x
  BY AppendProperties
<1>2. Prefix(s, Append(s, x))
  BY <1>1 DEF Prefix
<1>3. ASSUME NEW u
      PROVE  Holds(Append(s, x), u) <=> Holds(s, u) \/ u = x
  BY <1>1 DEF Holds
<1> QED
  BY <1>1, <1>2, <1>3

LEMMA PrefixHides ==
  ASSUME NEW s \in States, NEW t \in States, Prefix(s, t), Hides(s)
  PROVE  Hides(t)
<1>1. Len(s) \in Nat \ {0} /\ Len(t) >= Len(s) /\ 1 \in 1..Len(s) /\ Len(t) \in Nat
  BY EmptySeq DEF States, Prefix, Hides
<1> QED
  BY <1>1 DEF States, Prefix, Hides

LEMMA GoodGrows ==
  ASSUME NEW s \in States, NEW t \in States, Prefix(s, t)
  PROVE  Good(s) \subseteq Good(t)
  BY PrefixFacts DEF States, Good

LEMMA StateMessageGood ==
  ASSUME NEW s \in States, NEW sv \in States, Hides(s)
  PROVE  <<StateMessage(s)>> \in Seq(Good(sv))
<1>1. StateMessage(s) \in Good(sv)
  BY DEF StateMessage, Good, Messages
<1> QED
  BY <1>1

LEMMA ErrorGood ==
  ASSUME NEW u \in Updates, NEW sv \in States
  PROVE  <<Error(u)>> \in Seq(Good(sv))
<1>1. Error(u) \in Good(sv)
  BY DEF Error, Good, Messages
<1> QED
  BY <1>1

LEMMA ResultGood ==
  ASSUME NEW u \in Updates, NEW s \in States, NEW sv \in States, Hides(s), Holds(sv, u)
  PROVE  <<Result(u, s)>> \in Seq(Good(sv))
<1>1. Result(u, s) \in Good(sv)
  BY DEF Result, Good, Messages
<1> QED
  BY <1>1

(* What is posted is received by some pages.                               *)
LEMMA PostFact ==
  ASSUME NEW G, outbox \in [Pages -> Seq(G)], NEW messages,
         \A q \in DOMAIN messages : messages[q] \in Seq(G),
         Post(messages)
  PROVE  outbox' \in [Pages -> Seq(G)]
  BY ConcatProperties DEF Post

-----------------------------------------------------------------------------
(* The invariant holds initially.                                          *)

LEMMA InitIInv == Init => IInv
<1> SUFFICES ASSUME Init PROVE IInv
  OBVIOUS
<1>1. /\ <<Old>> \in States /\ <<>> \in States /\ Len(<<Old>>) = 1 /\ <<Old>>[1] = Old
      /\ <<>> \in Seq(States) /\ <<>> \in Seq(Updates) /\ <<Old>> # <<>>
  BY DEF States
<1>2. StoreTyped
  BY <1>1 DEF Init, StoreTyped
<1>3. ServerTyped
  BY <1>1 DEF Init, ServerTyped
<1>4. PageTyped
  BY <1>1, BridgeAssumption DEF Init, PageTyped
<1>5. WritesInv /\ ServedInv
  BY <1>1 DEF Init, WritesInv, ServedInv, Hides
<1>6. MessagesInv
  BY <1>1 DEF Init, MessagesInv, DefaultIsHidden
<1>7. OrderInv
  <2>1. Content = <<Old>>
    BY DEF Init, Content
  <2>2. \A u \in Updates : ~Holds(Content, u)
    BY <1>1, <2>1, BridgeAssumption DEF Holds
  <2>3. \A q \in Ports : Len(inbox[q]) = 0
    BY <1>1 DEF Init
  <2> QED
    BY <2>2, <2>3 DEF OrderInv
<1> QED
  BY <1>2, <1>3, <1>4, <1>5, <1>6, <1>7 DEF IInv

-----------------------------------------------------------------------------
(* What steps that do not disturb a part of the invariant have in common.  *)

(* Nothing is applied, and a port's messages are delivered or lost.        *)
LEMMA OrderKept ==
  ASSUME IInv, UNCHANGED <<sentOn, sent>>,
         \A u \in Updates : outcome[u] # "new" => outcome'[u] # "new",
         \A u \in Updates : Holds(Content', u) => Holds(Content, u),
         \A q \in Ports : \/ inbox'[q] = inbox[q]
                          \/ inbox'[q] = <<>>
                          \/ inbox[q] # <<>> /\ inbox'[q] = Tail(inbox[q])
  PROVE  OrderInv'
<1>1. ASSUME NEW u \in Updates, Holds(Content', u)
      PROVE  Holds(sent, u) /\ outcome'[u] # "new"
  BY <1>1 DEF IInv, OrderInv
<1>2. ASSUME NEW q \in Ports, NEW i \in 1..Len(inbox'[q])
      PROVE  /\ \E k \in 1..Len(inbox[q]) :
                  /\ inbox'[q][i] = inbox[q][k]
                  /\ \A j \in 1..Len(inbox'[q]) : i < j =>
                       \E l \in 1..Len(inbox[q]) : k < l /\ inbox'[q][j] = inbox[q][l]
  <2>1. inbox[q] \in Seq(Updates)
    BY DEF IInv, ServerTyped
  <2>2. CASE inbox'[q] = inbox[q]
    BY <1>2, <2>2
  <2>3. CASE inbox'[q] = <<>>
    BY <1>2, <2>3
  <2>4. CASE inbox[q] # <<>> /\ inbox'[q] = Tail(inbox[q])
    <3>1. /\ Len(inbox[q]) \in Nat /\ Len(inbox'[q]) = Len(inbox[q]) - 1
          /\ \A j \in 1..Len(inbox'[q]) : inbox'[q][j] = inbox[q][j + 1]
      BY <2>1, <2>4, HeadTailProperties
    <3>2. \A j \in 1..Len(inbox'[q]) : j + 1 \in 1..Len(inbox[q])
      BY <3>1
    <3> QED
      BY <1>2, <3>1, <3>2
  <2> QED
    BY <2>2, <2>3, <2>4
<1>4. \A q \in Ports : inbox[q] \in Seq(Updates)
  BY DEF IInv, ServerTyped
<1>5. ASSUME NEW q \in Ports, NEW i \in 1..Len(inbox'[q])
      PROVE  Awaited(q, inbox[q][i])'
  <2>1. PICK k \in 1..Len(inbox[q]) : inbox'[q][i] = inbox[q][k]
    BY <1>2, <1>5
  <2> DEFINE u == inbox[q][k]
  <2>2. u \in Updates /\ Awaited(q, u)
    BY <1>4 DEF IInv, OrderInv
  <2>3. /\ sentOn'[u] = q /\ Holds(sent', u) /\ outcome'[u] # "new"
        /\ ~Holds(Content', u)
        /\ \A v \in Updates : Holds(Content', v) /\ sentOn'[v] = q => Before(sent', v, u)
    BY <2>2 DEF Awaited
  <2> HIDE DEF u
  <2>4. inbox'[q][i] = u
    BY <2>1 DEF u
  <2> QED
    BY <2>3, <2>4 DEF Awaited
<1>6. ASSUME NEW q \in Ports, NEW i \in 1..Len(inbox'[q]), NEW j \in 1..Len(inbox'[q]), i < j
      PROVE  inbox'[q][i] # inbox'[q][j] /\ Before(sent', inbox'[q][i], inbox'[q][j])
  <2>1. PICK k \in 1..Len(inbox[q]) :
          /\ inbox'[q][i] = inbox[q][k]
          /\ \E l \in 1..Len(inbox[q]) : k < l /\ inbox'[q][j] = inbox[q][l]
    BY <1>2, <1>6
  <2>2. PICK l \in 1..Len(inbox[q]) : k < l /\ inbox'[q][j] = inbox[q][l]
    BY <2>1
  <2>3. inbox[q][k] # inbox[q][l] /\ Before(sent, inbox[q][k], inbox[q][l])
    BY <2>2 DEF IInv, OrderInv
  <2> QED
    BY <2>1, <2>2, <2>3
<1> QED
  BY <1>1, <1>5, <1>6 DEF OrderInv

(* The store is as it was.                                                 *)
LEMMA StoreKept ==
  ASSUME IInv, UNCHANGED <<store, serving>>
  PROVE  StoreTyped' /\ WritesInv' /\ ServedInv' /\ Content' = Content
  BY DEF IInv, store, StoreTyped, WritesInv, ServedInv, Content

LEMMA GenBound ==
  ASSUME PageTyped, NEW p \in Pages, Cardinality(Opened) < MaxConnections
  PROVE  gen[p] + 1 \in 1..MaxConnections /\ <<p, gen[p] + 1>> \in Ports
<1>0. gen[p] \in 0..MaxConnections /\ MaxConnections \in Nat /\ gen[p] \in Nat
  BY BridgeAssumption DEF PageTyped
<1>1. IsFiniteSet(Ports)
  <2>1. IsFiniteSet(Pages) /\ IsFiniteSet(1..MaxConnections)
    BY <1>0, BridgeAssumption, FS_Interval
  <2> QED
    BY <2>1, FS_Product DEF Ports
<1>2. IsFiniteSet(Opened)
  BY <1>1, FS_Subset DEF Opened
<1>3. [i \in 1..gen[p] |-> <<p, i>>] \in Injection(1..gen[p], Opened)
  BY <1>0 DEF Injection, IsInjective, Opened, Ports
<1>4. Cardinality(1..gen[p]) <= Cardinality(Opened) /\ Cardinality(Opened) \in Nat
  BY <1>2, <1>3, FS_Injection, FS_CardinalityType
<1>5. Cardinality(1..gen[p]) = gen[p]
  BY <1>0, FS_Interval
<1> QED
  BY <1>0, <1>4, <1>5 DEF Ports

(* The port of a page that is connected.                                   *)
LEMMA PortFact ==
  ASSUME PageTyped, NEW p \in Pages, connected[p]
  PROVE  PortOf(p) \in Ports /\ PortOf(p) # None
  BY BridgeAssumption DEF PageTyped, PortOf, Ports

-----------------------------------------------------------------------------
(* The steps of the pages                                                  *)

LEMMA ConnectKeeps ==
  ASSUME IInv, NEW p \in Pages, Connect(p)
  PROVE  IInv'
<1> USE DEF Connect
<1>1. StoreTyped' /\ WritesInv' /\ ServedInv' /\ Content' = Content
  BY StoreKept DEF store
<1>2. ServerTyped' /\ PageTyped'
  <2>1. gen[p] + 1 \in 1..MaxConnections /\ <<p, gen[p] + 1>> \in Ports
    BY GenBound DEF IInv
  <2>2. ServerTyped'
    BY <2>1 DEF IInv, ServerTyped
  <2>3. /\ gen' \in [Pages -> 0..MaxConnections] /\ connected' \in [Pages -> BOOLEAN]
        /\ gen'[p] # 0 /\ \A r \in Pages : r # p => gen'[r] = gen[r] /\ connected'[r] = connected[r]
    BY <2>1, BridgeAssumption DEF IInv, PageTyped
  <2> QED
    BY <2>2, <2>3 DEF IInv, PageTyped, history
<1>3. MessagesInv'
  <2>1. (phase = "ready" => Hides(state)) /\ state \in States /\ saved \in States
    BY PrefixHides DEF IInv, WritesInv, StoreTyped
  <2>2. <<>> \in Seq(Good(saved))
    OBVIOUS
  <2>3. phase = "ready" => <<StateMessage(state)>> \in Seq(Good(saved))
    BY <2>1, StateMessageGood
  <2> QED
    BY <2>2, <2>3 DEF IInv, MessagesInv, DefaultIsHidden, store
<1>4. OrderInv'
  BY <1>1, OrderKept DEF history
<1> QED
  BY <1>1, <1>2, <1>3, <1>4 DEF IInv

(* A new update is put behind those of its port.                           *)
LEMMA DispatchKeeps ==
  ASSUME IInv, NEW p \in Pages, NEW u \in Updates, Dispatch(p, u)
  PROVE  IInv'
<1> USE DEF Dispatch
<1> DEFINE c == PortOf(p)
<1>1. StoreTyped' /\ WritesInv' /\ ServedInv' /\ Content' = Content
  BY StoreKept DEF store
<1>2. c \in Ports
  BY PortFact DEF IInv
<1> HIDE DEF c
<1>3. /\ inbox' \in [Ports -> Seq(Updates)]
      /\ \A q \in Ports : q # c => inbox'[q] = inbox[q]
      /\ inbox'[c] = inbox[c] \/ inbox'[c] = Append(inbox[c], u)
  BY <1>2 DEF IInv, ServerTyped, c
<1>4. /\ sent' = Append(sent, u)
      /\ sentOn' = [sentOn EXCEPT ![u] = c]
      /\ outcome' = [outcome EXCEPT ![u] = "pending"]
  BY DEF c
<1>5. ServerTyped'
  BY <1>3 DEF IInv, ServerTyped
<1>6. PageTyped'
  BY <1>2, <1>4 DEF IInv, PageTyped, page
<1>7. MessagesInv'
  BY DEF IInv, MessagesInv, DefaultIsHidden, page, store
<1>8. OrderInv'
  <2>1. /\ outcome[u] = "new" /\ u \in Updates /\ sent \in Seq(Updates)
        /\ \A q \in Ports : inbox[q] \in Seq(Updates)
    BY DEF IInv, PageTyped, ServerTyped
  <2>2. /\ outcome'[u] = "pending" /\ sentOn'[u] = c
        /\ \A v \in Updates : v # u => outcome'[v] = outcome[v] /\ sentOn'[v] = sentOn[v]
    BY <1>4 DEF IInv, PageTyped
  <2>3. /\ Len(sent') = Len(sent) + 1 /\ Len(sent) \in Nat
        /\ \A i \in 1..Len(sent) : sent'[i] = sent[i]
        /\ sent'[Len(sent) + 1] = u
    BY <1>4, <2>1, AppendProperties
  <2>4. /\ \A v : Holds(sent, v) => Holds(sent', v) /\ Before(sent', v, u)
        /\ \A v, w : Before(sent, v, w) => Before(sent', v, w)
        /\ Holds(sent', u)
    BY <2>3 DEF Holds, Before
  <2>5. ~Holds(Content, u) /\ \A q \in Ports : ~Holds(inbox[q], u)
    BY <2>1 DEF IInv, OrderInv, Holds, Awaited
  <2>6. \A v \in Updates : Holds(Content, v) => Holds(sent', v) /\ outcome'[v] # "new"
    BY <2>2, <2>4, <2>5 DEF IInv, OrderInv
  <2> DEFINE Waits(q, v) ==
        /\ sentOn'[v] = q /\ Holds(sent', v) /\ outcome'[v] # "new"
        /\ ~Holds(Content, v)
        /\ \A w \in Updates : Holds(Content, w) /\ sentOn'[w] = q => Before(sent', w, v)
  <2>7. ASSUME NEW q \in Ports, NEW v \in Updates, v # u, Awaited(q, v)
        PROVE  Waits(q, v)
    BY <2>2, <2>4, <2>5, <2>7 DEF Awaited
  <2>8. Waits(c, u)
    BY <2>2, <2>4, <2>5 DEF IInv, OrderInv
  <2> HIDE DEF Waits, Dispatch
  <2>9. ASSUME NEW q \in Ports
        PROVE  /\ \A i \in 1..Len(inbox'[q]) : Waits(q, inbox'[q][i])
               /\ \A i, j \in 1..Len(inbox'[q]) : i < j =>
                    inbox'[q][i] # inbox'[q][j] /\ Before(sent', inbox'[q][i], inbox'[q][j])
    <3>1. /\ inbox[q] \in Seq(Updates)
          /\ \A i \in 1..Len(inbox[q]) :
               /\ inbox[q][i] \in Updates /\ inbox[q][i] # u
               /\ Awaited(q, inbox[q][i]) /\ Holds(sent, inbox[q][i])
          /\ \A i, j \in 1..Len(inbox[q]) : i < j =>
               inbox[q][i] # inbox[q][j] /\ Before(sent, inbox[q][i], inbox[q][j])
      <4>1. inbox[q] \in Seq(Updates) /\ \A i \in 1..Len(inbox[q]) : inbox[q][i] # u
        BY <2>1, <2>5 DEF Holds
      <4>2. \A i \in 1..Len(inbox[q]) :
              inbox[q][i] \in Updates /\ Awaited(q, inbox[q][i])
        BY <4>1 DEF IInv, OrderInv
      <4>3. \A i, j \in 1..Len(inbox[q]) : i < j =>
               inbox[q][i] # inbox[q][j] /\ Before(sent, inbox[q][i], inbox[q][j])
        BY DEF IInv, OrderInv
      <4>4. \A i \in 1..Len(inbox[q]) : Holds(sent, inbox[q][i])
        BY <4>2 DEF Awaited
      <4> QED
        BY <4>1, <4>2, <4>3, <4>4
    <3>2. /\ \A i \in 1..Len(inbox[q]) : Waits(q, inbox[q][i]) /\ Before(sent', inbox[q][i], u)
          /\ \A i, j \in 1..Len(inbox[q]) : i < j => Before(sent', inbox[q][i], inbox[q][j])
      <4>1. ASSUME NEW i \in 1..Len(inbox[q])
            PROVE  Waits(q, inbox[q][i]) /\ Before(sent', inbox[q][i], u)
        <5>1. /\ inbox[q][i] \in Updates /\ inbox[q][i] # u
              /\ Awaited(q, inbox[q][i]) /\ Holds(sent, inbox[q][i])
          BY <3>1
        <5> QED
          BY <2>4, <2>7, <5>1
      <4>2. \A i, j \in 1..Len(inbox[q]) : i < j => Before(sent', inbox[q][i], inbox[q][j])
        BY <2>4, <3>1
      <4> QED
        BY <4>1, <4>2
    <3>3. CASE inbox'[q] = inbox[q]
      <4> DEFINE new == inbox'[q]
      <4>1. new = inbox[q]
        BY <3>3
      <4> HIDE DEF new
      <4>2. /\ \A i \in 1..Len(new) : Waits(q, new[i])
            /\ \A i, j \in 1..Len(new) : i < j => new[i] # new[j] /\ Before(sent', new[i], new[j])
        BY <3>1, <3>2, <4>1
      <4> QED
        BY <4>2 DEF new
    <3>4. CASE q = c /\ inbox'[q] = Append(inbox[q], u)
      <4>1. /\ Len(inbox'[q]) = Len(inbox[q]) + 1 /\ Len(inbox[q]) \in Nat
            /\ \A i \in 1..Len(inbox[q]) : inbox'[q][i] = inbox[q][i]
            /\ inbox'[q][Len(inbox[q]) + 1] = u
        BY <3>1, <3>4, AppendProperties
      <4>2. \A i \in 1..Len(inbox'[q]) : i = Len(inbox[q]) + 1 \/ i \in 1..Len(inbox[q])
        BY <4>1
      <4>3. \A i \in 1..Len(inbox'[q]) : Waits(q, inbox'[q][i])
        BY <2>8, <3>2, <3>4, <4>1, <4>2
      <4>4. ASSUME NEW i \in 1..Len(inbox'[q]), NEW j \in 1..Len(inbox'[q]), i < j
            PROVE  inbox'[q][i] # inbox'[q][j] /\ Before(sent', inbox'[q][i], inbox'[q][j])
        <5>1. i \in 1..Len(inbox[q])
          BY <4>1, <4>4
        <5>2. CASE j \in 1..Len(inbox[q])
          BY <3>1, <3>2, <4>1, <4>4, <5>1, <5>2
        <5>3. CASE j = Len(inbox[q]) + 1
          BY <3>1, <3>2, <4>1, <5>1, <5>3
        <5> QED
          BY <4>2, <5>2, <5>3
      <4> QED
        BY <4>3, <4>4
    <3> QED
      BY <1>3, <3>3, <3>4
  <2> QED
    BY <1>1, <2>6, <2>9 DEF OrderInv, Awaited, Waits
<1> QED
  BY <1>1, <1>5, <1>6, <1>7, <1>8 DEF IInv

(* What a page is sent hides the default state, and settles updates.       *)
LEMMA HeadGood ==
  ASSUME IInv, NEW p \in Pages, outbox[p] # <<>>
  PROVE  LET m == Head(outbox[p]) IN
         /\ m.type \in {"state", "result", "error"}
         /\ m.update # None => m.update \in Updates
         /\ m.update # None /\ m.type # "error" => Holds(saved, m.update)
         /\ m.state # None => m.state \in States /\ Hides(m.state)
         /\ [outbox EXCEPT ![p] = Tail(@)] \in [Pages -> Seq(Good(saved))]
<1>1. outbox \in [Pages -> Seq(Good(saved))]
  BY DEF IInv, MessagesInv
<1>2. Head(outbox[p]) \in Good(saved) /\ Tail(outbox[p]) \in Seq(Good(saved))
  BY <1>1, HeadTailProperties
<1>3. [outbox EXCEPT ![p] = Tail(@)] \in [Pages -> Seq(Good(saved))]
  BY <1>1, <1>2
<1> QED
  BY <1>2, <1>3 DEF Good, Messages

LEMMA ReceiveKeeps ==
  ASSUME IInv, NEW p \in Pages, Receive(p)
  PROVE  IInv'
<1> DEFINE m == Head(outbox[p])
<1>1. StoreTyped' /\ WritesInv' /\ ServedInv' /\ Content' = Content
  BY StoreKept DEF Receive, store, server
<1>2. /\ m.type \in {"state", "result", "error"}
      /\ m.update # None => m.update \in Updates
      /\ m.state # None => m.state \in States /\ Hides(m.state)
      /\ [outbox EXCEPT ![p] = Tail(@)] \in [Pages -> Seq(Good(saved))]
  BY HeadGood DEF Receive
<1> HIDE DEF m
<1>3. /\ mirror' = IF m.state = None THEN mirror ELSE [mirror EXCEPT ![p] = m.state]
      /\ outcome' = IF m.update = None \/ outcome[m.update] # "pending" THEN outcome
           ELSE [outcome EXCEPT ![m.update] = IF m.type = "error" THEN "rejected" ELSE "resolved"]
      /\ outbox' = [outbox EXCEPT ![p] = Tail(@)]
      /\ UNCHANGED <<open, inbox, primed, serving, gen, connected, sentOn, sent, saved>>
  BY DEF Receive, m, store, server, history
<1>4. ServerTyped'
  BY <1>3 DEF IInv, ServerTyped
<1>5. PageTyped' /\ \A u \in Updates : outcome[u] # "new" => outcome'[u] # "new"
  <2>1. mirror' \in [Pages -> States \cup {None}]
    BY <1>2, <1>3 DEF IInv, PageTyped
  <2>2. outcome' \in [Updates -> {"new", "pending", "resolved", "rejected"}]
    BY <1>2, <1>3 DEF IInv, PageTyped
  <2>3. \A u \in Updates : outcome[u] # "new" => outcome'[u] # "new"
    BY <1>2, <1>3 DEF IInv, PageTyped
  <2> QED
    BY <1>3, <2>1, <2>2, <2>3 DEF IInv, PageTyped
<1>6. MessagesInv'
  <2>1. DefaultIsHidden'
    BY <1>2, <1>3 DEF IInv, PageTyped, MessagesInv, DefaultIsHidden, Hides
  <2> QED
    BY <1>2, <1>3, <2>1 DEF MessagesInv
<1>7. OrderInv'
  BY <1>1, <1>3, <1>5, OrderKept
<1> QED
  BY <1>1, <1>4, <1>5, <1>6, <1>7 DEF IInv

LEMMA TimeOutKeeps ==
  ASSUME IInv, NEW u \in Updates, TimeOut(u)
  PROVE  IInv'
<1>1. /\ UNCHANGED <<store, server, page, sentOn, sent>>
      /\ outcome' = [outcome EXCEPT ![u] = "rejected"]
  BY DEF TimeOut, history
<1>2. StoreTyped' /\ WritesInv' /\ ServedInv' /\ Content' = Content
  BY <1>1, StoreKept DEF server
<1>3. ServerTyped' /\ PageTyped' /\ \A v \in Updates : outcome[v] # "new" => outcome'[v] # "new"
  BY <1>1 DEF IInv, ServerTyped, PageTyped, server, page
<1>4. MessagesInv'
  BY <1>1 DEF IInv, MessagesInv, DefaultIsHidden, page, store
<1>5. OrderInv'
  BY <1>1, <1>2, <1>3, OrderKept DEF server
<1> QED
  BY <1>2, <1>3, <1>4, <1>5 DEF IInv

LEMMA PageDisconnectKeeps ==
  ASSUME IInv, NEW p \in Pages, PageDisconnect(p)
  PROVE  IInv'
<1>1. /\ UNCHANGED <<store, server, gen, mirror, sentOn, sent>>
      /\ connected' = [connected EXCEPT ![p] = FALSE]
      /\ outbox' = [outbox EXCEPT ![p] = <<>>]
      /\ outcome' = [u \in Updates |->
           IF outcome[u] = "pending" /\ sentOn[u] = PortOf(p) THEN "rejected" ELSE outcome[u]]
  BY DEF PageDisconnect, history
<1>2. StoreTyped' /\ WritesInv' /\ ServedInv' /\ Content' = Content
  BY <1>1, StoreKept DEF server
<1>3. ServerTyped' /\ PageTyped' /\ \A v \in Updates : outcome[v] # "new" => outcome'[v] # "new"
  <2>1. ServerTyped'
    BY <1>1 DEF IInv, ServerTyped, server
  <2>2. /\ connected' \in [Pages -> BOOLEAN] /\ \A r \in Pages : connected'[r] => connected[r]
        /\ outcome' \in [Updates -> {"new", "pending", "resolved", "rejected"}]
        /\ \A v \in Updates : outcome[v] # "new" => outcome'[v] # "new"
    BY <1>1 DEF IInv, PageTyped
  <2> QED
    BY <1>1, <2>1, <2>2 DEF IInv, PageTyped
<1>4. MessagesInv'
  BY <1>1 DEF IInv, MessagesInv, DefaultIsHidden, store
<1>5. OrderInv'
  BY <1>1, <1>2, <1>3, OrderKept DEF server
<1> QED
  BY <1>2, <1>3, <1>4, <1>5 DEF IInv

-----------------------------------------------------------------------------
(* The steps of the background                                             *)

LEMMA BackgroundDisconnectKeeps ==
  ASSUME IInv, NEW q \in Ports, BackgroundDisconnect(q)
  PROVE  IInv'
<1>1. /\ UNCHANGED <<store, serving, primed, page, outcome, sentOn, sent>>
      /\ open' = open \ {q} /\ inbox' = [inbox EXCEPT ![q] = <<>>]
  BY DEF BackgroundDisconnect, history
<1>2. StoreTyped' /\ WritesInv' /\ ServedInv' /\ Content' = Content
  BY <1>1, StoreKept
<1>3. ServerTyped' /\ PageTyped'
  BY <1>1 DEF IInv, ServerTyped, PageTyped, page
<1>4. MessagesInv'
  BY <1>1 DEF IInv, MessagesInv, DefaultIsHidden, store, page
<1>5. \A r \in Ports : inbox'[r] = inbox[r] \/ inbox'[r] = <<>>
  BY <1>1 DEF IInv, ServerTyped
<1>6. OrderInv'
  BY <1>1, <1>2, <1>5, OrderKept
<1> QED
  BY <1>2, <1>3, <1>4, <1>6 DEF IInv

LEMMA RestoreKeeps ==
  ASSUME IInv, Restore
  PROVE  IInv'
<1>1. /\ phase = "restoring" /\ phase' = "ready" /\ state' = saved /\ issued' = saved
      /\ UNCHANGED <<saved, writes, writeError, server, gen, connected, mirror, outcome,
                     sentOn, sent>>
      /\ Post([q \in open |-> <<StateMessage(saved)>>])
  BY DEF Restore, history
<1>2. saved \in States /\ Hides(saved) /\ writes = <<>>
  BY <1>1 DEF IInv, StoreTyped, WritesInv
<1>3. StoreTyped' /\ ServerTyped' /\ PageTyped'
  BY <1>1 DEF IInv, StoreTyped, ServerTyped, PageTyped, server
<1>4. WritesInv'
  BY <1>1, <1>2, PrefixFacts DEF WritesInv, States
<1>5. ServedInv'
  BY <1>1 DEF IInv, ServedInv, server
<1>6. MessagesInv'
  <2>1. <<StateMessage(saved)>> \in Seq(Good(saved))
    BY <1>2, StateMessageGood
  <2>2. outbox' \in [Pages -> Seq(Good(saved))]
    BY <1>1, <2>1, PostFact DEF IInv, MessagesInv
  <2> QED
    BY <1>1, <2>2 DEF IInv, MessagesInv, DefaultIsHidden
<1>7. OrderInv'
  BY <1>1, OrderKept DEF Content, server
<1> QED
  BY <1>3, <1>4, <1>5, <1>6, <1>7 DEF IInv

LEMMA RestoreFailsKeeps ==
  ASSUME IInv, RestoreFails
  PROVE  IInv'
<1>1. /\ phase = "restoring" /\ phase' = "failed"
      /\ UNCHANGED <<state, saved, writes, issued, writeError, server, page, outcome,
                     sentOn, sent>>
  BY DEF RestoreFails, history
<1>2. StoreTyped' /\ ServerTyped' /\ PageTyped'
  BY <1>1 DEF IInv, StoreTyped, ServerTyped, PageTyped, server, page
<1>3. WritesInv' /\ ServedInv'
  BY <1>1 DEF IInv, WritesInv, ServedInv, server
<1>4. MessagesInv'
  BY <1>1 DEF IInv, MessagesInv, DefaultIsHidden, page
<1>5. OrderInv'
  BY <1>1, OrderKept DEF Content, server
<1> QED
  BY <1>2, <1>3, <1>4, <1>5 DEF IInv

(* An update is applied: it is the next of its port, and was not yet.      *)
LEMMA ApplyKeeps ==
  ASSUME IInv, NEW q \in Ports, Apply(q)
  PROVE  IInv'
<1> DEFINE u == Head(inbox[q])  new == Append(state, u)
<1>0. /\ phase = "ready" /\ inbox[q] # <<>>
      /\ \A r \in Ports : inbox[r] \in Seq(Updates)
      /\ u \in Updates /\ u = inbox[q][1] /\ 1 \in 1..Len(inbox[q])
      /\ state \in States /\ saved \in States
  <2>1. /\ phase = "ready" /\ inbox[q] # <<>>
        /\ \A r \in Ports : inbox[r] \in Seq(Updates)
        /\ state \in States /\ saved \in States
    BY DEF Apply, IInv, ServerTyped, StoreTyped
  <2>2. u \in Updates /\ u = inbox[q][1] /\ 1 \in 1..Len(inbox[q])
    BY <2>1, HeadTailProperties, EmptySeq
  <2> QED
    BY <2>1, <2>2
<1>1. /\ new \in States /\ Prefix(state, new)
      /\ \A v : Holds(new, v) <=> Holds(state, v) \/ v = u
  BY <1>0, PrefixAppend DEF States
<1>2. /\ state' = new
      /\ serving' = [serving EXCEPT ![q] = [update |-> u, need |-> -1]]
      /\ inbox' = [inbox EXCEPT ![q] = Tail(@)]
      /\ Post([r \in open |-> <<StateMessage(new)>>])
      /\ UNCHANGED <<phase, saved, writes, issued, writeError, open, primed, gen,
                     connected, mirror, outcome, sentOn, sent>>
  BY DEF Apply, Applied
<1> HIDE DEF u, new
<1>3. Hides(state) /\ Hides(new)
  BY <1>0, <1>1, PrefixHides DEF IInv, WritesInv
<1>4. StoreTyped' /\ PageTyped'
  BY <1>1, <1>2 DEF IInv, StoreTyped, PageTyped
<1>5. ServerTyped'
  <2>1. Tail(inbox[q]) \in Seq(Updates)
    BY <1>0, HeadTailProperties
  <2>2. [update |-> u, need |-> -1] \in [update : Updates, need : Int]
    BY <1>0
  <2> QED
    BY <1>2, <2>1, <2>2 DEF IInv, ServerTyped
<1>6. WritesInv'
  <2>1. /\ Hides(saved) /\ Prefix(saved, state) /\ writes \in Seq(States)
        /\ \A i \in 1..Len(writes) :
             /\ writes[i] \in States /\ Prefix(saved, writes[i]) /\ Prefix(writes[i], state)
    BY <1>0 DEF IInv, WritesInv, StoreTyped
  <2>2. Prefix(saved, new) /\ \A i \in 1..Len(writes) : Prefix(writes[i], new)
    BY <1>0, <1>1, <2>1, PrefixTrans DEF States
  <2> QED
    BY <1>0, <1>2, <2>1, <2>2 DEF IInv, WritesInv
<1>7. ServedInv'
  <2> SUFFICES ASSUME NEW r \in Ports, serving'[r] # None
               PROVE  /\ serving'[r].need = -1 => Holds(new, serving'[r].update)
                      /\ serving'[r].need # -1 =>
                           /\ serving'[r].need \in 1..Len(writes)
                           /\ Holds(writes[serving'[r].need], serving'[r].update)
    BY <1>0, <1>2 DEF ServedInv
  <2>1. CASE r = q
    <3>1. serving'[r] = [update |-> u, need |-> -1]
      BY <1>2, <2>1 DEF IInv, ServerTyped
    <3> QED
      BY <1>1, <3>1
  <2>2. CASE r # q
    <3>1. serving'[r] = serving[r]
      BY <1>2, <2>2 DEF IInv, ServerTyped
    <3> QED
      BY <1>1, <3>1 DEF IInv, ServedInv
  <2> QED
    BY <2>1, <2>2
<1>8. MessagesInv'
  <2>1. <<StateMessage(new)>> \in Seq(Good(saved))
    BY <1>0, <1>1, <1>3, StateMessageGood
  <2>2. outbox' \in [Pages -> Seq(Good(saved))]
    BY <1>2, <2>1, PostFact DEF IInv, MessagesInv
  <2> QED
    BY <1>2, <2>2 DEF IInv, MessagesInv, DefaultIsHidden
<1>9. OrderInv'
  <2>1. Content = state /\ Content' = new
    BY <1>0, <1>2 DEF Content
  <2>2. Awaited(q, u)
    BY <1>0 DEF IInv, OrderInv
  <2>3. \A v \in Updates : Holds(new, v) => Holds(sent, v) /\ outcome[v] # "new"
    BY <1>1, <2>1, <2>2 DEF IInv, OrderInv, Awaited
  <2> DEFINE Waits(r, v) ==
        /\ sentOn[v] = r /\ Holds(sent, v) /\ outcome[v] # "new"
        /\ ~Holds(new, v)
        /\ \A w \in Updates : Holds(new, w) /\ sentOn[w] = r => Before(sent, w, v)
  <2>4. ASSUME NEW r \in Ports, NEW v \in Updates, Awaited(r, v), v # u,
               r = q => Before(sent, u, v)
        PROVE  Waits(r, v)
    BY <1>1, <2>1, <2>2, <2>4 DEF Awaited
  <2> HIDE DEF Waits
  <2>5. ASSUME NEW r \in Ports
        PROVE  /\ \A i \in 1..Len(inbox'[r]) : Waits(r, inbox'[r][i])
               /\ \A i, j \in 1..Len(inbox'[r]) : i < j =>
                    inbox'[r][i] # inbox'[r][j] /\ Before(sent, inbox'[r][i], inbox'[r][j])
    <3>1. /\ \A i \in 1..Len(inbox[r]) : inbox[r][i] \in Updates /\ Awaited(r, inbox[r][i])
          /\ \A i, j \in 1..Len(inbox[r]) : i < j =>
               inbox[r][i] # inbox[r][j] /\ Before(sent, inbox[r][i], inbox[r][j])
      BY <1>0 DEF IInv, OrderInv
    <3> DEFINE in == inbox[r]  in2 == inbox'[r]
    <3>2. CASE r # q
      <4>1. in2 = in
        BY <1>2, <3>2 DEF IInv, ServerTyped
      <4>2. \A i \in 1..Len(in) : in[i] # u
        BY <2>2, <3>1, <3>2 DEF Awaited
      <4>3. \A i \in 1..Len(in) : Waits(r, in[i])
        BY <2>4, <3>1, <3>2, <4>2
      <4> HIDE DEF in2
      <4>4. /\ \A i \in 1..Len(in2) : Waits(r, in2[i])
            /\ \A i, j \in 1..Len(in2) : i < j => in2[i] # in2[j] /\ Before(sent, in2[i], in2[j])
        BY <3>1, <4>1, <4>3
      <4> QED
        BY <4>4 DEF in2
    <3>3. CASE r = q
      <4>1. in2 = Tail(in) /\ in \in Seq(Updates) /\ in # <<>> /\ u = in[1]
        BY <1>0, <1>2, <3>3 DEF IInv, ServerTyped
      <4>2. /\ Len(in) \in Nat /\ Len(in2) = Len(in) - 1
            /\ \A i \in 1..Len(in2) : in2[i] = in[i + 1] /\ i + 1 \in 2..Len(in)
        BY <4>1, HeadTailProperties
      <4>3. ASSUME NEW i \in 2..Len(in)
            PROVE  Waits(r, in[i])
        <5>1. i \in 1..Len(in) /\ 1 \in 1..Len(in) /\ 1 < i
          BY <4>2
        <5>2. in[i] \in Updates /\ Awaited(r, in[i]) /\ in[i] # u /\ Before(sent, u, in[i])
          BY <3>1, <4>1, <5>1
        <5> QED
          BY <2>4, <5>2
      <4> HIDE DEF in2
      <4>4. \A i \in 1..Len(in2) : Waits(r, in2[i])
        BY <4>2, <4>3
      <4>5. ASSUME NEW i \in 1..Len(in2), NEW j \in 1..Len(in2), i < j
            PROVE  in2[i] # in2[j] /\ Before(sent, in2[i], in2[j])
        <5>1. in2[i] = in[i + 1] /\ in2[j] = in[j + 1] /\ i + 1 < j + 1
              /\ i + 1 \in 1..Len(in) /\ j + 1 \in 1..Len(in)
          BY <4>2, <4>5
        <5> QED
          BY <3>1, <5>1
      <4> QED
        BY <4>4, <4>5 DEF in2
    <3> QED
      BY <3>2, <3>3
  <2>6. \A v \in Updates : Holds(Content', v) => Holds(sent', v) /\ outcome'[v] # "new"
    BY <1>2, <2>1, <2>3
  <2>7. ASSUME NEW r \in Ports, NEW i \in 1..Len(inbox'[r])
        PROVE  Awaited(r, inbox[r][i])'
    BY <1>2, <2>1, <2>5, <2>7 DEF Awaited, Waits
  <2>8. \A r \in Ports : \A i, j \in 1..Len(inbox'[r]) : i < j =>
          inbox'[r][i] # inbox'[r][j] /\ Before(sent', inbox'[r][i], inbox'[r][j])
    BY <1>2, <2>5
  <2> QED
    BY <2>6, <2>7, <2>8 DEF OrderInv
<1> QED
  BY <1>4, <1>5, <1>6, <1>7, <1>8, <1>9 DEF IInv

(* After a failed restore the default state changes, for nobody.           *)
LEMMA ApplyUnrestoredKeeps ==
  ASSUME IInv, NEW q \in Ports, ApplyUnrestored(q)
  PROVE  IInv'
<1> DEFINE u == Head(inbox[q])
<1>0. /\ phase = "failed" /\ inbox[q] # <<>> /\ inbox[q] \in Seq(Updates)
      /\ u \in Updates /\ Tail(inbox[q]) \in Seq(Updates)
      /\ state \in States /\ saved \in States
  <2>1. phase = "failed" /\ inbox[q] # <<>> /\ inbox[q] \in Seq(Updates)
        /\ state \in States /\ saved \in States
    BY DEF ApplyUnrestored, IInv, ServerTyped, StoreTyped
  <2>2. Head(inbox[q]) \in Updates /\ Tail(inbox[q]) \in Seq(Updates)
    BY <2>1, HeadTailProperties
  <2> QED
    BY <2>1, <2>2
<1>1. /\ inbox' = [inbox EXCEPT ![q] = Tail(@)]
      /\ UNCHANGED <<phase, saved, writes, issued, writeError, open, serving, gen,
                     connected, mirror, outcome, sentOn, sent>>
      /\ \/ state' = Append(state, u) /\ Post([r \in {q} |-> <<Error(u)>>]) /\ primed' = primed
         \/ primed' = primed \cup {q} /\ UNCHANGED <<state, outbox>>
  BY DEF ApplyUnrestored, Applied, history
<1> HIDE DEF u
<1>2. state' \in States
  BY <1>0, <1>1, PrefixAppend DEF States
<1>3. StoreTyped' /\ ServerTyped' /\ PageTyped'
  BY <1>0, <1>1, <1>2 DEF IInv, StoreTyped, ServerTyped, PageTyped
<1>4. WritesInv' /\ ServedInv'
  <2>1. Hides(saved) /\ writes = <<>> /\ \A r \in Ports : serving[r] = None
    BY <1>0 DEF IInv, WritesInv, ServedInv
  <2>2. phase' = "failed" /\ Hides(saved') /\ writes' = <<>> /\ serving' = serving
    BY <1>0, <1>1, <2>1
  <2> QED
    BY <2>1, <2>2 DEF WritesInv, ServedInv
<1>5. MessagesInv'
  <2>1. <<Error(u)>> \in Seq(Good(saved))
    BY <1>0, ErrorGood
  <2>2. outbox' \in [Pages -> Seq(Good(saved))]
    BY <1>1, <2>1, PostFact DEF IInv, MessagesInv
  <2> QED
    BY <1>1, <2>2 DEF IInv, MessagesInv, DefaultIsHidden
<1>6. OrderInv'
  <2>1. Content' = Content
    BY <1>0, <1>1 DEF Content
  <2>2. \A r \in Ports :
          inbox'[r] = inbox[r] \/ (inbox[r] # <<>> /\ inbox'[r] = Tail(inbox[r]))
    BY <1>0, <1>1 DEF IInv, ServerTyped
  <2> QED
    BY <1>1, <2>1, <2>2, OrderKept
<1> QED
  BY <1>3, <1>4, <1>5, <1>6 DEF IInv

(* The writes under way once all that was applied is being written.        *)
LEMMA FlushedFact ==
  ASSUME IInv, phase = "ready",
         writes' = IF state = issued THEN writes ELSE Append(writes, state)
  PROVE  /\ writes \in Seq(States) /\ writes' \in Seq(States)
         /\ Len(writes) \in 0..Len(writes') /\ Len(writes') \in Nat
         /\ \A i \in 1..Len(writes) : writes'[i] = writes[i]
         /\ \A i \in 1..Len(writes') :
              i \in 1..Len(writes) \/ (writes'[i] = state /\ i = Len(writes'))
         /\ writes' # <<>> => writes'[Len(writes')] = state
         /\ writes' = <<>> => writes = <<>> /\ issued = state
<1>1. state \in States /\ writes \in Seq(States) /\ Len(writes) \in Nat
  BY DEF IInv, StoreTyped
<1>2. CASE state = issued
  BY <1>1, <1>2 DEF IInv, WritesInv
<1>3. CASE state # issued
  <2>1. writes' = Append(writes, state)
    BY <1>3
  <2>2. /\ Append(writes, state) \in Seq(States)
        /\ Len(Append(writes, state)) = Len(writes) + 1
        /\ \A i \in 1..Len(writes) : Append(writes, state)[i] = writes[i]
        /\ Append(writes, state)[Len(writes) + 1] = state
        /\ Append(writes, state) # <<>>
    BY <1>1, AppendProperties
  <2> QED
    BY <1>1, <2>1, <2>2
<1> QED
  BY <1>2, <1>3

LEMMA FlushKeeps ==
  ASSUME IInv, NEW q \in Ports, Flush(q)
  PROVE  IInv'
<1> DEFINE u == serving[q].update
<1>1. /\ phase = "ready" /\ Holds(state, u) /\ u \in Updates
      /\ serving[q] = [update |-> u, need |-> -1] /\ serving \in [Ports -> [update : Updates, need : Int] \cup {None}]
      /\ state \in States /\ saved \in States /\ Hides(state)
  <2>1. /\ serving[q] # None /\ serving[q].need = -1
        /\ serving \in [Ports -> [update : Updates, need : Int] \cup {None}]
        /\ state \in States /\ saved \in States
    BY DEF Flush, IInv, ServerTyped, StoreTyped
  <2>2. phase = "ready" /\ Holds(state, u)
    BY <2>1 DEF IInv, ServedInv
  <2>3. Hides(state)
    BY <2>1, <2>2, PrefixHides DEF IInv, WritesInv
  <2>4. serving[q] \in [update : Updates, need : Int]
    BY <2>1
  <2> QED
    BY <2>1, <2>2, <2>3, <2>4
<1>2. /\ writes' = IF state = issued THEN writes ELSE Append(writes, state)
      /\ issued' = state
      /\ UNCHANGED <<phase, state, saved, writeError, open, inbox, primed, gen,
                     connected, mirror, outcome, sentOn, sent>>
      /\ \/ /\ writes' = <<>> /\ serving' = [serving EXCEPT ![q] = None]
            /\ Post([r \in {q} |->
                 <<IF writeError THEN Error(serving[r].update)
                   ELSE Result(serving[r].update, state)>>])
         \/ /\ writes' # <<>> /\ outbox' = outbox
            /\ serving' = [serving EXCEPT ![q].need = Len(writes')]
  BY DEF Flush, Answer, history
<1>3. /\ writes \in Seq(States) /\ writes' \in Seq(States)
      /\ Len(writes) \in 0..Len(writes') /\ Len(writes') \in Nat
      /\ \A i \in 1..Len(writes) : writes'[i] = writes[i]
      /\ \A i \in 1..Len(writes') :
           i \in 1..Len(writes) \/ (writes'[i] = state /\ i = Len(writes'))
      /\ writes' # <<>> => writes'[Len(writes')] = state
      /\ writes' = <<>> => writes = <<>> /\ issued = state
  BY <1>1, <1>2, FlushedFact
<1> HIDE DEF u
<1>4. serving'[q] = IF writes' = <<>> THEN None ELSE [update |-> u, need |-> Len(writes')]
  BY <1>1, <1>2
<1>5. \A r \in Ports : r # q => serving'[r] = serving[r]
  BY <1>1, <1>2
<1>6. StoreTyped' /\ PageTyped'
  BY <1>1, <1>2, <1>3 DEF IInv, StoreTyped, PageTyped
<1>7. ServerTyped'
  <2>1. DOMAIN serving' = Ports /\ serving' = [r \in Ports |-> serving'[r]]
    BY <1>1, <1>2
  <2>2. \A r \in Ports : serving'[r] \in [update : Updates, need : Int] \cup {None}
    BY <1>1, <1>3, <1>4, <1>5
  <2>3. serving' \in [Ports -> [update : Updates, need : Int] \cup {None}]
    BY <2>1, <2>2
  <2> QED
    BY <1>2, <2>3 DEF IInv, ServerTyped
<1>8. WritesInv'
  <2>1. /\ Hides(saved) /\ Prefix(saved, state) /\ Prefix(state, state)
        /\ \A i \in 1..Len(writes) : Prefix(saved, writes[i]) /\ Prefix(writes[i], state)
        /\ \A i, j \in 1..Len(writes) : i <= j => Prefix(writes[i], writes[j])
        /\ writes = <<>> => writeError \/ issued = saved
    BY <1>1, PrefixFacts DEF IInv, WritesInv, States
  <2>2. \A i \in 1..Len(writes') : Prefix(saved, writes'[i]) /\ Prefix(writes'[i], state)
    BY <1>3, <2>1
  <2>3. ASSUME NEW i \in 1..Len(writes'), NEW j \in 1..Len(writes'), i <= j
        PROVE  Prefix(writes'[i], writes'[j])
    <3>1. CASE j \in 1..Len(writes)
      <4>1. i \in 1..Len(writes)
        BY <1>3, <2>3, <3>1
      <4> QED
        BY <1>3, <2>1, <2>3, <3>1, <4>1
    <3>2. CASE writes'[j] = state
      BY <2>2, <3>2
    <3> QED
      BY <1>3, <3>1, <3>2
  <2>4. /\ phase' = "ready" /\ saved' = saved /\ state' = state /\ issued' = state
        /\ writeError' = writeError
    BY <1>1, <1>2
  <2>5. (writes' = <<>> => writeError' \/ issued' = saved') /\ (writes' # <<>> => issued' = writes'[Len(writes')])
    BY <1>3, <2>1, <2>4
  <2> QED
    BY <2>1, <2>2, <2>3, <2>4, <2>5 DEF WritesInv
<1>9. ServedInv'
  <2> SUFFICES ASSUME NEW r \in Ports, serving'[r] # None
               PROVE  /\ serving'[r].need = -1 => Holds(state, serving'[r].update)
                      /\ serving'[r].need # -1 =>
                           /\ serving'[r].need \in 1..Len(writes')
                           /\ Holds(writes'[serving'[r].need], serving'[r].update)
    BY <1>1, <1>2 DEF ServedInv
  <2>1. CASE r = q
    <3>1. writes' # <<>> /\ serving'[r] = [update |-> u, need |-> Len(writes')]
      BY <1>4, <2>1
    <3>2. Len(writes') \in 1..Len(writes')
      BY <1>3, <3>1, EmptySeq
    <3> QED
      BY <1>1, <1>3, <3>1, <3>2
  <2>2. CASE r # q
    <3>1. serving'[r] = serving[r] /\ serving[r] # None
      BY <1>5, <2>2
    <3>2. /\ serving[r].need = -1 => Holds(state, serving[r].update)
          /\ serving[r].need # -1 =>
               /\ serving[r].need \in 1..Len(writes)
               /\ Holds(writes[serving[r].need], serving[r].update)
      BY <3>1 DEF IInv, ServedInv
    <3> QED
      BY <1>3, <3>1, <3>2
  <2> QED
    BY <2>1, <2>2
<1>10. MessagesInv'
  <2>1. outbox \in [Pages -> Seq(Good(saved))]
    BY DEF IInv, MessagesInv
  <2>2. CASE writes' = <<>>
    <3>1. <<IF writeError THEN Error(u) ELSE Result(u, state)>> \in Seq(Good(saved))
      <4>1. CASE writeError
        BY <1>1, <4>1, ErrorGood
      <4>2. CASE ~writeError
        <5>1. state = saved
          BY <1>1, <1>3, <2>2, <4>2 DEF IInv, WritesInv
        <5> QED
          BY <1>1, <4>2, <5>1, ResultGood
      <4> QED
        BY <4>1, <4>2
    <3>2. outbox' \in [Pages -> Seq(Good(saved))]
      BY <1>2, <2>1, <2>2, <3>1, PostFact DEF u
    <3> QED
      BY <1>2, <3>2 DEF IInv, MessagesInv, DefaultIsHidden
  <2>3. CASE writes' # <<>>
    BY <1>2, <2>3 DEF IInv, MessagesInv, DefaultIsHidden
  <2> QED
    BY <2>2, <2>3
<1>11. OrderInv'
  BY <1>2, OrderKept DEF Content
<1> QED
  BY <1>6, <1>7, <1>8, <1>9, <1>10, <1>11 DEF IInv

LEMMA WriteEndsKeeps ==
  ASSUME IInv, NEW failed \in BOOLEAN, WriteEnds(failed)
  PROVE  IInv' /\ Prefix(saved, saved') /\ Prefix(saved', state) /\ phase = "ready"
<1> DEFINE served == {q \in Ports : serving[q] # None /\ serving[q].need = 1}
<1>1. /\ writes # <<>> /\ writes' = Tail(writes) /\ writeError' = failed
      /\ saved' = IF failed THEN saved ELSE Head(writes)
      /\ serving' = [q \in Ports |->
           IF q \in served THEN None
           ELSE IF serving[q] # None /\ serving[q].need > 1
                THEN [serving[q] EXCEPT !.need = @ - 1]
                ELSE serving[q]]
      /\ Post([q \in served |->
           <<IF failed THEN Error(serving[q].update)
             ELSE Result(serving[q].update, state)>>])
      /\ UNCHANGED <<phase, state, issued, open, inbox, primed, gen, connected,
                     mirror, outcome, sentOn, sent>>
  BY DEF WriteEnds, Answer, history
<1>2. /\ phase = "ready" /\ state \in States /\ saved \in States /\ writes \in Seq(States)
      /\ Hides(saved) /\ Hides(state)
      /\ serving \in [Ports -> [update : Updates, need : Int] \cup {None}]
  <2>1. /\ state \in States /\ saved \in States /\ writes \in Seq(States)
        /\ serving \in [Ports -> [update : Updates, need : Int] \cup {None}]
    BY DEF IInv, StoreTyped, ServerTyped
  <2>2. phase = "ready" /\ Hides(saved)
    BY <1>1 DEF IInv, WritesInv
  <2>3. Hides(state)
    BY <2>1, <2>2, PrefixHides DEF IInv, WritesInv
  <2> QED
    BY <2>1, <2>2, <2>3
<1>3. /\ Head(writes) = writes[1] /\ 1 \in 1..Len(writes) /\ Len(writes) \in Nat
      /\ writes' \in Seq(States) /\ Len(writes') = Len(writes) - 1
      /\ \A i \in 1..Len(writes') : writes'[i] = writes[i + 1] /\ i + 1 \in 1..Len(writes)
  <2>1. /\ Head(writes) = writes[1] /\ Len(writes) \in Nat /\ Len(writes) # 0
        /\ Tail(writes) \in Seq(States) /\ Len(Tail(writes)) = Len(writes) - 1
        /\ \A i \in 1..Len(Tail(writes)) : Tail(writes)[i] = writes[i + 1]
    BY <1>1, <1>2, HeadTailProperties, EmptySeq
  <2> QED
    BY <1>1, <2>1
<1>4. /\ Prefix(saved, state)
      /\ \A i \in 1..Len(writes) :
           writes[i] \in States /\ Prefix(saved, writes[i]) /\ Prefix(writes[i], state)
      /\ \A i, j \in 1..Len(writes) : i <= j => Prefix(writes[i], writes[j])
      /\ issued = writes[Len(writes)]
  BY <1>1, <1>2 DEF IInv, WritesInv
<1> HIDE DEF served
<1>5. /\ saved' \in States /\ Prefix(saved, saved') /\ Prefix(saved', state) /\ Hides(saved')
      /\ \A i \in 1..Len(writes') : Prefix(saved', writes'[i])
  <2>1. CASE failed
    <3>1. saved' = saved /\ Prefix(saved, saved)
      BY <1>1, <1>2, <2>1, PrefixFacts DEF States
    <3> QED
      BY <1>2, <1>3, <1>4, <3>1
  <2>2. CASE ~failed
    <3>1. saved' = writes[1]
      BY <1>1, <1>3, <2>2
    <3>2. Hides(writes[1])
      BY <1>2, <1>3, <1>4, PrefixHides
    <3>3. \A i \in 1..Len(writes') : 1 <= i + 1
      BY <1>3
    <3> QED
      BY <1>3, <1>4, <3>1, <3>2, <3>3
  <2> QED
    BY <2>1, <2>2
<1>6. StoreTyped' /\ PageTyped'
  BY <1>1, <1>2, <1>3, <1>5 DEF IInv, StoreTyped, PageTyped
<1>7. ASSUME NEW q \in Ports
      PROVE  LET mine == serving[q] IN
             /\ mine # None => mine.update \in Updates /\ mine.need \in Int
             /\ (mine = None \/ mine.need = 1) => serving'[q] = None
             /\ (mine # None /\ mine.need > 1) =>
                  serving'[q] = [update |-> mine.update, need |-> mine.need - 1]
             /\ (mine # None /\ mine.need < 1) => serving'[q] = mine
  <2> DEFINE mine == serving[q]
  <2>1. mine \in [update : Updates, need : Int] \cup {None}
    BY <1>2
  <2>2. serving'[q] = IF mine # None /\ mine.need = 1 THEN None
                      ELSE IF mine # None /\ mine.need > 1
                           THEN [mine EXCEPT !.need = @ - 1]
                           ELSE mine
    BY <1>1 DEF served
  <2> HIDE DEF mine
  <2>3. CASE mine = None
    BY <2>2, <2>3 DEF mine
  <2>4. CASE mine # None
    <3>1. mine \in [update : Updates, need : Int]
      BY <2>1, <2>4
    <3> QED
      BY <2>2, <2>4, <3>1 DEF mine
  <2> QED
    BY <2>3, <2>4 DEF mine
<1>8. ServerTyped'
  <2>1. ASSUME NEW q \in Ports
        PROVE  serving'[q] \in [update : Updates, need : Int] \cup {None}
    <3> DEFINE mine == serving[q]
    <3>1. mine \in [update : Updates, need : Int] \cup {None}
      BY <1>2
    <3>2. mine # None => mine.update \in Updates /\ mine.need \in Int
      BY <1>7
    <3>3. CASE mine = None \/ mine.need = 1
      BY <1>7, <3>3
    <3>4. CASE mine # None /\ mine.need > 1
      <4>1. serving'[q] = [update |-> mine.update, need |-> mine.need - 1]
        BY <1>7, <3>4
      <4> DEFINE left == mine.need - 1
      <4>2. mine.update \in Updates /\ left \in Int
        BY <3>2, <3>4
      <4> HIDE DEF left, mine
      <4>3. [update |-> mine.update, need |-> left] \in [update : Updates, need : Int]
        BY <4>2
      <4> QED
        BY <4>1, <4>3 DEF left, mine
    <3>5. CASE mine # None /\ mine.need < 1
      BY <1>7, <3>1, <3>5
    <3> HIDE DEF mine
    <3> QED
      BY <3>2, <3>3, <3>4, <3>5
  <2>2. serving' \in [Ports -> [update : Updates, need : Int] \cup {None}]
    BY <1>1, <2>1
  <2> QED
    BY <1>1, <2>2 DEF IInv, ServerTyped
<1>9. WritesInv'
  <2>1. /\ phase' = "ready" /\ state' = state /\ issued' = issued /\ writeError' = failed
    BY <1>1, <1>2
  <2>2. \A i \in 1..Len(writes') : Prefix(writes'[i], state)
    BY <1>3, <1>4
  <2>3. \A i, j \in 1..Len(writes') : i <= j => Prefix(writes'[i], writes'[j])
    BY <1>3, <1>4
  <2>4. writes' = <<>> => writeError' \/ issued' = saved'
    <3>1. writes' = <<>> => Len(writes) = 1
      BY <1>3, EmptySeq
    <3> QED
      BY <1>1, <1>3, <1>4, <3>1
  <2>5. writes' # <<>> => issued' = writes'[Len(writes')]
    <3>1. writes' # <<>> => Len(writes') \in 1..Len(writes') /\ Len(writes') + 1 = Len(writes)
      BY <1>3, EmptySeq
    <3> QED
      BY <1>3, <1>4, <2>1, <3>1
  <2> QED
    BY <1>5, <2>1, <2>2, <2>3, <2>4, <2>5 DEF WritesInv
<1>10. ServedInv'
  <2> SUFFICES ASSUME NEW q \in Ports, serving'[q] # None
               PROVE  /\ serving'[q].need = -1 => Holds(state, serving'[q].update)
                      /\ serving'[q].need # -1 =>
                           /\ serving'[q].need \in 1..Len(writes')
                           /\ Holds(writes'[serving'[q].need], serving'[q].update)
    BY <1>1, <1>2 DEF ServedInv
  <2>1. /\ serving[q] # None /\ serving[q].need # 1
        /\ serving[q] \in [update : Updates, need : Int]
    BY <1>2, <1>7
  <2>2. /\ serving[q].need = -1 => Holds(state, serving[q].update)
        /\ serving[q].need # -1 =>
             /\ serving[q].need \in 1..Len(writes)
             /\ Holds(writes[serving[q].need], serving[q].update)
    BY <2>1 DEF IInv, ServedInv
  <2>3. CASE serving[q].need = -1
    <3>1. serving[q].need < 1
      BY <2>3
    <3>2. serving'[q] = serving[q]
      BY <1>7, <2>1, <3>1
    <3> QED
      BY <2>2, <2>3, <3>2
  <2>4. CASE serving[q].need # -1
    <3> DEFINE n == serving[q].need
    <3>1. n \in 2..Len(writes) /\ n - 1 \in 1..Len(writes') /\ n - 1 # -1
      BY <1>3, <2>1, <2>2, <2>4
    <3>2. /\ serving'[q].update = serving[q].update /\ serving'[q].need = n - 1
      <4>1. serving[q].need > 1
        BY <1>3, <3>1
      <4>2. serving'[q] = [update |-> serving[q].update, need |-> serving[q].need - 1]
        BY <1>7, <2>1, <4>1
      <4> QED
        BY <4>2
    <3>3. writes'[n - 1] = writes[n]
      BY <1>3, <3>1
    <3> QED
      BY <2>2, <2>4, <3>1, <3>2, <3>3
  <2> QED
    BY <2>3, <2>4
<1>11. MessagesInv'
  <2>1. outbox \in [Pages -> Seq(Good(saved'))]
    <3>1. Good(saved) \subseteq Good(saved')
      BY <1>2, <1>5, GoodGrows
    <3>2. outbox \in [Pages -> Seq(Good(saved))]
      BY DEF IInv, MessagesInv
    <3> QED
      BY <3>1, <3>2
  <2>2. ASSUME NEW q \in served
        PROVE  <<IF failed THEN Error(serving[q].update)
                 ELSE Result(serving[q].update, state)>> \in Seq(Good(saved'))
    <3>1. /\ q \in Ports /\ serving[q] # None /\ serving[q].need = 1
          /\ serving[q].update \in Updates
      BY <1>2, <2>2 DEF served
    <3>2. Holds(writes[1], serving[q].update)
      BY <3>1 DEF IInv, ServedInv
    <3>3. CASE failed
      BY <1>5, <3>1, <3>3, ErrorGood
    <3>4. CASE ~failed
      <4>1. saved' = writes[1]
        BY <1>1, <1>3, <3>4
      <4> QED
        BY <1>2, <1>5, <3>1, <3>2, <3>4, <4>1, ResultGood
    <3> QED
      BY <3>3, <3>4
  <2>3. outbox' \in [Pages -> Seq(Good(saved'))]
    BY <1>1, <2>1, <2>2, PostFact
  <2> QED
    BY <1>1, <2>3 DEF IInv, MessagesInv, DefaultIsHidden
<1>12. OrderInv'
  BY <1>1, <1>2, OrderKept DEF Content
<1> QED
  BY <1>2, <1>5, <1>6, <1>8, <1>9, <1>10, <1>11, <1>12 DEF IInv

(* What is saved is what was, or one of the writes.                        *)
LEMMA RestartKeeps ==
  ASSUME IInv, Restart
  PROVE  IInv' /\ Prefix(saved, saved') /\ Prefix(saved', Content)
<1>1. PICK k \in 0..Len(writes) : saved' = IF k = 0 THEN saved ELSE writes[k]
  BY DEF Restart
<1>2. /\ phase' = "restoring" /\ state' = <<>>
      /\ writes' = <<>> /\ issued' = <<>> /\ writeError' = FALSE
      /\ open' = {} /\ primed' = {}
      /\ inbox' = [q \in Ports |-> <<>>]
      /\ serving' = [q \in Ports |-> None]
      /\ UNCHANGED <<gen, connected, outbox, mirror, outcome, sentOn, sent>>
  BY DEF Restart, page, history
<1>3. /\ saved \in States /\ state \in States /\ writes \in Seq(States) /\ Len(writes) \in Nat
      /\ Hides(saved) /\ Prefix(saved, saved) /\ Prefix(saved, Content) /\ Content \in States
      /\ \A i \in 1..Len(writes) :
           writes[i] \in States /\ Prefix(saved, writes[i]) /\ Prefix(writes[i], Content)
  <2>1. /\ saved \in States /\ state \in States /\ writes \in Seq(States) /\ Len(writes) \in Nat
        /\ Hides(saved)
    BY DEF IInv, StoreTyped, WritesInv
  <2>2. Prefix(saved, saved)
    BY <2>1, PrefixFacts DEF States
  <2>3. CASE phase = "ready"
    BY <2>1, <2>2, <2>3 DEF IInv, WritesInv, Content
  <2>4. CASE phase # "ready"
    <3>1. Len(writes) = 0 /\ Content = saved
      BY <2>4 DEF IInv, WritesInv, Content
    <3> QED
      BY <2>1, <2>2, <3>1
  <2> QED
    BY <2>3, <2>4
<1>4. saved' \in States /\ Prefix(saved, saved') /\ Prefix(saved', Content)
  BY <1>1, <1>3
<1>5. Hides(saved') /\ Content' = saved'
  BY <1>2, <1>3, <1>4, PrefixHides DEF Content
<1>6. StoreTyped' /\ ServerTyped' /\ PageTyped'
  <2>1. <<>> \in States /\ <<>> \in Seq(States) /\ <<>> \in Seq(Updates)
    BY DEF States
  <2> QED
    BY <1>2, <1>4, <2>1 DEF IInv, StoreTyped, ServerTyped, PageTyped
<1>7. WritesInv' /\ ServedInv'
  BY <1>2, <1>5 DEF WritesInv, ServedInv
<1>8. MessagesInv'
  <2>1. outbox \in [Pages -> Seq(Good(saved'))]
    <3>1. Good(saved) \subseteq Good(saved')
      BY <1>3, <1>4, GoodGrows
    <3>2. outbox \in [Pages -> Seq(Good(saved))]
      BY DEF IInv, MessagesInv
    <3> QED
      BY <3>1, <3>2
  <2> QED
    BY <1>2, <2>1 DEF IInv, MessagesInv, DefaultIsHidden
<1>9. OrderInv'
  <2>1. \A u \in Updates : Holds(Content', u) => Holds(Content, u)
    BY <1>3, <1>4, <1>5, PrefixFacts DEF States
  <2>2. \A q \in Ports : inbox'[q] = <<>>
    BY <1>2
  <2> QED
    BY <1>2, <2>1, <2>2, OrderKept
<1> QED
  BY <1>4, <1>6, <1>7, <1>8, <1>9 DEF IInv

-----------------------------------------------------------------------------
(* Every step keeps the invariant.                                         *)

LEMMA StepKeeps == IInv /\ [Next]_vars => IInv'
<1> SUFFICES ASSUME IInv, [Next]_vars PROVE IInv'
  OBVIOUS
<1>1. CASE UNCHANGED vars
  <2>1. /\ UNCHANGED <<store, serving>>
        /\ UNCHANGED <<open, inbox, primed, gen, connected, outbox, mirror, outcome>>
        /\ UNCHANGED <<sentOn, sent>>
    BY <1>1 DEF vars, server, page, history
  <2>2. StoreTyped' /\ WritesInv' /\ ServedInv' /\ Content' = Content
    BY <2>1, StoreKept
  <2>3. ServerTyped' /\ PageTyped'
    BY <2>1 DEF IInv, ServerTyped, PageTyped
  <2>4. MessagesInv'
    BY <2>1 DEF IInv, MessagesInv, DefaultIsHidden, store
  <2>5. OrderInv'
    BY <2>1, <2>2, OrderKept
  <2> QED
    BY <2>2, <2>3, <2>4, <2>5 DEF IInv
<1>2. ASSUME NEW p \in Pages, Connect(p) \/ Receive(p) \/ PageDisconnect(p)
      PROVE  IInv'
  BY <1>2, ConnectKeeps, ReceiveKeeps, PageDisconnectKeeps
<1>3. ASSUME NEW p \in Pages, NEW u \in Updates, Dispatch(p, u)
      PROVE  IInv'
  BY <1>3, DispatchKeeps
<1>4. ASSUME NEW u \in Updates, TimeOut(u)
      PROVE  IInv'
  BY <1>4, TimeOutKeeps
<1>5. ASSUME NEW q \in Ports,
             \/ BackgroundDisconnect(q) \/ Apply(q)
             \/ ApplyUnrestored(q) \/ Flush(q)
      PROVE  IInv'
  BY <1>5, BackgroundDisconnectKeeps, ApplyKeeps, ApplyUnrestoredKeeps, FlushKeeps
<1>6. ASSUME NEW failed \in BOOLEAN, WriteEnds(failed)
      PROVE  IInv'
  BY <1>6, WriteEndsKeeps
<1>7. CASE Restore \/ RestoreFails \/ Restart
  BY <1>7, RestoreKeeps, RestoreFailsKeeps, RestartKeeps
<1> QED
  BY <1>1, <1>2, <1>3, <1>4, <1>5, <1>6, <1>7 DEF Next

-----------------------------------------------------------------------------
(* Every step is a step of the durable log, or none.                       *)

LEMMA LogUnmoved ==
  ASSUME UNCHANGED <<saved, sentOn, sent, outcome>>, Content' = Content
  PROVE  UNCHANGED Log!logVars
  BY DEF Log!logVars, Content

LEMMA DispatchSends ==
  ASSUME IInv, NEW p \in Pages, NEW u \in Updates, Dispatch(p, u)
  PROVE  Log!Next
<1>1. PortOf(p) \in Ports
  BY PortFact DEF Dispatch, IInv
<1>2. Log!Send(u, PortOf(p))
  BY DEF Dispatch, Log!Send, store
<1> QED
  BY <1>1, <1>2 DEF Log!Next

LEMMA RejectFact ==
  ASSUME IInv, NEW us \in SUBSET Updates, \A u \in us : outcome[u] = "pending",
         outcome' = [u \in Updates |-> IF u \in us THEN "rejected" ELSE outcome[u]],
         UNCHANGED <<saved, phase, state, sentOn, sent>>
  PROVE  Log!Next
<1>1. Log!Reject(us)
  BY DEF Log!Reject
<1> QED
  BY <1>1 DEF Log!Next

LEMMA TimeOutRejects ==
  ASSUME IInv, NEW u \in Updates, TimeOut(u)
  PROVE  Log!Next
<1>1. outcome' = [v \in Updates |-> IF v \in {u} THEN "rejected" ELSE outcome[v]]
  BY DEF TimeOut, IInv, PageTyped
<1> QED
  BY <1>1, RejectFact DEF TimeOut, store, history

LEMMA PageDisconnectRejects ==
  ASSUME IInv, NEW p \in Pages, PageDisconnect(p)
  PROVE  Log!Next
<1> DEFINE us == {u \in Updates : outcome[u] = "pending" /\ sentOn[u] = PortOf(p)}
<1>1. outcome' = [u \in Updates |-> IF u \in us THEN "rejected" ELSE outcome[u]]
  BY DEF PageDisconnect
<1>2. us \in SUBSET Updates /\ \A u \in us : outcome[u] = "pending"
  OBVIOUS
<1> HIDE DEF us
<1> QED
  BY <1>1, <1>2, RejectFact DEF PageDisconnect, store, history

LEMMA ReceiveSettles ==
  ASSUME IInv, NEW p \in Pages, Receive(p)
  PROVE  Log!Next \/ UNCHANGED Log!logVars
<1> DEFINE m == Head(outbox[p])  u == m.update
<1>1. /\ m.type \in {"state", "result", "error"}
      /\ u # None => u \in Updates
      /\ u # None /\ m.type # "error" => Holds(saved, u)
  BY HeadGood DEF Receive
<1>2. /\ outcome' = IF u = None \/ outcome[u] # "pending" THEN outcome
           ELSE [outcome EXCEPT ![u] = IF m.type = "error" THEN "rejected" ELSE "resolved"]
      /\ UNCHANGED <<saved, phase, state, sentOn, sent>>
  BY DEF Receive, store, history
<1>3. /\ saved \in States /\ outcome \in [Updates -> {"new", "pending", "resolved", "rejected"}]
  BY DEF IInv, StoreTyped, PageTyped
<1> DEFINE t == m.type
<1> HIDE DEF m, u, t
<1>4. CASE u = None \/ outcome[u] # "pending"
  BY <1>2, <1>4, LogUnmoved DEF Content
<1>5. CASE u # None /\ outcome[u] = "pending" /\ m.type = "error"
  <2>1. outcome' = [v \in Updates |-> IF v \in {u} THEN "rejected" ELSE outcome[v]]
    BY <1>2, <1>3, <1>5
  <2>2. {u} \in SUBSET Updates /\ \A v \in {u} : outcome[v] = "pending"
    BY <1>1, <1>5
  <2> QED
    BY <1>2, <2>1, <2>2, RejectFact
<1>6. CASE u # None /\ outcome[u] = "pending" /\ m.type # "error"
  <2>1. DOMAIN saved = 1..Len(saved)
    BY <1>3 DEF States
  <2>2. Log!IsDurable(u)
    BY <1>1, <1>6, <2>1 DEF Log!IsDurable, Holds
  <2>3. Log!Acknowledge(u)
    BY <1>2, <1>6, <2>2 DEF Log!Acknowledge
  <2> QED
    BY <1>1, <1>6, <2>3 DEF Log!Next
<1> QED
  BY <1>4, <1>5, <1>6

LEMMA ApplyApplies ==
  ASSUME IInv, NEW q \in Ports, Apply(q)
  PROVE  Log!Next
<1> DEFINE u == Head(inbox[q])
<1>1. /\ phase = "ready" /\ phase' = "ready" /\ state' = Append(state, u)
      /\ UNCHANGED <<saved, sentOn, sent, outcome>>
  BY DEF Apply, Applied
<1>2. u \in Updates /\ Awaited(q, u) /\ q # None
  <2>1. /\ inbox[q] # <<>> /\ inbox[q] \in Seq(Updates)
    BY DEF Apply, IInv, ServerTyped
  <2>2. u = inbox[q][1] /\ 1 \in 1..Len(inbox[q]) /\ u \in Updates
    BY <2>1, HeadTailProperties, EmptySeq
  <2>3. Awaited(q, u)
    BY <2>2 DEF IInv, OrderInv
  <2>4. q # None
    BY BridgeAssumption DEF Ports
  <2> QED
    BY <2>2, <2>3, <2>4
<1> HIDE DEF u
<1>3. Content = state /\ state \in States /\ sent \in Seq(Updates)
  BY <1>1 DEF Content, IInv, StoreTyped, PageTyped
<1>4. DOMAIN state = 1..Len(state) /\ DOMAIN sent = 1..Len(sent)
  BY <1>3 DEF States
<1>5. ~Log!InLog(u)
  BY <1>1, <1>2, <1>3, <1>4 DEF Awaited, Holds, Log!InLog
<1>6. ASSUME NEW i \in DOMAIN state, state[i] \in Updates, sentOn[state[i]] = sentOn[u]
      PROVE  Log!Earlier(state[i], u)
  <2>1. Holds(Content, state[i])
    BY <1>3, <1>4, <1>6 DEF Holds
  <2>2. Before(sent, state[i], u)
    BY <1>2, <1>6, <2>1 DEF Awaited
  <2> QED
    BY <1>4, <2>2 DEF Before, Log!Earlier
<1>7. Log!Apply(u)
  BY <1>1, <1>2, <1>5, <1>6 DEF Log!Apply, Awaited
<1> QED
  BY <1>2, <1>7 DEF Log!Next

LEMMA WriteEndsPersists ==
  ASSUME IInv, NEW failed \in BOOLEAN, WriteEnds(failed)
  PROVE  Log!Next
<1>1. IInv' /\ Prefix(saved, saved') /\ Prefix(saved', state) /\ phase = "ready"
  BY WriteEndsKeeps
<1>2. UNCHANGED <<phase, state, sentOn, sent, outcome>>
  BY DEF WriteEnds, history
<1>3. saved \in States /\ saved' \in States /\ state \in States
  BY <1>1 DEF IInv, StoreTyped
<1>4. saved' = SubSeq(state, 1, Len(saved')) /\ Len(saved') \in 0..Len(state)
  BY <1>1, <1>3, PrefixFacts DEF States
<1>5. Len(saved') \in Len(saved)..Len(state)
  BY <1>1, <1>3, <1>4 DEF Prefix, States
<1>6. Log!Persist(Len(saved'))
  BY <1>1, <1>2, <1>4, <1>5 DEF Log!Persist
<1> QED
  BY <1>1, <1>5, <1>6 DEF Log!Next

LEMMA RestartCrashes ==
  ASSUME IInv, Restart
  PROVE  Log!Next
<1>1. IInv' /\ Prefix(saved, saved') /\ Prefix(saved', Content)
  BY RestartKeeps
<1>2. phase' = "restoring" /\ UNCHANGED <<sentOn, sent, outcome>>
  BY DEF Restart, history
<1>3. saved \in States /\ saved' \in States /\ Content \in States
  BY <1>1 DEF IInv, StoreTyped, Content
<1>4. saved' = SubSeq(Content, 1, Len(saved')) /\ Len(saved') \in 0..Len(Content)
  BY <1>1, <1>3, PrefixFacts DEF States
<1>5. Len(saved') \in Len(saved)..Len(Content)
  BY <1>1, <1>3, <1>4 DEF Prefix, States
<1>6. Log!Crash(Len(saved'))
  BY <1>2, <1>4, <1>5 DEF Log!Crash, Content
<1> QED
  BY <1>5, <1>6 DEF Log!Next, Content

LEMMA StepImplements == IInv /\ [Next]_vars => [Log!Next]_(Log!logVars)
<1> SUFFICES ASSUME IInv, [Next]_vars
             PROVE  Log!Next \/ UNCHANGED Log!logVars
  OBVIOUS
<1>1. CASE UNCHANGED vars
  BY <1>1, LogUnmoved DEF vars, store, history, Content
<1>2. ASSUME NEW p \in Pages, Connect(p)
      PROVE  UNCHANGED Log!logVars
  BY <1>2, LogUnmoved DEF Connect, store, history, Content
<1>3. ASSUME NEW q \in Ports, BackgroundDisconnect(q)
      PROVE  UNCHANGED Log!logVars
  BY <1>3, LogUnmoved DEF BackgroundDisconnect, store, history, Content
<1>4. ASSUME NEW q \in Ports, ApplyUnrestored(q)
      PROVE  UNCHANGED Log!logVars
  BY <1>4, LogUnmoved DEF ApplyUnrestored, history, Content
<1>5. ASSUME NEW q \in Ports, Flush(q)
      PROVE  UNCHANGED Log!logVars
  BY <1>5, LogUnmoved DEF Flush, history, Content
<1>6. CASE Restore
  BY <1>6, LogUnmoved DEF Restore, history, Content
<1>7. CASE RestoreFails
  BY <1>7, LogUnmoved DEF RestoreFails, history, Content
<1> QED
  BY <1>1, <1>2, <1>3, <1>4, <1>5, <1>6, <1>7, DispatchSends, TimeOutRejects,
     PageDisconnectRejects, ReceiveSettles, ApplyApplies, WriteEndsPersists,
     RestartCrashes DEF Next

LEMMA InitImplements == Init => Log!Init
  BY DEF Init, Log!Init

-----------------------------------------------------------------------------
(* The invariant holds in every state a run of the store reaches.          *)
THEOREM Inductive == Spec => []IInv
<1>1. Init => IInv
  BY InitIInv
<1>2. IInv /\ [Next]_vars => IInv'
  BY StepKeeps
<1> QED
  BY <1>1, <1>2, PTL DEF Spec

(* The shared store is a durable log (bridge.ts:67): updates are applied   *)
(* at most once and in the order of their ports, an acknowledged one is    *)
(* stored, and no write, crash or failed restore loses what is stored.     *)
THEOREM IsDurableLog == Spec => ImplementsLog
<1>1. Init => Log!Init
  BY InitImplements
<1>2. IInv /\ [Next]_vars => [Log!Next]_(Log!logVars)
  BY StepImplements
<1> QED
  BY <1>1, <1>2, Inductive, PTL DEF Spec, ImplementsLog, Log!Spec

(* No page shows the default state of a store that was not restored.       *)
THEOREM DefaultStaysHidden == Spec => []DefaultIsHidden
<1>1. IInv => DefaultIsHidden
  BY DEF IInv, MessagesInv
<1> QED
  BY <1>1, Inductive, PTL

(* Every variable stays within its type.                                   *)
THEOREM TypeIsKept == Spec => []TypeOK
<1>1. IInv => TypeOK
  <2> SUFFICES ASSUME IInv PROVE TypeOK
    OBVIOUS
  <2>1. \A q \in Ports : serving[q] # None =>
          serving[q].update \in Updates /\ serving[q].need \in -1..Len(writes)
    <3> SUFFICES ASSUME NEW q \in Ports, serving[q] # None
                 PROVE  serving[q].update \in Updates /\ serving[q].need \in -1..Len(writes)
      OBVIOUS
    <3>1. serving[q].update \in Updates /\ serving[q].need \in Int /\ Len(writes) \in Nat
      BY DEF IInv, ServerTyped, StoreTyped
    <3>2. serving[q].need = -1 \/ serving[q].need \in 1..Len(writes)
      BY DEF IInv, ServedInv
    <3> QED
      BY <3>1, <3>2
  <2> QED
    BY <2>1 DEF IInv, StoreTyped, ServerTyped, PageTyped, TypeOK, States
<1> QED
  BY <1>1, Inductive, PTL

-----------------------------------------------------------------------------
(* What the pages see. The states on their way to a page, and the one it   *)
(* shows, are prefixes of one another as long as its port is served        *)
(* (Chained, Live); an acknowledged update is in all of them, and saved    *)
(* (Acked); so is, with a result on its way, the update it is about        *)
(* (Results, Serving). Before the first restart nothing goes back at all   *)
(* (Forward).                                                              *)

Has(p, i) == outbox[p][i].state # None

Chained ==
  \A p \in Pages : \A i, j \in 1..Len(outbox[p]) :
    i <= j /\ Has(p, i) /\ Has(p, j) => Prefix(outbox[p][i].state, outbox[p][j].state)

Served(p) ==
  \/ restarts = 0
  \/ connected[p] /\ (PortOf(p) \in open \/ serving[PortOf(p)] # None)

Live ==
  \A p \in Pages : Served(p) =>
    \A i \in 1..Len(outbox[p]) : Has(p, i) =>
      phase = "ready" /\ Prefix(outbox[p][i].state, state)

Seen(u, p) ==
  /\ mirror[p] # None /\ Prefix(basis[u], mirror[p])
  /\ \A i \in 1..Len(outbox[p]) : Has(p, i) => Prefix(basis[u], outbox[p][i].state)

Acked ==
  \A u \in Updates : outcome[u] = "resolved" =>
    /\ Holds(saved, u) /\ Prefix(basis[u], saved)
    /\ sentOn[u] \in Ports /\ Seen(u, sentOn[u][1])

ResultOf(m, u) == m.update = u /\ u # None /\ m.type # "error"

Results ==
  \A p \in Pages : \A i \in 1..Len(outbox[p]) : \A u \in Updates :
    ResultOf(outbox[p][i], u) =>
      /\ sentOn[u] = PortOf(p) /\ Prefix(basis[u], saved)
      /\ Has(p, i) /\ Prefix(basis[u], outbox[p][i].state)

Serving ==
  \A q \in Ports : serving[q] # None =>
    LET u == serving[q].update IN
    /\ sentOn[u] = q /\ Prefix(basis[u], state)
    /\ serving[q].need # -1 => Prefix(basis[u], writes[serving[q].need])

Forward ==
  restarts = 0 => \A p \in Pages : mirror[p] # None =>
    /\ phase = "ready" /\ Prefix(mirror[p], state)
    /\ \A i \in 1..Len(outbox[p]) : Has(p, i) => Prefix(mirror[p], outbox[p][i].state)

SeenTyped == restarts \in Nat /\ basis \in [Updates -> States]

SeenInv ==
  /\ SeenTyped /\ Chained /\ Live /\ Acked /\ Results /\ Serving /\ Forward

(* A message on its way.                                                   *)
LEMMA MessageFact ==
  ASSUME IInv, NEW p \in Pages, NEW i \in 1..Len(outbox[p])
  PROVE  /\ outbox[p][i] \in Messages
         /\ outbox[p][i].update \in Updates \cup {None}
         /\ outbox[p][i].state \in States \cup {None}
         /\ \A u \in Updates : ResultOf(outbox[p][i], u) => Holds(saved, u)
<1>1. outbox[p] \in Seq(Good(saved))
  BY DEF IInv, MessagesInv
<1>2. outbox[p][i] \in Good(saved)
  BY <1>1
<1> QED
  BY <1>2 DEF Good, Messages, ResultOf

LEMMA StatesFact ==
  ASSUME IInv
  PROVE  /\ state \in States /\ saved \in States
         /\ \A p \in Pages : mirror[p] \in States \cup {None}
         /\ \A p \in Pages : outbox[p] \in Seq(Good(saved)) /\ Len(outbox[p]) \in Nat
         /\ phase = "ready" => Prefix(saved, state)
<1>1. \A p \in Pages : outbox[p] \in Seq(Good(saved))
  BY DEF IInv, MessagesInv
<1> QED
  BY <1>1 DEF IInv, StoreTyped, PageTyped, WritesInv

(* Message x is posted to page p.                                          *)
Grown(p, x) ==
  /\ Len(outbox'[p]) = Len(outbox[p]) + 1
  /\ \A i \in 1..Len(outbox[p]) : outbox'[p][i] = outbox[p][i]
  /\ outbox'[p][Len(outbox[p]) + 1] = x

Posts(p, x) ==
  /\ Grown(p, x) /\ Served(p)
  /\ x.state # None => x.state = state' /\ phase' = "ready"
  /\ \A u \in Updates : ResultOf(x, u) =>
       /\ sentOn[u] = PortOf(p) /\ Prefix(basis'[u], saved')
       /\ x.state # None

(* What a post leaves in the outbox of a page.                             *)
LEMMA GrownFact ==
  ASSUME NEW p \in Pages, Len(outbox[p]) \in Nat,
         \/ outbox'[p] = outbox[p]
         \/ \E x \in Messages : Posts(p, x)
  PROVE  \A i \in 1..Len(outbox'[p]) :
           \/ i \in 1..Len(outbox[p]) /\ outbox'[p][i] = outbox[p][i]
           \/ i = Len(outbox'[p]) /\ \E x \in Messages : Posts(p, x) /\ outbox'[p][i] = x
<1>1. CASE outbox'[p] = outbox[p]
  BY <1>1
<1>2. CASE \E x \in Messages : Posts(p, x)
  <2>1. PICK x \in Messages : Posts(p, x)
    BY <1>2
  <2>2. Grown(p, x)
    BY <2>1 DEF Posts
  <2> QED
    BY <2>1, <2>2 DEF Grown
<1> QED
  BY <1>1, <1>2

(* Steps after which the store holds what it held, and that post at most   *)
(* the new state, to ports that are served.                                *)
Onward ==
  /\ UNCHANGED <<gen, connected, mirror, outcome, sentOn, restarts>>
  /\ \A p \in Pages : outbox'[p] = outbox[p] \/ \E x \in Messages : Posts(p, x)
  /\ \A p \in Pages : Served(p)' => Served(p)
  /\ phase = "ready" => phase' = "ready" /\ Prefix(state, state')
  /\ Prefix(saved, saved')
  /\ basis' \in [Updates -> States]
  /\ \A u \in Updates : Holds(saved, u) => basis'[u] = basis[u]

(* A message in an outbox after such a step was there, or is the new one.  *)
LEMMA OnwardFact ==
  ASSUME IInv, SeenInv, IInv', Onward, NEW p \in Pages, NEW i \in 1..Len(outbox'[p])
  PROVE  \/ i \in 1..Len(outbox[p]) /\ outbox'[p][i] = outbox[p][i]
         \/ /\ i = Len(outbox'[p]) /\ Served(p)
            /\ Has(p, i)' => outbox'[p][i].state = state' /\ phase' = "ready"
            /\ \A u \in Updates : ResultOf(outbox'[p][i], u) =>
                 /\ sentOn[u] = PortOf(p) /\ Prefix(basis'[u], saved')
                 /\ Has(p, i)'
<1>1. Len(outbox[p]) \in Nat
  BY StatesFact
<1>2. \/ i \in 1..Len(outbox[p]) /\ outbox'[p][i] = outbox[p][i]
      \/ i = Len(outbox'[p]) /\ \E x \in Messages : Posts(p, x) /\ outbox'[p][i] = x
  BY <1>1, GrownFact DEF Onward
<1> QED
  BY <1>2 DEF Posts, Has

LEMMA OnwardKeeps ==
  ASSUME IInv, SeenInv, IInv', Onward
  PROVE  Chained' /\ Live' /\ Acked' /\ Results' /\ Forward'
<1>1. /\ state \in States /\ saved \in States /\ state' \in States /\ saved' \in States
      /\ \A p \in Pages : Len(outbox[p]) \in Nat /\ Len(outbox'[p]) \in Nat
      /\ \A p \in Pages : mirror[p] \in States \cup {None}
      /\ phase' = "ready" => Prefix(saved', state')
      /\ Prefix(state', state')
  <2>1. /\ state' \in States /\ saved' \in States
        /\ \A p \in Pages : outbox'[p] \in Seq(Good(saved')) /\ Len(outbox'[p]) \in Nat
        /\ phase' = "ready" => Prefix(saved', state')
    <3>1. \A p \in Pages : outbox'[p] \in Seq(Good(saved'))
      BY DEF IInv, MessagesInv
    <3> QED
      BY <3>1 DEF IInv, StoreTyped, WritesInv
  <2>2. Prefix(state', state')
    BY <2>1, PrefixFacts DEF States
  <2> QED
    BY <2>1, <2>2, StatesFact
<1>2. Prefix(saved, saved') /\ (phase = "ready" => phase' = "ready" /\ Prefix(state, state'))
  BY DEF Onward
<1>3. basis \in [Updates -> States] /\ basis' \in [Updates -> States]
  BY DEF Onward, SeenInv, SeenTyped
<1>4. \A r, s, t \in States : Prefix(r, s) /\ Prefix(s, t) => Prefix(r, t)
  BY PrefixTrans DEF States
<1>5. ASSUME NEW p \in Pages, Served(p), NEW i \in 1..Len(outbox[p]), Has(p, i)
      PROVE  /\ outbox[p][i].state \in States
             /\ phase = "ready" /\ Prefix(outbox[p][i].state, state)
             /\ Prefix(outbox[p][i].state, state')
  <2>1. phase = "ready" /\ Prefix(outbox[p][i].state, state)
    BY <1>5 DEF SeenInv, Live
  <2>2. outbox[p][i].state \in States
    BY <1>5, MessageFact DEF Has
  <2> QED
    BY <1>1, <1>2, <1>4, <2>1, <2>2
<1>6. Chained'
  <2> SUFFICES ASSUME NEW p \in Pages, NEW i \in 1..Len(outbox'[p]),
                      NEW j \in 1..Len(outbox'[p]), i <= j, Has(p, i)', Has(p, j)'
               PROVE  Prefix(outbox'[p][i].state, outbox'[p][j].state)
    BY DEF Chained
  <2>1. CASE j \in 1..Len(outbox[p]) /\ outbox'[p][j] = outbox[p][j]
    <3>1. i \in 1..Len(outbox[p]) /\ i <= j
      BY <1>1, <2>1
    <3>2. outbox'[p][i] = outbox[p][i]
      BY <3>1, <2>1, OnwardFact, <1>1
    <3> QED
      BY <2>1, <3>1, <3>2 DEF SeenInv, Chained, Has
  <2>2. CASE outbox'[p][j].state = state' /\ Served(p) /\ j = Len(outbox'[p])
    <3>1. CASE i \in 1..Len(outbox[p]) /\ outbox'[p][i] = outbox[p][i]
      BY <1>5, <2>2, <3>1 DEF Has
    <3>2. CASE outbox'[p][i].state = state'
      BY <1>1, <2>2, <3>2
    <3> QED
      BY <3>1, <3>2, OnwardFact
  <2> QED
    BY <2>1, <2>2, OnwardFact
<1>7. Live'
  <2> SUFFICES ASSUME NEW p \in Pages, Served(p)', NEW i \in 1..Len(outbox'[p]), Has(p, i)'
               PROVE  phase' = "ready" /\ Prefix(outbox'[p][i].state, state')
    BY DEF Live
  <2>1. Served(p)
    BY DEF Onward
  <2>2. CASE i \in 1..Len(outbox[p]) /\ outbox'[p][i] = outbox[p][i]
    BY <1>2, <1>5, <2>1, <2>2 DEF Has
  <2>3. CASE outbox'[p][i].state = state' /\ phase' = "ready"
    BY <1>1, <2>3
  <2> QED
    BY <2>2, <2>3, OnwardFact
<1>8. Acked'
  <2> SUFFICES ASSUME NEW u \in Updates, outcome[u] = "resolved"
               PROVE  /\ Holds(saved', u) /\ Prefix(basis'[u], saved')
                      /\ sentOn[u] \in Ports /\ Seen(u, sentOn[u][1])'
    BY DEF Acked, Onward
  <2>1. /\ Holds(saved, u) /\ Prefix(basis[u], saved)
        /\ sentOn[u] \in Ports /\ Seen(u, sentOn[u][1])
    BY DEF SeenInv, Acked
  <2>2. basis'[u] = basis[u] /\ sentOn' = sentOn /\ mirror' = mirror
    BY <2>1 DEF Onward
  <2>3. Holds(saved', u)
    BY <1>1, <1>2, <2>1, PrefixFacts DEF States
  <2>4. Prefix(basis[u], saved')
    BY <1>1, <1>2, <1>3, <1>4, <2>1
  <2>5. PICK p \in Pages : p = sentOn[u][1]
    BY <2>1 DEF Ports
  <2>6. ASSUME NEW i \in 1..Len(outbox'[p]), Has(p, i)'
        PROVE  Prefix(basis[u], outbox'[p][i].state)
    <3>1. CASE i \in 1..Len(outbox[p]) /\ outbox'[p][i] = outbox[p][i]
      BY <2>1, <2>5, <2>6, <3>1 DEF Seen, Has
    <3>2. CASE outbox'[p][i].state = state' /\ phase' = "ready"
      BY <1>1, <1>3, <1>4, <2>4, <3>2
    <3> QED
      BY <2>5, <2>6, <3>1, <3>2, OnwardFact
  <2>7. Seen(u, p)'
    BY <2>1, <2>2, <2>5, <2>6 DEF Seen, Has
  <2> QED
    BY <2>1, <2>2, <2>3, <2>4, <2>5, <2>7
<1>9. Results'
  <2> SUFFICES ASSUME NEW p \in Pages, NEW i \in 1..Len(outbox'[p]), NEW u \in Updates,
                      ResultOf(outbox'[p][i], u)
               PROVE  /\ sentOn[u] = PortOf(p) /\ Prefix(basis'[u], saved')
                      /\ Has(p, i)' /\ Prefix(basis'[u], outbox'[p][i].state)
    BY DEF Results, Onward, PortOf, ResultOf
  <2>1. CASE i \in 1..Len(outbox[p]) /\ outbox'[p][i] = outbox[p][i]
    <3>1. ResultOf(outbox[p][i], u) /\ Holds(saved, u)
      BY <2>1, MessageFact
    <3>2. /\ sentOn[u] = PortOf(p) /\ Prefix(basis[u], saved)
          /\ Has(p, i) /\ Prefix(basis[u], outbox[p][i].state)
      BY <2>1, <3>1 DEF SeenInv, Results
    <3>3. basis'[u] = basis[u]
      BY <3>1 DEF Onward
    <3> QED
      BY <1>1, <1>2, <1>3, <1>4, <2>1, <3>2, <3>3 DEF Has
  <2>2. CASE /\ sentOn[u] = PortOf(p) /\ Prefix(basis'[u], saved')
             /\ Has(p, i)' /\ outbox'[p][i].state = state' /\ phase' = "ready"
    BY <1>1, <1>3, <1>4, <2>2
  <2> QED
    BY <2>1, <2>2, OnwardFact
<1>10. Forward'
  <2> SUFFICES ASSUME restarts = 0, NEW p \in Pages, mirror[p] # None
               PROVE  /\ phase' = "ready" /\ Prefix(mirror[p], state')
                      /\ \A i \in 1..Len(outbox'[p]) : Has(p, i)' =>
                           Prefix(mirror[p], outbox'[p][i].state)
    BY DEF Forward, Onward
  <2>1. /\ phase = "ready" /\ Prefix(mirror[p], state)
        /\ \A i \in 1..Len(outbox[p]) : Has(p, i) => Prefix(mirror[p], outbox[p][i].state)
    BY DEF SeenInv, Forward
  <2>2. phase' = "ready" /\ Prefix(mirror[p], state')
    BY <1>1, <1>2, <1>4, <2>1
  <2>3. ASSUME NEW i \in 1..Len(outbox'[p]), Has(p, i)'
        PROVE  Prefix(mirror[p], outbox'[p][i].state)
    <3>1. CASE i \in 1..Len(outbox[p]) /\ outbox'[p][i] = outbox[p][i]
      BY <2>1, <2>3, <3>1 DEF Has
    <3>2. CASE outbox'[p][i].state = state'
      BY <2>2, <3>2
    <3> QED
      BY <2>3, <3>1, <3>2, OnwardFact
  <2> QED
    BY <2>2, <2>3
<1> QED
  BY <1>6, <1>7, <1>8, <1>9, <1>10

(* A post of one message per port.                                         *)
LEMMA PostGrows ==
  ASSUME IInv, NEW messages, Post(messages),
         \A q \in DOMAIN messages : \E x \in Messages : messages[q] = <<x>>
  PROVE  \A p \in Pages :
           \/ outbox'[p] = outbox[p]
           \/ /\ connected[p] /\ PortOf(p) \in DOMAIN messages
              /\ \E x \in Messages : messages[PortOf(p)] = <<x>> /\ Grown(p, x)
<1> SUFFICES ASSUME NEW p \in Pages, outbox'[p] # outbox[p]
             PROVE  /\ connected[p] /\ PortOf(p) \in DOMAIN messages
                    /\ \E x \in Messages : messages[PortOf(p)] = <<x>> /\ Grown(p, x)
  OBVIOUS
<1>1. /\ connected[p] /\ PortOf(p) \in DOMAIN messages
      /\ outbox'[p] = outbox[p] \o messages[PortOf(p)]
  BY DEF Post
<1>2. PICK x \in Messages : messages[PortOf(p)] = <<x>>
  BY <1>1
<1>3. outbox[p] \in Seq(Messages)
  <2>1. outbox[p] \in Seq(Good(saved)) /\ Good(saved) \subseteq Messages
    BY StatesFact DEF Good
  <2> QED
    BY <2>1
<1>4. <<x>> \in Seq(Messages) /\ Len(<<x>>) = 1 /\ <<x>>[1] = x
  OBVIOUS
<1>5. Grown(p, x)
  BY <1>1, <1>2, <1>3, <1>4, ConcatProperties DEF Grown
<1> QED
  BY <1>1, <1>2, <1>5

LEMMA SortsOfMessage ==
  /\ \A s \in States : /\ StateMessage(s) \in Messages /\ StateMessage(s).state = s
                       /\ \A u \in Updates : ~ResultOf(StateMessage(s), u)
  /\ \A v \in Updates : /\ Error(v) \in Messages /\ Error(v).state = None
                        /\ \A u \in Updates : ~ResultOf(Error(v), u)
  /\ \A v \in Updates, s \in States :
       /\ Result(v, s) \in Messages /\ Result(v, s).state = s
       /\ \A u \in Updates : ResultOf(Result(v, s), u) => u = v
<1>1. None \notin Updates
  BY BridgeAssumption
<1> QED
  BY <1>1 DEF StateMessage, Error, Result, Messages, ResultOf

(* Steps that post nothing and end no service.                             *)
LEMMA QuietKeeps ==
  ASSUME IInv, SeenInv, IInv',
         UNCHANGED <<gen, connected, mirror, outbox, outcome, sentOn, restarts, basis,
                     saved>>,
         \A q \in Ports : q \in open' => q \in open,
         \A q : serving'[q] = serving[q],
         phase = "ready" => phase' = "ready" /\ state' = state,
         \A p \in Pages : PortOf(p)' \in open' => PortOf(p)' \in open
  PROVE  Chained' /\ Live' /\ Acked' /\ Results' /\ Forward'
<1>1. /\ \A p \in Pages : PortOf(p)' = PortOf(p)
      /\ Prefix(saved, saved) /\ Prefix(state, state)
  BY StatesFact, PrefixFacts DEF PortOf, States
<1>2. Onward
  BY <1>1 DEF Onward, Served, SeenInv, SeenTyped
<1> QED
  BY <1>2, OnwardKeeps

LEMMA SameServing ==
  ASSUME SeenInv, UNCHANGED <<sentOn, basis, serving, state, writes>>
  PROVE  Serving'
  BY DEF SeenInv, Serving

LEMMA InitSeen == Init => SeenInv
<1> SUFFICES ASSUME Init PROVE SeenInv
  OBVIOUS
<1>1. /\ restarts = 0 /\ basis = [u \in Updates |-> <<>>]
      /\ outbox = [p \in Pages |-> <<>>] /\ mirror = [p \in Pages |-> None]
      /\ outcome = [u \in Updates |-> "new"] /\ serving = [q \in Ports |-> None]
      /\ <<>> \in States /\ \A p \in Pages : Len(outbox[p]) = 0
  BY DEF Init, States
<1>2. \A p \in Pages : \A i \in 1..Len(outbox[p]) : FALSE
  BY <1>1
<1>3. SeenTyped
  BY <1>1 DEF SeenTyped
<1>4. Chained /\ Live /\ Acked /\ Results /\ Serving /\ Forward
  BY <1>1, <1>2 DEF Chained, Live, Acked, Results, Serving, Forward
<1> QED
  BY <1>3, <1>4 DEF SeenInv

LEMMA StutterSeen ==
  ASSUME IInv, SeenInv, IInv', UNCHANGED vars
  PROVE  SeenInv'
<1>1. UNCHANGED <<store, server, page, outcome, history, restarts>>
  BY DEF vars
<1>2. Chained' /\ Live' /\ Acked' /\ Results' /\ Forward'
  BY <1>1, QuietKeeps DEF store, server, page, history
<1>3. Serving' /\ SeenTyped'
  BY <1>1, SameServing DEF SeenInv, SeenTyped, store, server, history
<1> QED
  BY <1>2, <1>3 DEF SeenInv

LEMMA RestoreFailsSeen ==
  ASSUME IInv, SeenInv, IInv', RestoreFails
  PROVE  SeenInv'
<1>1. /\ phase = "restoring"
      /\ UNCHANGED <<state, saved, writes, server, page, outcome, history, restarts>>
  BY DEF RestoreFails
<1>2. Chained' /\ Live' /\ Acked' /\ Results' /\ Forward'
  BY <1>1, QuietKeeps DEF server, page, history
<1>3. Serving' /\ SeenTyped'
  BY <1>1, SameServing DEF SeenInv, SeenTyped, server, history
<1> QED
  BY <1>2, <1>3 DEF SeenInv

LEMMA BackgroundDisconnectSeen ==
  ASSUME IInv, SeenInv, IInv', NEW q \in Ports, BackgroundDisconnect(q)
  PROVE  SeenInv'
<1>1. /\ open' = open \ {q}
      /\ UNCHANGED <<store, serving, page, outcome, history, restarts>>
  BY DEF BackgroundDisconnect
<1>2. Chained' /\ Live' /\ Acked' /\ Results' /\ Forward'
  BY <1>1, QuietKeeps DEF store, page, history
<1>3. Serving' /\ SeenTyped'
  BY <1>1, SameServing DEF SeenInv, SeenTyped, store, history
<1> QED
  BY <1>2, <1>3 DEF SeenInv

LEMMA TimeOutSeen ==
  ASSUME IInv, SeenInv, NEW u \in Updates, TimeOut(u)
  PROVE  SeenInv'
<1>1. /\ outcome' = [outcome EXCEPT ![u] = "rejected"]
      /\ UNCHANGED <<store, server, page, history, restarts>>
  BY DEF TimeOut
<1>2. \A v \in Updates : outcome'[v] = "resolved" => outcome[v] = "resolved"
  BY <1>1 DEF IInv, PageTyped
<1>3. Chained' /\ Live'
  BY <1>1 DEF SeenInv, Chained, Live, Served, Has, PortOf, store, server, page
<1>4. Acked'
  BY <1>1, <1>2 DEF SeenInv, Acked, Seen, Has, store, page, history
<1>5. Results'
  BY <1>1 DEF SeenInv, Results, Has, ResultOf, PortOf, store, page, history
<1>6. Serving' /\ SeenTyped'
  BY <1>1, SameServing DEF SeenInv, SeenTyped, store, server, history
<1>7. Forward'
  BY <1>1 DEF SeenInv, Forward, Has, store, page
<1> QED
  BY <1>3, <1>4, <1>5, <1>6, <1>7 DEF SeenInv

LEMMA PageDisconnectSeen ==
  ASSUME IInv, SeenInv, NEW r \in Pages, PageDisconnect(r)
  PROVE  SeenInv'
<1>1. /\ connected' = [connected EXCEPT ![r] = FALSE]
      /\ outbox' = [outbox EXCEPT ![r] = <<>>]
      /\ UNCHANGED <<store, server, gen, mirror, history, restarts>>
      /\ \A v \in Updates : outcome'[v] = "resolved" => outcome[v] = "resolved"
  BY DEF PageDisconnect
<1>2. /\ \A p \in Pages : connected'[p] => connected[p]
      /\ \A p \in Pages : outbox'[p] = outbox[p] \/ Len(outbox'[p]) = 0
  <2>1. /\ connected \in [Pages -> BOOLEAN]
        /\ \A p \in Pages : outbox'[p] = outbox[p] \/ outbox'[p] = <<>>
    BY <1>1 DEF IInv, PageTyped, MessagesInv
  <2>2. Len(<<>>) = 0
    OBVIOUS
  <2> QED
    BY <1>1, <2>1, <2>2
<1>3. \A p \in Pages : \A i \in 1..Len(outbox'[p]) : outbox'[p] = outbox[p]
  BY <1>2
<1>4. \A p \in Pages : Served(p)' => Served(p)
  BY <1>1, <1>2 DEF Served, PortOf, server
<1>5. Chained' /\ Live'
  BY <1>1, <1>3, <1>4 DEF SeenInv, Chained, Live, Has, store
<1>6. Acked'
  <2> SUFFICES ASSUME NEW v \in Updates, outcome'[v] = "resolved"
               PROVE  /\ Holds(saved, v) /\ Prefix(basis[v], saved)
                      /\ sentOn[v] \in Ports /\ Seen(v, sentOn[v][1])'
    BY <1>1 DEF Acked, store, history
  <2>1. /\ Holds(saved, v) /\ Prefix(basis[v], saved)
        /\ sentOn[v] \in Ports /\ Seen(v, sentOn[v][1])
    BY <1>1 DEF SeenInv, Acked
  <2>2. PICK p \in Pages : p = sentOn[v][1]
    BY <2>1 DEF Ports
  <2>3. Seen(v, p)'
    BY <1>1, <1>3, <2>1, <2>2 DEF Seen, Has, history
  <2> QED
    BY <1>1, <2>1, <2>2, <2>3 DEF history
<1>7. Results'
  BY <1>1, <1>3 DEF SeenInv, Results, Has, ResultOf, PortOf, store, history
<1>8. Serving' /\ SeenTyped'
  BY <1>1, SameServing DEF SeenInv, SeenTyped, store, server, history
<1>9. Forward'
  BY <1>1, <1>3 DEF SeenInv, Forward, Has, store
<1> QED
  BY <1>5, <1>6, <1>7, <1>8, <1>9 DEF SeenInv

(* An update that was not applied is neither saved nor served.             *)
LEMMA Unapplied ==
  ASSUME IInv, NEW u \in Updates, ~Holds(Content, u)
  PROVE  /\ ~Holds(saved, u)
         /\ \A q \in Ports : serving[q] # None => serving[q].update # u
<1>1. state \in States /\ saved \in States /\ writes \in Seq(States)
  BY DEF IInv, StoreTyped
<1>2. ~Holds(saved, u)
  BY <1>1, PrefixFacts DEF IInv, WritesInv, Content, States
<1>3. ASSUME NEW q \in Ports, serving[q] # None, serving[q].update = u
      PROVE  FALSE
  <2>1. phase = "ready" /\ ~Holds(state, u)
    BY <1>3 DEF IInv, ServedInv, Content
  <2>2. /\ serving[q].need # -1 /\ serving[q].need \in 1..Len(writes)
        /\ Holds(writes[serving[q].need], u)
    BY <1>3, <2>1 DEF IInv, ServedInv
  <2>3. writes[serving[q].need] \in States /\ Prefix(writes[serving[q].need], state)
    BY <1>1, <2>1, <2>2 DEF IInv, WritesInv
  <2> QED
    BY <1>1, <2>1, <2>2, <2>3, PrefixFacts DEF States
<1> QED
  BY <1>2, <1>3

LEMMA DispatchSeen ==
  ASSUME IInv, SeenInv, NEW p \in Pages, NEW u \in Updates, Dispatch(p, u)
  PROVE  SeenInv'
<1>1. /\ outcome[u] = "new" /\ outcome' = [outcome EXCEPT ![u] = "pending"]
      /\ sentOn' = [sentOn EXCEPT ![u] = PortOf(p)]
      /\ UNCHANGED <<store, open, serving, page, basis, restarts>>
  BY DEF Dispatch
<1>2. ~Holds(saved, u) /\ \A q \in Ports : serving[q] # None => serving[q].update # u
  <2>1. ~Holds(Content, u)
    BY <1>1 DEF IInv, OrderInv
  <2> QED
    BY <2>1, Unapplied
<1>3. /\ \A v \in Updates : outcome'[v] = "resolved" => outcome[v] = "resolved" /\ v # u
      /\ \A v \in Updates : v # u => sentOn'[v] = sentOn[v]
  BY <1>1 DEF IInv, PageTyped
<1>4. Chained' /\ Live'
  BY <1>1 DEF SeenInv, Chained, Live, Served, Has, PortOf, store, page
<1>5. Acked'
  BY <1>1, <1>3 DEF SeenInv, Acked, Seen, Has, store, page
<1>6. Results'
  <2> SUFFICES ASSUME NEW r \in Pages, NEW i \in 1..Len(outbox[r]), NEW v \in Updates,
                      ResultOf(outbox[r][i], v)
               PROVE  sentOn'[v] = sentOn[v]
    BY <1>1 DEF SeenInv, Results, Has, ResultOf, PortOf, store, page
  <2>1. Holds(saved, v)
    BY MessageFact
  <2> QED
    BY <1>2, <1>3, <2>1
<1>7. Serving'
  <2> SUFFICES ASSUME NEW q \in Ports, serving[q] # None
               PROVE  sentOn'[serving[q].update] = sentOn[serving[q].update]
    BY <1>1 DEF SeenInv, Serving, store
  <2>1. serving[q].update \in Updates
    BY DEF IInv, ServerTyped
  <2> QED
    BY <1>2, <1>3, <2>1
<1>8. Forward' /\ SeenTyped'
  BY <1>1 DEF SeenInv, SeenTyped, Forward, Has, store, page
<1> QED
  BY <1>4, <1>5, <1>6, <1>7, <1>8 DEF SeenInv

LEMMA ConnectSeen ==
  ASSUME IInv, SeenInv, NEW p \in Pages, Connect(p)
  PROVE  SeenInv'
<1>1. /\ gen' = [gen EXCEPT ![p] = @ + 1] /\ connected' = [connected EXCEPT ![p] = TRUE]
      /\ open' = open \cup {<<p, gen[p] + 1>>}
      /\ outbox' = [outbox EXCEPT ![p] =
           IF phase = "ready" THEN <<StateMessage(state)>> ELSE <<>>]
      /\ UNCHANGED <<store, serving, mirror, outcome, history, restarts>>
  BY DEF Connect
<1>2. ASSUME NEW r \in Pages, r # p
      PROVE  /\ outbox'[r] = outbox[r] /\ PortOf(r)' = PortOf(r)
             /\ Served(r)' => Served(r)
  <2>1. /\ outbox'[r] = outbox[r] /\ gen'[r] = gen[r] /\ connected'[r] = connected[r]
    BY <1>1, <1>2 DEF IInv, PageTyped, MessagesInv
  <2> QED
    BY <1>1, <1>2, <2>1 DEF Served, PortOf
<1>3. ASSUME NEW i \in 1..Len(outbox'[p])
      PROVE  /\ i = 1 /\ phase = "ready" /\ outbox'[p][i].state = state
             /\ \A u \in Updates : ~ResultOf(outbox'[p][i], u)
  <2>1. outbox'[p] = IF phase = "ready" THEN <<StateMessage(state)>> ELSE <<>>
    BY <1>1 DEF IInv, MessagesInv
  <2>2. phase = "ready" /\ i = 1 /\ outbox'[p][i] = StateMessage(state)
    BY <1>3, <2>1
  <2> QED
    BY <2>2, SortsOfMessage, StatesFact
<1>4. /\ state \in States /\ saved \in States /\ Prefix(state, state)
      /\ phase = "ready" => Prefix(saved, state)
      /\ basis \in [Updates -> States]
  BY StatesFact, PrefixFacts DEF States, SeenInv, SeenTyped
<1>5. Chained'
  BY <1>2, <1>3, <1>4 DEF SeenInv, Chained, Has
<1>6. Live'
  BY <1>1, <1>2, <1>3, <1>4 DEF SeenInv, Live, Has, store
<1>7. Acked'
  <2> SUFFICES ASSUME NEW u \in Updates, outcome[u] = "resolved"
               PROVE  Seen(u, sentOn[u][1])'
    BY <1>1 DEF SeenInv, Acked, store, history
  <2>1. /\ Holds(saved, u) /\ Prefix(basis[u], saved)
        /\ sentOn[u] \in Ports /\ Seen(u, sentOn[u][1])
    BY DEF SeenInv, Acked
  <2>2. PICK r \in Pages : r = sentOn[u][1]
    BY <2>1 DEF Ports
  <2>3. phase = "ready" => Prefix(basis[u], state)
    BY <1>4, <2>1, PrefixTrans DEF States
  <2>4. Seen(u, r)'
    BY <1>1, <1>2, <1>3, <2>1, <2>2, <2>3 DEF Seen, Has, history
  <2> QED
    BY <1>1, <2>2, <2>4 DEF history
<1>8. Results'
  BY <1>1, <1>2, <1>3 DEF SeenInv, Results, Has, ResultOf, store, history
<1>9. Serving' /\ SeenTyped'
  BY <1>1, SameServing DEF SeenInv, SeenTyped, store, history
<1>10. Forward'
  BY <1>1, <1>2, <1>3 DEF SeenInv, Forward, Has, store
<1> QED
  BY <1>5, <1>6, <1>7, <1>8, <1>9, <1>10 DEF SeenInv

(* What a page shows next was the first of what was on its way.            *)
LEMMA ReceiveSeen ==
  ASSUME IInv, SeenInv, NEW r \in Pages, Receive(r)
  PROVE  SeenInv'
<1> DEFINE m == outbox[r][1]
<1>1. /\ connected[r] /\ 1 \in 1..Len(outbox[r]) /\ outbox'[r] = Tail(outbox[r])
      /\ Len(outbox'[r]) \in Nat
      /\ \A i \in 1..Len(outbox'[r]) :
           i + 1 \in 1..Len(outbox[r]) /\ outbox'[r][i] = outbox[r][i + 1]
      /\ \A p \in Pages : p # r => outbox'[p] = outbox[p]
      /\ Head(outbox[r]) = m
  <2>1. outbox \in [Pages -> Seq(Good(saved))] /\ outbox[r] # <<>> /\ connected[r]
        /\ outbox' = [outbox EXCEPT ![r] = Tail(@)]
    BY DEF IInv, MessagesInv, Receive
  <2>2. /\ outbox[r] \in Seq(Good(saved)) /\ outbox'[r] = Tail(outbox[r])
        /\ \A p \in Pages : p # r => outbox'[p] = outbox[p]
    BY <2>1
  <2> QED
    BY <2>1, <2>2, HeadTailProperties, EmptySeq
<1>2. /\ mirror' = IF m.state = None THEN mirror ELSE [mirror EXCEPT ![r] = m.state]
      /\ outcome' = IF m.update = None \/ outcome[m.update] # "pending" THEN outcome
           ELSE [outcome EXCEPT ![m.update] = IF m.type = "error" THEN "rejected" ELSE "resolved"]
      /\ UNCHANGED <<store, server, gen, connected, history, restarts>>
  BY <1>1 DEF Receive
<1>3. /\ m.update \in Updates \cup {None} /\ m.state \in States \cup {None}
      /\ \A u \in Updates : ResultOf(m, u) => Holds(saved, u)
  BY <1>1, MessageFact
<1>4. /\ \A v \in Updates : outcome'[v] = "resolved" => outcome[v] = "resolved" \/ ResultOf(m, v)
      /\ mirror'[r] = IF m.state = None THEN mirror[r] ELSE m.state
      /\ \A p \in Pages : p # r => mirror'[p] = mirror[p]
  <2>1. None \notin Updates
    BY BridgeAssumption
  <2> HIDE DEF m
  <2> QED
    BY <1>2, <1>3, <2>1 DEF IInv, PageTyped, ResultOf
<1>5. /\ basis \in [Updates -> States]
      /\ \A p \in Pages : \A i \in 1..Len(outbox[p]) : outbox[p][i].state \in States \cup {None}
      /\ \A a, b, c \in States : Prefix(a, b) /\ Prefix(b, c) => Prefix(a, c)
  BY MessageFact, PrefixTrans DEF SeenInv, SeenTyped, States
<1>6. ASSUME NEW i \in 1..Len(outbox'[r])
      PROVE  /\ Has(r, i)' <=> Has(r, i + 1)
             /\ m.state # None /\ Has(r, i)' =>
                  Prefix(m.state, outbox'[r][i].state) /\ outbox'[r][i].state \in States
  <2>1. 1 <= i + 1 /\ i + 1 \in 1..Len(outbox[r]) /\ outbox'[r][i] = outbox[r][i + 1]
    BY <1>1, <1>6
  <2> QED
    BY <1>1, <1>5, <2>1 DEF SeenInv, Chained, Has
<1>7. Chained'
  <2> SUFFICES ASSUME NEW p \in Pages, NEW i \in 1..Len(outbox'[p]),
                      NEW j \in 1..Len(outbox'[p]), i <= j, Has(p, i)', Has(p, j)'
               PROVE  Prefix(outbox'[p][i].state, outbox'[p][j].state)
    BY DEF Chained
  <2>1. CASE p = r
    <3>1. /\ i + 1 \in 1..Len(outbox[r]) /\ j + 1 \in 1..Len(outbox[r])
          /\ outbox'[r][i] = outbox[r][i + 1] /\ outbox'[r][j] = outbox[r][j + 1]
      BY <1>1, <2>1
    <3>4. i + 1 <= j + 1
      BY <1>1, <2>1
    <3>2. Has(r, i + 1) /\ Has(r, j + 1)
      BY <2>1, <3>1 DEF Has
    <3>3. Prefix(outbox[r][i + 1].state, outbox[r][j + 1].state)
      BY <3>1, <3>2, <3>4 DEF SeenInv, Chained
    <3> QED
      BY <2>1, <3>1, <3>3
  <2>2. CASE p # r
    BY <1>1, <2>2 DEF SeenInv, Chained, Has
  <2> QED
    BY <2>1, <2>2
<1>8. ASSUME NEW p \in Pages, NEW i \in 1..Len(outbox'[p])
      PROVE  \E j \in 1..Len(outbox[p]) : outbox'[p][i] = outbox[p][j]
  <2>1. CASE p = r
    <3>1. i + 1 \in 1..Len(outbox[r]) /\ outbox'[r][i] = outbox[r][i + 1]
      BY <1>1, <1>8, <2>1
    <3> QED
      BY <2>1, <3>1
  <2> QED
    BY <1>1, <1>8, <2>1
<1> HIDE DEF m
<1>13. Live'
  <2> SUFFICES ASSUME NEW p \in Pages, Served(p)', NEW i \in 1..Len(outbox'[p]), Has(p, i)'
               PROVE  phase = "ready" /\ Prefix(outbox'[p][i].state, state)
    BY <1>2 DEF Live, store
  <2>1. PICK j \in 1..Len(outbox[p]) : outbox'[p][i] = outbox[p][j]
    BY <1>8
  <2>2. Served(p) /\ Has(p, j)
    BY <1>2, <2>1 DEF Served, Has, PortOf, server
  <2> QED
    BY <2>1, <2>2 DEF SeenInv, Live
<1>9. Acked'
  <2> SUFFICES ASSUME NEW u \in Updates, outcome'[u] = "resolved"
               PROVE  /\ Holds(saved, u) /\ Prefix(basis[u], saved)
                      /\ sentOn[u] \in Ports /\ Seen(u, sentOn[u][1])'
    BY <1>2 DEF Acked, store, history
  <2>1. CASE outcome[u] = "resolved"
    <3>1. /\ Holds(saved, u) /\ Prefix(basis[u], saved)
          /\ sentOn[u] \in Ports /\ Seen(u, sentOn[u][1])
      BY <2>1 DEF SeenInv, Acked
    <3>2. PICK p \in Pages : p = sentOn[u][1]
      BY <3>1 DEF Ports
    <3>3. CASE p = r
      <4>1. mirror'[r] # None /\ Prefix(basis[u], mirror'[r])
        BY <1>1, <1>4, <3>1, <3>2, <3>3 DEF Seen, Has, m
      <4>2. ASSUME NEW i \in 1..Len(outbox'[r]), Has(r, i)'
            PROVE  Prefix(basis[u], outbox'[r][i].state)
        BY <1>1, <1>6, <3>1, <3>2, <3>3, <4>2 DEF Seen, Has
      <4> QED
        BY <1>2, <3>1, <3>2, <3>3, <4>1, <4>2 DEF Seen, history
    <3>4. CASE p # r
      BY <1>1, <1>2, <1>4, <3>1, <3>2, <3>4 DEF Seen, Has, history
    <3> QED
      BY <3>3, <3>4
  <2>2. CASE ResultOf(m, u)
    <3>1. /\ sentOn[u] = PortOf(r) /\ Prefix(basis[u], saved)
          /\ m.state # None /\ Prefix(basis[u], m.state)
      BY <1>1, <2>2 DEF SeenInv, Results, Has, m
    <3>2. PortOf(r) \in Ports /\ PortOf(r)[1] = r /\ Holds(saved, u)
      BY <1>1, <1>3, <2>2, PortFact DEF IInv, PortOf
    <3>3. mirror'[r] # None /\ Prefix(basis[u], mirror'[r])
      BY <1>4, <3>1
    <3>4. ASSUME NEW i \in 1..Len(outbox'[r]), Has(r, i)'
          PROVE  Prefix(basis[u], outbox'[r][i].state)
      BY <1>3, <1>5, <1>6, <3>1, <3>4
    <3>5. Seen(u, r)'
      BY <1>2, <3>3, <3>4 DEF Seen, history
    <3> QED
      BY <1>2, <3>1, <3>2, <3>5 DEF history
  <2> QED
    BY <1>4, <2>1, <2>2
<1>10. Results'
  <2> SUFFICES ASSUME NEW p \in Pages, NEW i \in 1..Len(outbox'[p]), NEW u \in Updates,
                      ResultOf(outbox'[p][i], u)
               PROVE  /\ sentOn[u] = PortOf(p) /\ Prefix(basis[u], saved)
                      /\ Has(p, i)' /\ Prefix(basis[u], outbox'[p][i].state)
    BY <1>2 DEF Results, ResultOf, PortOf, store, history
  <2>1. PICK j \in 1..Len(outbox[p]) : outbox'[p][i] = outbox[p][j]
    BY <1>8
  <2>2. ResultOf(outbox[p][j], u)
    BY <2>1
  <2> QED
    BY <2>1, <2>2 DEF SeenInv, Results, Has
<1>11. Serving' /\ SeenTyped'
  BY <1>2, SameServing DEF SeenInv, SeenTyped, store, server, history
<1>12. Forward'
  <2> SUFFICES ASSUME restarts = 0, NEW p \in Pages, mirror'[p] # None
               PROVE  /\ phase = "ready" /\ Prefix(mirror'[p], state)
                      /\ \A i \in 1..Len(outbox'[p]) : Has(p, i)' =>
                           Prefix(mirror'[p], outbox'[p][i].state)
    BY <1>2 DEF Forward, store
  <2>1. CASE p # r
    BY <1>1, <1>4, <2>1 DEF SeenInv, Forward, Has
  <2>2. CASE p = r /\ m.state = None
    BY <1>1, <1>4, <1>6, <2>2 DEF SeenInv, Forward, Has
  <2>3. CASE p = r /\ m.state # None
    <3>1. phase = "ready" /\ Prefix(m.state, state)
      BY <1>1, <2>3 DEF SeenInv, Live, Served, Has, m
    <3> QED
      BY <1>4, <1>6, <2>3, <3>1
  <2> QED
    BY <2>1, <2>2, <2>3
<1> QED
  BY <1>7, <1>9, <1>10, <1>11, <1>12, <1>13 DEF SeenInv

(* A post whose messages are those that Onward allows.                     *)
LEMMA PostPosts ==
  ASSUME IInv, NEW messages, Post(messages),
         \A q \in DOMAIN messages : q \in open \/ (q \in Ports /\ serving[q] # None),
         \A q \in DOMAIN messages : \E x \in Messages :
           /\ messages[q] = <<x>>
           /\ x.state # None => x.state = state' /\ phase' = "ready"
           /\ \A u \in Updates : ResultOf(x, u) =>
                sentOn[u] = q /\ Prefix(basis'[u], saved') /\ x.state # None
  PROVE  \A p \in Pages : outbox'[p] = outbox[p] \/ \E x \in Messages : Posts(p, x)
<1> SUFFICES ASSUME NEW p \in Pages, outbox'[p] # outbox[p]
             PROVE  \E x \in Messages : Posts(p, x)
  OBVIOUS
<1>1. /\ connected[p] /\ PortOf(p) \in DOMAIN messages
      /\ \E x \in Messages : messages[PortOf(p)] = <<x>> /\ Grown(p, x)
  BY PostGrows
<1>2. PICK x \in Messages : messages[PortOf(p)] = <<x>> /\ Grown(p, x)
  BY <1>1
<1>3. PICK y \in Messages :
        /\ messages[PortOf(p)] = <<y>>
        /\ y.state # None => y.state = state' /\ phase' = "ready"
        /\ \A u \in Updates : ResultOf(y, u) =>
             sentOn[u] = PortOf(p) /\ Prefix(basis'[u], saved') /\ y.state # None
  BY <1>1
<1>4. x = y
  BY <1>2, <1>3
<1>5. Served(p)
  BY <1>1 DEF Served
<1> QED
  BY <1>2, <1>3, <1>4, <1>5 DEF Posts

LEMMA RestoreSeen ==
  ASSUME IInv, SeenInv, IInv', Restore
  PROVE  SeenInv'
<1>1. /\ phase = "restoring" /\ phase' = "ready" /\ state' = saved
      /\ Post([q \in open |-> <<StateMessage(saved)>>])
      /\ UNCHANGED <<saved, writes, server, gen, connected, mirror, outcome, history, restarts>>
  BY DEF Restore
<1>2. \A q \in Ports : serving[q] = None
  BY <1>1 DEF IInv, ServedInv
<1>3. /\ saved \in States /\ Prefix(saved, saved)
      /\ basis \in [Updates -> States]
      /\ StateMessage(saved) \in Messages /\ StateMessage(saved).state = saved
      /\ \A u \in Updates : ~ResultOf(StateMessage(saved), u)
  BY StatesFact, PrefixFacts, SortsOfMessage DEF States, SeenInv, SeenTyped
<1>4. \A p \in Pages : outbox'[p] = outbox[p] \/ \E x \in Messages : Posts(p, x)
  <2> DEFINE messages == [q \in open |-> <<StateMessage(saved)>>]
  <2>1. DOMAIN messages = open /\ \A q \in open : messages[q] = <<StateMessage(saved)>>
    OBVIOUS
  <2>2. Post(messages)
    BY <1>1
  <2> HIDE DEF messages
  <2> QED
    BY <1>1, <1>3, <2>1, <2>2, PostPosts
<1>5. Onward
  BY <1>1, <1>3, <1>4 DEF Onward, Served, PortOf, server, history
<1>6. Chained' /\ Live' /\ Acked' /\ Results' /\ Forward'
  BY <1>5, OnwardKeeps
<1>7. Serving' /\ SeenTyped'
  BY <1>1, <1>2 DEF Serving, SeenInv, SeenTyped, server, history
<1> QED
  BY <1>6, <1>7 DEF SeenInv

LEMMA ApplySeen ==
  ASSUME IInv, SeenInv, IInv', NEW q \in Ports, Apply(q)
  PROVE  SeenInv'
<1> DEFINE u == Head(inbox[q])  new == Append(state, u)
<1>1. /\ phase = "ready" /\ inbox[q] # <<>> /\ q \in open /\ serving[q] = None
      /\ phase' = "ready" /\ state' = new
      /\ serving' = [serving EXCEPT ![q] = [update |-> u, need |-> -1]]
      /\ basis' = [basis EXCEPT ![u] = new]
      /\ Post([r \in open |-> <<StateMessage(new)>>])
      /\ UNCHANGED <<saved, writes, open, gen, connected, mirror, outcome, sentOn, restarts>>
  BY DEF Apply, Applied
<1>2. u \in Updates /\ sentOn[u] = q /\ ~Holds(Content, u)
  <2>1. inbox[q] \in Seq(Updates)
    BY DEF IInv, ServerTyped
  <2>2. u = inbox[q][1] /\ 1 \in 1..Len(inbox[q]) /\ u \in Updates
    BY <1>1, <2>1, HeadTailProperties, EmptySeq
  <2>3. Awaited(q, u)
    BY <2>2 DEF IInv, OrderInv
  <2> QED
    BY <2>2, <2>3 DEF Awaited
<1> HIDE DEF u
<1>3. ~Holds(saved, u) /\ \A r \in Ports : serving[r] # None => serving[r].update # u
  BY <1>2, Unapplied
<1>4. /\ state \in States /\ new \in States /\ saved \in States
      /\ Prefix(state, new) /\ Prefix(saved, saved) /\ Prefix(new, new)
      /\ basis \in [Updates -> States] /\ writes \in Seq(States)
      /\ serving \in [Ports -> [update : Updates, need : Int] \cup {None}]
  <2>1. state \in States /\ saved \in States
    BY StatesFact
  <2>2. new \in States /\ Prefix(state, new)
    BY <1>2, <2>1, PrefixAppend DEF States
  <2> QED
    BY <2>1, <2>2, PrefixFacts DEF States, SeenInv, SeenTyped, IInv, StoreTyped, ServerTyped
<1> HIDE DEF new
<1>5. /\ StateMessage(new) \in Messages /\ StateMessage(new).state = new
      /\ \A v \in Updates : ~ResultOf(StateMessage(new), v)
  BY <1>4, SortsOfMessage
<1>6. \A p \in Pages : outbox'[p] = outbox[p] \/ \E x \in Messages : Posts(p, x)
  <2> DEFINE messages == [r \in open |-> <<StateMessage(new)>>]
  <2>1. DOMAIN messages = open /\ \A r \in open : messages[r] = <<StateMessage(new)>>
    OBVIOUS
  <2>2. Post(messages)
    BY <1>1
  <2> HIDE DEF messages
  <2> QED
    BY <1>1, <1>5, <2>1, <2>2, PostPosts
<1>7. /\ basis' \in [Updates -> States] /\ basis'[u] = new
      /\ \A v \in Updates : v # u => basis'[v] = basis[v]
      /\ \A v \in Updates : Holds(saved, v) => basis'[v] = basis[v]
  BY <1>1, <1>2, <1>3, <1>4
<1>8. \A p \in Pages : Served(p)' => Served(p)
  <2>1. ASSUME NEW p \in Pages, connected[p], serving'[PortOf(p)] # None
        PROVE  PortOf(p) \in open \/ serving[PortOf(p)] # None
    <3>1. CASE PortOf(p) = q
      BY <1>1, <3>1
    <3>2. CASE PortOf(p) # q
      BY <1>1, <1>4, <2>1, <3>2, PortFact DEF IInv
    <3> QED
      BY <3>1, <3>2
  <2> QED
    BY <1>1, <2>1 DEF Served, PortOf
<1>9. Onward
  BY <1>1, <1>4, <1>6, <1>7, <1>8 DEF Onward
<1>10. Chained' /\ Live' /\ Acked' /\ Results' /\ Forward'
  BY <1>9, OnwardKeeps
<1>11. Serving'
  <2> SUFFICES ASSUME NEW r \in Ports, serving'[r] # None
               PROVE  LET v == serving'[r].update IN
                      /\ sentOn[v] = r /\ Prefix(basis'[v], new)
                      /\ serving'[r].need # -1 => Prefix(basis'[v], writes[serving'[r].need])
    BY <1>1 DEF Serving
  <2>1. CASE r = q
    <3>1. serving'[r] = [update |-> u, need |-> -1]
      BY <1>1, <1>4, <2>1
    <3> QED
      BY <1>2, <1>4, <1>7, <2>1, <3>1
  <2>2. CASE r # q
    <3>1. serving'[r] = serving[r] /\ serving[r].update \in Updates /\ serving[r].update # u
      BY <1>1, <1>3, <1>4, <2>2
    <3>2. /\ sentOn[serving[r].update] = r /\ Prefix(basis[serving[r].update], state)
          /\ serving[r].need # -1 =>
               Prefix(basis[serving[r].update], writes[serving[r].need])
      BY <3>1 DEF SeenInv, Serving
    <3>3. Prefix(basis[serving[r].update], new)
      BY <1>4, <3>1, <3>2, PrefixTrans DEF States
    <3> QED
      BY <1>7, <3>1, <3>2, <3>3
  <2> QED
    BY <2>1, <2>2
<1>12. SeenTyped'
  BY <1>1, <1>7 DEF SeenInv, SeenTyped
<1> QED
  BY <1>10, <1>11, <1>12 DEF SeenInv

LEMMA ApplyUnrestoredSeen ==
  ASSUME IInv, SeenInv, IInv', NEW q \in Ports, ApplyUnrestored(q)
  PROVE  SeenInv'
<1> DEFINE u == Head(inbox[q])
<1>1. /\ phase = "failed" /\ q \in open
      /\ \/ Post([r \in {q} |-> <<Error(u)>>])
         \/ outbox' = outbox
      /\ UNCHANGED <<phase, saved, writes, open, serving, gen, connected, mirror, outcome,
                     history, restarts>>
  BY DEF ApplyUnrestored
<1>2. u \in Updates
  BY HeadTailProperties DEF ApplyUnrestored, IInv, ServerTyped
<1> HIDE DEF u
<1>3. \A r \in Ports : serving[r] = None
  BY <1>1 DEF IInv, ServedInv
<1>4. /\ Error(u) \in Messages /\ Error(u).state = None
      /\ \A v \in Updates : ~ResultOf(Error(u), v)
  BY <1>2, SortsOfMessage
<1>5. \A p \in Pages : outbox'[p] = outbox[p] \/ \E x \in Messages : Posts(p, x)
  <2> DEFINE messages == [r \in {q} |-> <<Error(u)>>]
  <2>1. DOMAIN messages = {q} /\ messages[q] = <<Error(u)>>
    OBVIOUS
  <2>2. outbox' = outbox \/ Post(messages)
    BY <1>1
  <2> HIDE DEF messages
  <2> QED
    BY <1>1, <1>4, <2>1, <2>2, PostPosts
<1>6. /\ saved \in States /\ Prefix(saved, saved) /\ basis \in [Updates -> States]
  BY StatesFact, PrefixFacts DEF States, SeenInv, SeenTyped
<1>7. Onward
  BY <1>1, <1>5, <1>6 DEF Onward, Served, PortOf, history
<1>8. Chained' /\ Live' /\ Acked' /\ Results' /\ Forward'
  BY <1>7, OnwardKeeps
<1>9. Serving' /\ SeenTyped'
  BY <1>1, <1>3 DEF Serving, SeenInv, SeenTyped, history
<1> QED
  BY <1>8, <1>9 DEF SeenInv

LEMMA StateIsSome == \A s \in States : s # None
  BY BridgeAssumption DEF States

LEMMA FlushSeen ==
  ASSUME IInv, SeenInv, IInv', NEW q \in Ports, Flush(q)
  PROVE  SeenInv'
<1> DEFINE u == serving[q].update
           answer == IF writeError THEN Error(u) ELSE Result(u, state)
<1>1. /\ serving \in [Ports -> [update : Updates, need : Int] \cup {None}]
      /\ serving[q] = [update |-> u, need |-> -1] /\ serving[q] # None /\ u \in Updates
      /\ phase = "ready" /\ state \in States /\ saved \in States
      /\ Prefix(state, state) /\ Prefix(saved, saved)
  <2>1. /\ serving[q] # None /\ serving[q].need = -1
        /\ serving \in [Ports -> [update : Updates, need : Int] \cup {None}]
    BY DEF Flush, IInv, ServerTyped
  <2>2. serving[q] \in [update : Updates, need : Int]
    BY <2>1
  <2>3. phase = "ready"
    BY <2>1 DEF IInv, ServedInv
  <2> QED
    BY <2>1, <2>2, <2>3, StatesFact, PrefixFacts DEF States
<1>2. sentOn[u] = q /\ Prefix(basis[u], state)
  BY <1>1 DEF SeenInv, Serving
<1>3. /\ writes' = IF state = issued THEN writes ELSE Append(writes, state)
      /\ UNCHANGED <<phase, state, saved, writeError, open, gen, connected, mirror, outcome,
                     history, restarts>>
      /\ \/ /\ writes' = <<>> /\ serving' = [serving EXCEPT ![q] = None]
            /\ Post([r \in {q} |->
                 <<IF writeError THEN Error(serving[r].update)
                   ELSE Result(serving[r].update, state)>>])
         \/ /\ writes' # <<>> /\ outbox' = outbox
            /\ serving' = [serving EXCEPT ![q].need = Len(writes')]
  BY DEF Flush, Answer
<1>4. /\ Len(writes') \in Nat /\ \A i \in 1..Len(writes) : writes'[i] = writes[i]
      /\ writes' # <<>> => writes'[Len(writes')] = state
      /\ writes' = <<>> => writes = <<>> /\ issued = state
  BY <1>1, <1>3, FlushedFact
<1>5. basis \in [Updates -> States]
  BY DEF SeenInv, SeenTyped
<1>6. /\ serving'[q] = None \/ serving'[q] = [update |-> u, need |-> Len(writes')]
      /\ serving'[q] # None => writes' # <<>>
      /\ \A r \in Ports : r # q => serving'[r] = serving[r]
  BY <1>1, <1>3
<1>7. \A p \in Pages : outbox'[p] = outbox[p] \/ \E x \in Messages : Posts(p, x)
  <2>1. CASE writes' = <<>>
    <3> DEFINE messages == [r \in {q} |->
                 <<IF writeError THEN Error(serving[r].update)
                   ELSE Result(serving[r].update, state)>>]
    <3>1. DOMAIN messages = {q} /\ messages[q] = <<answer>>
      OBVIOUS
    <3>2. Post(messages)
      BY <1>3, <2>1
    <3>3. ~writeError => saved = state
      BY <1>1, <1>4, <2>1 DEF IInv, WritesInv
    <3>4. answer \in Messages /\ (answer.state # None => answer.state = state)
      BY <1>1, SortsOfMessage
    <3>5. ASSUME NEW v \in Updates, ResultOf(answer, v)
          PROVE  sentOn[v] = q /\ Prefix(basis'[v], saved') /\ answer.state # None
      <4>1. ~writeError
        BY <1>1, <3>5, SortsOfMessage
      <4>2. answer.state = state /\ v = u
        BY <1>1, <3>5, <4>1, SortsOfMessage
      <4>3. state # None
        BY <1>1, StateIsSome
      <4> QED
        BY <1>2, <1>3, <3>3, <4>1, <4>2, <4>3 DEF history
    <3> HIDE DEF messages, answer, u
    <3> QED
      BY <1>1, <1>3, <3>1, <3>2, <3>4, <3>5, PostPosts
  <2> QED
    BY <1>3, <2>1
<1> HIDE DEF u, answer
<1>8. \A p \in Pages : Served(p)' => Served(p)
  <2>1. ASSUME NEW p \in Pages, connected[p], serving'[PortOf(p)] # None
        PROVE  serving[PortOf(p)] # None
    BY <1>1, <1>6, <2>1, PortFact DEF IInv
  <2> QED
    BY <1>3, <2>1 DEF Served, PortOf
<1>9. Onward
  BY <1>1, <1>3, <1>5, <1>7, <1>8 DEF Onward, history
<1>10. Chained' /\ Live' /\ Acked' /\ Results' /\ Forward'
  BY <1>9, OnwardKeeps
<1>11. Serving'
  <2> SUFFICES ASSUME NEW r \in Ports, serving'[r] # None
               PROVE  LET v == serving'[r].update IN
                      /\ sentOn[v] = r /\ Prefix(basis[v], state)
                      /\ serving'[r].need # -1 => Prefix(basis[v], writes'[serving'[r].need])
    BY <1>3 DEF Serving, history
  <2>1. CASE r = q
    <3>1. writes' # <<>> /\ serving'[r] = [update |-> u, need |-> Len(writes')]
      BY <1>6, <2>1
    <3> QED
      BY <1>2, <1>4, <2>1, <3>1
  <2>2. CASE r # q
    <3>1. serving'[r] = serving[r] /\ serving[r] # None
      BY <1>6, <2>2
    <3>2. /\ sentOn[serving[r].update] = r /\ Prefix(basis[serving[r].update], state)
          /\ serving[r].need # -1 =>
               Prefix(basis[serving[r].update], writes[serving[r].need])
      BY <3>1 DEF SeenInv, Serving
    <3>3. serving[r].need # -1 => serving[r].need \in 1..Len(writes)
      BY <3>1 DEF IInv, ServedInv
    <3> QED
      BY <1>4, <3>1, <3>2, <3>3
  <2> QED
    BY <2>1, <2>2
<1>12. SeenTyped'
  BY <1>3 DEF SeenInv, SeenTyped, history
<1> QED
  BY <1>10, <1>11, <1>12 DEF SeenInv

(* A write that ends answers those who waited for it with the state, which *)
(* is at or after what is saved now.                                       *)
LEMMA WriteEndsSeen ==
  ASSUME IInv, SeenInv, IInv', NEW failed \in BOOLEAN, WriteEnds(failed)
  PROVE  SeenInv'
<1> DEFINE served == {q \in Ports : serving[q] # None /\ serving[q].need = 1}
           answer(q) == IF failed THEN Error(serving[q].update)
                        ELSE Result(serving[q].update, state)
<1>1. /\ writes # <<>> /\ writes' = Tail(writes)
      /\ saved' = IF failed THEN saved ELSE Head(writes)
      /\ serving' = [q \in Ports |->
           IF q \in served THEN None
           ELSE IF serving[q] # None /\ serving[q].need > 1
                THEN [serving[q] EXCEPT !.need = @ - 1]
                ELSE serving[q]]
      /\ Post([q \in served |->
           <<IF failed THEN Error(serving[q].update)
             ELSE Result(serving[q].update, state)>>])
      /\ UNCHANGED <<phase, state, open, gen, connected, mirror, outcome, history, restarts>>
  BY DEF WriteEnds, Answer
<1>2. /\ phase = "ready" /\ state \in States /\ writes \in Seq(States)
      /\ Prefix(saved, saved') /\ Prefix(state, state)
      /\ serving \in [Ports -> [update : Updates, need : Int] \cup {None}]
      /\ basis \in [Updates -> States]
  BY WriteEndsKeeps, StatesFact, PrefixFacts
     DEF States, IInv, StoreTyped, ServerTyped, SeenInv, SeenTyped
<1>3. /\ Head(writes) = writes[1] /\ Len(writes) \in Nat \ {0} /\ Len(writes') = Len(writes) - 1
      /\ \A i \in 1..Len(writes') : writes'[i] = writes[i + 1]
  BY <1>1, <1>2, HeadTailProperties, EmptySeq
<1>4. ASSUME NEW q \in Ports, serving[q] # None
      PROVE  /\ serving[q].update \in Updates /\ serving[q].need \in Int
             /\ sentOn[serving[q].update] = q /\ Prefix(basis[serving[q].update], state)
             /\ serving[q].need # -1 =>
                  /\ serving[q].need \in 1..Len(writes)
                  /\ Prefix(basis[serving[q].update], writes[serving[q].need])
  <2>1. serving[q] \in [update : Updates, need : Int]
    BY <1>2, <1>4
  <2> QED
    BY <1>4, <2>1 DEF SeenInv, Serving, IInv, ServedInv
<1>5. \A p \in Pages : outbox'[p] = outbox[p] \/ \E x \in Messages : Posts(p, x)
  <2> DEFINE messages == [q \in served |->
               <<IF failed THEN Error(serving[q].update)
                 ELSE Result(serving[q].update, state)>>]
  <2>1. DOMAIN messages = served /\ \A q \in served : messages[q] = <<answer(q)>>
    OBVIOUS
  <2>2. Post(messages)
    BY <1>1
  <2>3. ASSUME NEW q \in served
        PROVE  /\ q \in Ports /\ serving[q] # None
               /\ answer(q) \in Messages
               /\ answer(q).state # None => answer(q).state = state
               /\ \A v \in Updates : ResultOf(answer(q), v) =>
                    sentOn[v] = q /\ Prefix(basis'[v], saved') /\ answer(q).state # None
    <3>1. q \in Ports /\ serving[q] # None /\ serving[q].need = 1
      OBVIOUS
    <3>2. answer(q) \in Messages /\ (answer(q).state # None => answer(q).state = state)
      BY <1>2, <1>4, <3>1, SortsOfMessage
    <3>3. ASSUME NEW v \in Updates, ResultOf(answer(q), v)
          PROVE  sentOn[v] = q /\ Prefix(basis'[v], saved') /\ answer(q).state # None
      <4>1. ~failed
        BY <1>4, <3>1, <3>3, SortsOfMessage
      <4>2. answer(q).state = state /\ v = serving[q].update
        BY <1>2, <1>4, <3>1, <3>3, <4>1, SortsOfMessage
      <4>3. saved' = writes[1] /\ basis' = basis
        BY <1>1, <1>3, <4>1 DEF history
      <4>4. state # None
        BY <1>2, StateIsSome
      <4> QED
        BY <1>4, <3>1, <4>2, <4>3, <4>4
    <3> QED
      BY <3>1, <3>2, <3>3
  <2>4. state' = state /\ phase' = "ready"
    BY <1>1, <1>2
  <2> HIDE DEF messages, answer, served
  <2>5. \A q \in DOMAIN messages : q \in open \/ (q \in Ports /\ serving[q] # None)
    BY <2>1, <2>3
  <2>6. \A q \in DOMAIN messages : \E x \in Messages :
          /\ messages[q] = <<x>>
          /\ x.state # None => x.state = state' /\ phase' = "ready"
          /\ \A u \in Updates : ResultOf(x, u) =>
               sentOn[u] = q /\ Prefix(basis'[u], saved') /\ x.state # None
    BY <2>1, <2>3, <2>4
  <2> QED
    BY <2>2, <2>5, <2>6, PostPosts
<1> HIDE DEF answer
<1>6. ASSUME NEW q \in Ports, serving'[q] # None
      PROVE  /\ serving[q] # None /\ serving'[q].update = serving[q].update
             /\ \/ serving[q].need = -1 /\ serving'[q].need = -1
                \/ serving[q].need \in 2..Len(writes) /\ serving'[q].need = serving[q].need - 1
  <2>1. serving[q] # None /\ serving[q].need # 1
    BY <1>1, <1>6
  <2>2. /\ serving[q] \in [update : Updates, need : Int]
        /\ serving'[q] = IF serving[q].need > 1 THEN [serving[q] EXCEPT !.need = @ - 1]
                         ELSE serving[q]
    BY <1>1, <1>2, <2>1
  <2>3. serving[q].need = -1 \/ serving[q].need \in 2..Len(writes)
    BY <1>3, <1>4, <2>1
  <2> QED
    BY <1>3, <2>1, <2>2, <2>3
<1>7. \A p \in Pages : Served(p)' => Served(p)
  <2>1. ASSUME NEW p \in Pages, connected[p], serving'[PortOf(p)] # None
        PROVE  serving[PortOf(p)] # None
    BY <1>6, <2>1, PortFact DEF IInv
  <2> QED
    BY <1>1, <2>1 DEF Served, PortOf
<1>8. Onward
  BY <1>1, <1>2, <1>5, <1>7 DEF Onward, history
<1>9. Chained' /\ Live' /\ Acked' /\ Results' /\ Forward'
  BY <1>8, OnwardKeeps
<1>10. Serving'
  <2> SUFFICES ASSUME NEW q \in Ports, serving'[q] # None
               PROVE  LET v == serving[q].update IN
                      /\ sentOn[v] = q /\ Prefix(basis[v], state)
                      /\ serving'[q].need # -1 => Prefix(basis[v], writes'[serving'[q].need])
    BY <1>1, <1>6 DEF Serving, history
  <2>1. serving[q] # None
    BY <1>6
  <2>2. CASE serving'[q].need = -1
    BY <1>4, <2>1, <2>2
  <2>3. CASE serving[q].need \in 2..Len(writes) /\ serving'[q].need = serving[q].need - 1
    <3>1. serving'[q].need \in 1..Len(writes') /\ serving'[q].need + 1 = serving[q].need
      BY <1>3, <2>3
    <3>2. writes'[serving'[q].need] = writes[serving[q].need]
      BY <1>3, <3>1
    <3> QED
      BY <1>3, <1>4, <2>1, <2>3, <3>2
  <2> QED
    BY <1>6, <2>2, <2>3
<1>11. SeenTyped'
  BY <1>1 DEF SeenInv, SeenTyped, history
<1> QED
  BY <1>9, <1>10, <1>11 DEF SeenInv

(* After a restart no port is served: the pages' outboxes stay as they are *)
(* until the pages notice, and what was acknowledged is saved.             *)
LEMMA RestartSeen ==
  ASSUME IInv, SeenInv, Restart
  PROVE  SeenInv'
<1>1. /\ restarts' = restarts + 1 /\ open' = {} /\ serving' = [q \in Ports |-> None]
      /\ UNCHANGED <<gen, connected, outbox, mirror, outcome, history>>
  BY DEF Restart, page
<1>2. /\ IInv' /\ Prefix(saved, saved') /\ saved \in States /\ saved' \in States
      /\ restarts \in Nat /\ basis \in [Updates -> States]
  BY RestartKeeps DEF IInv, StoreTyped, SeenInv, SeenTyped
<1>3. restarts' # 0 /\ restarts' \in Nat
  BY <1>1, <1>2
<1>4. \A p \in Pages : ~Served(p)'
  BY <1>1, <1>2, <1>3, PortFact DEF Served, PortOf, IInv
<1>5. Chained' /\ Live' /\ Forward'
  BY <1>1, <1>3, <1>4 DEF SeenInv, Chained, Live, Forward, Has
<1>6. \A v \in Updates : Prefix(basis[v], saved) => Prefix(basis[v], saved')
  BY <1>2, PrefixTrans DEF States
<1>7. \A v \in Updates : Holds(saved, v) => Holds(saved', v)
  BY <1>2, PrefixFacts DEF States
<1>8. Acked'
  BY <1>1, <1>6, <1>7 DEF SeenInv, Acked, Seen, Has, history
<1>9. Results'
  BY <1>1, <1>6 DEF SeenInv, Results, Has, ResultOf, PortOf, history
<1>10. Serving' /\ SeenTyped'
  BY <1>1, <1>3 DEF SeenInv, SeenTyped, Serving, history
<1> QED
  BY <1>5, <1>8, <1>9, <1>10 DEF SeenInv

LEMMA StepSeen == IInv /\ SeenInv /\ [Next]_vars => SeenInv'
<1> SUFFICES ASSUME IInv, SeenInv, [Next]_vars PROVE SeenInv'
  OBVIOUS
<1>0. IInv'
  BY StepKeeps
<1>1. CASE UNCHANGED vars
  BY <1>0, <1>1, StutterSeen
<1>2. ASSUME NEW p \in Pages, Connect(p) \/ Receive(p) \/ PageDisconnect(p)
      PROVE  SeenInv'
  BY <1>2, ConnectSeen, ReceiveSeen, PageDisconnectSeen
<1>3. ASSUME NEW p \in Pages, NEW u \in Updates, Dispatch(p, u)
      PROVE  SeenInv'
  BY <1>3, DispatchSeen
<1>4. ASSUME NEW u \in Updates, TimeOut(u)
      PROVE  SeenInv'
  BY <1>4, TimeOutSeen
<1>5. ASSUME NEW q \in Ports,
             \/ BackgroundDisconnect(q) \/ Apply(q)
             \/ ApplyUnrestored(q) \/ Flush(q)
      PROVE  SeenInv'
  BY <1>0, <1>5, BackgroundDisconnectSeen, ApplySeen, ApplyUnrestoredSeen, FlushSeen
<1>6. ASSUME NEW failed \in BOOLEAN, WriteEnds(failed)
      PROVE  SeenInv'
  BY <1>0, <1>6, WriteEndsSeen
<1>7. CASE Restore \/ RestoreFails \/ Restart
  BY <1>0, <1>7, RestoreSeen, RestoreFailsSeen, RestartSeen
<1> QED
  BY <1>1, <1>2, <1>3, <1>4, <1>5, <1>6, <1>7 DEF Next

(* What the pages show and are about to show, in every state of a run.     *)
THEOREM SeenInductive == Spec => [](IInv /\ SeenInv)
<1>1. Init => IInv /\ SeenInv
  BY InitIInv, InitSeen
<1>2. IInv /\ SeenInv /\ [Next]_vars => (IInv /\ SeenInv)'
  BY StepKeeps, StepSeen
<1> QED
  BY <1>1, <1>2, PTL DEF Spec

LEMMA PrefixIsPrefix ==
  ASSUME NEW s \in States, NEW t \in States, Prefix(s, t)
  PROVE  IsPrefix(s, t)
<1>1. Len(s) <= Len(t) /\ SubSeq(t, 1, Len(s)) = s
  BY PrefixFacts DEF Prefix, States
<1>2. Prefix(s, s)
  BY PrefixFacts DEF States
<1>3. SubSeq(s, 1, Len(s)) = s
  BY <1>2, PrefixFacts DEF States
<1> QED
  BY <1>1, <1>3 DEF IsPrefix

(* A page whose dispatch succeeded (bridge.ts answers after the flush)     *)
(* shows its update, and shows it ever after: no broadcast for another     *)
(* page, no new connection and no restart of the background hides it.      *)
THEOREM OwnWritesAreRead == Spec => []ReadYourWrites
<1>1. IInv /\ SeenInv => ReadYourWrites
  <2> SUFFICES ASSUME IInv, SeenInv, NEW u \in Updates, outcome[u] = "resolved"
               PROVE  IsPrefix(basis[u], mirror[sentOn[u][1]])
    BY DEF ReadYourWrites
  <2>1. sentOn[u] \in Ports /\ Seen(u, sentOn[u][1])
    BY DEF SeenInv, Acked
  <2>2. PICK p \in Pages : p = sentOn[u][1]
    BY <2>1 DEF Ports
  <2>3. mirror[p] \in States /\ basis[u] \in States /\ Prefix(basis[u], mirror[p])
    BY <2>1, <2>2, StatesFact DEF Seen, SeenInv, SeenTyped
  <2> QED
    BY <2>2, <2>3, PrefixIsPrefix
<1> QED
  BY <1>1, SeenInductive, PTL

(* Until the background restarts, what a page shows never goes back to an  *)
(* older state, whatever the order in which ports open, updates and their  *)
(* results arrive, and pages reconnect (proxy.ts replaces the whole copy). *)
THEOREM MirrorsGoForward == Spec => MirrorForward
<1> DEFINE Step == \A p \in Pages : restarts' = 0 /\ mirror[p] # None =>
                     IsPrefix(mirror[p], mirror'[p])
<1>1. IInv /\ SeenInv /\ [Next]_vars => [Step]_vars
  <2> SUFFICES ASSUME IInv, SeenInv, Next, NEW p \in Pages, restarts' = 0, mirror[p] # None
               PROVE  IsPrefix(mirror[p], mirror'[p])
    OBVIOUS
  <2>1. mirror[p] \in States /\ Prefix(mirror[p], mirror[p])
    BY StatesFact, PrefixFacts DEF States
  <2>2. CASE mirror'[p] = mirror[p]
    BY <2>1, <2>2, PrefixIsPrefix
  <2>3. ASSUME NEW r \in Pages, Receive(r), mirror'[p] # mirror[p]
        PROVE  IsPrefix(mirror[p], mirror'[p])
    <3> DEFINE m == outbox[r][1]
    <3>1. /\ restarts = 0 /\ outbox[r] # <<>> /\ Head(outbox[r]) = m
          /\ outbox[r] \in Seq(Good(saved)) /\ 1 \in 1..Len(outbox[r])
      <4>1. outbox[r] \in Seq(Good(saved)) /\ outbox[r] # <<>> /\ restarts' = restarts
        BY <2>3, StatesFact DEF Receive
      <4> QED
        BY <4>1, EmptySeq
    <3>2. m.state \in States \cup {None}
      BY <3>1, MessageFact
    <3>3. m.state # None /\ mirror' = [mirror EXCEPT ![r] = m.state]
      BY <2>3, <3>1 DEF Receive
    <3>4. p = r /\ mirror'[p] = m.state
      BY <2>3, <3>3 DEF IInv, PageTyped
    <3>5. Prefix(mirror[p], m.state)
      BY <3>1, <3>3, <3>4 DEF SeenInv, Forward, Has
    <3> QED
      BY <2>1, <3>2, <3>3, <3>4, <3>5, PrefixIsPrefix
  <2>4. mirror' = mirror \/ \E r \in Pages : Receive(r)
    BY DEF Next, Connect, PageDisconnect, Dispatch, TimeOut, BackgroundDisconnect, Apply,
           ApplyUnrestored, Flush, WriteEnds, Restore, RestoreFails, Restart, page
  <2> QED
    BY <2>2, <2>3, <2>4
<1> QED
  BY <1>1, SeenInductive, PTL DEF Spec, MirrorForward
-----------------------------------------------------------------------------
(* What a page was told last                                               *)

(* A message that brings the new state, or none, keeps a page told.        *)
LEMMA ToldMore ==
  ASSUME IInv, NEW p \in Pages, NEW x, Grown(p, x), mirror'[p] = mirror[p],
         \/ x.state = state'
         \/ x.state = None /\ state' = state /\ Told(p, state)
  PROVE  Told(p, state)'
<1>1. Len(outbox[p]) \in Nat
  BY StatesFact
<1>2. /\ Len(outbox'[p]) = Len(outbox[p]) + 1
      /\ \A i \in 1..Len(outbox[p]) : outbox'[p][i] = outbox[p][i]
      /\ outbox'[p][Len(outbox[p]) + 1] = x
  BY DEF Grown
<1>3. CASE x.state = state'
  <2>1. /\ Len(outbox'[p]) \in 0..Len(outbox'[p]) /\ Len(outbox'[p]) # 0
        /\ outbox'[p][Len(outbox'[p])].state = state'
        /\ \A j \in Len(outbox'[p]) + 1..Len(outbox'[p]) : FALSE
    BY <1>1, <1>2, <1>3
  <2> QED
    BY <2>1 DEF Told
<1>4. CASE x.state = None /\ state' = state /\ Told(p, state)
  <2>1. PICK i \in 0..Len(outbox[p]) :
          /\ state = IF i = 0 THEN mirror[p] ELSE outbox[p][i].state
          /\ \A j \in i + 1..Len(outbox[p]) : outbox[p][j].state = None
    BY <1>4 DEF Told
  <2>2. i \in 0..Len(outbox'[p])
    BY <1>1, <1>2
  <2>3. state' = IF i = 0 THEN mirror'[p] ELSE outbox'[p][i].state
    BY <1>1, <1>2, <1>4, <2>1
  <2>4. ASSUME NEW j \in i + 1..Len(outbox'[p])  PROVE outbox'[p][j].state = None
    <3>1. j \in i + 1..Len(outbox[p]) \/ j = Len(outbox[p]) + 1
      BY <1>1, <1>2, <2>1
    <3>2. j \in i + 1..Len(outbox[p]) => j \in 1..Len(outbox[p])
      BY <1>1, <2>1
    <3> QED
      BY <1>2, <1>4, <2>1, <3>1, <3>2
  <2> QED
    BY <2>2, <2>3, <2>4 DEF Told
<1> QED
  BY <1>3, <1>4

(* Who was told, and is told no more, stays told.                          *)
LEMMA ToldStays ==
  ASSUME NEW p \in Pages, Told(p, state), state' = state,
         outbox'[p] = outbox[p], mirror'[p] = mirror[p]
  PROVE  Told(p, state)'
BY DEF Told

(* A page that reads what was on its way is still told.                    *)
LEMMA ToldReads ==
  ASSUME IInv, NEW r \in Pages, Receive(r), NEW p \in Pages, Told(p, state)
  PROVE  Told(p, state)'
<1>1. outbox \in [Pages -> Seq(Good(saved))] /\ mirror \in [Pages -> States \cup {None}]
  BY DEF IInv, MessagesInv, PageTyped
<1>2. /\ outbox[r] \in Seq(Good(saved)) /\ outbox[r] # <<>>
      /\ outbox' = [outbox EXCEPT ![r] = Tail(@)] /\ state' = state
      /\ mirror' = IF Head(outbox[r]).state = None THEN mirror
                   ELSE [mirror EXCEPT ![r] = Head(outbox[r]).state]
  BY <1>1 DEF Receive, store
<1>3. CASE p # r
  BY <1>1, <1>2, <1>3, ToldStays
<1>4. CASE p = r
  <2>1. /\ Head(outbox[p]) = outbox[p][1] /\ Len(outbox[p]) \in Nat \ {0}
        /\ outbox'[p] = Tail(outbox[p]) /\ Len(outbox'[p]) = Len(outbox[p]) - 1
        /\ \A i \in 1..Len(outbox'[p]) : outbox'[p][i] = outbox[p][i + 1]
        /\ mirror'[p] = IF outbox[p][1].state = None THEN mirror[p] ELSE outbox[p][1].state
    BY <1>1, <1>2, <1>4, HeadTailProperties, EmptySeq
  <2>2. PICK i \in 0..Len(outbox[p]) :
          /\ state = IF i = 0 THEN mirror[p] ELSE outbox[p][i].state
          /\ \A j \in i + 1..Len(outbox[p]) : outbox[p][j].state = None
    BY DEF Told
  <2>3. state # None
    BY StatesFact, StateIsSome
  <2>4. CASE i = 0
    <3>1. mirror'[p] = state /\ 0 \in 0..Len(outbox'[p])
      BY <2>1, <2>2, <2>4
    <3>2. \A j \in 0 + 1..Len(outbox'[p]) : outbox'[p][j].state = None
      BY <2>1, <2>2, <2>4
    <3> QED
      BY <1>2, <3>1, <3>2 DEF Told
  <2>5. CASE i # 0
    <3>1. /\ i - 1 \in 0..Len(outbox'[p])
          /\ state = IF i - 1 = 0 THEN mirror'[p] ELSE outbox'[p][i - 1].state
      BY <2>1, <2>2, <2>3, <2>5
    <3>2. \A j \in i - 1 + 1..Len(outbox'[p]) : outbox'[p][j].state = None
      BY <2>1, <2>2, <2>5
    <3> QED
      BY <1>2, <3>1, <3>2 DEF Told
  <2> QED
    BY <2>4, <2>5
<1> QED
  BY <1>3, <1>4

(* Posts of the new state to all served ports, or of an answer to some.    *)
LEMMA PostTells ==
  ASSUME IInv, NEW messages, Post(messages), UNCHANGED <<gen, connected, mirror, open>>,
         \A q \in DOMAIN messages : \E x \in Messages :
           messages[q] = <<x>> /\ x.state \in {state', None},
         \/ \A q \in open : q \in DOMAIN messages
                            /\ \A x : messages[q] = <<x>> => x.state = state'
         \/ state' = state /\ phase = "ready" /\ PagesAreTold,
         phase' = "ready"
  PROVE  PagesAreTold'
<1> SUFFICES ASSUME NEW p \in Pages, connected[p], PortOf(p) \in open
             PROVE  Told(p, state)'
  BY DEF PagesAreTold, PortOf
<1>1. \A q \in DOMAIN messages : \E x \in Messages : messages[q] = <<x>>
  OBVIOUS
<1>2. \/ outbox'[p] = outbox[p]
      \/ /\ PortOf(p) \in DOMAIN messages
         /\ \E x \in Messages : messages[PortOf(p)] = <<x>> /\ Grown(p, x)
  BY <1>1, PostGrows
<1>3. PortOf(p) \in DOMAIN messages =>
        \E x \in Messages : messages[PortOf(p)] = <<x>> /\ Grown(p, x)
  <2> SUFFICES ASSUME PortOf(p) \in DOMAIN messages, outbox'[p] = outbox[p]
               PROVE  FALSE
    BY <1>2
  <2>1. PICK x \in Messages : messages[PortOf(p)] = <<x>>
    BY <1>1
  <2>2. outbox[p] = outbox[p] \o <<x>>
    BY <2>1 DEF Post
  <2>3. outbox[p] \in Seq(Good(saved)) /\ Good(saved) \subseteq Messages
    BY StatesFact DEF Good
  <2>4. outbox[p] \in Seq(Messages) /\ <<x>> \in Seq(Messages) /\ Len(<<x>>) = 1
    BY <2>3
  <2> QED
    BY <2>2, <2>4, ConcatProperties
<1>4. CASE \A q \in open : q \in DOMAIN messages
                           /\ \A x : messages[q] = <<x>> => x.state = state'
  BY <1>3, <1>4, ToldMore
<1>5. CASE state' = state /\ phase = "ready" /\ PagesAreTold
  <2>1. Told(p, state)
    BY <1>5 DEF PagesAreTold
  <2>2. CASE outbox'[p] = outbox[p]
    BY <1>5, <2>1, <2>2, ToldStays
  <2>3. ASSUME NEW x \in Messages, messages[PortOf(p)] = <<x>>, Grown(p, x),
               PortOf(p) \in DOMAIN messages
        PROVE  Told(p, state)'
    <3>1. PICK y \in Messages : messages[PortOf(p)] = <<y>> /\ y.state \in {state', None}
      BY <2>3
    <3>2. x = y
      BY <2>3, <3>1
    <3> QED
      BY <1>5, <2>1, <2>3, <3>1, <3>2, ToldMore
  <2> QED
    BY <1>2, <2>2, <2>3
<1> QED
  BY <1>4, <1>5

LEMMA ToldStep ==
  ASSUME IInv, IInv', PagesAreTold, [Next]_vars
  PROVE  PagesAreTold'
<1>0. state \in States /\ saved \in States
  BY StatesFact
<1>1. ASSUME UNCHANGED <<phase, state, outbox, mirror, gen, connected>>, open' \subseteq open
      PROVE  PagesAreTold'
  BY <1>1 DEF PagesAreTold, Told, PortOf
<1>2. CASE \/ \E p \in Pages, u \in Updates : Dispatch(p, u)
           \/ \E u \in Updates : TimeOut(u)
           \/ \E q \in Ports : BackgroundDisconnect(q)
           \/ UNCHANGED vars
  BY <1>1, <1>2 DEF Dispatch, TimeOut, BackgroundDisconnect, vars, store, page, server
<1>3. CASE RestoreFails \/ Restart \/ \E q \in Ports : ApplyUnrestored(q)
  <2>1. phase' # "ready"
    BY <1>3 DEF RestoreFails, Restart, ApplyUnrestored
  <2> QED
    BY <2>1 DEF PagesAreTold
<1>4. CASE \E r \in Pages : Receive(r)
  <2>1. UNCHANGED <<phase, gen, connected, open>>
    BY <1>4 DEF Receive, store, server
  <2> QED
    BY <1>4, <2>1, ToldReads DEF PagesAreTold, PortOf
<1>5. ASSUME NEW r \in Pages, Connect(r)  PROVE PagesAreTold'
  <2> SUFFICES ASSUME NEW p \in Pages, phase = "ready", connected'[p], PortOf(p)' \in open'
               PROVE  Told(p, state)'
    BY <1>5 DEF PagesAreTold, Connect, store
  <2>1. /\ gen' = [gen EXCEPT ![r] = @ + 1] /\ connected' = [connected EXCEPT ![r] = TRUE]
        /\ open' = open \cup {<<r, gen[r] + 1>>} /\ mirror' = mirror /\ state' = state
        /\ outbox' = [outbox EXCEPT ![r] = <<StateMessage(state)>>]
    BY <1>5 DEF Connect, store
  <2>2. CASE p = r
    <3>1. outbox'[p] = <<StateMessage(state)>>
      BY <2>1, <2>2 DEF IInv, MessagesInv
    <3>2. /\ Len(outbox'[p]) = 1 /\ outbox'[p][1].state = state
          /\ 1 \in 0..1 /\ \A j \in 2..1 : FALSE
      BY <1>0, <3>1, SortsOfMessage
    <3> QED
      BY <2>1, <3>2 DEF Told
  <2>3. CASE p # r
    <3>1. outbox'[p] = outbox[p] /\ gen'[p] = gen[p] /\ connected'[p] = connected[p]
      BY <2>1, <2>3 DEF IInv, PageTyped, MessagesInv
    <3>2. PortOf(p) \in open
      BY <2>1, <2>3, <3>1 DEF PortOf
    <3>3. Told(p, state)
      BY <3>1, <3>2 DEF PagesAreTold
    <3> QED
      BY <2>1, <3>1, <3>3, ToldStays
  <2> QED
    BY <2>2, <2>3
<1>6. ASSUME NEW r \in Pages, PageDisconnect(r)  PROVE PagesAreTold'
  <2> SUFFICES ASSUME NEW p \in Pages, phase = "ready", connected'[p], PortOf(p)' \in open'
               PROVE  Told(p, state)'
    BY <1>6 DEF PagesAreTold, PageDisconnect, store
  <2>1. /\ connected' = [connected EXCEPT ![r] = FALSE] /\ gen' = gen /\ open' = open
        /\ mirror' = mirror /\ state' = state /\ outbox' = [outbox EXCEPT ![r] = <<>>]
    BY <1>6 DEF PageDisconnect, store, server
  <2>2. p # r /\ outbox'[p] = outbox[p] /\ connected[p]
    BY <2>1 DEF IInv, PageTyped, MessagesInv
  <2>3. Told(p, state)
    BY <2>1, <2>2 DEF PagesAreTold, PortOf
  <2> QED
    BY <2>1, <2>2, <2>3, ToldStays
<1>7. CASE Restore
  <2> DEFINE messages == [q \in open |-> <<StateMessage(saved)>>]
  <2>1. /\ state' = saved /\ phase' = "ready" /\ Post(messages)
        /\ UNCHANGED <<gen, connected, mirror, open>>
    BY <1>7 DEF Restore, server
  <2>2. /\ DOMAIN messages = open /\ \A q \in open : messages[q] = <<StateMessage(saved)>>
        /\ StateMessage(saved) \in Messages /\ StateMessage(saved).state = state'
    BY <1>0, <2>1, SortsOfMessage
  <2> HIDE DEF messages
  <2>3. \A q \in open : q \in DOMAIN messages
                        /\ \A x : messages[q] = <<x>> => x.state = state'
    BY <2>2
  <2> QED
    BY <2>1, <2>2, <2>3, PostTells
<1>8. ASSUME NEW r \in Ports, Apply(r)  PROVE PagesAreTold'
  <2> DEFINE new == Applied(Head(inbox[r]))
             messages == [q \in open |-> <<StateMessage(new)>>]
  <2>1. /\ state' = new /\ phase' = "ready" /\ Post(messages)
        /\ UNCHANGED <<gen, connected, mirror, open>>
    BY <1>8 DEF Apply
  <2>2. /\ DOMAIN messages = open /\ \A q \in open : messages[q] = <<StateMessage(new)>>
        /\ StateMessage(new) \in Messages /\ StateMessage(new).state = state'
    <3>1. new \in States
      BY <2>1 DEF IInv, StoreTyped
    <3> QED
      BY <2>1, <3>1, SortsOfMessage
  <2> HIDE DEF messages, new
  <2>3. \A q \in open : q \in DOMAIN messages
                        /\ \A x : messages[q] = <<x>> => x.state = state'
    BY <2>2
  <2> QED
    BY <2>1, <2>2, <2>3, PostTells
<1>9. ASSUME NEW served \in SUBSET Ports, NEW failed \in BOOLEAN, Answer(served, failed),
             \A q \in served : serving[q] # None,
             UNCHANGED <<phase, state, gen, connected, mirror, open>>, phase = "ready"
      PROVE  PagesAreTold'
  <2> DEFINE answer(q) == IF failed THEN Error(serving[q].update)
                          ELSE Result(serving[q].update, state)
             messages == [q \in served |-> <<answer(q)>>]
  <2>1. DOMAIN messages = served /\ \A q \in served : messages[q] = <<answer(q)>>
    OBVIOUS
  <2>2. Post(messages)
    BY <1>9 DEF Answer
  <2>3. ASSUME NEW q \in served
        PROVE  answer(q) \in Messages /\ answer(q).state \in {state', None}
    <3>1. serving[q].update \in Updates
      BY <1>9, <2>3 DEF IInv, ServerTyped
    <3> QED
      BY <1>0, <1>9, <3>1, SortsOfMessage
  <2> HIDE DEF messages, answer
  <2>4. \A q \in DOMAIN messages : \E x \in Messages :
          messages[q] = <<x>> /\ x.state \in {state', None}
    BY <2>1, <2>3
  <2> QED
    BY <1>9, <2>2, <2>4, PostTells
<1>10. ASSUME NEW r \in Ports, Flush(r)  PROVE PagesAreTold'
  <2>1. /\ serving[r] # None /\ phase = "ready"
        /\ UNCHANGED <<phase, state, gen, connected, mirror, open>>
    BY <1>10 DEF Flush, IInv, ServedInv
  <2>2. CASE outbox' = outbox
    BY <1>1, <2>1, <2>2
  <2>3. CASE Answer({r}, writeError)
    <3>1. writeError \in BOOLEAN
      BY DEF IInv, StoreTyped
    <3> QED
      BY <1>9, <2>1, <2>3, <3>1
  <2> QED
    BY <1>10, <2>2, <2>3 DEF Flush
<1>11. ASSUME NEW failed \in BOOLEAN, WriteEnds(failed)  PROVE PagesAreTold'
  <2>1. phase = "ready" /\ UNCHANGED <<phase, state, gen, connected, mirror, open>>
    BY <1>11, WriteEndsKeeps DEF WriteEnds, IInv, WritesInv
  <2>2. Answer({q \in Ports : serving[q] # None /\ serving[q].need = 1}, failed)
    BY <1>11 DEF WriteEnds
  <2> QED
    BY <1>9, <2>1, <2>2
<1> QED
  BY <1>2, <1>3, <1>4, <1>5, <1>6, <1>7, <1>8, <1>10, <1>11 DEF Next

(* Every page with a port that is served shows the background's state or   *)
(* has it on its way, after nothing newer: through reconnections, restores,*)
(* failed writes and restarts. The safety on which Converges stands.       *)
THEOREM PagesStayTold == Spec => []PagesAreTold
<1>1. Init => PagesAreTold
  BY DEF Init, PagesAreTold
<1>2. IInv /\ IInv' /\ PagesAreTold /\ [Next]_vars => PagesAreTold'
  BY ToldStep
<1> QED
  BY <1>1, <1>2, Inductive, PTL DEF Spec
=============================================================================
