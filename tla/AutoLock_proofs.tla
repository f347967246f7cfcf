--------------------------- MODULE AutoLock_proofs ---------------------------
(***************************************************************************)
(* Proofs about AutoLock, and about the pages of PopupCalls over it, for   *)
(* any number of pages, connections and messages.                          *)
(*                                                                         *)
(* The invariant is the conjunction of the type invariant with three       *)
(* facts: every armed timer is either known or forgotten; messages wait in *)
(* the order of their numbers and at most one is handled at a time; and a  *)
(* wallet without pages that is, or is about to be, unlocked has a timer.  *)
(* For the pages, ClientInv relates the port a client listens to with the  *)
(* port it posts to; on it stands that no call is orphaned (OrphanInv).    *)
(***************************************************************************)
EXTENDS PopupCalls, SequenceTheorems, TLAPS

(* One handler at a time, and every later message waits behind it.         *)
OrderInv ==
  /\ \A c, d \in running : c = d
  /\ \A c \in running : mandate <= c.n
  /\ \A c \in running, i \in 1..Len(waiting) : c.n <= waiting[i].n
  /\ \A i \in 1..Len(waiting) : mandate <= waiting[i].n
  /\ \A i, j \in 1..Len(waiting) : i <= j => waiting[i].n <= waiting[j].n
  /\ \A i \in 1..Len(waiting) : waiting[i].n <= sent
  /\ \A c \in running : c.n <= sent
  /\ mandate <= sent

(* A login in progress counts as a token: it may still set it.             *)
TimedInv ==
  (Open = {} /\ ~late /\ (token \/ \E c \in running : c.method = "login"))
     => timers # {}

(* The timer AuthManager holds is not one it forgot.                       *)
KnownInv == timerId \notin forgotten

IInv == TypeOK /\ TimersAccounted /\ KnownInv /\ OrderInv /\ TimedInv

(* The invariant holds initially.                                          *)
LEMMA InitIInv == Init => IInv
<1> SUFFICES ASSUME Init PROVE IInv
  OBVIOUS
<1> USE AutoLockAssumption DEF Init
<1>1. TypeOK
  <2>1. waiting \in Seq(Call)
    BY EmptySeq
  <2>2. sent \in 0..MaxMessages /\ mandate \in 0..MaxMessages
    OBVIOUS
  <2> QED
    BY <2>1, <2>2 DEF TypeOK, NoTimer
<1>2. TimersAccounted /\ KnownInv /\ TimedInv
  BY DEF TimersAccounted, KnownInv, TimedInv
<1>3. OrderInv
  BY EmptySeq DEF OrderInv
<1> QED
  BY <1>1, <1>2, <1>3 DEF IInv

(* The number of connections bounds the timers.                            *)
LEMMA TimersFact == NoTimer \notin Timers
  BY AutoLockAssumption DEF NoTimer, Timers

(* A message that takes the mutex is the oldest one and has its type.      *)
LEMMA HeadFact ==
  ASSUME IInv, waiting # <<>>
  PROVE  /\ Head(waiting) \in Call
         /\ Head(waiting) = waiting[1]
         /\ 1 \in 1..Len(waiting)
         /\ Tail(waiting) \in Seq(Call)
         /\ Len(Tail(waiting)) = Len(waiting) - 1
         /\ \A i \in 1..Len(Tail(waiting)) :
               i + 1 \in 1..Len(waiting) /\ Tail(waiting)[i] = waiting[i + 1]
<1> waiting \in Seq(Call)
  BY DEF IInv, TypeOK
<1> Len(waiting) \in Nat /\ Len(waiting) # 0
  BY EmptySeq, LenProperties
<1> QED
  BY HeadTailProperties, LenProperties

(* Every step keeps every variable within its type.                        *)
LEMMA TypeStep == IInv /\ Next => TypeOK'
<1> SUFFICES ASSUME IInv, Next PROVE TypeOK'
  OBVIOUS
<1> USE DEF IInv, TypeOK
<1>1. CASE \E p \in Ports : Connect(p)
  <2>1. port' \in [Ports -> {"new", "open", "closed"}]
    BY <1>1 DEF Connect
  <2>2. late' = FALSE /\ UNCHANGED <<token, stamped, timerId, timers, waiting, running, sent, forgotten, mandate>>
    BY <1>1 DEF Connect, authVars
  <2> QED
    BY <2>1, <2>2
<1>2. CASE \E p \in Ports : Disconnect(p)
  <2>1. port' \in [Ports -> {"new", "open", "closed"}]
    BY <1>2 DEF Disconnect
  <2>2. UNCHANGED <<token, waiting, running, sent, forgotten, mandate>> /\ late' \in BOOLEAN
    BY <1>2 DEF Disconnect, TimeoutLock, authVars
  <2>3. CASE UNCHANGED authVars
    BY <2>1, <2>2, <2>3 DEF authVars
  <2>4. CASE \E t \in Timers : TimeoutLock(t)
    <3>1. stamped' = TRUE /\ timerId' \in Timers /\ timers' \subseteq Timers
      BY <2>4 DEF TimeoutLock
    <3>2. forgotten' \subseteq timers'
      BY <2>2, <2>4 DEF TimeoutLock, KnownInv
    <3> QED
      BY <2>1, <2>2, <3>1, <3>2
  <2> QED
    BY <1>2, <2>3, <2>4 DEF Disconnect
<1>3. CASE \E p \in Ports, m \in Methods : Send(p, m)
  <2> PICK p \in Ports, m \in Methods : Send(p, m)
    BY <1>3
  <2>1. [port |-> p, method |-> m, n |-> sent + 1] \in Call /\ sent + 1 \in 0..MaxMessages
    BY AutoLockAssumption DEF Call, Send
  <2>2. waiting' \in Seq(Call)
    BY <2>1, AppendProperties DEF Send
  <2>3. UNCHANGED <<token, stamped, timerId, timers, port, running, forgotten, late, mandate>>
    BY DEF Send, authVars
  <2> QED
    BY <2>1, <2>2, <2>3 DEF Send
<1>4. CASE Acquire
  <2>1. Head(waiting) \in Call /\ Tail(waiting) \in Seq(Call)
    BY <1>4, HeadFact DEF Acquire
  <2>2. Head(waiting).n \in 0..MaxMessages
    BY <2>1, AutoLockAssumption DEF Call
  <2>3. forgotten' \subseteq timers' /\ timers' \subseteq Timers
    BY <1>4 DEF Acquire, StartMethod, TimeoutLock, Lock, KnownInv
  <2>4. waiting' \in Seq(Call) /\ running' \subseteq Call /\ late' \in BOOLEAN
    BY <1>4, <2>1 DEF Acquire
  <2>5. mandate' \in 0..MaxMessages
    BY <1>4, <2>2 DEF Acquire, StartMethod
  <2>6. /\ token' \in BOOLEAN /\ stamped' \in BOOLEAN /\ (token' => stamped')
        /\ timerId' \in Timers \cup {NoTimer} /\ UNCHANGED <<port, sent>>
    <3>1. StartMethod(Head(waiting)) /\ UNCHANGED <<port, sent>>
      BY <1>4 DEF Acquire
    <3>2. CASE \E t \in Timers : TimeoutLock(t)
      BY <3>1, <3>2 DEF TimeoutLock
    <3>3. CASE Lock
      BY <3>1, <3>3 DEF Lock
    <3>4. CASE timerId' = NoTimer /\ UNCHANGED <<token, stamped>>
      BY <3>1, <3>4
    <3> QED
      BY <3>1, <3>2, <3>3, <3>4 DEF StartMethod
  <2> QED
    BY <2>3, <2>4, <2>5, <2>6
<1>5. CASE \E call \in Call : Return(call)
  <2> PICK call \in Call : Return(call)
    BY <1>5
  <2>1. call.n \in 0..MaxMessages
    BY AutoLockAssumption DEF Call
  <2>2. mandate' \in 0..MaxMessages
    BY <2>1 DEF Return
  <2>3. UNCHANGED <<timers, port, waiting, sent, late>> /\ running' \subseteq Call
    BY DEF Return
  <2>4. token' \in BOOLEAN /\ stamped' \in BOOLEAN /\ (token' => stamped')
    BY DEF Return
  <2>5. timerId' \in Timers \cup {NoTimer} /\ forgotten' \subseteq timers'
    BY <2>3 DEF Return, ForgetTimer
  <2> QED
    BY <2>2, <2>3, <2>4, <2>5
<1>6. CASE \E t \in Timers : Fire(t)
  BY <1>6 DEF Fire, Lock
<1>7. CASE ShouldSkip
  BY <1>7 DEF ShouldSkip, HasAuth, ForgetTimer, authVars
<1>8. CASE Restart
  <2>1. waiting' \in Seq(Call)
    BY <1>8, EmptySeq DEF Restart
  <2> QED
    BY <1>8, <2>1 DEF Restart
<1> QED
  BY <1>1, <1>2, <1>3, <1>4, <1>5, <1>6, <1>7, <1>8 DEF Next

(* Every step that arms or drops a timer accounts for it.                  *)
LEMMA TimersStep == IInv /\ Next => TimersAccounted'
<1> SUFFICES ASSUME IInv, Next PROVE TimersAccounted'
  OBVIOUS
<1> USE DEF IInv, TimersAccounted, TypeOK
<1>1. CASE \E p \in Ports : Connect(p)
  BY <1>1 DEF Connect, authVars
<1>2. CASE \E p \in Ports : Disconnect(p)
  BY <1>2 DEF Disconnect, TimeoutLock, authVars
<1>3. CASE \E p \in Ports, m \in Methods : Send(p, m)
  BY <1>3 DEF Send, authVars
<1>4. CASE Acquire
  BY <1>4 DEF Acquire, StartMethod, TimeoutLock, Lock
<1>5. CASE \E call \in Call : Return(call)
  BY <1>5 DEF Return, ForgetTimer
<1>6. CASE \E t \in Timers : Fire(t)
  BY <1>6 DEF Fire, Lock
<1>7. CASE ShouldSkip
  BY <1>7 DEF ShouldSkip, HasAuth, ForgetTimer, authVars
<1>8. CASE Restart
  BY <1>8 DEF Restart
<1> QED
  BY <1>1, <1>2, <1>3, <1>4, <1>5, <1>6, <1>7, <1>8 DEF Next

(* No step makes AuthManager hold a timer it forgot.                       *)
LEMMA KnownStep == IInv /\ Next => KnownInv'
<1> SUFFICES ASSUME IInv, Next PROVE KnownInv'
  OBVIOUS
<1> USE TimersFact DEF IInv, KnownInv, TypeOK
<1>1. CASE \E p \in Ports : Connect(p)
  BY <1>1 DEF Connect, authVars
<1>2. CASE \E p \in Ports : Disconnect(p)
  BY <1>2 DEF Disconnect, TimeoutLock, authVars
<1>3. CASE \E p \in Ports, m \in Methods : Send(p, m)
  BY <1>3 DEF Send, authVars
<1>4. CASE Acquire
  BY <1>4 DEF Acquire, StartMethod, TimeoutLock, Lock
<1>5. CASE \E call \in Call : Return(call)
  BY <1>5 DEF Return, ForgetTimer
<1>6. CASE \E t \in Timers : Fire(t)
  BY <1>6 DEF Fire, Lock
<1>7. CASE ShouldSkip
  BY <1>7 DEF ShouldSkip, HasAuth, ForgetTimer, authVars
<1>8. CASE Restart
  BY <1>8 DEF Restart
<1> QED
  BY <1>1, <1>2, <1>3, <1>4, <1>5, <1>6, <1>7, <1>8 DEF Next

(* A message that is sent waits behind all others.                         *)
LEMMA SentInOrder ==
  ASSUME IInv, NEW p \in Ports, NEW m \in Methods, sent < MaxMessages,
         sent' = sent + 1, UNCHANGED <<running, mandate>>,
         waiting' = Append(waiting, [port |-> p, method |-> m, n |-> sent + 1])
  PROVE  OrderInv' /\ waiting' \in Seq(Call) /\ sent' \in 0..MaxMessages
<1> DEFINE call == [port |-> p, method |-> m, n |-> sent + 1]
<1> waiting \in Seq(Call) /\ running \subseteq Call /\ sent \in Nat /\ mandate \in Nat
  BY AutoLockAssumption DEF IInv, TypeOK
<1> \A c \in Call : c.n \in Nat
  BY AutoLockAssumption DEF Call
<1> \A i \in 1..Len(waiting) : waiting[i] \in Call /\ waiting[i].n \in Nat
  BY LenProperties
<1> OrderInv
  BY DEF IInv
<1>1. call \in Call /\ sent' \in 0..MaxMessages
  BY AutoLockAssumption DEF Call, IInv, TypeOK
<1>2. /\ Len(waiting') = Len(waiting) + 1 /\ waiting' \in Seq(Call)
      /\ waiting'[Len(waiting) + 1] = call
      /\ \A i \in 1..Len(waiting) : waiting'[i] = waiting[i]
  BY <1>1, AppendProperties
<1>3. \A i \in 1..Len(waiting') : i \in 1..Len(waiting) \/ i = Len(waiting) + 1
  BY <1>2, LenProperties
<1>4. call.n = sent + 1 /\ Len(waiting) \in Nat
  BY LenProperties
<1> HIDE DEF call
<1> QED
  BY <1>1, <1>2, <1>3, <1>4 DEF OrderInv

(* Only a message that waited its turn changes the order.                  *)
LEMMA OrderStep == IInv /\ Next => OrderInv'
<1> SUFFICES ASSUME IInv, Next PROVE OrderInv'
  OBVIOUS
<1> waiting \in Seq(Call) /\ running \subseteq Call /\ sent \in Nat /\ mandate \in Nat
  BY AutoLockAssumption DEF IInv, TypeOK
<1> \A c \in Call : c.n \in Nat
  BY AutoLockAssumption DEF Call
<1> \A i \in 1..Len(waiting) : waiting[i] \in Call /\ waiting[i].n \in Nat
  BY LenProperties
<1> OrderInv
  BY DEF IInv
<1>1. CASE \E p \in Ports, m \in Methods : Send(p, m)
  BY <1>1, SentInOrder DEF Send
<1>2. CASE Acquire
  <2> DEFINE call == Head(waiting)
  <2>1. /\ call = waiting[1] /\ 1 \in 1..Len(waiting)
        /\ Len(waiting') = Len(waiting) - 1
        /\ \A i \in 1..Len(waiting') : i + 1 \in 1..Len(waiting) /\ waiting'[i] = waiting[i + 1]
    BY <1>2, HeadFact DEF Acquire
  <2>2. running' = {call} /\ sent' = sent /\ mandate' \in {mandate, call.n}
    BY <1>2 DEF Acquire, StartMethod
  <2>3. Len(waiting) \in Nat
    BY LenProperties
  <2>4. \A i \in 1..Len(waiting') : call.n <= waiting'[i].n
    BY <2>1, <2>3 DEF OrderInv
  <2>5. ASSUME NEW i \in 1..Len(waiting'), NEW j \in 1..Len(waiting'), i <= j
        PROVE  waiting'[i].n <= waiting'[j].n
    <3>1. i + 1 \in 1..Len(waiting) /\ j + 1 \in 1..Len(waiting) /\ i + 1 <= j + 1
      BY <2>1, <2>3, <2>5
    <3>2. waiting[i + 1].n <= waiting[j + 1].n
      BY <3>1 DEF OrderInv
    <3> QED
      BY <2>1, <3>2
  <2>6. \A i \in 1..Len(waiting') : waiting'[i].n <= sent /\ mandate <= waiting'[i].n
    BY <2>1, <2>3 DEF OrderInv
  <2>7. mandate <= call.n /\ call.n <= sent
    BY <2>1 DEF OrderInv
  <2> HIDE DEF call
  <2> QED
    BY <2>1, <2>2, <2>4, <2>5, <2>6, <2>7 DEF OrderInv
<1>3. CASE \E call \in Call : Return(call)
  BY <1>3 DEF Return, OrderInv
<1>4. CASE Restart
  BY <1>4, EmptySeq DEF Restart, OrderInv
<1>5. CASE UNCHANGED <<waiting, running, sent, mandate>>
  BY <1>5 DEF OrderInv
<1> QED
  BY <1>1, <1>2, <1>3, <1>4, <1>5
  DEF Next, Connect, Disconnect, Fire, ShouldSkip

(* A timer goes only with the session it was armed for.                    *)
LEMMA TimedStep == IInv /\ Next => TimedInv'
<1> SUFFICES ASSUME IInv, Next PROVE TimedInv'
  OBVIOUS
<1> USE DEF TimedInv, Open
<1> TimedInv /\ TypeOK
  BY DEF IInv
<1>1. CASE \E p \in Ports : Connect(p)
  BY <1>1 DEF Connect, TypeOK
<1>2. CASE \E p \in Ports : Disconnect(p)
  BY <1>2 DEF Disconnect, TimeoutLock, TypeOK
<1>3. CASE \E p \in Ports, m \in Methods : Send(p, m)
  BY <1>3 DEF Send, authVars
<1>4. CASE Acquire
  BY <1>4 DEF Acquire, StartMethod, TimeoutLock, Lock
<1>5. CASE \E call \in Call : Return(call)
  BY <1>5 DEF Return
<1>6. CASE \E t \in Timers : Fire(t)
  BY <1>6 DEF Fire, Lock
<1>7. CASE ShouldSkip
  BY <1>7 DEF ShouldSkip, HasAuth, ForgetTimer, authVars
<1>8. CASE Restart
  BY <1>8 DEF Restart
<1> QED
  BY <1>1, <1>2, <1>3, <1>4, <1>5, <1>6, <1>7, <1>8 DEF Next

(* The invariant is inductive.                                             *)
LEMMA NextIInv == IInv /\ [Next]_vars => IInv'
<1>1. IInv /\ Next => IInv'
  BY TypeStep, TimersStep, KnownStep, OrderStep, TimedStep DEF IInv
<1>2. IInv /\ UNCHANGED vars => IInv'
  BY DEF IInv, TypeOK, TimersAccounted, KnownInv, OrderInv, TimedInv, Open, vars, authVars
<1> QED
  BY <1>1, <1>2

(* The invariant holds in every reachable state.                           *)
LEMMA Invariance == Spec => []IInv
  BY InitIInv, NextIInv, PTL DEF Spec

(* The session, the timer, the connections and the queue of the popup      *)
(* handler keep their types, and a token always comes with its timestamp.  *)
THEOREM TypeCorrect == Spec => []TypeOK
<1>1. IInv => TypeOK
  BY DEF IInv
<1> QED
  BY <1>1, Invariance, PTL

(* timeoutLock and clearTimeoutLock leave no timer behind that AuthManager *)
(* cannot clear, except the ones hasAuth and lock dropped the handle of.   *)
THEOREM TimersAccountedHolds == Spec => []TimersAccounted
<1>1. IInv => TimersAccounted
  BY DEF IInv
<1> QED
  BY <1>1, Invariance, PTL

(* onDisconnect of the last page arms the timer that a login in progress   *)
(* will need: an unlocked wallet without pages is timed.                   *)
THEOREM ClosedMeansTimedHolds == Spec => []ClosedMeansTimed
<1>1. IInv => ClosedMeansTimed
  BY DEF IInv, TimedInv, ClosedMeansTimed
<1> QED
  BY <1>1, Invariance, PTL

(* A login or lock that takes effect is newer than the last one.           *)
LEMMA MandateGrows ==
  ASSUME IInv, [Next]_vars PROVE [mandate' >= mandate]_vars
<1> mandate \in Nat /\ running \subseteq Call /\ OrderInv
  BY AutoLockAssumption DEF IInv, TypeOK
<1> \A c \in Call : c.n \in Nat
  BY AutoLockAssumption DEF Call
<1>1. CASE Acquire
  <2>1. Head(waiting) = waiting[1] /\ 1 \in 1..Len(waiting) /\ Head(waiting) \in Call
    BY <1>1, HeadFact DEF Acquire
  <2>2. mandate <= Head(waiting).n
    BY <2>1 DEF OrderInv
  <2> QED
    BY <1>1, <2>1, <2>2 DEF Acquire, StartMethod
<1>2. CASE \E call \in Call : Return(call)
  BY <1>2 DEF Return, OrderInv
<1>3. CASE UNCHANGED mandate
  BY <1>3
<1> QED
  BY <1>1, <1>2, <1>3
  DEF Next, Connect, Disconnect, Send, Fire, ShouldSkip, Restart, vars

(* The mutex of PopupServerHandler makes logins and locks take effect in   *)
(* the order in which the pages sent them.                                 *)
THEOREM LastOneWinsHolds == Spec => LastOneWins
<1>1. IInv /\ [Next]_vars => [mandate' >= mandate]_vars
  BY MandateGrows
<1> QED
  BY <1>1, Invariance, PTL DEF Spec, LastOneWins

-----------------------------------------------------------------------------
(* The pages                                                               *)

(* The next new port is one.                                               *)
LEMMA NewPortFact == HasNewPort => NewPort \in Ports /\ port[NewPort] = "new"
BY DEF HasNewPort, NewPort

(* The port a page listens to is its own and has been opened; the page     *)
(* uses another one, or none, only when that port is closed. It waits for  *)
(* calls that were sent, and only while it is open.                        *)
ClientInv ==
  /\ client \in [Pages -> [heard : Ports \cup {None}, raw : Ports \cup {None},
                           connected : BOOLEAN]]
  /\ callbackMap \in [Pages -> SUBSET (0..sent)]
  /\ \A g \in Pages : g \notin OpenPages => callbackMap[g] = {}
  /\ \A g \in OpenPages :
       /\ client[g].heard \in Ports /\ client[g].raw \in Ports
       /\ port[client[g].heard] # "new"
       /\ client[g].raw # client[g].heard \/ ~client[g].connected
            => Closed(client[g].heard)

(* A call under way that a page waits for was made on the port the page    *)
(* listens to, or that port is closed and the page will be told.           *)
HeardInv ==
  \A g \in OpenPages : \A call \in UnderWay :
    call.n \in callbackMap[g] =>
      call.port = client[g].heard \/ Closed(client[g].heard)

PagesInv == IInv /\ ClientInv /\ HeardInv

(* A step of the pages and the background together is one of AutoLock,     *)
(* except that a call may come with a port of its own.                     *)
LEMMA PagesStep ==
  ASSUME ClientInv, [PagesNext]_allVars
  PROVE  [Next]_vars \/ \E g \in Pages, m \in Methods : CallOnNewPort(g, m)
<1>1. CASE \E g \in Pages : OpenPage(g) \/ Notice(g)
  BY <1>1, NewPortFact DEF OpenPage, Notice, Listening, Next
<1>2. CASE \/ \E g \in Pages : ClosePage(g) \/ CallFails(g) \/ NoticeRaw(g)
           \/ \E g \in Pages, n \in 1..MaxMessages : Hear(g, n)
           \/ UNCHANGED allVars
  BY <1>2 DEF ClosePage, CallFails, NoticeRaw, Hear, allVars
<1>3. CASE \E g \in Pages, m \in Methods : CallMethod(g, m)
  BY <1>3 DEF CallMethod, ClientInv, Next
<1>4. CASE \/ \E call \in Call : Answer(call)
           \/ \E p \in Ports : PortCloses(p)
           \/ Background \/ BackgroundStops
  BY <1>4 DEF Answer, PortCloses, Background, BackgroundStops, Next
<1> QED
  BY <1>1, <1>2, <1>3, <1>4 DEF PagesNext

(* A call that comes with a new port keeps the invariant of AutoLock.      *)
LEMMA NewPortStep ==
  ASSUME IInv, NEW g \in Pages, NEW m \in Methods, CallOnNewPort(g, m)
  PROVE  IInv'
<1> DEFINE p == NewPort
<1>1. p \in Ports /\ port[p] = "new"
  BY NewPortFact DEF CallOnNewPort
<1>2. /\ port' = [port EXCEPT ![p] = "open"] /\ late' = FALSE
      /\ UNCHANGED <<authVars, running, forgotten, mandate>>
      /\ sent < MaxMessages /\ sent' = sent + 1
      /\ waiting' = Append(waiting, [port |-> p, method |-> m, n |-> sent + 1])
  BY DEF CallOnNewPort
<1> HIDE DEF p
<1>3. OrderInv' /\ waiting' \in Seq(Call) /\ sent' \in 0..MaxMessages
  BY <1>1, <1>2, SentInOrder
<1>4. port' \in [Ports -> {"new", "open", "closed"}] /\ port'[p] = "open"
  BY <1>1, <1>2 DEF IInv, TypeOK
<1>5. UNCHANGED <<token, stamped, timerId, timers>>
  BY <1>2 DEF authVars
<1>6. TypeOK'
  BY <1>2, <1>3, <1>4, <1>5 DEF IInv, TypeOK
<1>7. TimersAccounted' /\ KnownInv'
  BY <1>2, <1>5 DEF IInv, TimersAccounted, KnownInv
<1>8. TimedInv'
  BY <1>1, <1>4 DEF TimedInv, Open
<1> QED
  BY <1>3, <1>6, <1>7, <1>8 DEF IInv

(* A port that is closed stays closed, and none becomes new.               *)
LEMMA ClosedStays ==
  ASSUME TypeOK, [Next]_vars \/ \E g \in Pages, m \in Methods : CallOnNewPort(g, m),
         NEW p \in Ports
  PROVE  (Closed(p) => Closed(p)') /\ (port[p] # "new" => port'[p] # "new")
<1>1. CASE \E g \in Pages, m \in Methods : CallOnNewPort(g, m)
  BY <1>1, NewPortFact DEF CallOnNewPort, TypeOK, Closed
<1>2. CASE \E q \in Ports : Connect(q) \/ Disconnect(q)
  BY <1>2 DEF Connect, Disconnect, TypeOK, Closed
<1>3. CASE Restart
  BY <1>3 DEF Restart, TypeOK, Closed
<1>4. CASE UNCHANGED port
  BY <1>4 DEF Closed
<1> QED
  BY <1>1, <1>2, <1>3, <1>4
     DEF Next, vars, Send, Acquire, Return, Fire, ShouldSkip

(* What a page is, and may wait for, after any step.                       *)
LEMMA ClientStep ==
  ASSUME CallsAssumption, IInv, ClientInv, [PagesNext]_allVars
  PROVE  ClientInv'
<1> USE DEF OpenPages
<1>0. /\ TypeOK /\ sent \in Nat
      /\ \A p \in Ports : (Closed(p) => Closed(p)')
                          /\ (port[p] # "new" => port'[p] # "new")
      /\ None \notin Ports /\ NoClient.heard = None
  BY AutoLockAssumption, PagesStep, ClosedStays
     DEF IInv, TypeOK, CallsAssumption, NoClient
<1>1. ASSUME UNCHANGED client, sent' >= sent, sent' \in Nat,
             callbackMap' \in [Pages -> SUBSET (0..sent')],
             \A g \in Pages : g \notin OpenPages => callbackMap'[g] = {}
      PROVE  ClientInv'
  BY <1>0, <1>1 DEF ClientInv
<1>2. ASSUME NEW g \in Pages, Listening(g), callbackMap'[g] = {},
             callbackMap' \in [Pages -> SUBSET (0..sent)],
             \A h \in Pages : h # g => callbackMap'[h] = callbackMap[h]
      PROVE  ClientInv'
  <2>1. NewPort \in Ports /\ port'[NewPort] = "open" /\ sent' = sent
    BY <1>0, <1>2, NewPortFact DEF Listening, Connect, TypeOK
  <2>2. /\ client' \in [Pages -> [heard : Ports \cup {None}, raw : Ports \cup {None},
                                 connected : BOOLEAN]]
        /\ client'[g] = [heard |-> NewPort, raw |-> NewPort, connected |-> TRUE]
        /\ \A h \in Pages : h # g => client'[h] = client[h]
    BY <1>2, <2>1 DEF Listening, ClientInv
  <2>. QED
    BY <1>0, <1>2, <2>1, <2>2 DEF ClientInv
<1>3. CASE \E g \in Pages : OpenPage(g)
  BY <1>2, <1>3 DEF OpenPage, ClientInv
<1>4. CASE \E g \in Pages : Notice(g)
  <2>1. PICK g \in Pages : Notice(g)
    BY <1>4
  <2>2. /\ callbackMap' \in [Pages -> SUBSET (0..sent)] /\ callbackMap'[g] = {}
        /\ \A h \in Pages : h # g => callbackMap'[h] = callbackMap[h]
    BY <2>1 DEF Notice, ClientInv
  <2>3. CASE Listening(g)
    BY <1>2, <2>2, <2>3
  <2>4. CASE client' = [client EXCEPT ![g] = NoClient] /\ UNCHANGED vars
    <3>1. sent' = sent /\ port' = port
      BY <2>4 DEF vars
    <3>2. NoClient \in [heard : Ports \cup {None}, raw : Ports \cup {None},
                        connected : BOOLEAN]
      BY DEF NoClient
    <3> QED
      BY <1>0, <2>2, <2>4, <3>1, <3>2 DEF ClientInv
  <2> QED
    BY <2>1, <2>3, <2>4 DEF Notice
<1>5. CASE \E g \in Pages : ClosePage(g)
  <2>1. PICK g \in Pages : ClosePage(g)
    BY <1>5
  <2>2. sent' = sent /\ port' = port
    BY <2>1 DEF ClosePage, vars
  <2>3. NoClient \in [heard : Ports \cup {None}, raw : Ports \cup {None},
                      connected : BOOLEAN]
    BY DEF NoClient
  <2> QED
    BY <1>0, <2>1, <2>2, <2>3 DEF ClosePage, ClientInv
<1>6. CASE \E g \in Pages, m \in Methods : CallMethod(g, m)
  <2>1. PICK g \in Pages, m \in Methods : CallMethod(g, m)
    BY <1>6
  <2>2. sent' = sent + 1 /\ sent + 1 \in 0..(sent + 1) /\ client' = client
    BY <1>0, <2>1 DEF CallMethod, Send
  <2>3. callbackMap' = [callbackMap EXCEPT ![g] = @ \cup {sent + 1}] /\ g \in OpenPages
    BY <2>1 DEF CallMethod
  <2>4. callbackMap' \in [Pages -> SUBSET (0..sent')]
    BY <1>0, <2>2, <2>3 DEF ClientInv
  <2> QED
    BY <1>0, <1>1, <2>2, <2>3, <2>4 DEF ClientInv
<1>7. CASE \E g \in Pages : CallFails(g)
  <2>1. PICK g \in Pages : CallFails(g)
    BY <1>7
  <2>2. sent' = sent /\ port' = port /\ g \in OpenPages
    BY <2>1 DEF CallFails, vars
  <2>3. CASE client' = [client EXCEPT ![g].connected = FALSE] /\ UNCHANGED callbackMap
    BY <1>0, <2>1, <2>2, <2>3 DEF CallFails, ClientInv, NoClient
  <2>4. CASE callbackMap' = [callbackMap EXCEPT ![g] = @ \cup {0}] /\ UNCHANGED client
    <3>1. callbackMap' \in [Pages -> SUBSET (0..sent')]
      BY <1>0, <2>2, <2>4 DEF ClientInv
    <3> QED
      BY <1>0, <1>1, <2>2, <2>4, <3>1 DEF ClientInv
  <2> QED
    BY <2>1, <2>3, <2>4 DEF CallFails
<1>8. CASE \E g \in Pages, m \in Methods : CallOnNewPort(g, m)
  <2>1. PICK g \in Pages, m \in Methods : CallOnNewPort(g, m)
    BY <1>8
  <2>2. /\ NewPort \in Ports /\ sent' = sent + 1 /\ sent + 1 \in 0..(sent + 1)
        /\ g \in OpenPages /\ ~client[g].connected
        /\ client' = [client EXCEPT ![g].raw = NewPort, ![g].connected = TRUE]
        /\ callbackMap' = [callbackMap EXCEPT ![g] = @ \cup {sent + 1}]
    BY <1>0, <2>1, NewPortFact DEF CallOnNewPort
  <2>3. callbackMap' \in [Pages -> SUBSET (0..sent')]
    BY <1>0, <2>2 DEF ClientInv
  <2>4. /\ client' \in [Pages -> [heard : Ports \cup {None}, raw : Ports \cup {None},
                                 connected : BOOLEAN]]
        /\ client'[g].heard = client[g].heard /\ client'[g].raw = NewPort
        /\ \A h \in Pages : h # g => client'[h] = client[h]
    BY <2>2 DEF ClientInv
  <2>5. client[g].heard \in Ports /\ Closed(client[g].heard)
    BY <2>2 DEF ClientInv
  <2>6. client'[g] # NoClient
    BY <1>0, <2>4, <2>5
  <2> QED
    BY <1>0, <2>2, <2>3, <2>4, <2>5, <2>6 DEF ClientInv
<1>9. CASE \E g \in Pages, n \in 1..MaxMessages : Hear(g, n)
  <2>1. sent' = sent /\ client' = client
    BY <1>9 DEF Hear, vars
  <2>2. callbackMap' \in [Pages -> SUBSET (0..sent)]
    BY <1>9 DEF Hear, ClientInv
  <2> QED
    BY <1>0, <1>1, <1>9, <2>1, <2>2 DEF Hear, ClientInv
<1>10. CASE \E g \in Pages : NoticeRaw(g)
  <2>1. PICK g \in Pages : NoticeRaw(g)
    BY <1>10
  <2>2. sent' = sent /\ port' = port /\ callbackMap' = callbackMap /\ g \in OpenPages
    BY <2>1 DEF NoticeRaw, vars
  <2> QED
    BY <1>0, <2>1, <2>2 DEF NoticeRaw, ClientInv, NoClient
<1>11. CASE \/ \E call \in Call : Answer(call)
            \/ \E p \in Ports : PortCloses(p)
            \/ Background \/ BackgroundStops
            \/ UNCHANGED allVars
  <2>1. sent' = sent /\ client' = client /\ callbackMap' = callbackMap
    BY <1>11 DEF Answer, Return, PortCloses, Disconnect, Background, Acquire,
                 ShouldSkip, Fire, BackgroundStops, Restart, allVars, clientVars, vars
  <2> QED
    BY <1>0, <1>1, <2>1 DEF ClientInv
<1> QED
  BY <1>3, <1>4, <1>5, <1>6, <1>7, <1>8, <1>9, <1>10, <1>11 DEF PagesNext

(* No step makes a call but those that send one.                           *)
LEMMA UnderWayStep ==
  ASSUME IInv, [Next]_vars, \A p \in Ports, m \in Methods : ~Send(p, m)
  PROVE  UnderWay' \subseteq UnderWay
<1> USE DEF UnderWay
<1>1. CASE Acquire
  <2>1. /\ Head(waiting) = waiting[1] /\ 1 \in 1..Len(waiting)
        /\ waiting' \in Seq(Call) /\ waiting \in Seq(Call)
        /\ \A i \in 1..Len(waiting') : i + 1 \in 1..Len(waiting)
                                       /\ waiting'[i] = waiting[i + 1]
    BY <1>1, HeadFact DEF Acquire, IInv, TypeOK
  <2>2. DOMAIN waiting = 1..Len(waiting) /\ DOMAIN waiting' = 1..Len(waiting')
    BY <2>1, LenProperties
  <2> QED
    BY <1>1, <2>1, <2>2 DEF Acquire, StartMethod
<1>2. CASE \E call \in Call : Return(call)
  BY <1>2 DEF Return
<1>3. CASE Restart
  <2>1. DOMAIN waiting' = {}
    BY <1>3, EmptySeq, LenProperties DEF Restart
  <2> QED
    BY <1>3, <2>1 DEF Restart
<1>4. CASE UNCHANGED <<waiting, running>>
  BY <1>4
<1> QED
  BY <1>1, <1>2, <1>3, <1>4 DEF Next, vars, Connect, Disconnect, Fire, ShouldSkip

(* A call that is sent is the only one of its number.                      *)
LEMMA SentUnderWay ==
  ASSUME IInv, NEW call \in Call, waiting' = Append(waiting, call), running' = running
  PROVE  UnderWay' \subseteq UnderWay \cup {call}
<1>1. waiting \in Seq(Call)
  BY DEF IInv, TypeOK
<1>2. /\ DOMAIN waiting = 1..Len(waiting) /\ DOMAIN waiting' = 1..Len(waiting')
      /\ Len(waiting') = Len(waiting) + 1 /\ waiting'[Len(waiting) + 1] = call
      /\ \A i \in 1..Len(waiting) : waiting'[i] = waiting[i]
      /\ Len(waiting) \in Nat
  BY <1>1, AppendProperties, LenProperties
<1>3. ASSUME NEW i \in DOMAIN waiting'
      PROVE  waiting'[i] \in UnderWay \cup {call}
  <2>1. i \in 1..Len(waiting) \/ i = Len(waiting) + 1
    BY <1>2
  <2> QED
    BY <1>2, <2>1 DEF UnderWay
<1> QED
  BY <1>3 DEF UnderWay

(* What a page waits for it will still hear of after any step.             *)
LEMMA HeardStep ==
  ASSUME CallsAssumption, PagesInv, ClientInv', [PagesNext]_allVars
  PROVE  HeardInv'
<1> DEFINE ClosedNow(p) == port'[p] = "closed"
<1> USE DEF OpenPages, Closed
<1>0. /\ IInv /\ TypeOK /\ ClientInv /\ sent \in Nat
      /\ \A call \in UnderWay : call.n <= sent /\ call.n \in Nat \ {0}
      /\ \A p \in Ports : Closed(p) => ClosedNow(p)
      /\ None \notin Ports
  <2>1. waiting \in Seq(Call) /\ running \subseteq Call /\ OrderInv
    BY DEF PagesInv, IInv, TypeOK
  <2>2. \A i \in DOMAIN waiting : i \in 1..Len(waiting) /\ waiting[i] \in Call
    BY <2>1, LenProperties
  <2>3. \A call \in UnderWay : call.n <= sent /\ call \in Call
    BY <2>1, <2>2 DEF UnderWay, OrderInv
  <2> QED
    BY <2>3, AutoLockAssumption, PagesStep, ClosedStays
       DEF PagesInv, IInv, TypeOK, CallsAssumption, Call
<1>1. ASSUME NEW g \in Pages, client[g] # NoClient, client'[g].heard = client[g].heard,
             NEW call \in UnderWay, call.n \in callbackMap[g]
      PROVE  \/ call.port = client'[g].heard
             \/ client'[g].heard # None /\ ClosedNow(client'[g].heard)
  BY <1>0, <1>1 DEF PagesInv, HeardInv, UnderWay, ClientInv
<1>2. ASSUME UnderWay' \subseteq UnderWay,
             \A g \in Pages : client'[g] # NoClient =>
               \/ /\ client[g] # NoClient /\ client'[g].heard = client[g].heard
                  /\ callbackMap'[g] \subseteq callbackMap[g] \cup {0}
               \/ callbackMap'[g] = {}
      PROVE  HeardInv'
  <2>1. ASSUME NEW g \in Pages, client'[g] # NoClient, NEW call \in UnderWay',
               call.n \in callbackMap'[g]
        PROVE  \/ call.port = client'[g].heard
               \/ client'[g].heard # None /\ ClosedNow(client'[g].heard)
    <3>1. call \in UnderWay /\ call.n # 0
      BY <1>0, <1>2, <2>1
    <3> QED
      BY <1>1, <1>2, <2>1, <3>1
  <2> QED
    BY <2>1 DEF HeardInv, UnderWay
<1>3. CASE \E g \in Pages : OpenPage(g) \/ ClosePage(g) \/ Notice(g)
  <2>1. UnderWay' \subseteq UnderWay
    BY <1>3 DEF OpenPage, ClosePage, Notice, Listening, Connect, vars, UnderWay
  <2>2. PICK g \in Pages : OpenPage(g) \/ ClosePage(g) \/ Notice(g)
    BY <1>3
  <2>3. /\ callbackMap'[g] = {}
        /\ \A h \in Pages : h # g => client'[h] = client[h]
                                     /\ callbackMap'[h] = callbackMap[h]
    BY <1>0, <2>2 DEF OpenPage, ClosePage, Notice, Listening, ClientInv
  <2> QED
    BY <1>2, <2>1, <2>3
<1>4. CASE \/ \E g \in Pages : CallFails(g) \/ NoticeRaw(g)
           \/ \E g \in Pages, n \in 1..MaxMessages : Hear(g, n)
  <2>1. UnderWay' \subseteq UnderWay
    BY <1>4 DEF CallFails, NoticeRaw, Hear, vars, UnderWay
  <2>2. ASSUME NEW g \in Pages
        PROVE  /\ client'[g].heard = client[g].heard
               /\ callbackMap'[g] \subseteq callbackMap[g] \cup {0}
    BY <1>0, <1>4 DEF CallFails, NoticeRaw, Hear, ClientInv
  <2>3. \A g \in Pages : client'[g] # NoClient => client[g] # NoClient
    BY <1>0, <1>4 DEF CallFails, NoticeRaw, Hear, ClientInv
  <2> QED
    BY <1>2, <2>1, <2>2, <2>3
<1>5. CASE \/ \E call \in Call : Answer(call)
           \/ \E p \in Ports : PortCloses(p)
           \/ Background \/ BackgroundStops
           \/ UNCHANGED allVars
  <2>1. [Next]_vars /\ client' = client /\ callbackMap' = callbackMap
    BY <1>5 DEF Answer, PortCloses, Background, BackgroundStops, Next, allVars,
                clientVars
  <2>2. sent' = sent
    BY <1>5 DEF Answer, Return, PortCloses, Disconnect, Background, Acquire,
                ShouldSkip, Fire, BackgroundStops, Restart, allVars, vars
  <2>3. UnderWay' \subseteq UnderWay
    BY <1>0, <2>1, <2>2, UnderWayStep DEF Send
  <2> QED
    BY <1>2, <2>1, <2>3
<1>6. ASSUME NEW g \in Pages, NEW p \in Ports, NEW m \in Methods,
             running' = running, sent < MaxMessages,
             waiting' = Append(waiting, [port |-> p, method |-> m, n |-> sent + 1]),
             callbackMap' = [callbackMap EXCEPT ![g] = @ \cup {sent + 1}],
             \A h \in Pages : client'[h].heard = client[h].heard
                              /\ (client'[h] # NoClient => client[h] # NoClient),
             \/ p = client'[g].heard
             \/ client'[g].heard # None /\ ClosedNow(client'[g].heard)
      PROVE  HeardInv'
  <2> DEFINE new == [port |-> p, method |-> m, n |-> sent + 1]
  <2>1. new \in Call
    BY <1>0, <1>6, AutoLockAssumption DEF Call, TypeOK
  <2>2. UnderWay' \subseteq UnderWay \cup {new}
    BY <1>0, <1>6, <2>1, SentUnderWay
  <2>3. ASSUME NEW h \in Pages, client'[h] # NoClient, NEW call \in UnderWay',
               call.n \in callbackMap'[h]
        PROVE  \/ call.port = client'[h].heard
               \/ client'[h].heard # None /\ ClosedNow(client'[h].heard)
    <3>1. CASE call \in UnderWay
      <4>1. call.n \in callbackMap[h]
        BY <1>0, <1>6, <2>3, <3>1 DEF ClientInv
      <4> QED
        BY <1>1, <1>6, <2>3, <3>1, <4>1
    <3>2. CASE call = new
      <4>1. h = g
        BY <1>0, <1>6, <2>3, <3>2 DEF ClientInv
      <4> QED
        BY <1>6, <3>2, <4>1
    <3> QED
      BY <2>2, <3>1, <3>2
  <2> QED
    BY <2>3 DEF HeardInv, UnderWay
<1>7. CASE \E g \in Pages, m \in Methods : CallMethod(g, m)
  <2>1. PICK g \in Pages, m \in Methods : CallMethod(g, m)
    BY <1>7
  <2>2. /\ client' = client /\ g \in OpenPages /\ client[g].connected
        /\ Send(client[g].raw, m)
        /\ callbackMap' = [callbackMap EXCEPT ![g] = @ \cup {sent + 1}]
    BY <2>1 DEF CallMethod
  <2>3. /\ client[g].raw \in Ports /\ client[g].heard \in Ports
        /\ client[g].raw = client[g].heard \/ ClosedNow(client[g].heard)
    BY <1>0, <2>2 DEF ClientInv
  <2> QED
    BY <1>0, <1>6, <2>2, <2>3 DEF Send
<1>8. CASE \E g \in Pages, m \in Methods : CallOnNewPort(g, m)
  <2>1. PICK g \in Pages, m \in Methods : CallOnNewPort(g, m)
    BY <1>8
  <2>2. /\ NewPort \in Ports /\ g \in OpenPages /\ ~client[g].connected
        /\ client' = [client EXCEPT ![g].raw = NewPort, ![g].connected = TRUE]
        /\ callbackMap' = [callbackMap EXCEPT ![g] = @ \cup {sent + 1}]
        /\ running' = running /\ sent < MaxMessages
        /\ waiting' = Append(waiting, [port |-> NewPort, method |-> m, n |-> sent + 1])
    BY <2>1, NewPortFact DEF CallOnNewPort
  <2>3. client[g].heard \in Ports /\ ClosedNow(client[g].heard)
    BY <1>0, <2>2 DEF ClientInv
  <2>4. \A h \in Pages : client'[h].heard = client[h].heard
                         /\ (client'[h] # NoClient => client[h] # NoClient)
    BY <1>0, <2>2 DEF ClientInv
  <2> QED
    BY <1>0, <1>6, <2>2, <2>3, <2>4
<1> QED
  BY <1>3, <1>4, <1>5, <1>7, <1>8 DEF PagesNext

(* The mutex takes no call away: only an answer and a restart do.          *)
LEMMA UnderWayKept ==
  ASSUME IInv, Acquire
  PROVE  UnderWay \subseteq UnderWay'
<1>1. /\ waiting \in Seq(Call) /\ waiting # <<>> /\ waiting' = Tail(waiting)
      /\ running' = running \cup {Head(waiting)}
  BY DEF Acquire, IInv, TypeOK
<1>2. /\ Head(waiting) = waiting[1]
      /\ DOMAIN waiting = 1..Len(waiting) /\ Len(waiting) \in Nat
      /\ DOMAIN waiting' = 1..Len(waiting') /\ Len(waiting') = Len(waiting) - 1
      /\ \A i \in 1..Len(waiting') : waiting'[i] = waiting[i + 1]
  BY <1>1, HeadTailProperties, LenProperties
<1>3. ASSUME NEW i \in DOMAIN waiting
      PROVE  waiting[i] \in UnderWay'
  <2>1. CASE i = 1
    BY <1>1, <1>2, <2>1 DEF UnderWay
  <2>2. CASE i # 1
    <3>1. i - 1 \in DOMAIN waiting' /\ waiting'[i - 1] = waiting[i]
      BY <1>2, <1>3, <2>2
    <3> QED
      BY <3>1 DEF UnderWay
  <2> QED
    BY <2>1, <2>2
<1> QED
  BY <1>1, <1>3 DEF UnderWay

(* A call that is sent joins those under way.                              *)
LEMMA SentJoins ==
  ASSUME IInv, NEW call \in Call, waiting' = Append(waiting, call), running' = running
  PROVE  UnderWay \cup {call} \subseteq UnderWay'
<1>1. waiting \in Seq(Call)
  BY DEF IInv, TypeOK
<1>2. /\ DOMAIN waiting = 1..Len(waiting) /\ DOMAIN waiting' = 1..Len(waiting')
      /\ Len(waiting') = Len(waiting) + 1 /\ waiting'[Len(waiting) + 1] = call
      /\ \A i \in 1..Len(waiting) : waiting'[i] = waiting[i]
      /\ Len(waiting) \in Nat
  BY <1>1, AppendProperties, LenProperties
<1>3. ASSUME NEW i \in DOMAIN waiting
      PROVE  waiting[i] \in UnderWay'
  <2>1. i \in DOMAIN waiting' /\ waiting'[i] = waiting[i]
    BY <1>2, <1>3
  <2> QED
    BY <2>1 DEF UnderWay
<1>4. call \in UnderWay'
  <2>1. Len(waiting) + 1 \in DOMAIN waiting'
    BY <1>2
  <2> QED
    BY <1>2, <2>1 DEF UnderWay
<1> QED
  BY <1>3, <1>4 DEF UnderWay

(* Nothing a page waits for is left behind by any step.                    *)
AnswersInv == answers \in [Pages -> SUBSET (1..MaxMessages)]
OrphanInv == PagesInv /\ AnswersInv /\ NoneIsOrphaned

LEMMA OrphanStep ==
  ASSUME CallsAssumption, OrphanInv, PagesInv', [PagesNext]_allVars
  PROVE  AnswersInv' /\ NoneIsOrphaned'
<1> DEFINE ClosedNow(p) == port'[p] = "closed"
           Kept(n, g) == \/ n \in answers'[g]
                         \/ \E call \in UnderWay' :
                              call.n = n /\ call.port = client'[g].heard
                         \/ client'[g].heard # None /\ ClosedNow(client'[g].heard)
<1> USE DEF OpenPages, Closed
<1>0. /\ IInv /\ TypeOK /\ ClientInv /\ AnswersInv
      /\ \A p \in Ports : Closed(p) => ClosedNow(p)
      /\ None \notin Ports
  BY PagesStep, ClosedStays DEF OrphanInv, PagesInv, IInv, CallsAssumption
<1>1. ASSUME \A g \in Pages : client'[g] # NoClient =>
               \A n \in callbackMap'[g] : Kept(n, g)
      PROVE  NoneIsOrphaned'
  BY <1>1 DEF NoneIsOrphaned
<1>2. ASSUME NEW g \in Pages, client[g] # NoClient, client'[g].heard = client[g].heard,
             NEW n \in callbackMap[g], UnderWay \subseteq UnderWay',
             n \in answers[g] => n \in answers'[g]
      PROVE  Kept(n, g)
  BY <1>0, <1>2 DEF OrphanInv, NoneIsOrphaned, ClientInv
<1>3. CASE \E g \in Pages : OpenPage(g) \/ ClosePage(g) \/ Notice(g)
  <2>1. UnderWay \subseteq UnderWay'
    BY <1>3 DEF OpenPage, ClosePage, Notice, Listening, Connect, vars, UnderWay
  <2>2. PICK g \in Pages : OpenPage(g) \/ ClosePage(g) \/ Notice(g)
    BY <1>3
  <2>3. /\ callbackMap'[g] = {}
        /\ \A h \in Pages : h # g => /\ client'[h] = client[h]
                                     /\ callbackMap'[h] = callbackMap[h]
                                     /\ answers'[h] = answers[h]
    BY <1>0, <2>2 DEF OpenPage, ClosePage, Notice, Listening, ClientInv, AnswersInv
  <2>4. AnswersInv'
    BY <1>0, <2>2 DEF OpenPage, ClosePage, Notice, AnswersInv
  <2> QED
    BY <1>1, <1>2, <2>1, <2>3, <2>4
<1>4. CASE \E g \in Pages, n \in 1..MaxMessages : Hear(g, n)
  <2>1. PICK g \in Pages, n \in 1..MaxMessages : Hear(g, n)
    BY <1>4
  <2>2. UnderWay \subseteq UnderWay' /\ client' = client
    BY <2>1 DEF Hear, vars, UnderWay
  <2>3. /\ callbackMap' = [callbackMap EXCEPT ![g] = @ \ {n}]
        /\ answers' = [answers EXCEPT ![g] = @ \ {n}]
    BY <2>1 DEF Hear
  <2>4. \A h \in Pages : \A k \in callbackMap'[h] :
          k \in callbackMap[h] /\ (k \in answers[h] => k \in answers'[h])
    BY <1>0, <2>3 DEF ClientInv, AnswersInv
  <2>5. AnswersInv'
    BY <1>0, <2>3 DEF AnswersInv
  <2> QED
    BY <1>1, <1>2, <2>2, <2>4, <2>5
<1>5. CASE \E g \in Pages : CallFails(g) \/ NoticeRaw(g)
  <2>1. PICK g \in Pages : CallFails(g) \/ NoticeRaw(g)
    BY <1>5
  <2>2. UnderWay \subseteq UnderWay' /\ answers' = answers
    BY <2>1 DEF CallFails, NoticeRaw, vars, UnderWay
  <2>3. ASSUME NEW h \in Pages
        PROVE  /\ client'[h].heard = client[h].heard
               /\ client'[h] # NoClient => client[h] # NoClient
               /\ callbackMap'[h] \subseteq callbackMap[h] \cup {0}
    BY <1>0, <2>1 DEF CallFails, NoticeRaw, ClientInv
  <2>4. ASSUME NEW h \in Pages, client'[h] # NoClient, NEW k \in callbackMap'[h],
               k \notin callbackMap[h]
        PROVE  Kept(k, h)
    <3>1. h = g /\ CallFails(g) /\ client' = client
      BY <1>0, <2>1, <2>4 DEF CallFails, NoticeRaw, ClientInv
    <3>2. client[g].heard \in Ports /\ ClosedNow(client[g].heard)
      BY <1>0, <3>1 DEF CallFails, ClientInv
    <3> QED
      BY <1>0, <3>1, <3>2
  <2>5. AnswersInv'
    BY <1>0, <2>2 DEF AnswersInv
  <2> QED
    BY <1>1, <1>2, <2>2, <2>3, <2>4, <2>5
<1>6. CASE \E call \in Call : Answer(call)
  <2>1. PICK call \in Call : Answer(call)
    BY <1>6
  <2>2. /\ client' = client /\ callbackMap' = callbackMap
        /\ call \in running /\ running' = running \ {call}
        /\ waiting' = waiting /\ port' = port
        /\ answers' = [g \in Pages |->
             IF client[g].heard = call.port /\ ~Closed(call.port)
             THEN answers[g] \cup {call.n} ELSE answers[g]]
    BY <2>1 DEF Answer, Return
  <2>3. UnderWay \subseteq UnderWay' \cup {call}
    BY <2>2 DEF UnderWay
  <2>4. ASSUME NEW g \in Pages, client'[g] # NoClient, NEW n \in callbackMap'[g]
        PROVE  Kept(n, g)
    <3>1. /\ client[g].heard \in Ports /\ client[g] # NoClient /\ n \in callbackMap[g]
          /\ answers'[g] = IF client[g].heard = call.port /\ ~Closed(call.port)
                           THEN answers[g] \cup {call.n} ELSE answers[g]
      BY <1>0, <2>2, <2>4 DEF ClientInv
    <3>2. CASE n \in answers[g]
      BY <3>1, <3>2
    <3>3. ASSUME NEW other \in UnderWay, other.n = n, other.port = client[g].heard
          PROVE  Kept(n, g)
      <4>1. CASE other = call
        BY <1>0, <2>2, <3>1, <3>3, <4>1
      <4>2. CASE other # call
        BY <2>2, <2>3, <3>3, <4>2
      <4> QED
        BY <4>1, <4>2
    <3>4. CASE client[g].heard # None /\ Closed(client[g].heard)
      BY <2>2, <3>4
    <3> QED
      BY <3>1, <3>2, <3>3, <3>4 DEF OrphanInv, NoneIsOrphaned
  <2>5. AnswersInv'
    BY <1>0, <2>1, <2>2 DEF AnswersInv, Call
  <2> QED
    BY <1>1, <2>4, <2>5
<1>7. CASE \E p \in Ports : PortCloses(p)
  <2>1. /\ UnderWay \subseteq UnderWay' /\ answers' = answers
        /\ client' = client /\ callbackMap' = callbackMap
    BY <1>7 DEF PortCloses, Disconnect, UnderWay
  <2> QED
    BY <1>0, <1>1, <1>2, <2>1 DEF AnswersInv
<1>8. CASE Background
  <2>1. answers' = answers /\ client' = client /\ callbackMap' = callbackMap
    BY <1>8 DEF Background, clientVars
  <2>2. UnderWay \subseteq UnderWay'
    <3>1. CASE Acquire
      BY <1>0, <3>1, UnderWayKept
    <3>2. CASE waiting' = waiting /\ running' = running
      BY <3>2 DEF UnderWay
    <3> QED
      BY <1>8, <3>1, <3>2 DEF Background, ShouldSkip, Fire
  <2> QED
    BY <1>0, <1>1, <1>2, <2>1, <2>2 DEF AnswersInv
<1>9. CASE BackgroundStops
  <2>1. /\ answers' = answers /\ client' = client /\ callbackMap' = callbackMap
        /\ port' = [p \in Ports |-> IF port[p] = "new" THEN "new" ELSE "closed"]
    BY <1>9 DEF BackgroundStops, Restart
  <2>2. \A g \in Pages : client'[g] # NoClient =>
          client'[g].heard \in Ports /\ ClosedNow(client'[g].heard)
    BY <1>0, <2>1 DEF ClientInv
  <2> QED
    BY <1>0, <1>1, <2>1, <2>2 DEF AnswersInv
<1>10. CASE UNCHANGED allVars
  <2>1. /\ answers' = answers /\ client' = client /\ callbackMap' = callbackMap
        /\ UnderWay \subseteq UnderWay'
    BY <1>10 DEF allVars, clientVars, vars, UnderWay
  <2> QED
    BY <1>0, <1>1, <1>2, <2>1 DEF AnswersInv
<1>11. ASSUME NEW g \in Pages, NEW p \in Ports, NEW m \in Methods,
              running' = running, sent < MaxMessages, answers' = answers,
              waiting' = Append(waiting, [port |-> p, method |-> m, n |-> sent + 1]),
              callbackMap' = [callbackMap EXCEPT ![g] = @ \cup {sent + 1}],
              \A h \in Pages : client'[h].heard = client[h].heard
                               /\ (client'[h] # NoClient => client[h] # NoClient),
              \/ p = client'[g].heard
              \/ client'[g].heard # None /\ ClosedNow(client'[g].heard)
       PROVE  AnswersInv' /\ NoneIsOrphaned'
  <2> DEFINE new == [port |-> p, method |-> m, n |-> sent + 1]
  <2>1. new \in Call
    BY <1>0, <1>11, AutoLockAssumption DEF Call, TypeOK
  <2>2. UnderWay \cup {new} \subseteq UnderWay'
    BY <1>0, <1>11, <2>1, SentJoins
  <2>3. new.port = p /\ new.n = sent + 1
    OBVIOUS
  <2> HIDE DEF new
  <2>4. ASSUME NEW h \in Pages, client'[h] # NoClient, NEW n \in callbackMap'[h]
        PROVE  Kept(n, h)
    <3>1. n \in callbackMap[h] \/ (h = g /\ n = sent + 1)
      BY <1>0, <1>11, <2>4 DEF ClientInv
    <3>2. CASE n \in callbackMap[h]
      BY <1>2, <1>11, <2>2, <2>4, <3>2
    <3>3. CASE h = g /\ n = sent + 1
      BY <1>11, <2>2, <2>3, <3>3
    <3> QED
      BY <3>1, <3>2, <3>3
  <2> QED
    BY <1>0, <1>1, <1>11, <2>4 DEF AnswersInv
<1>12. CASE \E g \in Pages, m \in Methods : CallMethod(g, m)
  <2>1. PICK g \in Pages, m \in Methods : CallMethod(g, m)
    BY <1>12
  <2>2. /\ client' = client /\ g \in OpenPages /\ client[g].connected
        /\ Send(client[g].raw, m) /\ answers' = answers
        /\ callbackMap' = [callbackMap EXCEPT ![g] = @ \cup {sent + 1}]
    BY <2>1 DEF CallMethod
  <2>3. /\ client[g].raw \in Ports /\ client[g].heard \in Ports
        /\ client[g].raw = client[g].heard \/ ClosedNow(client[g].heard)
    BY <1>0, <2>2 DEF ClientInv
  <2> QED
    BY <1>0, <1>11, <2>2, <2>3 DEF Send
<1>13. CASE \E g \in Pages, m \in Methods : CallOnNewPort(g, m)
  <2>1. PICK g \in Pages, m \in Methods : CallOnNewPort(g, m)
    BY <1>13
  <2>2. /\ NewPort \in Ports /\ g \in OpenPages /\ ~client[g].connected
        /\ client' = [client EXCEPT ![g].raw = NewPort, ![g].connected = TRUE]
        /\ callbackMap' = [callbackMap EXCEPT ![g] = @ \cup {sent + 1}]
        /\ running' = running /\ sent < MaxMessages /\ answers' = answers
        /\ waiting' = Append(waiting, [port |-> NewPort, method |-> m, n |-> sent + 1])
    BY <2>1, NewPortFact DEF CallOnNewPort
  <2>3. client[g].heard \in Ports /\ ClosedNow(client[g].heard)
    BY <1>0, <2>2 DEF ClientInv
  <2>4. \A h \in Pages : client'[h].heard = client[h].heard
                         /\ (client'[h] # NoClient => client[h] # NoClient)
    BY <1>0, <2>2 DEF ClientInv
  <2> QED
    BY <1>0, <1>11, <2>2, <2>3, <2>4
<1> QED
  BY <1>3, <1>4, <1>5, <1>6, <1>7, <1>8, <1>9, <1>10, <1>12, <1>13 DEF PagesNext

(* The invariant of the pages holds in every reachable state.              *)
LEMMA PagesInvariance == PagesSpec => []PagesInv
<1>1. PagesInit => PagesInv
  <2> SUFFICES ASSUME PagesInit PROVE PagesInv
    OBVIOUS
  <2>1. IInv
    BY InitIInv DEF PagesInit
  <2>2. OpenPages = {}
    BY DEF PagesInit, OpenPages
  <2>3. NoClient \in [heard : Ports \cup {None}, raw : Ports \cup {None},
                      connected : BOOLEAN]
    BY DEF NoClient
  <2>4. ClientInv
    BY <2>2, <2>3 DEF PagesInit, ClientInv
  <2> QED
    BY <2>1, <2>2, <2>4 DEF PagesInv, HeardInv
<1>2. PagesInv /\ [PagesNext]_allVars => PagesInv'
  <2> SUFFICES ASSUME PagesInv, [PagesNext]_allVars PROVE PagesInv'
    OBVIOUS
  <2>1. IInv'
    BY PagesStep, NextIInv, NewPortStep DEF PagesInv
  <2>2. ClientInv'
    BY ClientStep, CallsAssumption DEF PagesInv
  <2> QED
    BY <2>1, <2>2, HeardStep, CallsAssumption DEF PagesInv
<1> QED
  BY <1>1, <1>2, PTL DEF PagesSpec

(* No callback of a page is left behind: of every call it waits for, the   *)
(* answer is on its way, or still to be given on the port it listens to,   *)
(* or the page will be told that this port is gone and rejects the call.   *)
(* However many pages and ports there are and whenever they close, and     *)
(* whenever the background restarts.                                       *)
THEOREM NoneIsOrphanedHolds == PagesSpec => []NoneIsOrphaned
<1>1. PagesInit => AnswersInv /\ NoneIsOrphaned
  BY DEF PagesInit, AnswersInv, NoneIsOrphaned, OpenPages
<1>2. /\ PagesInv /\ PagesInv' /\ AnswersInv /\ NoneIsOrphaned
      /\ [PagesNext]_allVars
      => (AnswersInv /\ NoneIsOrphaned)'
  BY OrphanStep, CallsAssumption DEF OrphanInv
<1> QED
  BY <1>1, <1>2, PagesInvariance, PTL DEF PagesSpec

(* With the pages and their clients in front of it, too, an unlocked       *)
(* wallet without connections is timed.                                    *)
THEOREM PagesClosedMeansTimed == PagesSpec => []ClosedMeansTimed
<1>1. PagesInv => ClosedMeansTimed
  BY DEF PagesInv, IInv, TimedInv, ClosedMeansTimed
<1> QED
  BY <1>1, PagesInvariance, PTL

(* And logins and locks take effect in the order in which the pages sent   *)
(* them, a call that opened a port of its own included.                    *)
THEOREM PagesLastOneWins == PagesSpec => LastOneWins
<1>1. ASSUME PagesInv, [PagesNext]_allVars
      PROVE  [mandate' >= mandate]_vars
  <2>1. CASE [Next]_vars
    BY <1>1, <2>1, MandateGrows DEF PagesInv
  <2>2. CASE \E g \in Pages, m \in Methods : CallOnNewPort(g, m)
    <3>1. mandate' = mandate /\ mandate \in Nat
      BY <1>1, <2>2, AutoLockAssumption DEF CallOnNewPort, PagesInv, IInv, TypeOK
    <3> QED
      BY <3>1
  <2> QED
    BY <1>1, <2>1, <2>2, PagesStep DEF PagesInv
<1> QED
  BY <1>1, PagesInvariance, PTL DEF PagesSpec, LastOneWins
=============================================================================
