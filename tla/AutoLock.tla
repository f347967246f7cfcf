------------------------------ MODULE AutoLock ------------------------------
(***************************************************************************)
(* When the wallet is unlocked: the token and the lock timer of            *)
(* store/vault/managers/auth/AuthManager.ts, the handler that runs popup   *)
(* messages one at a time under a mutex (handlers/PopupServerHandler.ts),  *)
(* and the record sync timers that ask hasAuth while a popup is connected  *)
(* (background/index.ts).                                                  *)
(*                                                                         *)
(* Time is abstract: a live timer may fire at any moment. A port is one    *)
(* connection of a wallet page and is not opened twice.                    *)
(***************************************************************************)
EXTENDS Naturals, Sequences, FiniteSets

CONSTANTS
  Ports,        \* popup connections
  MaxMessages   \* bound: messages sent by all popups together

ASSUME AutoLockAssumption == IsFiniteSet(Ports) /\ MaxMessages \in Nat

(* Every other method, hasAuth and a login with a wrong password included, *)
(* does no more to the timer than the handler that runs it. No page calls  *)
(* timeoutLock today, though the client offers it.                         *)
Methods == {"other", "login", "lock", "timeoutLock"}

(* A handler invocation: its port, its method and its arrival number.      *)
Call == [port : Ports, method : Methods, n : 1..MaxMessages]

Timers == 1..(Cardinality(Ports) + MaxMessages)
NoTimer == 0

VARIABLES
  token,      \* AuthManager.#token is set
  stamped,    \* AuthManager.#loginTimestamp is set
  timerId,    \* AuthManager.#timerId
  timers,     \* timers armed in the JavaScript engine
  port,       \* life of each connection
  waiting,    \* handler invocations waiting for the mutex, in order
  running,    \* invocations in progress, holding the mutex
  sent,       \* messages sent so far
  forgotten,  \* history: armed timers that #timerId lost track of
  late,       \* history: a message cleared the timer when no page was open
  mandate     \* history: number of the last completed login or lock, 0 if none

authVars == <<token, stamped, timerId, timers>>
vars == <<authVars, port, waiting, running, sent, forgotten, late, mandate>>

Open == {p \in Ports : port[p] = "open"}    \* PopupServerHandler.popupPorts

Init ==
  /\ token = FALSE
  /\ stamped = FALSE
  /\ timerId = NoTimer
  /\ timers = {}
  /\ port = [p \in Ports |-> "new"]
  /\ waiting = <<>>
  /\ running = {}
  /\ sent = 0
  /\ forgotten = {}
  /\ late = FALSE
  /\ mandate = 0

-----------------------------------------------------------------------------
(* AuthManager                                                             *)

(* #timerId is reset before clearTimeout reads it: the timer stays armed.  *)
ForgetTimer ==
  /\ timerId' = NoTimer
  /\ forgotten' = forgotten \cup (timers \cap {timerId})

HasAuth ==
  IF token /\ stamped
  THEN ForgetTimer /\ UNCHANGED <<token, stamped, timers>>
  ELSE UNCHANGED <<authVars, forgotten>>

Lock ==
  /\ token' = FALSE
  /\ stamped' = FALSE
  /\ timerId' = NoTimer

TimeoutLock(t) ==
  /\ t \notin timers
  /\ \A u \in Timers \ timers : t <= u
  /\ timers' = (timers \ {timerId}) \cup {t}
  /\ timerId' = t
  /\ stamped' = TRUE
  /\ UNCHANGED token

-----------------------------------------------------------------------------
(* PopupServerHandler                                                      *)

Connect(p) ==
  /\ port[p] = "new"
  /\ port' = [port EXCEPT ![p] = "open"]
  /\ late' = FALSE
  /\ UNCHANGED <<authVars, waiting, running, sent, forgotten, mandate>>

(* A message arrives; its handler waits for the mutex.                     *)
Send(p, m) ==
  /\ port[p] = "open"
  /\ sent < MaxMessages
  /\ sent' = sent + 1
  /\ waiting' = Append(waiting, [port |-> p, method |-> m, n |-> sent + 1])
  /\ UNCHANGED <<authVars, port, running, forgotten, late, mandate>>

(* clearTimeoutLock, then the method starts: lock and timeoutLock are done *)
(* at once, a login validates the password first.                          *)
StartMethod(call) ==
  \/ /\ call.method = "timeoutLock"
     /\ \E t \in Timers : TimeoutLock(t)
     /\ UNCHANGED mandate
  \/ /\ call.method = "lock"
     /\ timers' = timers \ {timerId}
     /\ Lock
     /\ mandate' = call.n
  \/ /\ call.method \in {"login", "other"}
     /\ timers' = timers \ {timerId}
     /\ timerId' = NoTimer
     /\ UNCHANGED <<token, stamped, mandate>>

(* Mutant: handlers do not wait for each other.                            *)
AcquireAtOnce ==
  /\ waiting # <<>>
  /\ LET call == Head(waiting) IN
       /\ running' = running \cup {call}
       /\ late' = (Open = {} /\ call.method # "timeoutLock")
       /\ StartMethod(call)
  /\ waiting' = Tail(waiting)
  /\ UNCHANGED <<port, sent, forgotten>>

(* The mutex is acquired.                                                  *)
Acquire ==
  /\ running = {}
  /\ waiting # <<>>
  /\ LET call == Head(waiting) IN
       /\ running' = running \cup {call}
       /\ late' = (Open = {} /\ call.method # "timeoutLock")
       /\ StartMethod(call)
  /\ waiting' = Tail(waiting)
  /\ UNCHANGED <<port, sent, forgotten>>

(* The method returns, the answer is posted and the mutex released. After  *)
(* a login the scanner prewarm, unless it ran before, asks hasAuth.        *)
Return(call) ==
  /\ call \in running
  /\ running' = running \ {call}
  /\ IF call.method = "login"
     THEN /\ token' = TRUE
          /\ stamped' = TRUE
          /\ mandate' = call.n
          /\ \/ UNCHANGED <<timerId, forgotten>>
             \/ ForgetTimer
     ELSE UNCHANGED <<token, stamped, timerId, forgotten, mandate>>
  /\ UNCHANGED <<timers, port, waiting, sent, late>>

(* Mutant: the ports are counted before the port is removed.               *)
DisconnectCountsFirst(p) ==
  /\ port[p] = "open"
  /\ port' = [port EXCEPT ![p] = "closed"]
  /\ IF Open = {}
     THEN /\ \E t \in Timers : TimeoutLock(t)
          /\ late' = FALSE
     ELSE UNCHANGED <<authVars, late>>
  /\ UNCHANGED <<waiting, running, sent, forgotten, mandate>>

(* Mutant: no timer is armed while a message is being handled.             *)
DisconnectWhenIdle(p) ==
  /\ port[p] = "open"
  /\ port' = [port EXCEPT ![p] = "closed"]
  /\ IF Open = {p} /\ running = {}
     THEN /\ \E t \in Timers : TimeoutLock(t)
          /\ late' = FALSE
     ELSE UNCHANGED <<authVars, late>>
  /\ UNCHANGED <<waiting, running, sent, forgotten, mandate>>

(* onDisconnect does not take the mutex.                                   *)
Disconnect(p) ==
  /\ port[p] = "open"
  /\ port' = [port EXCEPT ![p] = "closed"]
  /\ IF Open = {p}
     THEN /\ \E t \in Timers : TimeoutLock(t)
          /\ late' = FALSE
     ELSE UNCHANGED <<authVars, late>>
  /\ UNCHANGED <<waiting, running, sent, forgotten, mandate>>

-----------------------------------------------------------------------------
(* Timers                                                                  *)

(* lock forgets the armed timer too, when it is not the one that fired.    *)
(* LOCK_TIME is hours: no password check takes that long.                  *)
Fire(t) ==
  /\ t \in timers
  /\ \A call \in running : call.method # "login"
  /\ timers' = timers \ {t}
  /\ Lock
  /\ forgotten' = (forgotten \cup (timers \cap {timerId})) \ {t}
  /\ UNCHANGED <<port, waiting, running, sent, late, mandate>>

(* A record sync timer: shouldSkip asks hasAuth if a popup is connected.   *)
ShouldSkip ==
  /\ Open # {}
  /\ HasAuth
  /\ UNCHANGED <<port, waiting, running, sent, late, mandate>>

(* The service worker stops: the token lived in its memory only.           *)
Restart ==
  /\ token' = FALSE
  /\ stamped' = FALSE
  /\ timerId' = NoTimer
  /\ timers' = {}
  /\ port' = [p \in Ports |-> IF port[p] = "new" THEN "new" ELSE "closed"]
  /\ waiting' = <<>>
  /\ running' = {}
  /\ forgotten' = {}
  /\ late' = FALSE
  /\ UNCHANGED <<sent, mandate>>

Next ==
  \/ \E p \in Ports : Connect(p) \/ Disconnect(p)
  \/ \E p \in Ports, m \in Methods : Send(p, m)
  \/ Acquire
  \/ \E call \in Call : Return(call)
  \/ \E t \in Timers : Fire(t)
  \/ ShouldSkip
  \/ Restart

Spec == Init /\ [][Next]_vars

-----------------------------------------------------------------------------
(* Properties                                                              *)

(* Every variable stays within its type, and a session is always stamped.  *)
TypeOK ==
  /\ token \in BOOLEAN /\ stamped \in BOOLEAN /\ (token => stamped)
  /\ timerId \in Timers \cup {NoTimer}
  /\ timers \subseteq Timers
  /\ port \in [Ports -> {"new", "open", "closed"}]
  /\ waiting \in Seq(Call)
  /\ running \subseteq Call
  /\ sent \in 0..MaxMessages
  /\ forgotten \subseteq timers
  /\ late \in BOOLEAN
  /\ mandate \in 0..MaxMessages

(* AuthManager holds the handle of every armed timer, except those its     *)
(* hasAuth and lock lost: timeoutLock and clearTimeoutLock, run by         *)
(* disconnects and by messages in any order, leave none behind.            *)
TimersAccounted == timers \subseteq {timerId} \cup forgotten

(* Locks and logins of several wallet pages take effect in the order in    *)
(* which they were sent: a slow password check never unlocks a wallet that *)
(* a later message locked.                                                 *)
LastOneWins == [][mandate' >= mandate]_vars

(* While every page is closed the wallet can become unlocked only by a     *)
(* login that was already sent, and then a timer is armed for it unless    *)
(* that login itself started after the last page closed.                   *)
ClosedMeansTimed ==
  (token /\ Open = {} /\ ~late) => timers # {}

(* What hasAuth announces when it logs "clearTimeout" (AuthManager.ts:39): *)
(* the only timer that can lock the wallet is the one #timerId holds.      *)
NoForgottenTimer == timers \subseteq {timerId}

=============================================================================
