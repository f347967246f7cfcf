----------------------------- MODULE PopupCalls -----------------------------
(***************************************************************************)
(* The calls of the wallet pages, from the client in the page (client.ts,  *)
(* port.ts) to the handler and the lock timer of AutoLock and back. A      *)
(* client keeps a callback for every call it waits for, hears the answers  *)
(* on one port, and rejects what it waits for when that port is closed.    *)
(* The wrapper of the port opens another one by itself when it knows that  *)
(* its own is gone; nobody hears what comes back on that one.              *)
(***************************************************************************)
EXTENDS AutoLock

CONSTANTS Pages, None

ASSUME CallsAssumption == None \notin Ports \cup Pages

VARIABLES
  client,       \* of each page, NoClient while the page is closed
  owner,        \* the page that opened an open port; None if it is closed
  callbackMap,  \* the calls a page waits for, by number; 0 if never received
  answers       \* answers on their way that a page will hear

clientVars == <<client, owner, callbackMap, answers>>
allVars == <<vars, clientVars>>

(* heard: the port the client listens to; raw: the one calls are posted to;*)
(* connected: Port.connected.                                              *)
NoClient == [heard |-> None, raw |-> None, connected |-> FALSE]
OpenPages == {g \in Pages : client[g] # NoClient}

Closed(p) == port[p] = "closed"
HasNewPort == \E p \in Ports : port[p] = "new"
NewPort == CHOOSE p \in Ports : port[p] = "new"

PagesInit ==
  /\ Init
  /\ client = [g \in Pages |-> NoClient]
  /\ owner = [p \in Ports |-> None]
  /\ callbackMap = [g \in Pages |-> {}]
  /\ answers = [g \in Pages |-> {}]

-----------------------------------------------------------------------------
(* The page                                                                *)

(* _connect: a new port, which the client listens to.                      *)
Listening(g) ==
  /\ HasNewPort
  /\ Connect(NewPort)
  /\ client' = [client EXCEPT ![g] =
       [heard |-> NewPort, raw |-> NewPort, connected |-> TRUE]]
  /\ owner' = [owner EXCEPT ![NewPort] = g]

OpenPage(g) ==
  /\ g \notin OpenPages
  /\ Listening(g)
  /\ UNCHANGED <<callbackMap, answers>>

Disowned(g) ==
  owner' = [p \in Ports |-> IF owner[p] = g THEN None ELSE owner[p]]

(* The page's memory goes at once; the background hears of its ports later.*)
ClosePage(g) ==
  /\ g \in OpenPages
  /\ client' = [client EXCEPT ![g] = NoClient]
  /\ callbackMap' = [callbackMap EXCEPT ![g] = {}]
  /\ answers' = [answers EXCEPT ![g] = {}]
  /\ Disowned(g)
  /\ UNCHANGED vars

(* A call on an open port.                                                 *)
CallMethod(g, m) ==
  /\ g \in OpenPages /\ client[g].connected
  /\ Send(client[g].raw, m)
  /\ callbackMap' = [callbackMap EXCEPT ![g] = @ \cup {sent + 1}]
  /\ UNCHANGED <<client, owner, answers>>

(* postMessage on a port that is gone throws, or the message is lost.      *)
CallFails(g) ==
  /\ g \in OpenPages /\ client[g].connected /\ Closed(client[g].raw)
  /\ \/ /\ client' = [client EXCEPT ![g].connected = FALSE]
        /\ UNCHANGED callbackMap
     \/ /\ callbackMap' = [callbackMap EXCEPT ![g] = @ \cup {0}]
        /\ UNCHANGED client
  /\ UNCHANGED <<vars, owner, answers>>

(* The wrapper knows that its port is gone and opens one the client does   *)
(* not listen to, for this call.                                           *)
CallOnNewPort(g, m) ==
  /\ g \in OpenPages /\ ~client[g].connected
  /\ HasNewPort /\ sent < MaxMessages
  /\ port' = [port EXCEPT ![NewPort] = "open"]
  /\ late' = FALSE
  /\ sent' = sent + 1
  /\ waiting' = Append(waiting, [port |-> NewPort, method |-> m, n |-> sent + 1])
  /\ client' = [client EXCEPT ![g].raw = NewPort, ![g].connected = TRUE]
  /\ owner' = [owner EXCEPT ![NewPort] = g]
  /\ callbackMap' = [callbackMap EXCEPT ![g] = @ \cup {sent + 1}]
  /\ UNCHANGED <<authVars, running, forgotten, mandate, answers>>

(* An answer arrives.                                                      *)
Hear(g, n) ==
  /\ n \in answers[g]
  /\ answers' = [answers EXCEPT ![g] = @ \ {n}]
  /\ callbackMap' = [callbackMap EXCEPT ![g] = @ \ {n}]
  /\ UNCHANGED <<vars, client, owner>>

(* As if the new client took the callbacks over.                           *)
NoticeKeepsCalls(g) ==
  /\ g \in OpenPages /\ Closed(client[g].heard)
  /\ answers' = [answers EXCEPT ![g] = {}]
  /\ Listening(g)
  /\ UNCHANGED callbackMap

(* The client hears that its port is closed. A page that has no port left  *)
(* to open counts as closed.                                               *)
Notice(g) ==
  /\ g \in OpenPages /\ Closed(client[g].heard)
  /\ answers' = [answers EXCEPT ![g] = {}]
  /\ callbackMap' = [callbackMap EXCEPT ![g] = {}]
  /\ \/ Listening(g)
     \/ /\ ~HasNewPort
        /\ client' = [client EXCEPT ![g] = NoClient]
        /\ Disowned(g)
        /\ UNCHANGED vars

(* The wrapper hears that the port it opened by itself is closed.          *)
NoticeRaw(g) ==
  /\ g \in OpenPages /\ client[g].connected
  /\ client[g].raw # client[g].heard /\ Closed(client[g].raw)
  /\ client' = [client EXCEPT ![g].connected = FALSE]
  /\ UNCHANGED <<vars, owner, callbackMap, answers>>

-----------------------------------------------------------------------------
(* The background                                                          *)

(* As if the handler kept one port, whichever connected last.              *)
AnswerOnOnePort(call) ==
  /\ Return(call)
  /\ \E p \in Open : answers' = [g \in Pages |->
       IF client[g].heard = p THEN answers[g] \cup {call.n} ELSE answers[g]]
  /\ UNCHANGED <<client, owner, callbackMap>>

(* The handler posts its answer, which throws if the port is closed, and   *)
(* which nobody hears if no client listens to the port.                    *)
Answer(call) ==
  /\ Return(call)
  /\ answers' = [g \in Pages |->
       IF client[g].heard = call.port /\ ~Closed(call.port)
       THEN answers[g] \cup {call.n} ELSE answers[g]]
  /\ UNCHANGED <<client, owner, callbackMap>>

(* A port of a page that was closed goes; the browser may close any other. *)
PortCloses(p) ==
  /\ Disconnect(p)
  /\ owner' = [owner EXCEPT ![p] = None]
  /\ UNCHANGED <<client, callbackMap, answers>>

BackgroundStops ==
  /\ Restart
  /\ owner' = [p \in Ports |-> None]
  /\ UNCHANGED <<client, callbackMap, answers>>

Background ==
  /\ \/ Acquire \/ ShouldSkip
     \/ \E t \in Timers : Fire(t)
  /\ UNCHANGED clientVars

PagesNext ==
  \/ \E g \in Pages : \/ OpenPage(g) \/ ClosePage(g) \/ CallFails(g)
                      \/ Notice(g) \/ NoticeRaw(g)
  \/ \E g \in Pages, m \in Methods : CallMethod(g, m) \/ CallOnNewPort(g, m)
  \/ \E g \in Pages, n \in 1..MaxMessages : Hear(g, n)
  \/ \E call \in Call : Answer(call)
  \/ \E p \in Ports : PortCloses(p)
  \/ Background \/ BackgroundStops

PagesSpec == PagesInit /\ [][PagesNext]_allVars

(* The handler goes on and its methods end, an armed timer fires, answers  *)
(* and disconnections are told. Users and the sync timers owe nothing.     *)
FairPagesSpec ==
  /\ PagesSpec
  /\ WF_allVars(\/ Acquire /\ UNCHANGED clientVars
                \/ \E call \in Call : Answer(call))
  /\ WF_allVars((\E t \in Timers : Fire(t)) /\ UNCHANGED clientVars)
  /\ WF_allVars(\E p \in Ports : owner[p] = None /\ PortCloses(p))
  /\ WF_allVars(\E g \in Pages : Notice(g) \/ \E n \in 1..MaxMessages : Hear(g, n))

-----------------------------------------------------------------------------
(* Properties                                                              *)

(* What the handler still has to do, or has queued behind the mutex.       *)
UnderWay == running \cup {waiting[i] : i \in DOMAIN waiting}

(* No callback is left behind (client.ts:148-160): for every call a page   *)
(* waits for, its answer is on its way, or the background still has to     *)
(* answer it on the port the page listens to, or the page has yet to be    *)
(* told that this port is gone and will then reject the call (port.ts:53,  *)
(* "don't swap the underlying port here or its bound listeners orphan").   *)
NoneIsOrphaned ==
  \A g \in OpenPages : \A n \in callbackMap[g] :
    LET heard == client[g].heard IN
    \/ n \in answers[g]
    \/ \E call \in UnderWay : call.n = n /\ call.port = heard
    \/ heard # None /\ Closed(heard)

(* Every page comes to wait for nothing: a call ends, answered or rejected,*)
(* though ports close, the background restarts, and messages and answers   *)
(* get lost.                                                               *)
CallsEnd == \A g \in Pages : callbackMap[g] # {} ~> callbackMap[g] = {}

(* Once the last page is closed, with whatever ports it opened, an         *)
(* unlocked wallet locks, unless a page opens again or a message still     *)
(* queued behind the mutex is handled after that (it clears the timer).    *)
IdleWalletLocks ==
  (token /\ OpenPages = {} /\ ~late) ~> (~token \/ OpenPages # {} \/ late)
=============================================================================
