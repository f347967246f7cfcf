----------------------------- MODULE StoreBridge -----------------------------
(***************************************************************************)
(* The wallet's settings, accounts and balances live in one Redux store in *)
(* the service worker, which persists it (persistence.ts) and serves it    *)
(* over ports (bridge.ts). Every extension page mirrors it (proxy.ts) and  *)
(* sends its updates there. The state is the sequence of the updates that  *)
(* made it; the state before is the sequence <<Old>>, the default state of *)
(* a store that was not restored is <<>>. Actions that leave the state as  *)
(* it is, which are acknowledged without a broadcast, are left out.        *)
(***************************************************************************)
EXTENDS Integers, FiniteSets, SequencesExt

CONSTANTS
  Pages,
  Updates,         \* dispatched actions that change the state
  Old,
  None,
  MaxConnections,  \* bound: ports the pages open together
  MaxRestarts,     \* bound: service worker restarts
  MaxFailures      \* bound: storage reads and writes that fail

ASSUME BridgeAssumption ==
  /\ IsFiniteSet(Pages)
  /\ Old \notin Updates /\ None \notin Updates
  /\ None \notin Pages \X (1..MaxConnections)
  /\ None \notin Seq(Updates \cup {Old})
  /\ {MaxConnections, MaxRestarts, MaxFailures} \subseteq Nat

VARIABLES
  phase,       \* "restoring", "ready" or "failed"
  state,       \* the background store
  saved,       \* what IndexedDB holds
  writes,      \* the writes under way, in order
  issued,      \* the state that was written last
  writeError,  \* the last write failed
  open,        \* ports the background has not seen closed
  inbox,       \* their messages: the promise chain "queue"
  serving,     \* the update a port waits for, or None
  primed,      \* ports whose queue got over a failed restore
  gen,         \* the ports a page has opened
  connected,
  outbox,      \* messages on their way to a page
  mirror,      \* the page's copy of the state, None before the first
  outcome,     \* "new", "pending", "resolved" or "rejected"
  sentOn,      \* history: the port an update was sent on
  sent,        \* history: updates in the order they were sent
  basis,       \* history: the state an update's dispatch left
  restarts, failures

store == <<phase, state, saved, writes, issued, writeError>>
server == <<open, inbox, serving, primed>>
page == <<gen, connected, outbox, mirror>>
history == <<sentOn, sent, basis>>
vars == <<store, server, page, outcome, history, restarts, failures>>

Ports == Pages \X (1..MaxConnections)
PortOf(p) == <<p, gen[p]>>
Opened == {q \in Ports : q[2] <= gen[q[1]]}

StateMessage(s) == [type |-> "state", update |-> None, state |-> s]
Result(u, s) == [type |-> "result", update |-> u, state |-> s]
Error(u) == [type |-> "error", update |-> u, state |-> None]

(* The page at the other end of port q, if it still uses q.                *)
Listens(p, q) == connected[p] /\ q = PortOf(p)

(* post: messages per port, for the pages that still use it.               *)
Post(messages) ==
  outbox' = [p \in Pages |->
    IF connected[p] /\ PortOf(p) \in DOMAIN messages
    THEN outbox[p] \o messages[PortOf(p)] ELSE outbox[p]]

Init ==
  /\ phase = "restoring" /\ state = <<>> /\ saved = <<Old>>
  /\ writes = <<>> /\ issued = <<>> /\ writeError = FALSE
  /\ open = {} /\ primed = {}
  /\ inbox = [q \in Ports |-> <<>>]
  /\ serving = [q \in Ports |-> None]
  /\ gen = [p \in Pages |-> 0]
  /\ connected = [p \in Pages |-> FALSE]
  /\ outbox = [p \in Pages |-> <<>>]
  /\ mirror = [p \in Pages |-> None]
  /\ outcome = [u \in Updates |-> "new"]
  /\ sentOn = [u \in Updates |-> None]
  /\ sent = <<>>
  /\ basis = [u \in Updates |-> <<>>]
  /\ restarts = 0 /\ failures = 0

-----------------------------------------------------------------------------
(* Pages                                                                   *)

(* As if a port were greeted before the restore ended.                     *)
ConnectUnrestored(p) ==
  /\ ~connected[p]
  /\ Cardinality(Opened) < MaxConnections
  /\ gen' = [gen EXCEPT ![p] = @ + 1]
  /\ connected' = [connected EXCEPT ![p] = TRUE]
  /\ open' = open \cup {<<p, gen[p] + 1>>}
  /\ outbox' = [outbox EXCEPT ![p] = <<StateMessage(state)>>]
  /\ UNCHANGED <<store, inbox, serving, primed, mirror, outcome, history,
                 restarts, failures>>

(* As if it were greeted with the stored state.                            *)
ConnectToSaved(p) ==
  /\ ~connected[p]
  /\ Cardinality(Opened) < MaxConnections
  /\ gen' = [gen EXCEPT ![p] = @ + 1]
  /\ connected' = [connected EXCEPT ![p] = TRUE]
  /\ open' = open \cup {<<p, gen[p] + 1>>}
  /\ outbox' = [outbox EXCEPT ![p] =
       IF phase = "ready" THEN <<StateMessage(saved)>> ELSE <<>>]
  /\ UNCHANGED <<store, inbox, serving, primed, mirror, outcome, history,
                 restarts, failures>>

Connect(p) ==
  /\ ~connected[p]
  /\ Cardinality(Opened) < MaxConnections
  /\ gen' = [gen EXCEPT ![p] = @ + 1]
  /\ connected' = [connected EXCEPT ![p] = TRUE]
  /\ open' = open \cup {<<p, gen[p] + 1>>}
  /\ outbox' = [outbox EXCEPT ![p] =
       IF phase = "ready" THEN <<StateMessage(state)>> ELSE <<>>]
  /\ UNCHANGED <<store, inbox, serving, primed, mirror, outcome, history,
                 restarts, failures>>

(* A page renders, and dispatches, once it has a state. What is sent to a  *)
(* port whose background is gone is lost.                                  *)
Dispatch(p, u) ==
  /\ outcome[u] = "new"
  /\ connected[p] /\ mirror[p] # None
  /\ outcome' = [outcome EXCEPT ![u] = "pending"]
  /\ inbox' = [inbox EXCEPT ![PortOf(p)] =
       IF PortOf(p) \in open THEN Append(@, u) ELSE @]
  /\ sentOn' = [sentOn EXCEPT ![u] = PortOf(p)]
  /\ sent' = Append(sent, u)
  /\ UNCHANGED <<store, open, serving, primed, page, basis,
                 restarts, failures>>

(* A state or a result replaces the mirror; a result or an error settles   *)
(* the update that still waits for it.                                     *)
Receive(p) ==
  /\ connected[p] /\ outbox[p] # <<>>
  /\ LET m == Head(outbox[p]) IN
       /\ mirror' = IF m.state = None THEN mirror
                    ELSE [mirror EXCEPT ![p] = m.state]
       /\ outcome' =
            IF m.update = None \/ outcome[m.update] # "pending" THEN outcome
            ELSE [outcome EXCEPT ![m.update] =
                    IF m.type = "error" THEN "rejected" ELSE "resolved"]
  /\ outbox' = [outbox EXCEPT ![p] = Tail(@)]
  /\ UNCHANGED <<store, server, gen, connected, history, restarts, failures>>

(* After 30 seconds.                                                       *)
TimeOut(u) ==
  /\ outcome[u] = "pending"
  /\ outcome' = [outcome EXCEPT ![u] = "rejected"]
  /\ UNCHANGED <<store, server, page, history, restarts, failures>>

(* The page sees its port closed: "state update may already have been      *)
(* saved".                                                                 *)
PageDisconnect(p) ==
  /\ connected[p]
  /\ connected' = [connected EXCEPT ![p] = FALSE]
  /\ outbox' = [outbox EXCEPT ![p] = <<>>]
  /\ outcome' = [u \in Updates |->
       IF outcome[u] = "pending" /\ sentOn[u] = PortOf(p) THEN "rejected"
       ELSE outcome[u]]
  /\ UNCHANGED <<store, server, gen, mirror, history, restarts, failures>>

-----------------------------------------------------------------------------
(* The background                                                          *)

BackgroundDisconnect(q) ==
  /\ q \in open
  /\ \A p \in Pages : ~Listens(p, q)
  /\ open' = open \ {q}
  /\ inbox' = [inbox EXCEPT ![q] = <<>>]
  /\ UNCHANGED <<store, serving, primed, page, outcome, history, restarts,
                 failures>>

Restore ==
  /\ phase = "restoring"
  /\ phase' = "ready"
  /\ state' = saved /\ issued' = saved
  /\ Post([q \in open |-> <<StateMessage(saved)>>])
  /\ UNCHANGED <<saved, writes, writeError, server, gen, connected, mirror,
                 outcome, history, restarts, failures>>

(* restoreGuard pauses persistence before the default state can be written.*)
RestoreFails ==
  /\ phase = "restoring"
  /\ failures < MaxFailures
  /\ failures' = failures + 1
  /\ phase' = "failed"
  /\ UNCHANGED <<state, saved, writes, issued, writeError, server, page,
                 outcome, history, restarts>>

Applied(u) == Append(state, u)

(* As if only the sender heard of the new state, with its acknowledgement. *)
ApplyUnheard(q) ==
  /\ q \in open /\ inbox[q] # <<>> /\ serving[q] = None
  /\ phase = "ready"
  /\ LET u == Head(inbox[q]) IN
       /\ state' = Applied(u)
       /\ serving' = [serving EXCEPT ![q] = [update |-> u, need |-> -1]]
       /\ basis' = [basis EXCEPT ![u] = Applied(u)]
  /\ inbox' = [inbox EXCEPT ![q] = Tail(@)]
  /\ UNCHANGED <<phase, saved, writes, issued, writeError, open, primed, page,
                 outcome, sentOn, sent, restarts, failures>>

(* One message of a port at a time; every port hears of a new state.       *)
Apply(q) ==
  /\ q \in open /\ inbox[q] # <<>> /\ serving[q] = None
  /\ phase = "ready"
  /\ LET u == Head(inbox[q]) IN
       /\ state' = Applied(u)
       /\ serving' = [serving EXCEPT ![q] = [update |-> u, need |-> -1]]
       /\ basis' = [basis EXCEPT ![u] = Applied(u)]
       /\ Post([r \in open |-> <<StateMessage(Applied(u))>>])
  /\ inbox' = [inbox EXCEPT ![q] = Tail(@)]
  /\ UNCHANGED <<phase, saved, writes, issued, writeError, open, primed, gen,
                 connected, mirror, outcome, sentOn, sent, restarts, failures>>

(* After a failed restore the first message of a port is swallowed with    *)
(* the rejection of ready; later ones change the default state, and flush  *)
(* rejects them.                                                           *)
ApplyUnrestored(q) ==
  /\ q \in open /\ inbox[q] # <<>>
  /\ phase = "failed"
  /\ inbox' = [inbox EXCEPT ![q] = Tail(@)]
  /\ IF q \in primed
     THEN /\ state' = Applied(Head(inbox[q]))
          /\ Post([r \in {q} |-> <<Error(Head(inbox[q]))>>])
          /\ UNCHANGED primed
     ELSE /\ primed' = primed \cup {q}
          /\ UNCHANGED <<state, outbox>>
  /\ UNCHANGED <<phase, saved, writes, issued, writeError, open, serving, gen,
                 connected, mirror, outcome, history, restarts, failures>>

(* As if the stored state of before the write were sent back.              *)
AnswerStored(served, failed) ==
  Post([q \in served |->
    <<IF failed THEN Error(serving[q].update)
      ELSE Result(serving[q].update, saved)>>])

(* The acknowledgements of served updates, now that no write is left for   *)
(* them to wait for.                                                       *)
Answer(served, failed) ==
  Post([q \in served |->
    <<IF failed THEN Error(serving[q].update)
      ELSE Result(serving[q].update, state)>>])

(* As if flush were not awaited.                                           *)
FlushAtOnce(q) ==
  /\ serving[q] # None /\ serving[q].need = -1
  /\ writes' = IF state = issued THEN writes ELSE Append(writes, state)
  /\ issued' = state
  /\ serving' = [serving EXCEPT ![q] = None]
  /\ Answer({q}, writeError)
  /\ UNCHANGED <<phase, state, saved, writeError, open, inbox, primed, gen,
                 connected, mirror, outcome, history, restarts, failures>>

(* flush writes what was not written, and waits for the last write.        *)
Flush(q) ==
  /\ serving[q] # None /\ serving[q].need = -1
  /\ writes' = IF state = issued THEN writes ELSE Append(writes, state)
  /\ issued' = state
  /\ IF writes' = <<>>
     THEN /\ serving' = [serving EXCEPT ![q] = None]
          /\ Answer({q}, writeError)
     ELSE /\ serving' = [serving EXCEPT ![q].need = Len(writes')]
          /\ UNCHANGED outbox
  /\ UNCHANGED <<phase, state, saved, writeError, open, inbox, primed, gen,
                 connected, mirror, outcome, history, restarts, failures>>

(* A write ends, and with it the flushes that wait for it.                 *)
WriteEnds(failed) ==
  LET served == {q \in Ports : serving[q] # None /\ serving[q].need = 1} IN
  /\ writes # <<>>
  /\ failures' = failures + IF failed THEN 1 ELSE 0
  /\ failures' <= MaxFailures
  /\ saved' = IF failed THEN saved ELSE Head(writes)
  /\ writeError' = failed
  /\ writes' = Tail(writes)
  /\ serving' = [q \in Ports |->
       IF q \in served THEN None
       ELSE IF serving[q] # None /\ serving[q].need > 1
            THEN [serving[q] EXCEPT !.need = @ - 1]
            ELSE serving[q]]
  /\ Answer(served, failed)
  /\ UNCHANGED <<phase, state, issued, open, inbox, primed, gen, connected,
                 mirror, outcome, history, restarts>>

(* Of the writes under way, some may have been committed.                  *)
Restart ==
  /\ restarts < MaxRestarts
  /\ restarts' = restarts + 1
  /\ \E k \in 0..Len(writes) : saved' = IF k = 0 THEN saved ELSE writes[k]
  /\ phase' = "restoring" /\ state' = <<>>
  /\ writes' = <<>> /\ issued' = <<>> /\ writeError' = FALSE
  /\ open' = {} /\ primed' = {}
  /\ inbox' = [q \in Ports |-> <<>>]
  /\ serving' = [q \in Ports |-> None]
  /\ UNCHANGED <<page, outcome, history, failures>>

Next ==
  \/ \E p \in Pages : Connect(p) \/ Receive(p) \/ PageDisconnect(p)
  \/ \E p \in Pages, u \in Updates : Dispatch(p, u)
  \/ \E u \in Updates : TimeOut(u)
  \/ \E q \in Ports : \/ BackgroundDisconnect(q) \/ Apply(q)
                      \/ ApplyUnrestored(q) \/ Flush(q)
  \/ \E failed \in BOOLEAN : WriteEnds(failed)
  \/ Restore \/ RestoreFails \/ Restart

Spec == Init /\ [][Next]_vars

(* Messages arrive, a page whose background is gone hears of it and opens  *)
(* another port, and the storage answers.                                  *)
FairSpec ==
  /\ Spec
  /\ WF_vars(Restore \/ RestoreFails)
  /\ \A p \in Pages :
       /\ WF_vars(Receive(p))
       /\ WF_vars(Connect(p))
       /\ WF_vars(PortOf(p) \notin open /\ PageDisconnect(p))

-----------------------------------------------------------------------------
(* Properties                                                              *)

(* Every variable stays within its type.                                   *)
TypeOK ==
  /\ phase \in {"restoring", "ready", "failed"}
  /\ state \in Seq(Updates \cup {Old}) /\ saved \in Seq(Updates \cup {Old})
  /\ writes \in Seq(Seq(Updates \cup {Old})) /\ writeError \in BOOLEAN
  /\ open \cup primed \subseteq Ports
  /\ inbox \in [Ports -> Seq(Updates)]
  /\ \A q \in Ports : serving[q] # None =>
       serving[q].update \in Updates /\ serving[q].need \in -1..Len(writes)
  /\ gen \in [Pages -> 0..MaxConnections] /\ connected \in [Pages -> BOOLEAN]
  /\ outcome \in [Updates -> {"new", "pending", "resolved", "rejected"}]

(* When its dispatch succeeds a page sees its update, and goes on seeing   *)
(* it, through broadcasts for other pages, new connections and restarts.   *)
ReadYourWrites ==
  \A u \in Updates : outcome[u] = "resolved" =>
    IsPrefix(basis[u], mirror[sentOn[u][1]])

(* No page ever shows the default state instead of the stored one.         *)
DefaultIsHidden ==
  \A p \in Pages : mirror[p] # None => mirror[p] # <<>> /\ mirror[p][1] = Old

(* The store is a durable log: each update is applied at most once, those *)
(* sent on one port in their order; what is acknowledged is stored, with   *)
(* the state it was applied to, even if the page closes or the background  *)
(* is stopped (bridge.ts:67, "Acknowledgement means the update survived,   *)
(* even if the popup closes"); storage loses nothing, not to a failed      *)
(* write, a crash, an older write, or the default state of a store that    *)
(* could not be restored.                                                  *)
Log == INSTANCE DurableLog WITH
  Sessions <- Ports, durable <- saved, session <- sentOn,
  log <- IF phase = "ready" THEN state ELSE saved

ImplementsLog == Log!Spec

(* The last state on its way to page p or, with none on its way, the one   *)
(* that it shows, is s.                                                    *)
Told(p, s) ==
  \E i \in 0..Len(outbox[p]) :
    /\ s = IF i = 0 THEN mirror[p] ELSE outbox[p][i].state
    /\ \A j \in i + 1..Len(outbox[p]) : outbox[p][j].state = None

(* No state of the background misses a page whose port is served: not one  *)
(* that connects while a restore or a write is under way, nor one that     *)
(* reconnects after a restart (bridge.ts:36, :87).                          *)
PagesAreTold ==
  phase = "ready" =>
    \A p \in Pages : connected[p] /\ PortOf(p) \in open => Told(p, state)

(* A page never goes back to an older state, not even when it reconnects,  *)
(* as long as the background did not restart.                              *)
MirrorForward ==
  [][\A p \in Pages : restarts' = 0 /\ mirror[p] # None =>
       IsPrefix(mirror[p], mirror'[p])]_vars

(* A page that stays connected ends up with the background's state.        *)
Converges ==
  \A p \in Pages :
    <>[](phase = "ready" /\ connected[p] /\ PortOf(p) \in open =>
           mirror[p] = state)

=============================================================================
