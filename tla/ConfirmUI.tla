------------------------------ MODULE ConfirmUI ------------------------------
(***************************************************************************)
(* The confirmation queue of the background service worker                 *)
(* (app/scripts/background/helper/confirmUI.ts), the surfaces that show a  *)
(* confirmation (side panels, app/hooks/useConfirmUI.ts, and notification  *)
(* windows, helper/notification.ts), and the decisions these send back     *)
(* (PopupServer.onRequestFinish).                                          *)
(*                                                                         *)
(* A side panel is identified with the port it opened, and a notification  *)
(* window with the request it was opened for: a request opens at most one. *)
(* Which panel lies in the focused window, and whether panels are enabled, *)
(* is the user's: getPanel may return any registered panel, or none.       *)
(***************************************************************************)
EXTENDS Naturals, Sequences, FiniteSets

CONSTANTS
  Requests,      \* identities of dapp requests
  Ports,         \* side panel connections; each is opened at most once
  None,          \* no request, no panel
  Note,          \* the sender of a decision made in a notification window
  MaxRestarts,   \* bound: restarts of the service worker
  MaxBacklog     \* bound: messages a panel has not read when navigate posts

ASSUME ConfirmAssumption ==
  /\ None \notin Requests \cup Ports
  /\ Note \notin Ports \cup {None}
  /\ MaxRestarts \in Nat
  /\ MaxBacklog \in Nat

VARIABLES
  queue,     \* the promise chain: requests whose task has not ended
  stage,     \* where the task of Head(queue) is
  pending,   \* ConfirmUI.pending
  result,    \* how the task of Head(queue) ends once its finally block is over
  seen,      \* removedWindows of the task holds its own window
  panels,    \* keys of ConfirmUI.panels
  port,      \* life of each panel's connection
  inbox,     \* messages on their way to each panel
  screen,    \* request each panel's useConfirmUI holds active
  window,    \* life of each request's notification window
  decisions, \* onRequestFinish messages on their way to the background
  clicks,    \* history: every decision a user made
  rows,      \* the IndexedDB table "request"
  ran,       \* requests whose approve callback was called
  outcome,   \* how each request's promise settled
  restarts   \* restarts so far

taskVars    == <<queue, stage, result, seen, rows, ran, outcome>>
panelVars   == <<panels, port, inbox, screen>>
userVars    == <<decisions, clicks>>
vars == <<taskVars, panelVars, userVars, pending, window, restarts>>

Stages == {"idle", "storing", "finding", "opening", "deciding",
           "approving", "closing", "removing"}

Decision == [req : Requests, from : Ports \cup {Note}, ok : BOOLEAN]

Message == [type : {"confirm-open", "confirm-done"}, req : Requests]
             \cup [type : {"navigate"}]

NoPending == [id |-> None, panel |-> None, opened |-> FALSE,
              settled |-> FALSE, ok |-> FALSE]

Pending == [id : Requests \cup {None}, panel : Ports \cup {None},
            opened : BOOLEAN, settled : BOOLEAN, ok : BOOLEAN]

Current == Head(queue)

Init ==
  /\ queue = <<>>
  /\ stage = "idle"
  /\ pending = NoPending
  /\ result = "error"
  /\ seen = FALSE
  /\ panels = {}
  /\ port = [p \in Ports |-> "new"]
  /\ inbox = [p \in Ports |-> <<>>]
  /\ screen = [p \in Ports |-> None]
  /\ window = [r \in Requests |-> "none"]
  /\ decisions = {}
  /\ clicks = {}
  /\ rows = {}
  /\ ran = {}
  /\ outcome = [r \in Requests |-> "new"]
  /\ restarts = 0

-----------------------------------------------------------------------------
(* Shared pieces                                                           *)

(* Mutant of Settle: without the check of pending.settled.                 *)
SettleAgain(ok) == pending' = [pending EXCEPT !.settled = TRUE, !.ok = ok]

(* finish after its guard: the first decision of the pending request wins. *)
Settle(ok) ==
  pending' = IF pending.settled THEN pending
             ELSE [pending EXCEPT !.settled = TRUE, !.ok = ok]

(* postMessage: a page that is gone before its disconnect event was        *)
(* handled reads nothing more.                                             *)
Post(p, message) ==
  inbox' = IF port[p] = "open"
           THEN [inbox EXCEPT ![p] = Append(@, message)]
           ELSE inbox

(* The promise of the running task settles and the next task starts.       *)
EndTask(o) ==
  /\ queue' = Tail(queue)
  /\ stage' = IF Tail(queue) = <<>> THEN "idle" ELSE "storing"
  /\ outcome' = [outcome EXCEPT ![Current] = o]

FinallyWithoutClosing(o) ==
  /\ result' = o
  /\ pending' = NoPending
  /\ stage' = "removing"
  /\ IF pending.panel # None
     THEN Post(pending.panel, [type |-> "confirm-done", req |-> pending.id])
     ELSE UNCHANGED inbox
  /\ UNCHANGED <<queue, seen, rows, outcome, panels, port, screen>>

(* The synchronous head of the finally block.                              *)
Finally(o) ==
  /\ result' = o
  /\ pending' = NoPending
  /\ IF pending.panel # None
     THEN /\ Post(pending.panel, [type |-> "confirm-done", req |-> pending.id])
          /\ stage' = "removing"
     ELSE /\ stage' = IF pending.opened THEN "closing" ELSE "removing"
          /\ UNCHANGED inbox
  /\ UNCHANGED <<queue, seen, rows, outcome, panels, port, screen>>

-----------------------------------------------------------------------------
(* The task of one request, step by step: a step ends where the code awaits *)

Request(r) ==
  /\ outcome[r] = "new"
  /\ queue' = Append(queue, r)
  /\ stage' = IF queue = <<>> THEN "storing" ELSE stage
  /\ outcome' = [outcome EXCEPT ![r] = "queued"]
  /\ UNCHANGED <<result, seen, rows, ran, panelVars, userVars, pending,
                 window, restarts>>

StoreRow ==
  /\ stage = "storing"
  /\ rows' = rows \cup {Current}
  /\ pending' = [NoPending EXCEPT !.id = Current]
  /\ seen' = FALSE
  /\ stage' = "finding"
  /\ UNCHANGED <<queue, result, ran, outcome, panelVars, userVars, window,
                 restarts>>

(* setDappRequest rejects: the task ends before its try block.             *)
StoreRowFails ==
  /\ stage = "storing"
  /\ EndTask("error")
  /\ UNCHANGED <<result, seen, rows, ran, panelVars, userVars, pending,
                 window, restarts>>

(* getPanel returned p and "confirm-open" was posted to it.                *)
ShowInPanel(p) ==
  /\ stage = "finding"
  /\ p \in panels
  /\ pending' = [pending EXCEPT !.panel = p]
  /\ Post(p, [type |-> "confirm-open", req |-> pending.id])
  /\ stage' = "deciding"
  /\ UNCHANGED <<queue, result, seen, rows, ran, outcome, panels, port,
                 screen, userVars, window, restarts>>

(* The post threw: the panel is forgotten and a window opened instead.     *)
ShowInPanelFails(p) ==
  /\ stage = "finding"
  /\ p \in panels
  /\ port[p] = "closing"
  /\ panels' = panels \ {p}
  /\ stage' = "opening"
  /\ UNCHANGED <<queue, result, seen, rows, ran, outcome, port, inbox, screen,
                 userVars, pending, window, restarts>>

NoPanel ==
  /\ stage = "finding"
  /\ stage' = "opening"
  /\ UNCHANGED <<queue, result, seen, rows, ran, outcome, panelVars, userVars,
                 pending, window, restarts>>

(* The browser shows the window before windows.create has returned its id. *)
WindowAppears ==
  /\ stage = "opening"
  /\ window[Current] = "none"
  /\ window' = [window EXCEPT ![Current] = "open"]
  /\ UNCHANGED <<taskVars, panelVars, userVars, pending, restarts>>

(* Mutant of WindowOpened: a window that closed before windows.create      *)
(* returned its id is not noticed.                                         *)
WindowOpenedUnseen ==
  /\ stage = "opening"
  /\ window[Current] # "none"
  /\ pending' = [pending EXCEPT !.opened = TRUE]
  /\ stage' = "deciding"
  /\ UNCHANGED <<queue, result, seen, rows, ran, outcome, panelVars, userVars,
                 window, restarts>>

(* windows.create returns. A window already seen closing cancels.          *)
WindowOpened ==
  /\ stage = "opening"
  /\ window[Current] # "none"
  /\ pending' = [pending EXCEPT !.opened = TRUE,
                                !.settled = @ \/ seen]
  /\ stage' = "deciding"
  /\ UNCHANGED <<queue, result, seen, rows, ran, outcome, panelVars, userVars,
                 window, restarts>>

(* getLastFocused or windows.create rejects.                               *)
SurfaceFails ==
  /\ stage \in {"finding", "opening"}
  /\ window[Current] = "none"
  /\ Finally("error")
  /\ UNCHANGED <<ran, userVars, window, restarts>>

(* Mutant of Approve: the callback runs whatever the decision was.         *)
ApproveAnyDecision ==
  /\ stage = "deciding"
  /\ pending.settled
  /\ ran' = ran \cup {pending.id}
  /\ stage' = "approving"
  /\ UNCHANGED <<queue, result, seen, rows, outcome, panelVars, userVars,
                 pending, window, restarts>>

(* await decision                                                          *)
Approve ==
  /\ stage = "deciding"
  /\ pending.settled
  /\ pending.ok
  /\ ran' = ran \cup {pending.id}
  /\ stage' = "approving"
  /\ UNCHANGED <<queue, result, seen, rows, outcome, panelVars, userVars,
                 pending, window, restarts>>

Deny ==
  /\ stage = "deciding"
  /\ pending.settled
  /\ ~pending.ok
  /\ Finally("denied")
  /\ UNCHANGED <<ran, userVars, window, restarts>>

(* The approve callback returned, or threw.                                *)
Approved(o) ==
  /\ stage = "approving"
  /\ Finally(o)
  /\ UNCHANGED <<ran, userVars, window, restarts>>

(* windows.remove; it rejects, and is caught, when the window is gone.     *)
CloseNotification ==
  /\ stage = "closing"
  /\ window' = [window EXCEPT ![Current] = IF @ = "open" THEN "closing" ELSE @]
  /\ stage' = "removing"
  /\ UNCHANGED <<queue, result, seen, rows, ran, outcome, panelVars, userVars,
                 pending, restarts>>

RemoveRow ==
  /\ stage = "removing"
  /\ rows' = rows \ {Current}
  /\ EndTask(result)
  /\ UNCHANGED <<result, seen, ran, panelVars, userVars, pending, window,
                 restarts>>

(* removeDappRequest rejects, and with it a request that was approved.     *)
RemoveRowFails ==
  /\ stage = "removing"
  /\ EndTask("error")
  /\ UNCHANGED <<result, seen, rows, ran, panelVars, userVars, pending, window,
                 restarts>>

-----------------------------------------------------------------------------
(* Surfaces and the user                                                   *)

PanelReady(p) ==
  /\ port[p] = "new"
  /\ port' = [port EXCEPT ![p] = "open"]
  /\ panels' = panels \cup {p}
  /\ UNCHANGED <<taskVars, inbox, screen, userVars, pending, window, restarts>>

ClosePanel(p) ==
  /\ port[p] = "open"
  /\ port' = [port EXCEPT ![p] = "closing"]
  /\ inbox' = [inbox EXCEPT ![p] = <<>>]
  /\ screen' = [screen EXCEPT ![p] = None]
  /\ UNCHANGED <<taskVars, panels, userVars, pending, window, restarts>>

(* port.onDisconnect in the background                                     *)
PanelGone(p) ==
  /\ port[p] = "closing"
  /\ port' = [port EXCEPT ![p] = "gone"]
  /\ panels' = panels \ {p}
  /\ IF pending.panel = p THEN Settle(FALSE) ELSE UNCHANGED pending
  /\ UNCHANGED <<taskVars, inbox, screen, userVars, window, restarts>>

(* useConfirmUI's port.onMessage                                           *)
PanelReads(p) ==
  /\ port[p] = "open"
  /\ inbox[p] # <<>>
  /\ inbox' = [inbox EXCEPT ![p] = Tail(@)]
  /\ LET message == Head(inbox[p]) IN
       screen' = CASE message.type = "confirm-open" ->
                        [screen EXCEPT ![p] = message.req]
                   [] message.type = "confirm-done" ->
                        [screen EXCEPT ![p] = IF @ = message.req THEN None
                                              ELSE @]
                   [] OTHER -> screen
  /\ UNCHANGED <<taskVars, panels, port, userVars, pending, window, restarts>>

CloseWindow(r) ==
  /\ window[r] = "open"
  /\ window' = [window EXCEPT ![r] = "closing"]
  /\ UNCHANGED <<taskVars, panelVars, userVars, pending, restarts>>

(* The windows.onRemoved event. The running task listens from StoreRow to  *)
(* its finally block, that is while pending is set.                        *)
WindowGone(r) ==
  /\ window[r] = "closing"
  /\ window' = [window EXCEPT ![r] = "gone"]
  /\ seen' = (seen \/ pending.id = r)
  /\ IF pending.opened /\ pending.id = r
     THEN Settle(FALSE) ELSE UNCHANGED pending
  /\ UNCHANGED <<queue, stage, result, rows, ran, outcome, panelVars,
                 userVars, restarts>>

(* The user answers the confirmation a surface shows; nothing keeps the    *)
(* user from answering twice.                                              *)
Click(d) ==
  /\ IF d.from = Note THEN window[d.req] = "open"
     ELSE port[d.from] = "open" /\ screen[d.from] = d.req
  /\ decisions' = decisions \cup {d}
  /\ clicks' = clicks \cup {d}
  /\ UNCHANGED <<taskVars, panelVars, pending, window, restarts>>

(* Mutant of CanFinish: the sender is checked, the request id is not.      *)
CanFinishAnyId(d) ==
  /\ pending.id # None
  /\ IF pending.panel # None THEN d.from = pending.panel ELSE d.from = Note

(* canFinish: the sender is the surface the pending request is shown on.   *)
CanFinish(d) ==
  /\ pending.id = d.req
  /\ IF pending.panel # None THEN d.from = pending.panel ELSE d.from = Note

OnRequestFinish(d) ==
  /\ d \in decisions
  /\ decisions' = decisions \ {d}
  /\ IF CanFinish(d) THEN Settle(d.ok) ELSE UNCHANGED pending
  /\ UNCHANGED <<taskVars, panelVars, clicks, window, restarts>>

(* Mutant of Navigate: an active confirmation does not stop it.            *)
NavigateAnyTime(p) ==
  /\ p \in panels
  /\ Len(inbox[p]) < MaxBacklog
  /\ Post(p, [type |-> "navigate"])
  /\ UNCHANGED <<taskVars, panels, port, screen, userVars, pending, window,
                 restarts>>

(* navigate, when getPanel returned p and nothing is being confirmed.      *)
Navigate(p) ==
  /\ p \in panels
  /\ pending.id = None
  /\ Len(inbox[p]) < MaxBacklog
  /\ \/ Post(p, [type |-> "navigate"]) /\ UNCHANGED panels
     \/ /\ port[p] = "closing"
        /\ panels' = panels \ {p}
        /\ UNCHANGED inbox
  /\ UNCHANGED <<taskVars, port, screen, userVars, pending, window, restarts>>

(* The service worker stops: its memory is lost, its ports disconnect (the *)
(* pages restore their previous route and connect anew), windows and rows  *)
(* stay.                                                                   *)
Restart ==
  /\ restarts < MaxRestarts
  /\ restarts' = restarts + 1
  /\ queue' = <<>>
  /\ stage' = "idle"
  /\ pending' = NoPending
  /\ panels' = {}
  /\ port' = [p \in Ports |-> IF port[p] = "new" THEN "new" ELSE "gone"]
  /\ inbox' = [p \in Ports |-> <<>>]
  /\ screen' = [p \in Ports |-> None]
  /\ decisions' = {}
  /\ outcome' = [r \in Requests |->
                   IF outcome[r] = "queued" THEN "lost" ELSE outcome[r]]
  /\ UNCHANGED <<result, seen, rows, ran, window, clicks>>

-----------------------------------------------------------------------------
Task ==
  \/ StoreRow
  \/ NoPanel
  \/ \E p \in Ports : ShowInPanel(p)
  \/ WindowAppears
  \/ WindowOpened
  \/ Approve
  \/ Deny
  \/ Approved("approved")
  \/ CloseNotification
  \/ RemoveRow

TaskFails ==
  \/ StoreRowFails
  \/ \E p \in Ports : ShowInPanelFails(p)
  \/ SurfaceFails
  \/ Approved("error")
  \/ RemoveRowFails

Events ==
  \/ \E p \in Ports : PanelGone(p) \/ PanelReads(p)
  \/ \E r \in Requests : WindowGone(r)
  \/ \E d \in decisions : OnRequestFinish(d)

User ==
  \/ \E r \in Requests : Request(r) \/ CloseWindow(r)
  \/ \E p \in Ports : PanelReady(p) \/ ClosePanel(p) \/ Navigate(p)
  \/ \E d \in Decision : Click(d)

Next == Task \/ TaskFails \/ Events \/ User \/ Restart

Spec == Init /\ [][Next]_vars

(* Fairness. The promise chain and the browser's events make progress. Of  *)
(* the user it is assumed only that the surface showing the pending        *)
(* request does not stay open for ever without an answer.                  *)
Answered ==
  \/ \E d \in Decision : pending.id = d.req /\ ~pending.settled /\ Click(d)
  \/ \E r \in Requests : pending.id = r /\ CloseWindow(r)
  \/ \E p \in Ports : pending.panel = p /\ ClosePanel(p)

Fairness ==
  /\ WF_vars(Task)
  /\ \A p \in Ports : WF_vars(PanelGone(p)) /\ WF_vars(PanelReads(p))
  /\ \A r \in Requests : WF_vars(WindowGone(r))
  /\ \A d \in Decision : WF_vars(OnRequestFinish(d))
  /\ WF_vars(Answered)

FairSpec == Spec /\ Fairness

-----------------------------------------------------------------------------
(* Properties                                                              *)

(* Every variable keeps its type.                                          *)
TypeOK ==
  /\ queue \in Seq(Requests)
  /\ stage \in Stages
  /\ pending \in Pending
  /\ result \in {"approved", "denied", "error"}
  /\ seen \in BOOLEAN
  /\ panels \subseteq Ports
  /\ port \in [Ports -> {"new", "open", "closing", "gone"}]
  /\ inbox \in [Ports -> Seq(Message)]
  /\ screen \in [Ports -> Requests \cup {None}]
  /\ window \in [Requests -> {"none", "open", "closing", "gone"}]
  /\ decisions \subseteq Decision
  /\ clicks \subseteq Decision
  /\ rows \subseteq Requests
  /\ ran \subseteq Requests
  /\ outcome \in [Requests -> {"new", "queued", "approved", "denied",
                               "error", "lost"}]
  /\ restarts \in 0..MaxRestarts

(* The request waiting for a decision is the first of the queue: "requests *)
(* cannot replace each other's confirmation" (confirmUI.ts:23).            *)
PendingIsFirst ==
  pending.id # None => queue # <<>> /\ pending.id = Current

(* A dapp request has its effect (approve callback) only after the user    *)
(* approved that request, never by a decision about another one.           *)
ConsentBeforeEffect ==
  \A r \in ran : \E d \in clicks : d.req = r /\ d.ok

(* Panels show what is pending. Its confirmation stays on screen until it  *)
(* is decided (confirmUI.ts:85): the last thing the panel was told is to   *)
(* open it, or it shows it and was told nothing since. A panel that shows  *)
(* another request has been told that that one is done.                    *)
PanelsShowPending ==
  \A p \in Ports : port[p] = "open" =>
    /\ pending.panel = p =>
         IF inbox[p] = <<>> THEN screen[p] = pending.id
         ELSE inbox[p][Len(inbox[p])] = [type |-> "confirm-open",
                                         req |-> pending.id]
    /\ screen[p] \notin {None, pending.id} =>
         \E i \in 1..Len(inbox[p]) :
           inbox[p][i] = [type |-> "confirm-done", req |-> screen[p]]

(* A notification window outlives its request only if a restart lost the   *)
(* request. The table holds the row of the request being confirmed, which  *)
(* the pages read, and otherwise only rows a failed delete or a restart    *)
(* left behind.                                                            *)
NothingLeftBehind ==
  /\ \A r \in Requests : window[r] = "open" =>
       \/ outcome[r] = "lost"
       \/ /\ queue # <<>> /\ r = Current
          /\ stage \in {"opening", "deciding", "approving", "closing"}
  /\ pending.id # None => pending.id \in rows
  /\ \A r \in rows : \/ outcome[r] \in {"lost", "error"}
                     \/ queue # <<>> /\ r = Current /\ stage # "storing"

(* A request that waits for its decision can still get one: the panel it   *)
(* is shown on, or its notification window, is there, or has closed and    *)
(* the close event, which cancels the request, is still to be handled. No  *)
(* close is missed, a window that closes before windows.create returned    *)
(* its id included (confirmUI.ts:167).                                     *)
DecisionIsPossible ==
  stage = "deciding" /\ ~pending.settled =>
    IF pending.panel # None THEN port[pending.panel] \in {"open", "closing"}
    ELSE pending.opened /\ window[pending.id] \in {"open", "closing"}

(* A decision is final: a second click, a closing surface or a late window *)
(* event never changes what the first decision said.                       *)
FirstDecisionWins ==
  [][pending.settled /\ pending'.id = pending.id =>
       pending'.settled /\ pending'.ok = pending.ok]_vars

(* Confirmations behave as ConfirmService says: one line, first come first *)
(* served, no effect without consent, none for a request answered denied.  *)
Service == INSTANCE ConfirmService
  WITH line <- queue,
       consent <- {d.req : d \in {c \in clicks : c.ok}},
       effects <- ran

ImplementsService == Service!Spec

(* Every request is answered, provided users do not leave its surface open *)
(* and undecided for ever: no lost close event and no failure of an        *)
(* earlier request blocks the queue.                                       *)
AnsweredEventually ==
  \A r \in Requests : outcome[r] = "queued" ~> outcome[r] # "queued"
=============================================================================
