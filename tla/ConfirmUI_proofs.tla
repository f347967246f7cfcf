-------------------------- MODULE ConfirmUI_proofs --------------------------
(***************************************************************************)
(* Theorems about ConfirmUI, for any requests, panels and bounds: the      *)
(* inductive invariant and what follows from it, the refinement of         *)
(* ConfirmService, then what surfaces are left (WindowInv, RowInv), what   *)
(* panels show (PanelInv), and that no close is missed (ClosingInv).       *)
(***************************************************************************)
EXTENDS ConfirmUI, SequenceTheorems, TLAPS

-----------------------------------------------------------------------------
(* The inductive invariant                                                 *)

(* Where the task is tells whether a request is pending, and it is the     *)
(* first of the queue.                                                     *)
TaskInv ==
  /\ stage = "idle" <=> queue = <<>>
  /\ pending.id = None <=> stage \in {"idle", "storing", "closing", "removing"}
  /\ pending.id = None => pending = NoPending
  /\ pending.id # None => pending.id = Head(queue)

(* The queue holds each unanswered request once.                           *)
QueueInv ==
  /\ \A r \in Requests :
       outcome[r] = "queued" <=> \E i \in 1..Len(queue) : queue[i] = r
  /\ \A i, j \in 1..Len(queue) : queue[i] = queue[j] => i = j

(* Decisions on their way, the settled decision and the effects all come   *)
(* from clicks.                                                            *)
ConsentInv ==
  /\ decisions \subseteq clicks
  /\ pending.ok => pending.settled
  /\ pending.ok => \E d \in clicks : d.req = pending.id /\ d.ok
  /\ ConsentBeforeEffect

(* Which requests had their effect: none that is new or waits behind the   *)
(* first; the first exactly from its approval on, unless the task failed.  *)
EffectInv ==
  /\ \A r \in ran : outcome[r] # "new"
  /\ \A i \in 2..Len(queue) : queue[i] \notin ran
  /\ stage \in {"storing", "finding", "opening", "deciding"} => Current \notin ran
  /\ stage = "approving" => Current \in ran
  /\ stage \in {"closing", "removing"} =>
       /\ result = "approved" => Current \in ran
       /\ result = "denied" => Current \notin ran

(* r is on some surface, or on its way to a panel.                         *)
Shown(r) ==
  \/ window[r] # "none"
  \/ \E p \in Ports :
       \/ screen[p] = r
       \/ \E i \in 1..Len(inbox[p]) :
            inbox[p][i] = [type |-> "confirm-open", req |-> r]

(* An unanswered request is shown only while its task is past "storing".   *)
MayBeShown(r) ==
  /\ outcome[r] # "new"
  /\ outcome[r] = "queued" => r = Current /\ stage # "storing"

ShownInv == \A r \in Requests : Shown(r) => MayBeShown(r)

IInv ==
  TypeOK /\ TaskInv /\ QueueInv /\ ConsentInv /\ EffectInv /\ ShownInv

-----------------------------------------------------------------------------
(* A pending record keeps its type when it is settled.                     *)
LEMMA SettleType ==
  ASSUME TypeOK, NEW ok \in BOOLEAN, Settle(ok)
  PROVE  pending' \in Pending
BY DEF TypeOK, Settle, Pending

(* Posting a message keeps the type of the channels.                       *)
LEMMA PostType ==
  ASSUME TypeOK, NEW p \in Ports, NEW m \in Message, Post(p, m)
  PROVE  inbox' \in [Ports -> Seq(Message)]
BY DEF TypeOK, Post

(* The end of a task keeps the type of the queue.                          *)
LEMMA EndTaskType ==
  ASSUME TypeOK, queue # <<>>, EndTask("error") \/ EndTask(result)
  PROVE  /\ queue' \in Seq(Requests)
         /\ stage' \in Stages
         /\ outcome' \in [Requests -> {"new", "queued", "approved", "denied",
                                       "error", "lost"}]
<1>1. Current \in Requests /\ Tail(queue) \in Seq(Requests)
  BY HeadTailProperties DEF TypeOK, Current
<1>2. PICK o \in {"approved", "denied", "error"} : EndTask(o)
  BY DEF TypeOK
<1>. QED
  BY <1>1, <1>2 DEF TypeOK, EndTask, Stages

(* The finally block keeps every type.                                     *)
LEMMA FinallyType ==
  ASSUME ConfirmAssumption, TypeOK, pending.id # None,
         NEW o \in {"approved", "denied", "error"}, Finally(o)
  PROVE  /\ result' = o /\ pending' \in Pending /\ stage' \in Stages
         /\ inbox' \in [Ports -> Seq(Message)]
<1>1. NoPending \in Pending
  BY DEF NoPending, Pending
<1>2. CASE pending.panel # None
  <2>1. pending.panel \in Ports /\ pending.id \in Requests
    BY <1>2 DEF TypeOK, Pending
  <2>2. [type |-> "confirm-done", req |-> pending.id] \in Message
    BY <2>1 DEF Message
  <2>. QED  BY <1>1, <1>2, <2>1, <2>2, PostType DEF Finally, Stages
<1>3. CASE pending.panel = None
  BY <1>1, <1>3 DEF Finally, Stages, TypeOK
<1>. QED  BY <1>2, <1>3

(* Every step is one of the actions; the proofs below split on them.       *)
LEMMA NextCases ==
  ASSUME [Next]_vars
  PROVE  \/ \E r \in Requests : Request(r) \/ CloseWindow(r) \/ WindowGone(r)
         \/ StoreRow \/ NoPanel \/ WindowAppears \/ WindowOpened
         \/ Approve \/ Deny \/ CloseNotification \/ RemoveRow
         \/ StoreRowFails \/ SurfaceFails \/ RemoveRowFails
         \/ \E o \in {"approved", "error"} : Approved(o)
         \/ \E p \in Ports : ShowInPanel(p) \/ ShowInPanelFails(p)
                            \/ PanelGone(p) \/ PanelReads(p) \/ PanelReady(p)
                            \/ ClosePanel(p) \/ Navigate(p)
         \/ \E d \in Decision : Click(d)
         \/ \E d \in decisions : OnRequestFinish(d)
         \/ Restart
         \/ UNCHANGED vars
BY DEF Next, Task, TaskFails, Events, User

(* Types are kept by every step.                                           *)
LEMMA TypeStep ==
  ASSUME ConfirmAssumption, TypeOK, TaskInv, [Next]_vars
  PROVE  TypeOK'
<1>. USE DEF taskVars, panelVars, userVars
<1>1. ASSUME NEW r \in Requests, Request(r)  PROVE TypeOK'
  BY <1>1, AppendProperties DEF TypeOK, Request, Stages
<1>2. ASSUME NEW r \in Requests, CloseWindow(r)  PROVE TypeOK'
  BY <1>2 DEF TypeOK, CloseWindow
<1>3. ASSUME NEW r \in Requests, WindowGone(r)  PROVE TypeOK'
  BY <1>3, SettleType DEF TypeOK, WindowGone
<1>4. ASSUME StoreRow  PROVE TypeOK'
  <2>1. Current \in Requests
    BY <1>4, HeadTailProperties DEF TypeOK, TaskInv, StoreRow, Current
  <2>2. pending' \in Pending
    BY <2>1, <1>4 DEF StoreRow, NoPending, Pending
  <2>. QED  BY <2>1, <2>2, <1>4 DEF TypeOK, StoreRow, Stages
<1>5. ASSUME NoPanel \/ CloseNotification  PROVE TypeOK'
  BY <1>5 DEF TypeOK, NoPanel, CloseNotification, Stages
<1>6. ASSUME WindowAppears  PROVE TypeOK'
  BY <1>6 DEF TypeOK, WindowAppears
<1>7. ASSUME WindowOpened  PROVE TypeOK'
  <2>1. pending' \in Pending
    BY <1>7 DEF TypeOK, WindowOpened, Pending
  <2>. QED  BY <2>1, <1>7 DEF TypeOK, WindowOpened, Stages
<1>8. ASSUME Approve  PROVE TypeOK'
  <2>1. pending.id \in Requests
    BY <1>8 DEF TypeOK, TaskInv, Approve, Pending
  <2>. QED  BY <2>1, <1>8 DEF TypeOK, Approve, Stages
<1>9. ASSUME NEW o \in {"approved", "denied", "error"}, Finally(o),
             pending.id # None, UNCHANGED <<ran, userVars, window, restarts>>
      PROVE  TypeOK'
  BY <1>9, FinallyType DEF TypeOK, Finally
<1>10. ASSUME Deny \/ SurfaceFails \/ \E o \in {"approved", "error"} : Approved(o)
       PROVE  TypeOK'
  BY <1>9, <1>10 DEF TaskInv, Deny, SurfaceFails, Approved
<1>11. ASSUME RemoveRow \/ RemoveRowFails \/ StoreRowFails  PROVE TypeOK'
  <2>1. queue # <<>>
    BY <1>11 DEF TaskInv, RemoveRow, RemoveRowFails, StoreRowFails
  <2>2. EndTask("error") \/ EndTask(result)
    BY <1>11 DEF RemoveRow, RemoveRowFails, StoreRowFails
  <2>. QED
    BY <2>1, <2>2, <1>11, EndTaskType
       DEF TypeOK, RemoveRow, RemoveRowFails, StoreRowFails
<1>12. ASSUME NEW p \in Ports, ShowInPanel(p)  PROVE TypeOK'
  <2>1. [type |-> "confirm-open", req |-> pending.id] \in Message
    BY <1>12 DEF TypeOK, TaskInv, ShowInPanel, Pending, Message
  <2>2. pending' \in Pending
    BY <1>12 DEF TypeOK, ShowInPanel, Pending
  <2>. QED  BY <2>1, <2>2, <1>12, PostType DEF TypeOK, ShowInPanel, Stages
<1>13. ASSUME NEW p \in Ports, ShowInPanelFails(p)  PROVE TypeOK'
  BY <1>13 DEF TypeOK, ShowInPanelFails, Stages
<1>14. ASSUME NEW p \in Ports, PanelGone(p)  PROVE TypeOK'
  BY <1>14, SettleType DEF TypeOK, PanelGone
<1>15. ASSUME NEW p \in Ports, PanelReads(p)  PROVE TypeOK'
  <2>1. Head(inbox[p]) \in Message /\ Tail(inbox[p]) \in Seq(Message)
    BY <1>15, HeadTailProperties DEF TypeOK, PanelReads
  <2>2. Head(inbox[p]).type = "confirm-open" => Head(inbox[p]).req \in Requests
    BY <2>1 DEF Message
  <2>. QED  BY <2>1, <2>2, <1>15 DEF TypeOK, PanelReads
<1>16. ASSUME NEW p \in Ports, PanelReady(p)  PROVE TypeOK'
  BY <1>16 DEF TypeOK, PanelReady
<1>17. ASSUME NEW p \in Ports, ClosePanel(p)  PROVE TypeOK'
  BY <1>17, EmptySeq DEF TypeOK, ClosePanel
<1>18. ASSUME NEW p \in Ports, Navigate(p)  PROVE TypeOK'
  <2>1. [type |-> "navigate"] \in Message
    BY DEF Message
  <2>. QED  BY <2>1, <1>18, PostType DEF TypeOK, Navigate
<1>19. ASSUME NEW d \in Decision, Click(d)  PROVE TypeOK'
  BY <1>19 DEF TypeOK, Click
<1>20. ASSUME NEW d \in decisions, OnRequestFinish(d)  PROVE TypeOK'
  <2>1. d.ok \in BOOLEAN
    BY DEF TypeOK, Decision
  <2>. QED  BY <2>1, <1>20, SettleType DEF TypeOK, OnRequestFinish
<1>21. ASSUME Restart  PROVE TypeOK'
  <2>1. NoPending \in Pending
    BY DEF NoPending, Pending
  <2>. QED
    BY <2>1, <1>21, EmptySeq DEF ConfirmAssumption, TypeOK, Restart, Stages
<1>22. ASSUME UNCHANGED vars  PROVE TypeOK'
  BY <1>22 DEF TypeOK, vars
<1>. QED
  BY <1>1, <1>2, <1>3, <1>4, <1>5, <1>6, <1>7, <1>8, <1>10, <1>11, <1>12,
     <1>13, <1>14, <1>15, <1>16, <1>17, <1>18, <1>19, <1>20, <1>21, <1>22,
     NextCases

(* What the end of a task does to the queue: each waiting request moves up *)
(* one place, and the answered one is gone.                                *)
LEMMA EndTaskQueue ==
  ASSUME TypeOK, QueueInv, queue # <<>>, NEW o, o # "queued", EndTask(o)
  PROVE  /\ Len(queue) >= 1
         /\ Len(queue') = Len(queue) - 1
         /\ \A i \in 1..Len(queue') : queue'[i] = queue[i + 1]
         /\ Current = queue[1] /\ Current \in Requests
         /\ QueueInv'
<1>1. /\ Len(queue) \in Nat /\ Len(queue) >= 1
      /\ Len(queue') = Len(queue) - 1
      /\ \A i \in 1..Len(queue') : queue'[i] = queue[i + 1]
      /\ Current = queue[1] /\ Current \in Requests
      /\ outcome' = [outcome EXCEPT ![Current] = o]
  BY HeadTailProperties, EmptySeq, LenProperties DEF TypeOK, EndTask, Current
<1>2. ASSUME NEW r \in Requests
      PROVE  (outcome'[r] = "queued") <=> \E i \in 1..Len(queue') : queue'[i] = r
  <2>1. CASE r = Current
    <3>1. \A i \in 1..Len(queue') : queue[i + 1] # queue[1]
      BY <1>1 DEF QueueInv
    <3>. QED  BY <1>1, <2>1, <3>1 DEF TypeOK
  <2>2. CASE r # Current
    <3>1. (outcome'[r] = "queued") <=> \E i \in 1..Len(queue) : queue[i] = r
      BY <1>1, <2>2 DEF TypeOK, QueueInv
    <3>2. (\E i \in 1..Len(queue') : queue'[i] = r)
             => \E i \in 1..Len(queue) : queue[i] = r
      BY <1>1
    <3>3. ASSUME NEW i \in 1..Len(queue), queue[i] = r
          PROVE  \E j \in 1..Len(queue') : queue'[j] = r
      <4>1. i - 1 \in 1..Len(queue') /\ queue'[i - 1] = r
        BY <1>1, <2>2, <3>3
      <4>. QED  BY <4>1
    <3>. QED  BY <3>1, <3>2, <3>3
  <2>. QED  BY <2>1, <2>2
<1>3. ASSUME NEW i \in 1..Len(queue'), NEW j \in 1..Len(queue'),
             queue'[i] = queue'[j]
      PROVE  i = j
  <2>1. queue[i + 1] = queue[j + 1] /\ i + 1 \in 1..Len(queue) /\ j + 1 \in 1..Len(queue)
    BY <1>1, <1>3
  <2>. QED  BY <2>1 DEF QueueInv
<1>. QED
  BY <1>1, <1>2, <1>3 DEF QueueInv

(* The queue holds each unanswered request once, after every step.         *)
LEMMA QueueStep ==
  ASSUME TypeOK, TaskInv, QueueInv, [Next]_vars
  PROVE  QueueInv'
<1>. USE DEF taskVars, panelVars, userVars
<1>1. ASSUME NEW r \in Requests, Request(r)  PROVE QueueInv'
  <2>1. /\ Len(queue) \in Nat /\ Len(queue') = Len(queue) + 1
        /\ queue'[Len(queue) + 1] = r
        /\ \A i \in 1..Len(queue) : queue'[i] = queue[i]
        /\ outcome' = [outcome EXCEPT ![r] = "queued"]
    BY <1>1, AppendProperties, LenProperties DEF TypeOK, Request
  <2>2. \A i \in 1..Len(queue) : queue[i] # r
    BY <1>1 DEF QueueInv, Request
  <2>3. ASSUME NEW s \in Requests
        PROVE  (outcome'[s] = "queued") <=> \E i \in 1..Len(queue') : queue'[i] = s
    <3>1. CASE s = r
      <4>1. Len(queue) + 1 \in 1..Len(queue')
        BY <2>1
      <4>. QED  BY <2>1, <3>1, <4>1 DEF TypeOK
    <3>2. CASE s # r
      <4>1. (\E i \in 1..Len(queue') : queue'[i] = s)
              <=> \E i \in 1..Len(queue) : queue[i] = s
        BY <2>1, <3>2
      <4>. QED  BY <2>1, <3>2, <4>1 DEF TypeOK, QueueInv
    <3>. QED  BY <3>1, <3>2
  <2>4. ASSUME NEW i \in 1..Len(queue'), NEW j \in 1..Len(queue'),
               queue'[i] = queue'[j]
        PROVE  i = j
    <3>1. CASE i \in 1..Len(queue) /\ j \in 1..Len(queue)
      BY <2>1, <2>4, <3>1 DEF QueueInv
    <3>2. CASE ~(i \in 1..Len(queue) /\ j \in 1..Len(queue))
      BY <2>1, <2>2, <2>4, <3>2
    <3>. QED  BY <3>1, <3>2
  <2>. QED  BY <2>3, <2>4 DEF QueueInv
<1>2. ASSUME RemoveRow \/ RemoveRowFails \/ StoreRowFails  PROVE QueueInv'
  <2>1. queue # <<>> /\ \E o \in {"approved", "denied", "error"} : EndTask(o)
    BY <1>2 DEF TypeOK, TaskInv, RemoveRow, RemoveRowFails, StoreRowFails
  <2>. QED  BY <2>1, EndTaskQueue
<1>3. ASSUME Restart  PROVE QueueInv'
  <2>1. Len(queue') = 0 /\ \A r \in Requests : outcome'[r] # "queued"
    BY <1>3, EmptySeq DEF Restart, TypeOK
  <2>. QED  BY <2>1 DEF QueueInv
<1>4. ASSUME UNCHANGED <<queue, outcome>>  PROVE QueueInv'
  BY <1>4 DEF QueueInv
<1>5. CASE \/ \E r \in Requests : CloseWindow(r) \/ WindowGone(r)
           \/ StoreRow \/ NoPanel \/ WindowAppears \/ WindowOpened \/ Approve
           \/ CloseNotification \/ UNCHANGED vars
  BY <1>4, <1>5 DEF CloseWindow, WindowGone, StoreRow, NoPanel, WindowAppears,
                    WindowOpened, Approve, CloseNotification, vars
<1>6. CASE Deny \/ SurfaceFails \/ \E o \in {"approved", "error"} : Approved(o)
  BY <1>4, <1>6 DEF Deny, SurfaceFails, Approved, Finally
<1>7. CASE \/ \E p \in Ports : ShowInPanel(p) \/ ShowInPanelFails(p)
                              \/ PanelGone(p) \/ PanelReads(p) \/ PanelReady(p)
                              \/ ClosePanel(p) \/ Navigate(p)
           \/ \E d \in Decision : Click(d)
           \/ \E d \in decisions : OnRequestFinish(d)
  BY <1>4, <1>7 DEF ShowInPanel, ShowInPanelFails, PanelGone, PanelReads,
                    PanelReady, ClosePanel, Navigate, Click, OnRequestFinish
<1>. QED
  BY <1>1, <1>2, <1>3, <1>5, <1>6, <1>7, NextCases

(* The stage of the task and the pending record stay in step.              *)
LEMMA TaskStep ==
  ASSUME ConfirmAssumption, TypeOK, TaskInv, QueueInv, [Next]_vars
  PROVE  TaskInv'
<1>. USE DEF taskVars, panelVars, userVars
<1>1. ASSUME NEW r \in Requests, Request(r)  PROVE TaskInv'
  <2>1. queue' # <<>> /\ (queue # <<>> => Head(queue') = Head(queue))
    BY <1>1, AppendProperties, HeadTailProperties, EmptySeq, LenProperties
       DEF TypeOK, Request
  <2>. QED  BY <1>1, <2>1 DEF TaskInv, Request
<1>2. ASSUME StoreRow  PROVE TaskInv'
  <2>1. Current \in Requests
    BY <1>2, HeadTailProperties DEF TypeOK, TaskInv, StoreRow, Current
  <2>. QED
    BY <1>2, <2>1 DEF ConfirmAssumption, TaskInv, StoreRow, NoPending, Current
<1>3. ASSUME RemoveRow \/ RemoveRowFails \/ StoreRowFails  PROVE TaskInv'
  <2>1. PICK o : EndTask(o)
    BY <1>3 DEF RemoveRow, RemoveRowFails, StoreRowFails
  <2>2. pending = NoPending /\ pending.id = None /\ UNCHANGED pending
    BY <1>3 DEF TaskInv, RemoveRow, RemoveRowFails, StoreRowFails
  <2>. QED  BY <2>1, <2>2 DEF TaskInv, EndTask
<1>4. ASSUME NEW o, Finally(o), pending.id # None  PROVE TaskInv'
  BY <1>4 DEF Finally, TaskInv, NoPending
<1>5. CASE Deny \/ SurfaceFails \/ \E o \in {"approved", "error"} : Approved(o)
  BY <1>4, <1>5 DEF TaskInv, Deny, SurfaceFails, Approved
<1>6. ASSUME Restart  PROVE TaskInv'
  BY <1>6 DEF Restart, TaskInv, NoPending
<1>7. ASSUME UNCHANGED <<queue, stage>>, pending'.id = pending.id,
             pending' = pending \/ pending.id # None
      PROVE  TaskInv'
  BY <1>7 DEF TaskInv
<1>8. CASE \/ \E r \in Requests : CloseWindow(r) \/ WindowGone(r)
           \/ \E p \in Ports : PanelGone(p) \/ PanelReads(p) \/ PanelReady(p)
                              \/ ClosePanel(p) \/ Navigate(p)
           \/ WindowAppears \/ UNCHANGED vars
  <2>1. ASSUME Settle(FALSE)  PROVE pending'.id = pending.id
    BY <2>1 DEF Settle, TypeOK, Pending
  <2>2. ASSUME NEW p \in Ports, pending.panel = p  PROVE pending.id # None
    BY <2>2 DEF TaskInv, NoPending, ConfirmAssumption
  <2>3. ASSUME NEW r \in Requests, pending.id = r  PROVE pending.id # None
    BY <2>3 DEF ConfirmAssumption
  <2>. QED
    BY <1>7, <1>8, <2>1, <2>2, <2>3
       DEF CloseWindow, WindowGone, PanelGone, PanelReads, PanelReady,
           ClosePanel, Navigate, WindowAppears, vars
<1>9. CASE \/ \E d \in Decision : Click(d)
           \/ \E d \in decisions : OnRequestFinish(d)
  <2>1. ASSUME NEW ok, Settle(ok)  PROVE pending'.id = pending.id
    BY <2>1 DEF Settle, TypeOK, Pending
  <2>2. ASSUME NEW d \in decisions, CanFinish(d)  PROVE pending.id # None
    BY <2>2 DEF CanFinish, TypeOK, Decision, ConfirmAssumption
  <2>. QED
    BY <1>7, <1>9, <2>1, <2>2 DEF Click, OnRequestFinish
<1>10. CASE \/ NoPanel \/ Approve \/ CloseNotification \/ WindowOpened
            \/ \E p \in Ports : ShowInPanel(p) \/ ShowInPanelFails(p)
  BY <1>10 DEF TypeOK, Pending, TaskInv, NoPanel, Approve, CloseNotification,
               WindowOpened, ShowInPanel, ShowInPanelFails
<1>. QED
  BY <1>1, <1>2, <1>3, <1>5, <1>6, <1>8, <1>9, <1>10, NextCases

(* Decisions and effects keep coming from clicks.                          *)
LEMMA ConsentStep ==
  ASSUME ConfirmAssumption, TypeOK, TaskInv, ConsentInv, [Next]_vars
  PROVE  ConsentInv'
<1>. USE DEF taskVars, panelVars, userVars, ConsentInv, ConsentBeforeEffect
<1>1. ASSUME NEW d \in Decision, Click(d)  PROVE ConsentInv'
  BY <1>1 DEF Click
<1>2. ASSUME NEW d \in decisions, OnRequestFinish(d)  PROVE ConsentInv'
  <2>1. d \in clicks /\ d.ok \in BOOLEAN
    BY DEF TypeOK, Decision
  <2>2. CASE CanFinish(d) /\ ~pending.settled
    <3>1. pending'.id = d.req /\ pending'.ok = d.ok /\ pending'.settled
      BY <1>2, <2>2 DEF OnRequestFinish, CanFinish, Settle, TypeOK, Pending
    <3>. QED  BY <1>2, <2>1, <3>1 DEF OnRequestFinish
  <2>3. CASE ~(CanFinish(d) /\ ~pending.settled)
    BY <1>2, <2>3 DEF OnRequestFinish, Settle
  <2>. QED  BY <2>2, <2>3
<1>3. ASSUME Approve  PROVE ConsentInv'
  BY <1>3 DEF Approve
<1>4. ASSUME UNCHANGED <<clicks, ran>>, decisions' \subseteq decisions,
             pending' = pending \/ Settle(FALSE) \/ pending'.ok = FALSE
      PROVE  ConsentInv'
  BY <1>4 DEF Settle, TypeOK, Pending
<1>5. CASE \/ \E r \in Requests : Request(r) \/ CloseWindow(r) \/ WindowGone(r)
           \/ \E p \in Ports : PanelGone(p) \/ PanelReads(p) \/ PanelReady(p)
                              \/ ClosePanel(p) \/ Navigate(p) \/ ShowInPanelFails(p)
           \/ NoPanel \/ WindowAppears \/ CloseNotification \/ RemoveRow
           \/ StoreRowFails \/ RemoveRowFails \/ UNCHANGED vars
  BY <1>4, <1>5 DEF Request, CloseWindow, WindowGone, PanelGone, PanelReads,
                    PanelReady, ClosePanel, Navigate, ShowInPanelFails, NoPanel,
                    WindowAppears, CloseNotification, RemoveRow, StoreRowFails,
                    RemoveRowFails, vars
<1>6. CASE StoreRow \/ Restart
  BY <1>4, <1>6 DEF StoreRow, Restart, NoPending
<1>7. CASE Deny \/ SurfaceFails \/ \E o \in {"approved", "error"} : Approved(o)
  BY <1>4, <1>7 DEF Deny, SurfaceFails, Approved, Finally, NoPending
<1>8. CASE \E p \in Ports : ShowInPanel(p)
  BY <1>8 DEF ShowInPanel, TypeOK, Pending
<1>9. CASE WindowOpened
  BY <1>9 DEF WindowOpened, TypeOK, Pending
<1>. QED
  BY <1>1, <1>2, <1>3, <1>5, <1>6, <1>7, <1>8, <1>9, NextCases

(* Effects stay where the queue and the stage say they are.                *)
LEMMA EffectStep ==
  ASSUME ConfirmAssumption, TypeOK, TaskInv, QueueInv, EffectInv, [Next]_vars
  PROVE  EffectInv'
<1>. USE DEF taskVars, panelVars, userVars
<1>0. /\ Len(queue) \in Nat
      /\ queue # <<>> => Current = queue[1] /\ Len(queue) >= 1 /\ Current \in Requests
  BY HeadTailProperties, LenProperties, EmptySeq DEF TypeOK, Current
<1>1. ASSUME NEW r \in Requests, Request(r)  PROVE EffectInv'
  <2>1. /\ Len(queue') = Len(queue) + 1 /\ queue'[Len(queue) + 1] = r
        /\ \A i \in 1..Len(queue) : queue'[i] = queue[i]
        /\ queue' # <<>> /\ Current' = queue'[1]
    BY <1>1, AppendProperties, LenProperties, HeadTailProperties, EmptySeq
       DEF TypeOK, Request, Current
  <2>2. r \notin ran
    BY <1>1 DEF EffectInv, Request
  <2>3. \A i \in 2..Len(queue') : queue'[i] \notin ran
    BY <1>0, <2>1, <2>2 DEF EffectInv
  <2>4. CASE queue = <<>>
    <3>1. Len(queue) = 0
      BY <2>4, EmptySeq
    <3>. QED  BY <1>1, <2>1, <2>2, <2>3, <2>4, <3>1 DEF EffectInv, Request, TypeOK
  <2>5. CASE queue # <<>>
    <3>1. Current' = Current
      BY <1>0, <2>1, <2>5
    <3>. QED  BY <1>1, <2>2, <2>3, <2>5, <3>1 DEF EffectInv, Request, TypeOK
  <2>. QED  BY <2>4, <2>5
<1>2. ASSUME RemoveRow \/ RemoveRowFails \/ StoreRowFails  PROVE EffectInv'
  <2>1. queue # <<>>
    BY <1>2 DEF TaskInv, RemoveRow, RemoveRowFails, StoreRowFails
  <2>2. PICK o \in {"approved", "denied", "error"} : EndTask(o)
    BY <1>2 DEF TypeOK, RemoveRow, RemoveRowFails, StoreRowFails
  <2>3. ran' = ran
    BY <1>2 DEF RemoveRow, RemoveRowFails, StoreRowFails
  <2>4. /\ Len(queue') = Len(queue) - 1
        /\ \A i \in 1..Len(queue') : queue'[i] = queue[i + 1]
    BY <2>1, <2>2, EndTaskQueue
  <2>5. \A i \in 1..Len(queue') : queue'[i] \notin ran
    BY <1>0, <2>1, <2>4 DEF EffectInv
  <2>6. stage' # "idle" => stage' = "storing" /\ Current' = queue'[1] /\ 1 \in 1..Len(queue')
    <3>1. queue' \in Seq(Requests)
      BY <2>1, <2>2, HeadTailProperties DEF EndTask, TypeOK
    <3>. QED
      BY <2>2, <3>1, HeadTailProperties, LenProperties, EmptySeq DEF EndTask, Current
  <2>7. \A r \in ran : outcome'[r] # "new"
    BY <1>0, <2>1, <2>2 DEF EffectInv, EndTask, TypeOK
  <2>. QED  BY <2>2, <2>3, <2>5, <2>6, <2>7 DEF EffectInv, EndTask
<1>3. ASSUME Approve  PROVE EffectInv'
  <2>1. pending.id = queue[1] /\ queue # <<>> /\ pending.id = Current
    BY <1>0, <1>3 DEF Approve, TaskInv, Current
  <2>2. 1 \in 1..Len(queue) /\ pending.id \in Requests
    BY <1>0, <2>1
  <2>3. ASSUME NEW i \in 2..Len(queue)  PROVE queue[i] # pending.id
    <3>1. i \in 1..Len(queue) /\ i # 1
      BY <1>0
    <3>. QED  BY <2>1, <2>2, <3>1 DEF QueueInv
  <2>4. outcome[pending.id] = "queued"
    BY <2>1, <2>2 DEF QueueInv
  <2>. QED  BY <1>3, <2>1, <2>3, <2>4 DEF Approve, EffectInv, Current
<1>4. ASSUME Restart  PROVE EffectInv'
  <2>1. Len(queue') = 0 /\ stage' = "idle" /\ ran' = ran
    BY <1>4, EmptySeq DEF Restart
  <2>. QED  BY <1>4, <2>1 DEF Restart, EffectInv, TypeOK
<1>5. ASSUME NEW o, Finally(o)
      PROVE  /\ result' = o /\ stage' \in {"closing", "removing"}
             /\ queue' = queue /\ outcome' = outcome
  BY <1>5 DEF Finally
<1>6. CASE Deny
  <2>1. Current \notin ran /\ ran' = ran
    BY <1>6 DEF Deny, EffectInv
  <2>. QED  BY <1>5, <1>6, <2>1 DEF Deny, EffectInv, Current
<1>7. CASE SurfaceFails \/ \E o \in {"approved", "error"} : Approved(o)
  <2>1. PICK o \in {"approved", "error"} :
          Finally(o) /\ ran' = ran /\ (o = "approved" => stage = "approving")
    BY <1>7 DEF SurfaceFails, Approved
  <2>2. /\ result' = o /\ stage' \in {"closing", "removing"}
        /\ queue' = queue /\ outcome' = outcome
    BY <1>5, <2>1
  <2>. QED  BY <2>1, <2>2 DEF EffectInv, Current
<1>8. CASE \/ StoreRow \/ NoPanel \/ WindowOpened \/ CloseNotification
           \/ \E p \in Ports : ShowInPanel(p) \/ ShowInPanelFails(p)
  BY <1>8 DEF StoreRow, NoPanel, WindowOpened, CloseNotification, ShowInPanel,
              ShowInPanelFails, EffectInv, Current
<1>9. ASSUME UNCHANGED <<queue, stage, result, ran, outcome>>  PROVE EffectInv'
  BY <1>9 DEF EffectInv, Current
<1>10. CASE \/ \E r \in Requests : CloseWindow(r) \/ WindowGone(r)
            \/ \E p \in Ports : PanelGone(p) \/ PanelReads(p) \/ PanelReady(p)
                               \/ ClosePanel(p) \/ Navigate(p)
            \/ \E d \in Decision : Click(d)
            \/ \E d \in decisions : OnRequestFinish(d)
            \/ WindowAppears \/ UNCHANGED vars
  BY <1>9, <1>10 DEF CloseWindow, WindowGone, PanelGone, PanelReads, PanelReady,
                     ClosePanel, Navigate, Click, OnRequestFinish,
                     WindowAppears, vars
<1>. QED
  BY <1>1, <1>2, <1>3, <1>4, <1>5, <1>6, <1>7, <1>8, <1>10, NextCases

(* A message read from, or posted to, a channel shows no other request.    *)
LEMMA InboxOpens ==
  ASSUME TypeOK, NEW p \in Ports, NEW m \in Message, Post(p, m),
         NEW q \in Ports, NEW i \in 1..Len(inbox'[q]), NEW x,
         inbox'[q][i] = x, x # m
  PROVE  \E j \in 1..Len(inbox[q]) : inbox[q][j] = x
<1>1. CASE inbox'[q] = inbox[q]
  BY <1>1
<1>2. CASE inbox'[q] # inbox[q]
  <2>1. q = p /\ inbox'[q] = Append(inbox[q], m) /\ inbox[q] \in Seq(Message)
    BY <1>2 DEF Post, TypeOK
  <2>2. i \in 1..Len(inbox[q]) /\ inbox'[q][i] = inbox[q][i]
    BY <2>1, AppendProperties, LenProperties
  <2>. QED  BY <2>2
<1>. QED  BY <1>1, <1>2

(* Only the running task puts a request on a surface, and only its own.    *)
LEMMA NewSurface ==
  ASSUME ConfirmAssumption, TypeOK, TaskInv, [Next]_vars,
         NEW r \in Requests, Shown(r)'
  PROVE  Shown(r) \/ (r = Current /\ stage \in {"finding", "opening"})
<1>. USE DEF taskVars, panelVars, userVars, Shown
<1>1. ASSUME UNCHANGED <<window, screen, inbox>>  PROVE Shown(r)
  BY <1>1
<1>2. CASE \/ \E s \in Requests : Request(s)
           \/ \E p \in Ports : PanelGone(p) \/ PanelReady(p) \/ ShowInPanelFails(p)
           \/ \E d \in Decision : Click(d)
           \/ \E d \in decisions : OnRequestFinish(d)
           \/ StoreRow \/ NoPanel \/ WindowOpened \/ Approve \/ RemoveRow
           \/ StoreRowFails \/ RemoveRowFails \/ UNCHANGED vars
  BY <1>1, <1>2 DEF Request, PanelGone, PanelReady, ShowInPanelFails, Click,
                    OnRequestFinish, StoreRow, NoPanel, WindowOpened, Approve,
                    RemoveRow, StoreRowFails, RemoveRowFails, vars
<1>3. CASE \/ \E s \in Requests : CloseWindow(s) \/ WindowGone(s)
           \/ CloseNotification
  BY <1>3 DEF CloseWindow, WindowGone, CloseNotification, TypeOK
<1>4. CASE WindowAppears
  BY <1>4 DEF WindowAppears, TypeOK
<1>5. ASSUME NEW p \in Ports, NEW m \in Message, Post(p, m),
             m # [type |-> "confirm-open", req |-> r], UNCHANGED <<window, screen>>
      PROVE  Shown(r)
  BY <1>5, InboxOpens
<1>6. CASE \E p \in Ports : ShowInPanel(p)
  <2>1. PICK p \in Ports : ShowInPanel(p)
    BY <1>6
  <2>2. pending.id = Current /\ pending.id \in Requests
    BY <2>1 DEF TaskInv, ShowInPanel, Current, TypeOK, Pending
  <2>3. [type |-> "confirm-open", req |-> pending.id] \in Message
    BY <2>2 DEF Message
  <2>4. CASE r = Current
    BY <2>1, <2>4 DEF ShowInPanel
  <2>5. CASE r # Current
    <3>1. [type |-> "confirm-open", req |-> pending.id]
             # [type |-> "confirm-open", req |-> r]
      BY <2>2, <2>5
    <3>. QED  BY <1>5, <2>1, <2>3, <3>1 DEF ShowInPanel
  <2>. QED  BY <2>4, <2>5
<1>7. CASE \E p \in Ports : Navigate(p)
  <2>1. [type |-> "navigate"] \in Message
    BY DEF Message
  <2>2. [type |-> "navigate"] # [type |-> "confirm-open", req |-> r]
    OBVIOUS
  <2>. QED  BY <1>1, <1>5, <1>7, <2>1, <2>2 DEF Navigate
<1>8. CASE Deny \/ SurfaceFails \/ \E o \in {"approved", "error"} : Approved(o)
  <2>1. PICK o : Finally(o) /\ UNCHANGED window
    BY <1>8 DEF Deny, SurfaceFails, Approved
  <2>2. pending.id \in Requests
    BY <1>8 DEF Deny, SurfaceFails, Approved, TaskInv, TypeOK, Pending
  <2>3. CASE pending.panel = None
    BY <1>1, <2>1, <2>3 DEF Finally
  <2>4. CASE pending.panel # None
    <3>1. pending.panel \in Ports
      BY <2>4 DEF TypeOK, Pending
    <3>2. [type |-> "confirm-done", req |-> pending.id] \in Message
      BY <2>2 DEF Message
    <3>3. [type |-> "confirm-done", req |-> pending.id]
             # [type |-> "confirm-open", req |-> r]
      OBVIOUS
    <3>. QED  BY <1>5, <2>1, <2>4, <3>1, <3>2, <3>3 DEF Finally
  <2>. QED  BY <2>3, <2>4
<1>9. CASE \E p \in Ports : PanelReads(p)
  <2>1. PICK p \in Ports : PanelReads(p)
    BY <1>9
  <2>2. /\ inbox[p] \in Seq(Message) /\ Len(inbox[p]) \in Nat /\ Len(inbox[p]) >= 1
        /\ Head(inbox[p]) = inbox[p][1] /\ Head(inbox[p]) \in Message
        /\ Len(Tail(inbox[p])) = Len(inbox[p]) - 1
        /\ \A i \in 1..Len(Tail(inbox[p])) : Tail(inbox[p])[i] = inbox[p][i + 1]
    BY <2>1, HeadTailProperties, LenProperties, EmptySeq DEF PanelReads, TypeOK
  <2>3. ASSUME NEW q \in Ports, screen'[q] = r  PROVE Shown(r)
    <3>1. CASE screen[q] = r
      BY <3>1
    <3>2. CASE screen[q] # r
      <4>1. q = p /\ Head(inbox[p]).type = "confirm-open" /\ Head(inbox[p]).req = r
        BY <2>1, <2>3, <3>2 DEF PanelReads, TypeOK, ConfirmAssumption
      <4>2. Head(inbox[p]) = [type |-> "confirm-open", req |-> r]
        <5>1. Head(inbox[p]) \in [type : {"confirm-open", "confirm-done"},
                                 req : Requests]
          BY <2>2, <4>1 DEF Message
        <5>. QED  BY <4>1, <5>1
      <4>3. 1 \in 1..Len(inbox[p])
        BY <2>2
      <4>. QED  BY <2>2, <4>2, <4>3
    <3>. QED  BY <3>1, <3>2
  <2>4. ASSUME NEW q \in Ports, NEW i \in 1..Len(inbox'[q]),
               inbox'[q][i] = [type |-> "confirm-open", req |-> r]
        PROVE  Shown(r)
    <3>1. CASE q = p
      <4>1. inbox'[q] = Tail(inbox[p])
        BY <2>1, <3>1 DEF PanelReads, TypeOK
      <4>2. i + 1 \in 1..Len(inbox[p]) /\ inbox[p][i + 1] = inbox'[q][i]
        BY <2>2, <4>1
      <4>. QED  BY <2>4, <4>2
    <3>2. CASE q # p
      BY <2>1, <2>4, <3>2 DEF PanelReads, TypeOK
    <3>. QED  BY <3>1, <3>2
  <2>5. window' = window
    BY <2>1 DEF PanelReads
  <2>. QED  BY <2>3, <2>4, <2>5
<1>10. CASE Restart \/ \E p \in Ports : ClosePanel(p)
  <2>1. \A p \in Ports :
          \/ inbox'[p] = <<>> /\ screen'[p] = None
          \/ inbox'[p] = inbox[p] /\ screen'[p] = screen[p]
    BY <1>10 DEF Restart, ClosePanel, TypeOK
  <2>2. window' = window
    BY <1>10 DEF Restart, ClosePanel
  <2>3. ASSUME NEW p \in Ports, screen'[p] = r  PROVE screen[p] = r
    BY <2>1, <2>3 DEF ConfirmAssumption
  <2>4. ASSUME NEW p \in Ports, NEW i \in 1..Len(inbox'[p])
        PROVE  inbox'[p] = inbox[p]
    <3>1. CASE inbox'[p] = <<>>
      BY <2>4, <3>1, EmptySeq
    <3>. QED  BY <2>1, <3>1
  <2>. QED  BY <2>2, <2>3, <2>4
<1>. QED
  BY <1>2, <1>3, <1>4, <1>6, <1>7, <1>8, <1>9, <1>10, NextCases

(* A request that may be shown may still be shown after any step.          *)
LEMMA StaysShowable ==
  ASSUME ConfirmAssumption, TypeOK, TaskInv, QueueInv, [Next]_vars,
         NEW r \in Requests, MayBeShown(r)
  PROVE  MayBeShown(r)'
<1>. USE DEF taskVars, panelVars, userVars, MayBeShown
<1>1. ASSUME UNCHANGED <<queue, outcome>>, stage' # "storing" \/ stage = "storing"
      PROVE  MayBeShown(r)'
  BY <1>1 DEF Current
<1>2. CASE \/ \E s \in Requests : CloseWindow(s) \/ WindowGone(s)
           \/ \E p \in Ports : ShowInPanel(p) \/ ShowInPanelFails(p)
                              \/ PanelGone(p) \/ PanelReads(p) \/ PanelReady(p)
                              \/ ClosePanel(p) \/ Navigate(p)
           \/ \E d \in Decision : Click(d)
           \/ \E d \in decisions : OnRequestFinish(d)
           \/ StoreRow \/ NoPanel \/ WindowAppears \/ WindowOpened \/ Approve
           \/ CloseNotification \/ UNCHANGED vars
  BY <1>1, <1>2 DEF CloseWindow, WindowGone, ShowInPanel, ShowInPanelFails,
                    PanelGone, PanelReads, PanelReady, ClosePanel, Navigate,
                    Click, OnRequestFinish, StoreRow, NoPanel, WindowAppears,
                    WindowOpened, Approve, CloseNotification, vars
<1>3. CASE Deny \/ SurfaceFails \/ \E o \in {"approved", "error"} : Approved(o)
  BY <1>1, <1>3 DEF Deny, SurfaceFails, Approved, Finally
<1>4. ASSUME NEW s \in Requests, Request(s)  PROVE MayBeShown(r)'
  <2>1. r # s
    BY <1>4 DEF Request
  <2>2. CASE outcome[r] = "queued"
    <3>1. queue # <<>>
      <4>1. PICK i \in 1..Len(queue) : queue[i] = r
        BY <2>2 DEF QueueInv
      <4>. QED  BY <4>1, EmptySeq
    <3>2. Head(queue') = Head(queue)
      BY <1>4, <3>1, AppendProperties, HeadTailProperties, LenProperties, EmptySeq
         DEF TypeOK, Request
    <3>. QED  BY <1>4, <2>1, <3>1, <3>2 DEF Request, TypeOK, Current
  <2>3. CASE outcome[r] # "queued"
    BY <1>4, <2>1, <2>3 DEF Request, TypeOK
  <2>. QED  BY <2>2, <2>3
<1>5. CASE RemoveRow \/ RemoveRowFails \/ StoreRowFails
  <2>1. queue # <<>>
    BY <1>5 DEF TaskInv, RemoveRow, RemoveRowFails, StoreRowFails
  <2>2. PICK o \in {"approved", "denied", "error"} : EndTask(o)
    BY <1>5 DEF TypeOK, RemoveRow, RemoveRowFails, StoreRowFails
  <2>3. outcome'[r] \notin {"new", "queued"}
    BY <2>1, <2>2 DEF EndTask, TypeOK
  <2>. QED  BY <2>3
<1>6. CASE Restart
  BY <1>6 DEF Restart, TypeOK
<1>. QED
  BY <1>2, <1>3, <1>4, <1>5, <1>6, NextCases

(* The inductive invariant holds at first and is kept by every step.       *)
LEMMA InitIInv == ASSUME ConfirmAssumption, Init PROVE IInv
<1>. USE DEF Init
<1>1. NoPending \in Pending
  BY DEF NoPending, Pending
<1>2. TypeOK
  <2>1. queue \in Seq(Requests) /\ inbox \in [Ports -> Seq(Message)]
    BY EmptySeq
  <2>2. restarts \in 0..MaxRestarts
    BY DEF ConfirmAssumption
  <2>. QED  BY <1>1, <2>1, <2>2 DEF TypeOK, Stages
<1>3. TaskInv
  BY DEF TaskInv, NoPending
<1>4. QueueInv /\ EffectInv
  BY EmptySeq DEF QueueInv, EffectInv
<1>5. ConsentInv
  BY DEF ConsentInv, ConsentBeforeEffect, NoPending
<1>6. ShownInv
  <2>1. ASSUME NEW r \in Requests  PROVE ~Shown(r)
    <3>1. \A p \in Ports : screen[p] # r /\ Len(inbox[p]) = 0
      BY EmptySeq DEF ConfirmAssumption
    <3>. QED  BY <3>1 DEF Shown
  <2>. QED  BY <2>1 DEF ShownInv
<1>. QED  BY <1>2, <1>3, <1>4, <1>5, <1>6 DEF IInv

LEMMA StepIInv == ASSUME ConfirmAssumption, IInv, [Next]_vars PROVE IInv'
<1>. USE DEF IInv
<1>1. TypeOK' /\ TaskInv' /\ QueueInv' /\ ConsentInv' /\ EffectInv'
  BY TypeStep, TaskStep, QueueStep, ConsentStep, EffectStep
<1>2. ShownInv'
  <2>1. ASSUME NEW r \in Requests, Shown(r)'  PROVE MayBeShown(r)'
    <3>1. CASE Shown(r)
      BY <3>1, StaysShowable DEF ShownInv
    <3>2. CASE r = Current /\ stage \in {"finding", "opening"}
      <4>1. 1 \in 1..Len(queue) /\ queue[1] = r
        BY <3>2, HeadTailProperties, LenProperties, EmptySeq
           DEF TaskInv, TypeOK, Current
      <4>2. outcome[r] = "queued"
        BY <4>1 DEF QueueInv
      <4>. QED  BY <3>2, <4>2, StaysShowable DEF MayBeShown
    <3>. QED  BY <2>1, <3>1, <3>2, NewSurface
  <2>. QED  BY <2>1 DEF ShownInv
<1>. QED  BY <1>1, <1>2

LEMMA Invariance == Spec => []IInv
<1>1. ConfirmAssumption
  BY ConfirmAssumption
<1>2. Init => IInv
  BY <1>1, InitIInv
<1>3. IInv /\ [Next]_vars => IInv'
  BY <1>1, StepIInv
<1>. QED  BY <1>2, <1>3, PTL DEF Spec

-----------------------------------------------------------------------------
(* Theorems                                                                *)

(* Every variable of the confirmation queue keeps its type.                *)
THEOREM TypeCorrect == Spec => []TypeOK
BY Invariance, PTL DEF IInv

(* The pending confirmation is always that of the first request of the     *)
(* queue: requests cannot replace each other's confirmation.               *)
THEOREM PendingIsFirstHolds == Spec => []PendingIsFirst
<1>1. IInv => PendingIsFirst
  BY DEF IInv, TaskInv, PendingIsFirst, Current
<1>. QED  BY <1>1, Invariance, PTL

(* No request has its effect unless its user approved that request.        *)
THEOREM ConsentHolds == Spec => []ConsentBeforeEffect
<1>1. IInv => ConsentBeforeEffect
  BY DEF IInv, ConsentInv
<1>. QED  BY <1>1, Invariance, PTL

(* The first decision about a request is final.                            *)
THEOREM FirstDecisionHolds == Spec => FirstDecisionWins
<1>1. ASSUME IInv, [Next]_vars, pending.settled, pending'.id = pending.id
      PROVE  pending'.settled /\ pending'.ok = pending.ok
  <2>. USE DEF taskVars, panelVars, userVars
  <2>1. pending.id # None
    BY <1>1 DEF IInv, TaskInv, NoPending
  <2>2. pending \in Pending
    BY <1>1 DEF IInv, TypeOK
  <2>3. ASSUME NEW ok, Settle(ok)  PROVE pending' = pending
    BY <1>1, <2>3 DEF Settle
  <2>4. pending' # NoPending
    BY <1>1, <2>1 DEF NoPending
  <2>5. CASE \/ Deny \/ SurfaceFails \/ \E o \in {"approved", "error"} : Approved(o)
             \/ Restart
    BY <2>4, <2>5 DEF Deny, SurfaceFails, Approved, Finally, Restart
  <2>6. CASE StoreRow
    BY <1>1, <2>1, <2>6 DEF StoreRow, IInv, TaskInv
  <2>7. CASE WindowOpened \/ \E p \in Ports : ShowInPanel(p)
    BY <1>1, <2>2, <2>7 DEF WindowOpened, ShowInPanel, Pending
  <2>8. CASE \/ \E r \in Requests : Request(r) \/ CloseWindow(r) \/ WindowGone(r)
             \/ \E p \in Ports : ShowInPanelFails(p) \/ PanelGone(p)
                                \/ PanelReads(p) \/ PanelReady(p)
                                \/ ClosePanel(p) \/ Navigate(p)
             \/ \E d \in Decision : Click(d)
             \/ \E d \in decisions : OnRequestFinish(d)
    BY <1>1, <2>3, <2>8
       DEF Request, CloseWindow, WindowGone, ShowInPanelFails, PanelGone,
           PanelReads, PanelReady, ClosePanel, Navigate, Click, OnRequestFinish
  <2>9. CASE \/ NoPanel \/ WindowAppears \/ Approve \/ CloseNotification
             \/ RemoveRow \/ StoreRowFails \/ RemoveRowFails \/ UNCHANGED vars
    BY <1>1, <2>9
       DEF NoPanel, WindowAppears, Approve, CloseNotification, RemoveRow,
           StoreRowFails, RemoveRowFails, vars
  <2>. QED
    BY <1>1, <2>5, <2>6, <2>7, <2>8, <2>9, NextCases
<1>2. IInv /\ [Next]_vars =>
        [pending.settled /\ pending'.id = pending.id =>
           pending'.settled /\ pending'.ok = pending.ok]_vars
  BY <1>1
<1>. QED  BY <1>2, Invariance, PTL DEF Spec, FirstDecisionWins

(* Every step of the detailed queue is a step of ConfirmService or changes *)
(* nothing it knows of.                                                    *)
LEMMA StepService ==
  ASSUME ConfirmAssumption, IInv, IInv', [Next]_vars
  PROVE  [Service!Next]_(Service!serviceVars)
<1>. USE DEF taskVars, panelVars, userVars
<1>0. /\ queue # <<>> => Current = queue[1] /\ 1 \in 1..Len(queue) /\ Current \in Requests
      /\ Current = Head(queue)
  BY HeadTailProperties, LenProperties, EmptySeq DEF IInv, TypeOK, Current
<1>1. ASSUME UNCHANGED <<queue, clicks, ran, outcome>>
      PROVE  UNCHANGED Service!serviceVars
  BY <1>1 DEF Service!serviceVars
<1>2. CASE \/ \E s \in Requests : CloseWindow(s) \/ WindowGone(s)
           \/ \E p \in Ports : ShowInPanel(p) \/ ShowInPanelFails(p)
                              \/ PanelGone(p) \/ PanelReads(p) \/ PanelReady(p)
                              \/ ClosePanel(p) \/ Navigate(p)
           \/ \E d \in decisions : OnRequestFinish(d)
           \/ StoreRow \/ NoPanel \/ WindowAppears \/ WindowOpened
           \/ CloseNotification \/ UNCHANGED vars
  BY <1>1, <1>2 DEF CloseWindow, WindowGone, ShowInPanel, ShowInPanelFails,
                    PanelGone, PanelReads, PanelReady, ClosePanel, Navigate,
                    OnRequestFinish, StoreRow, NoPanel, WindowAppears,
                    WindowOpened, CloseNotification, vars
<1>3. CASE Deny \/ SurfaceFails \/ \E o \in {"approved", "error"} : Approved(o)
  BY <1>1, <1>3 DEF Deny, SurfaceFails, Approved, Finally
<1>4. ASSUME NEW r \in Requests, Request(r)  PROVE Service!Submit(r)
  BY <1>4 DEF Request, Service!Submit
<1>5. ASSUME Approve  PROVE Service!Perform
  <2>1. queue # <<>> /\ pending.id = Head(queue) /\ pending.id = Current
    BY <1>0, <1>5 DEF Approve, IInv, TaskInv
  <2>2. \E d \in clicks : d.req = pending.id /\ d.ok
    BY <1>5 DEF Approve, IInv, ConsentInv
  <2>3. Head(queue) \notin ran
    BY <1>5, <2>1 DEF Approve, IInv, EffectInv
  <2>. QED  BY <1>5, <2>1, <2>2, <2>3 DEF Approve, Service!Perform
<1>6. ASSUME RemoveRow \/ RemoveRowFails \/ StoreRowFails
      PROVE  \E o \in {"approved", "denied", "error"} : Service!Answer(o)
  <2>1. queue # <<>>
    BY <1>6 DEF IInv, TaskInv, RemoveRow, RemoveRowFails, StoreRowFails
  <2>2. PICK o \in {"approved", "denied", "error"} :
          /\ EndTask(o)
          /\ o = "approved" => Current \in ran
          /\ o = "denied" => Current \notin ran
    BY <1>6 DEF IInv, TypeOK, EffectInv, RemoveRow, RemoveRowFails, StoreRowFails
  <2>3. UNCHANGED <<clicks, ran>>
    BY <1>6 DEF RemoveRow, RemoveRowFails, StoreRowFails
  <2>4. Service!Answer(o)
    BY <1>0, <2>1, <2>2, <2>3 DEF EndTask, Service!Answer
  <2>. QED  BY <2>4
<1>7. ASSUME NEW d \in Decision, Click(d)
      PROVE  UNCHANGED Service!serviceVars \/ Service!Consent(d.req)
  <2>1. d.req \in Requests /\ d.ok \in BOOLEAN /\ d.from \in Ports \cup {Note}
    BY DEF Decision
  <2>2. Shown(d.req)
    BY <1>7, <2>1 DEF Click, Shown
  <2>3. MayBeShown(d.req)
    BY <2>1, <2>2 DEF IInv, ShownInv
  <2>4. outcome[d.req] # "new"
    BY <2>3 DEF MayBeShown
  <2>5. outcome[d.req] = "queued" => queue # <<>> /\ d.req = Head(queue)
    <3>1. ASSUME outcome[d.req] = "queued"  PROVE queue # <<>>
      <4>1. PICK i \in 1..Len(queue) : queue[i] = d.req
        BY <2>1, <3>1 DEF IInv, QueueInv
      <4>. QED  BY <4>1, EmptySeq
    <3>. QED  BY <1>0, <2>3, <3>1 DEF MayBeShown
  <2>6. UNCHANGED <<queue, ran, outcome>> /\ clicks' = clicks \cup {d}
    BY <1>7 DEF Click
  <2>7. CASE d.ok
    <3>1. {e.req : e \in {c \in clicks' : c.ok}}
             = {e.req : e \in {c \in clicks : c.ok}} \cup {d.req}
      BY <2>6, <2>7
    <3>. QED  BY <2>4, <2>5, <2>6, <3>1 DEF Service!Consent
  <2>8. CASE ~d.ok
    <3>1. {c \in clicks' : c.ok} = {c \in clicks : c.ok}
      BY <2>6, <2>8
    <3>. QED  BY <2>6, <3>1 DEF Service!serviceVars
  <2>. QED  BY <2>7, <2>8
<1>8. ASSUME Restart  PROVE Service!Lose
  BY <1>8 DEF Restart, Service!Lose
<1>9. \A d \in Decision : d.req \in Requests
  BY DEF Decision
<1>. QED
  BY <1>2, <1>3, <1>4, <1>5, <1>6, <1>7, <1>8, <1>9, NextCases DEF Service!Next

(* The confirmation queue, its panels and its windows implement the        *)
(* confirmation service: one line, first come first served, no effect      *)
(* without consent, no effect of a request answered "denied".              *)
THEOREM QueueImplementsService == Spec => ImplementsService
<1>1. Init => Service!Init
  BY DEF Init, Service!Init
<1>2. IInv /\ IInv' /\ [Next]_vars => [Service!Next]_(Service!serviceVars)
  BY StepService, ConfirmAssumption
<1>. QED  BY <1>1, <1>2, Invariance, PTL DEF Spec, Service!Spec, ImplementsService

-----------------------------------------------------------------------------
(* What is on the surfaces and in the table                                *)

(* The window of the running task, stage by stage: there is none yet, or   *)
(* pending knows of it, or it is closed. Only unanswered requests and      *)
(* those a restart lost have an open window.                               *)
WindowInv ==
  /\ \A r \in Requests : window[r] = "open" => outcome[r] \in {"queued", "lost"}
  /\ stage = "finding" => window[Current] = "none"
  /\ stage \in {"finding", "opening"} => pending.panel = None /\ ~pending.opened
  /\ stage \in {"deciding", "approving"} => pending.opened \/ pending.panel # None
  /\ pending.panel # None => window[Current] = "none"
  /\ stage = "removing" => window[Current] # "open"

(* The table holds the row of the request being confirmed, and rows left   *)
(* behind.                                                                 *)
RowInv ==
  /\ pending.id # None => pending.id \in rows
  /\ \A r \in rows : \/ outcome[r] \in {"lost", "error"}
                     \/ queue # <<>> /\ r = Current /\ stage # "storing"

(* The first of the queue is a request that waits.                         *)
LEMMA CurrentWaits ==
  ASSUME IInv, queue # <<>>
  PROVE  /\ Current \in Requests /\ outcome[Current] = "queued"
         /\ 1 \in 1..Len(queue) /\ Current = queue[1]
<1>1. Current = queue[1] /\ 1 \in 1..Len(queue) /\ Current \in Requests
  BY HeadTailProperties, LenProperties, EmptySeq DEF IInv, TypeOK, Current
<1>. QED  BY <1>1 DEF IInv, QueueInv

(* A request whose task has not stored its row yet is on no surface.       *)
LEMMA NotShownYet ==
  ASSUME IInv, stage = "storing"  PROVE ~Shown(Current) /\ window[Current] = "none"
<1>1. queue # <<>>
  BY DEF IInv, TaskInv
<1>2. Current \in Requests /\ outcome[Current] = "queued"
  BY <1>1, CurrentWaits
<1>. QED  BY <1>2 DEF IInv, ShownInv, MayBeShown, Shown

(* A new request does not take the place of the first.                     *)
LEMMA RequestWaits ==
  ASSUME TypeOK, NEW r \in Requests, Request(r), queue # <<>>
  PROVE  Current' = Current
BY AppendProperties, HeadTailProperties, EmptySeq, LenProperties
   DEF TypeOK, Request, Current

(* When a task ends, the next one, if any, is about to store its row.      *)
LEMMA NextTaskStores ==
  ASSUME NEW o, EndTask(o)
  PROVE  stage' \in {"idle", "storing"} /\ outcome' = [outcome EXCEPT ![Current] = o]
BY DEF EndTask

LEMMA WindowStep ==
  ASSUME ConfirmAssumption, IInv, WindowInv, [Next]_vars
  PROVE  WindowInv'
<1>. USE DEF taskVars, panelVars, userVars
<1>0. TypeOK /\ TaskInv /\ (queue # <<>> => Current \in Requests)
  BY CurrentWaits DEF IInv
<1>1. ASSUME NEW r \in Requests, Request(r)  PROVE WindowInv'
  <2>1. CASE queue = <<>>
    BY <1>0, <1>1, <2>1 DEF Request, WindowInv, TaskInv, TypeOK, NoPending
  <2>2. CASE queue # <<>>
    BY <1>0, <1>1, <2>2, RequestWaits DEF Request, WindowInv, TypeOK
  <2>. QED  BY <2>1, <2>2
<1>2. CASE \E r \in Requests : CloseWindow(r)
  BY <1>0, <1>2 DEF CloseWindow, WindowInv, TypeOK, TaskInv, Current
<1>3. CASE \E r \in Requests : WindowGone(r)
  <2>1. PICK r \in Requests : WindowGone(r)
    BY <1>3
  <2>2. pending'.panel = pending.panel /\ pending'.opened = pending.opened
    BY <1>0, <2>1 DEF WindowGone, Settle, TypeOK, Pending
  <2>. QED  BY <1>0, <2>1, <2>2 DEF WindowGone, WindowInv, TypeOK, TaskInv, Current
<1>4. CASE StoreRow
  <2>1. window[Current] = "none"
    BY <1>4, NotShownYet DEF StoreRow
  <2>. QED  BY <1>4, <2>1 DEF StoreRow, WindowInv, NoPending, Current
<1>5. CASE \/ NoPanel \/ \E p \in Ports : ShowInPanelFails(p)
  BY <1>5 DEF NoPanel, ShowInPanelFails, WindowInv, Current
<1>6. CASE WindowAppears
  <2>1. queue # <<>> /\ Current \in Requests /\ pending.panel = None
    BY <1>0, <1>6 DEF WindowAppears, TaskInv, WindowInv
  <2>2. outcome[Current] = "queued"
    BY <2>1, CurrentWaits
  <2>. QED  BY <1>0, <1>6, <2>1, <2>2 DEF WindowAppears, WindowInv, TypeOK, Current
<1>7. CASE WindowOpened
  BY <1>0, <1>7 DEF WindowOpened, WindowInv, TypeOK, Pending, Current
<1>8. CASE Approve
  BY <1>8 DEF Approve, WindowInv, Current
<1>9. ASSUME NEW o, Finally(o), UNCHANGED window,
             stage \in {"deciding", "approving"} \/ window[Current] = "none"
      PROVE  WindowInv'
  BY <1>9 DEF Finally, WindowInv, NoPending, Current
<1>10. CASE Deny \/ SurfaceFails \/ \E o \in {"approved", "error"} : Approved(o)
  BY <1>9, <1>10 DEF Deny, SurfaceFails, Approved
<1>11. CASE CloseNotification
  <2>1. queue # <<>> /\ Current \in Requests
    BY <1>0, <1>11 DEF CloseNotification, TaskInv
  <2>. QED
    BY <1>0, <1>11, <2>1 DEF CloseNotification, WindowInv, TypeOK, TaskInv,
                             NoPending, Current
<1>12. CASE RemoveRow \/ RemoveRowFails \/ StoreRowFails
  <2>1. queue # <<>> /\ Current \in Requests /\ window[Current] # "open"
    BY <1>0, <1>12, NotShownYet
       DEF RemoveRow, RemoveRowFails, StoreRowFails, TaskInv, WindowInv
  <2>2. PICK o : EndTask(o)
    BY <1>12 DEF RemoveRow, RemoveRowFails, StoreRowFails
  <2>3. pending' = pending /\ window' = window /\ pending = NoPending
    BY <1>0, <1>12 DEF RemoveRow, RemoveRowFails, StoreRowFails, TaskInv
  <2>. QED
    BY <1>0, <2>1, <2>2, <2>3, NextTaskStores DEF WindowInv, TypeOK, NoPending
<1>13. CASE \E p \in Ports : ShowInPanel(p)
  BY <1>0, <1>13 DEF ShowInPanel, WindowInv, TypeOK, Pending, ConfirmAssumption, Current
<1>14. ASSUME UNCHANGED <<queue, stage, window, outcome>>,
              pending'.panel = pending.panel, pending'.opened = pending.opened
       PROVE  WindowInv'
  BY <1>14 DEF WindowInv, Current
<1>15. ASSUME NEW ok, Settle(ok)
       PROVE  pending'.panel = pending.panel /\ pending'.opened = pending.opened
  BY <1>0, <1>15 DEF Settle, TypeOK, Pending
<1>16. CASE \/ \E p \in Ports : PanelGone(p)
            \/ \E d \in decisions : OnRequestFinish(d)
  BY <1>14, <1>15, <1>16 DEF PanelGone, OnRequestFinish
<1>17. CASE \/ \E p \in Ports : PanelReads(p) \/ PanelReady(p) \/ ClosePanel(p)
                               \/ Navigate(p)
            \/ \E d \in Decision : Click(d)
            \/ UNCHANGED vars
  BY <1>14, <1>17 DEF PanelReads, PanelReady, ClosePanel, Navigate, Click, vars
<1>18. CASE Restart
  <2>1. ASSUME NEW r \in Requests, window'[r] = "open"
        PROVE  outcome'[r] \in {"queued", "lost"}
    BY <1>0, <1>18, <2>1 DEF Restart, WindowInv
  <2>. QED  BY <1>18, <2>1 DEF Restart, WindowInv, NoPending
<1>. QED
  BY <1>1, <1>2, <1>3, <1>4, <1>5, <1>6, <1>7, <1>8, <1>10, <1>11, <1>12,
     <1>13, <1>16, <1>17, <1>18, NextCases

LEMMA RowStep ==
  ASSUME ConfirmAssumption, IInv, RowInv, [Next]_vars
  PROVE  RowInv'
<1>. USE DEF taskVars, panelVars, userVars
<1>0. TypeOK /\ TaskInv /\ (queue # <<>> => Current \in Requests)
  BY CurrentWaits DEF IInv
<1>1. ASSUME NEW r \in Requests, Request(r)  PROVE RowInv'
  <2>1. r \notin rows
    BY <1>1, CurrentWaits DEF RowInv, Request
  <2>2. CASE queue = <<>>
    BY <1>0, <1>1, <2>1, <2>2 DEF Request, RowInv, TypeOK
  <2>3. CASE queue # <<>>
    <3>1. queue' # <<>>
      BY <1>0, <1>1, AppendProperties DEF Request, TypeOK
    <3>. QED  BY <1>0, <1>1, <2>1, <2>3, <3>1, RequestWaits DEF Request, RowInv, TypeOK
  <2>. QED  BY <2>2, <2>3
<1>2. CASE StoreRow
  BY <1>0, <1>2 DEF StoreRow, RowInv, TaskInv, NoPending, Current
<1>3. CASE RemoveRow \/ RemoveRowFails \/ StoreRowFails
  <2>1. queue # <<>> /\ Current \in Requests /\ pending'.id = None
    BY <1>0, <1>3 DEF RemoveRow, RemoveRowFails, StoreRowFails, TaskInv
  <2>2. PICK o : /\ EndTask(o)
                 /\ \/ rows' = rows \ {Current}
                    \/ rows' = rows /\ o = "error"
    BY <1>3 DEF RemoveRow, RemoveRowFails, StoreRowFails
  <2>. QED  BY <1>0, <2>1, <2>2, NextTaskStores DEF RowInv, TypeOK
<1>4. CASE Restart
  <2>1. ASSUME NEW r \in rows  PROVE outcome'[r] \in {"lost", "error"}
    <3>1. r \in Requests
      BY <1>0 DEF TypeOK
    <3>. QED  BY <1>0, <1>4, <3>1, CurrentWaits DEF RowInv, Restart
  <2>. QED  BY <1>4, <2>1 DEF RowInv, Restart, NoPending
<1>5. ASSUME UNCHANGED <<queue, rows, outcome>>,
             pending'.id \in {pending.id, None},
             stage' = stage \/ (stage # "storing" /\ stage' # "storing")
      PROVE  RowInv'
  BY <1>5 DEF RowInv, Current
<1>6. CASE Deny \/ SurfaceFails \/ \E o \in {"approved", "error"} : Approved(o)
  BY <1>5, <1>6 DEF Deny, SurfaceFails, Approved, Finally, NoPending
<1>7. CASE \/ NoPanel \/ WindowAppears \/ WindowOpened \/ Approve
           \/ CloseNotification
           \/ \E p \in Ports : ShowInPanel(p) \/ ShowInPanelFails(p)
  BY <1>0, <1>5, <1>7
     DEF NoPanel, WindowAppears, WindowOpened, Approve, CloseNotification,
         ShowInPanel, ShowInPanelFails, TypeOK, Pending
<1>8. ASSUME NEW ok, Settle(ok)  PROVE pending'.id = pending.id
  BY <1>0, <1>8 DEF Settle, TypeOK, Pending
<1>9. CASE \/ \E r \in Requests : CloseWindow(r) \/ WindowGone(r)
           \/ \E p \in Ports : PanelGone(p) \/ PanelReads(p) \/ PanelReady(p)
                              \/ ClosePanel(p) \/ Navigate(p)
           \/ \E d \in Decision : Click(d)
           \/ \E d \in decisions : OnRequestFinish(d)
           \/ UNCHANGED vars
  BY <1>5, <1>8, <1>9
     DEF CloseWindow, WindowGone, PanelGone, PanelReads, PanelReady,
         ClosePanel, Navigate, Click, OnRequestFinish, vars
<1>. QED
  BY <1>1, <1>2, <1>3, <1>4, <1>6, <1>7, <1>9, NextCases

(* The two invariants of windows and rows hold throughout.                 *)
LEMMA SurfacesKept == Spec => [](IInv /\ WindowInv /\ RowInv)
<1>1. Init => WindowInv /\ RowInv
  BY DEF Init, WindowInv, RowInv, NoPending
<1>2. IInv /\ WindowInv /\ RowInv /\ [Next]_vars => WindowInv' /\ RowInv'
  BY WindowStep, RowStep, ConfirmAssumption
<1>. QED  BY <1>1, <1>2, Invariance, PTL DEF Spec

(* No notification window outlives its request but one a restart lost, and *)
(* the table holds the pending request.                                    *)
THEOREM SurfacesAreClosed == Spec => []NothingLeftBehind
<1>1. ASSUME IInv, WindowInv, RowInv  PROVE NothingLeftBehind
  <2>1. ASSUME NEW r \in Requests, window[r] = "open", outcome[r] # "lost"
        PROVE  /\ queue # <<>> /\ r = Current
               /\ stage \in {"opening", "deciding", "approving", "closing"}
    <3>1. outcome[r] = "queued"
      BY <1>1, <2>1 DEF WindowInv
    <3>2. PICK i \in 1..Len(queue) : queue[i] = r
      BY <1>1, <3>1 DEF IInv, QueueInv
    <3>3. queue # <<>>
      BY <3>2, EmptySeq
    <3>4. r = Current /\ stage # "storing"
      BY <1>1, <2>1, <3>1 DEF IInv, ShownInv, MayBeShown, Shown
    <3>5. stage \in Stages /\ stage # "idle"
      BY <1>1, <3>3 DEF IInv, TypeOK, TaskInv
    <3>. QED  BY <1>1, <2>1, <3>3, <3>4, <3>5 DEF WindowInv, Stages
  <2>. QED  BY <1>1, <2>1 DEF NothingLeftBehind, RowInv
<1>. QED  BY <1>1, SurfacesKept, PTL

-----------------------------------------------------------------------------
(* What the panels are told                                                *)

Open(r) == [type |-> "confirm-open", req |-> r]
Done(r) == [type |-> "confirm-done", req |-> r]

(* The message that opens r is on its way to panel p.                      *)
OpenSent(p, r) == \E i \in 1..Len(inbox[p]) : inbox[p][i] = Open(r)

(* Only the chosen panel learns of the pending request. A panel that is    *)
(* told to open another one is told afterwards that it is done.            *)
PanelInv ==
  /\ \A p \in Ports : p \in panels \/ p = pending.panel => port[p] # "new"
  /\ \A p \in Ports : port[p] # "open" => inbox[p] = <<>> /\ screen[p] = None
  /\ \A p \in Ports :
       pending.id # None /\ (screen[p] = pending.id \/ OpenSent(p, pending.id))
         => pending.panel = p
  /\ \A p \in Ports : \A i \in 1..Len(inbox[p]) : \A r \in Requests :
       inbox[p][i] = Open(r) /\ r # pending.id =>
         \E j \in 1..Len(inbox[p]) : i < j /\ inbox[p][j] = Done(r)

PanelsInv == PanelInv /\ PanelsShowPending

(* Messages of different kinds, or about different requests, differ.       *)
LEMMA MessagesDiffer ==
  /\ \A r, s : Open(r) # Done(s) /\ (Open(r) = Open(s) => r = s)
               /\ (Done(r) = Done(s) => r = s)
  /\ \A r : Open(r) # [type |-> "navigate"] /\ Done(r) # [type |-> "navigate"]
  /\ \A r \in Requests : Open(r) \in Message /\ Done(r) \in Message
  /\ [type |-> "navigate"] \in Message
BY DEF Open, Done, Message

(* What a post does to the channels: the message is the last of an open    *)
(* port, and nothing else changes.                                         *)
LEMMA PostGives ==
  ASSUME TypeOK, NEW p \in Ports, NEW m \in Message, Post(p, m), NEW q \in Ports
  PROVE  \/ inbox'[q] = inbox[q] /\ (q = p => port[p] # "open")
         \/ /\ q = p /\ port[p] = "open" /\ inbox'[q] # <<>>
            /\ Len(inbox[q]) \in Nat /\ Len(inbox'[q]) = Len(inbox[q]) + 1
            /\ inbox'[q][Len(inbox'[q])] = m
            /\ \A i \in 1..Len(inbox[q]) : inbox'[q][i] = inbox[q][i]
BY AppendProperties, LenProperties DEF TypeOK, Post

(* What a read does: the first message goes, and the others move up.       *)
LEMMA ReadGives ==
  ASSUME TypeOK, NEW p \in Ports, PanelReads(p)
  PROVE  /\ port[p] = "open" /\ Len(inbox[p]) \in Nat \ {0}
         /\ inbox[p] # <<>> /\ Head(inbox[p]) = inbox[p][1]
         /\ Head(inbox[p]) \in Message
         /\ Len(inbox'[p]) = Len(inbox[p]) - 1
         /\ \A i \in 1..Len(inbox'[p]) : inbox'[p][i] = inbox[p][i + 1]
         /\ inbox'[p] = <<>> <=> Len(inbox[p]) = 1
         /\ \A q \in Ports : q # p => inbox'[q] = inbox[q] /\ screen'[q] = screen[q]
<1>1. inbox[p] \in Seq(Message) /\ inbox[p] # <<>> /\ inbox'[p] = Tail(inbox[p])
  BY DEF TypeOK, PanelReads
<1>2. /\ inbox'[p] \in Seq(Message) /\ Len(inbox[p]) \in Nat \ {0}
      /\ Head(inbox[p]) = inbox[p][1] /\ Head(inbox[p]) \in Message
      /\ Len(inbox'[p]) = Len(inbox[p]) - 1
      /\ \A i \in 1..Len(inbox'[p]) : inbox'[p][i] = inbox[p][i + 1]
  BY <1>1, HeadTailProperties, EmptySeq
<1>3. inbox'[p] = <<>> <=> Len(inbox'[p]) = 0
  BY <1>2, EmptySeq
<1>4. \A q \in Ports : q # p => inbox'[q] = inbox[q] /\ screen'[q] = screen[q]
  BY DEF TypeOK, PanelReads
<1>. QED  BY <1>1, <1>2, <1>3, <1>4 DEF PanelReads

(* What the panel shows after a read.                                      *)
LEMMA ReadShows ==
  ASSUME TypeOK, NEW p \in Ports, PanelReads(p)
  PROVE  \/ \E r \in Requests : Head(inbox[p]) = Open(r) /\ screen'[p] = r
         \/ \E r \in Requests :
              /\ Head(inbox[p]) = Done(r)
              /\ screen'[p] = IF screen[p] = r THEN None ELSE screen[p]
         \/ Head(inbox[p]) = [type |-> "navigate"] /\ screen'[p] = screen[p]
<1>1. Head(inbox[p]) \in Message
  BY ReadGives
<1>2. CASE Head(inbox[p]) = [type |-> "navigate"]
  BY <1>2 DEF PanelReads, TypeOK
<1>3. CASE \E r \in Requests : Head(inbox[p]) = Open(r)
  BY <1>3 DEF PanelReads, TypeOK, Open
<1>4. CASE \E r \in Requests : Head(inbox[p]) = Done(r)
  BY <1>4 DEF PanelReads, TypeOK, Done
<1>. QED  BY <1>1, <1>2, <1>3, <1>4 DEF Message, Open, Done

(* Reading keeps the account of what a panel was told.                     *)
LEMMA ReadStep ==
  ASSUME ConfirmAssumption, TypeOK, PanelsInv, NEW p \in Ports, PanelReads(p)
  PROVE  PanelsInv'
<1>. USE DEF PanelsInv, PanelInv
<1>. DEFINE box == inbox[p]
            box2 == inbox'[p]
<1>0. UNCHANGED <<panels, port, pending>>
  BY DEF PanelReads
<1>1. /\ port[p] = "open" /\ Len(box) \in Nat \ {0} /\ box # <<>>
      /\ Head(box) = box[1] /\ Len(box2) = Len(box) - 1
      /\ \A i \in 1..Len(box2) : box2[i] = box[i + 1]
      /\ box2 = <<>> <=> Len(box) = 1
      /\ \A q \in Ports : q # p => inbox'[q] = inbox[q] /\ screen'[q] = screen[q]
  BY ReadGives
<1>2. 1 \in 1..Len(box) /\ \A i \in 1..Len(box2) : i + 1 \in 1..Len(box)
  BY <1>1
<1>3. pending.id # None /\ (screen'[p] = pending.id \/ OpenSent(p, pending.id)')
        => pending.panel = p
  <2>1. OpenSent(p, pending.id)' => OpenSent(p, pending.id)
    BY <1>0, <1>1, <1>2 DEF OpenSent
  <2>2. pending.id # None /\ screen'[p] = pending.id
          => screen[p] = pending.id \/ OpenSent(p, pending.id)
    BY <1>1, <1>2, ReadShows DEF OpenSent
  <2>. QED  BY <2>1, <2>2
<1>4. ASSUME NEW i \in 1..Len(box2), NEW r \in Requests,
             box2[i] = Open(r), r # pending.id
      PROVE  \E j \in 1..Len(box2) : i < j /\ box2[j] = Done(r)
  <2>1. box[i + 1] = Open(r) /\ i + 1 \in 1..Len(box)
    BY <1>1, <1>2, <1>4
  <2>2. PICK j \in 1..Len(box) : i + 1 < j /\ box[j] = Done(r)
    BY <1>4, <2>1
  <2>3. j - 1 \in 1..Len(box2) /\ i < j - 1 /\ box2[j - 1] = box[j]
    BY <1>1, <2>2
  <2>. QED  BY <2>2, <2>3
<1>5. pending.panel = p =>
        IF box2 = <<>> THEN screen'[p] = pending.id
        ELSE box2[Len(box2)] = Open(pending.id)
  <2>1. ASSUME pending.panel = p  PROVE box[Len(box)] = Open(pending.id)
    BY <1>1, <2>1 DEF PanelsShowPending, Open
  <2>2. ASSUME pending.panel = p, box2 = <<>>  PROVE screen'[p] = pending.id
    <3>1. Head(box) = Open(pending.id)
      BY <1>1, <2>1, <2>2
    <3>. QED  BY <3>1, ReadShows, MessagesDiffer
  <2>3. ASSUME box2 # <<>>  PROVE box2[Len(box2)] = box[Len(box)]
    <3>1. Len(box2) \in 1..Len(box2) /\ Len(box2) + 1 = Len(box)
      BY <1>1, <2>3
    <3>. QED  BY <1>1, <3>1
  <2>. QED  BY <2>1, <2>2, <2>3
<1>6. ASSUME screen'[p] \notin {None, pending.id}
      PROVE  \E i \in 1..Len(box2) : box2[i] = Done(screen'[p])
  <2>1. ASSUME NEW j \in 1..Len(box), j # 1, box[j] = Done(screen'[p])
        PROVE  \E i \in 1..Len(box2) : box2[i] = Done(screen'[p])
    <3>1. j - 1 \in 1..Len(box2) /\ box2[j - 1] = box[j]
      BY <1>1, <2>1
    <3>. QED  BY <2>1, <3>1
  <2>2. CASE screen'[p] = screen[p]
    <3>1. PICK j \in 1..Len(box) : box[j] = Done(screen[p])
      BY <1>1, <1>6, <2>2 DEF PanelsShowPending, Done
    <3>2. CASE j = 1
      <4>1. Head(box) = Done(screen[p])
        BY <1>1, <3>1, <3>2
      <4>2. screen'[p] = None \/ \E r \in Requests : Head(box) = Open(r)
        BY <2>2, <4>1, ReadShows, MessagesDiffer
      <4>. QED  BY <1>6, <4>1, <4>2, MessagesDiffer
    <3>. QED  BY <2>1, <2>2, <3>1, <3>2
  <2>3. CASE screen'[p] # screen[p]
    <3>1. PICK r \in Requests : Head(box) = Open(r) /\ screen'[p] = r
      BY <1>6, <2>3, ReadShows
    <3>2. box[1] = Open(r) /\ r # pending.id
      BY <1>1, <1>6, <3>1
    <3>3. PICK j \in 1..Len(box) : 1 < j /\ box[j] = Done(r)
      BY <1>2, <3>2
    <3>. QED  BY <2>1, <3>1, <3>3
  <2>. QED  BY <2>2, <2>3
<1>7. PanelInv'
  <2>1. \A q \in Ports : /\ q \in panels' \/ q = pending'.panel => port'[q] # "new"
                         /\ port'[q] # "open" => inbox'[q] = <<>> /\ screen'[q] = None
    BY <1>0, <1>1
  <2>2. ASSUME NEW q \in Ports, pending.id # None,
               screen'[q] = pending.id \/ OpenSent(q, pending.id)'
        PROVE  pending.panel = q
    <3>1. CASE q = p
      BY <1>3, <2>2, <3>1
    <3>2. CASE q # p
      <4>1. screen[q] = pending.id \/ OpenSent(q, pending.id)
        BY <1>0, <1>1, <2>2, <3>2 DEF OpenSent
      <4>. QED  BY <2>2, <4>1
    <3>. QED  BY <3>1, <3>2
  <2>3. ASSUME NEW q \in Ports, NEW i \in 1..Len(inbox'[q]), NEW r \in Requests,
               inbox'[q][i] = Open(r), r # pending.id
        PROVE  \E j \in 1..Len(inbox'[q]) : i < j /\ inbox'[q][j] = Done(r)
    <3>1. CASE q = p
      BY <1>4, <2>3, <3>1
    <3>2. CASE q # p
      BY <1>1, <2>3, <3>2
    <3>. QED  BY <3>1, <3>2
  <2>. QED  BY <1>0, <2>1, <2>2, <2>3
<1>8. PanelsShowPending'
  <2>1. ASSUME NEW q \in Ports, q # p
        PROVE  inbox'[q] = inbox[q] /\ screen'[q] = screen[q]
    BY <1>1, <2>1
  <2>2. ASSUME NEW q \in Ports, port[q] = "open", pending.panel = q
        PROVE  /\ inbox'[q] = <<>> => screen'[q] = pending.id
               /\ inbox'[q] # <<>> => inbox'[q][Len(inbox'[q])] = Open(pending.id)
    <3>1. CASE q = p
      BY <1>5, <2>2, <3>1
    <3>2. CASE q # p
      <4>1. /\ inbox[q] = <<>> => screen[q] = pending.id
            /\ inbox[q] # <<>> => inbox[q][Len(inbox[q])] = Open(pending.id)
        BY <2>2 DEF PanelsShowPending, Open
      <4>. QED  BY <2>1, <3>2, <4>1
    <3>. QED  BY <3>1, <3>2
  <2>3. ASSUME NEW q \in Ports, port[q] = "open",
               screen'[q] \notin {None, pending.id}
        PROVE  \E i \in 1..Len(inbox'[q]) : inbox'[q][i] = Done(screen'[q])
    <3>1. CASE q = p
      BY <1>6, <2>3, <3>1
    <3>2. CASE q # p
      BY <2>1, <2>3, <3>2 DEF PanelsShowPending, Done
    <3>. QED  BY <3>1, <3>2
  <2>. QED
    BY <1>0, <2>2, <2>3, Zenon DEF PanelsShowPending, Open, Done
<1>. QED  BY <1>7, <1>8

(* So do the steps that post nothing and leave the pending request alone.  *)
LEMMA QuietStep ==
  ASSUME TypeOK, PanelsInv, UNCHANGED <<inbox, screen>>,
         pending'.id = pending.id, pending'.panel = pending.panel,
         \A p \in Ports : /\ port'[p] = "open" <=> port[p] = "open"
                          /\ port'[p] = "new" => port[p] = "new"
                          /\ p \in panels' => p \in panels \/ port'[p] # "new"
  PROVE  PanelsInv'
<1>1. PanelInv'
  BY DEF PanelsInv, PanelInv, OpenSent
<1>2. PanelsShowPending'
  BY DEF PanelsInv, PanelsShowPending
<1>. QED  BY <1>1, <1>2 DEF PanelsInv

(* The end of a request: its panel, if any, is told.                       *)
LEMMA FinallyStep ==
  ASSUME ConfirmAssumption, TypeOK, PanelsInv, NEW o, Finally(o),
         pending.id \in Requests
  PROVE  PanelsInv'
<1>. USE DEF PanelsInv, PanelInv
<1>0. pending' = NoPending /\ NoPending.id = None /\ NoPending.panel = None
      /\ UNCHANGED <<panels, port, screen>> /\ None \notin Requests /\ None \notin Ports
  BY DEF Finally, NoPending, ConfirmAssumption
<1>1. CASE pending.panel = None
  <2>1. inbox' = inbox
    BY <1>1 DEF Finally
  <2>2. \A p \in Ports : screen[p] # pending.id /\ ~OpenSent(p, pending.id)
    BY <1>0, <1>1
  <2>3. PanelInv'
    BY <1>0, <2>1, <2>2 DEF OpenSent
  <2>4. PanelsShowPending'
    BY <1>0, <2>1, <2>2 DEF PanelsShowPending
  <2>. QED  BY <2>3, <2>4
<1>2. CASE pending.panel # None
  <2>. DEFINE q == pending.panel
  <2>1. q \in Ports /\ Post(q, Done(pending.id)) /\ Done(pending.id) \in Message
    BY <1>2, MessagesDiffer DEF Finally, Done, TypeOK, Pending
  <2>2. ASSUME NEW p \in Ports
        PROVE  \/ inbox'[p] = inbox[p] /\ (p = q => port[p] # "open")
               \/ /\ p = q /\ port[p] = "open" /\ inbox'[p] # <<>>
                  /\ Len(inbox[p]) \in Nat /\ Len(inbox'[p]) = Len(inbox[p]) + 1
                  /\ inbox'[p][Len(inbox'[p])] = Done(pending.id)
                  /\ \A i \in 1..Len(inbox[p]) : inbox'[p][i] = inbox[p][i]
    BY <2>1, PostGives
  <2>3. ASSUME NEW p \in Ports, NEW i \in 1..Len(inbox'[p]), NEW r \in Requests,
               inbox'[p][i] = Open(r)
        PROVE  \E j \in 1..Len(inbox'[p]) : i < j /\ inbox'[p][j] = Done(r)
    <3>1. CASE inbox'[p] = inbox[p] /\ (p = q => port[p] # "open")
      <4>1. inbox[p] # <<>>
        BY <2>3, <3>1, EmptySeq
      <4>2. p # q
        BY <3>1, <4>1
      <4>3. OpenSent(p, r)
        BY <2>3, <3>1 DEF OpenSent
      <4>4. r # pending.id
        BY <1>0, <4>2, <4>3
      <4>. QED  BY <2>3, <3>1, <4>4
    <3>2. CASE ~(inbox'[p] = inbox[p] /\ (p = q => port[p] # "open"))
      <4>1. i \in 1..Len(inbox[p])
        BY <2>2, <2>3, <3>2, MessagesDiffer
      <4>2. CASE r = pending.id
        <5>1. Len(inbox'[p]) \in 1..Len(inbox'[p]) /\ i < Len(inbox'[p])
          BY <2>2, <3>2, <4>1
        <5>. QED  BY <2>2, <3>2, <4>2, <5>1
      <4>3. CASE r # pending.id
        <5>1. PICK j \in 1..Len(inbox[p]) : i < j /\ inbox[p][j] = Done(r)
          BY <2>2, <2>3, <3>2, <4>1, <4>3
        <5>2. j \in 1..Len(inbox'[p]) /\ inbox'[p][j] = inbox[p][j]
          BY <2>2, <3>2
        <5>. QED  BY <5>1, <5>2
      <4>. QED  BY <4>2, <4>3
    <3>. QED  BY <3>1, <3>2
  <2>4. ASSUME NEW p \in Ports, port[p] = "open", screen[p] # None
        PROVE  \E i \in 1..Len(inbox'[p]) : inbox'[p][i] = Done(screen[p])
    <3>1. CASE screen[p] = pending.id
      <4>1. p = q
        BY <1>0, <2>4, <3>1
      <4>2. Len(inbox'[p]) \in 1..Len(inbox'[p])
        BY <2>2, <2>4, <4>1
      <4>. QED  BY <2>2, <2>4, <3>1, <4>1, <4>2
    <3>2. CASE screen[p] # pending.id
      <4>1. PICK i \in 1..Len(inbox[p]) : inbox[p][i] = Done(screen[p])
        BY <2>4, <3>2 DEF PanelsShowPending, Done
      <4>2. i \in 1..Len(inbox'[p]) /\ inbox'[p][i] = inbox[p][i]
        BY <2>2, <4>1
      <4>. QED  BY <4>1, <4>2
    <3>. QED  BY <3>1, <3>2
  <2>5. ASSUME NEW p \in Ports, port[p] # "open"  PROVE inbox'[p] = <<>>
    BY <2>2, <2>5
  <2>6. PanelInv'
    BY <1>0, <2>3, <2>5
  <2>7. PanelsShowPending'
    BY <1>0, <2>4 DEF PanelsShowPending, Done
  <2>. QED  BY <2>6, <2>7
<1>. QED  BY <1>1, <1>2

(* Showing the pending request in panel p.                                 *)
LEMMA ShowStep ==
  ASSUME ConfirmAssumption, TypeOK, PanelsInv, NEW p \in Ports, ShowInPanel(p),
         pending.id \in Requests, pending.panel = None
  PROVE  PanelsInv'
<1>. USE DEF PanelsInv, PanelInv
<1>0. /\ pending'.id = pending.id /\ pending'.panel = p /\ p \in panels
      /\ UNCHANGED <<panels, port, screen>> /\ None \notin Requests /\ None \notin Ports
  BY DEF ShowInPanel, ConfirmAssumption, TypeOK, Pending
<1>1. Post(p, Open(pending.id)) /\ Open(pending.id) \in Message
  BY MessagesDiffer DEF ShowInPanel, Open
<1>2. ASSUME NEW q \in Ports
      PROVE  \/ inbox'[q] = inbox[q] /\ (q = p => port[q] # "open")
             \/ /\ q = p /\ port[q] = "open" /\ inbox'[q] # <<>>
                /\ Len(inbox[q]) \in Nat /\ Len(inbox'[q]) = Len(inbox[q]) + 1
                /\ inbox'[q][Len(inbox'[q])] = Open(pending.id)
                /\ \A i \in 1..Len(inbox[q]) : inbox'[q][i] = inbox[q][i]
  BY <1>1, PostGives
<1>3. \A q \in Ports : screen[q] # pending.id /\ ~OpenSent(q, pending.id)
  BY <1>0
<1>4. ASSUME NEW q \in Ports, OpenSent(q, pending.id)'  PROVE q = p
  <2>1. inbox'[q] # inbox[q]
    BY <1>0, <1>3, <1>4 DEF OpenSent
  <2>. QED  BY <1>2, <2>1
<1>5. ASSUME NEW q \in Ports, NEW i \in 1..Len(inbox'[q]), NEW r \in Requests,
             inbox'[q][i] = Open(r), r # pending.id
      PROVE  \E j \in 1..Len(inbox'[q]) : i < j /\ inbox'[q][j] = Done(r)
  <2>1. CASE inbox'[q] = inbox[q]
    BY <1>5, <2>1
  <2>2. CASE inbox'[q] # inbox[q]
    <3>1. i \in 1..Len(inbox[q]) /\ inbox[q][i] = Open(r)
      BY <1>2, <1>5, <2>2, MessagesDiffer
    <3>2. PICK j \in 1..Len(inbox[q]) : i < j /\ inbox[q][j] = Done(r)
      BY <1>5, <3>1
    <3>3. j \in 1..Len(inbox'[q]) /\ inbox'[q][j] = inbox[q][j]
      BY <1>2, <2>2
    <3>. QED  BY <3>2, <3>3
  <2>. QED  BY <2>1, <2>2
<1>6. ASSUME NEW q \in Ports, port[q] = "open", screen[q] \notin {None, pending.id}
      PROVE  \E i \in 1..Len(inbox'[q]) : inbox'[q][i] = Done(screen[q])
  <2>1. PICK i \in 1..Len(inbox[q]) : inbox[q][i] = Done(screen[q])
    BY <1>6 DEF PanelsShowPending, Done
  <2>2. i \in 1..Len(inbox'[q]) /\ inbox'[q][i] = inbox[q][i]
    BY <1>2, <2>1
  <2>. QED  BY <2>1, <2>2
<1>7. ASSUME NEW q \in Ports, port[q] # "open"  PROVE inbox'[q] = <<>>
  BY <1>2, <1>7
<1>8. PanelInv'
  BY <1>0, <1>3, <1>4, <1>5, <1>7
<1>9. PanelsShowPending'
  BY <1>0, <1>2, <1>6 DEF PanelsShowPending, Open, Done
<1>. QED  BY <1>8, <1>9

(* Posting "navigate" while nothing is confirmed tells no panel of a       *)
(* request.                                                                *)
LEMMA NavigateStep ==
  ASSUME ConfirmAssumption, TypeOK, PanelsInv, NEW p \in Ports,
         Post(p, [type |-> "navigate"]), pending.id = None, pending.panel = None,
         UNCHANGED <<panels, port, screen, pending>>
  PROVE  PanelsInv'
<1>. USE DEF PanelsInv, PanelInv
<1>0. None \notin Requests /\ None \notin Ports
  BY DEF ConfirmAssumption
<1>1. ASSUME NEW q \in Ports
      PROVE  \/ inbox'[q] = inbox[q]
             \/ /\ q = p /\ port[q] = "open"
                /\ Len(inbox[q]) \in Nat /\ Len(inbox'[q]) = Len(inbox[q]) + 1
                /\ inbox'[q][Len(inbox'[q])] = [type |-> "navigate"]
                /\ \A i \in 1..Len(inbox[q]) : inbox'[q][i] = inbox[q][i]
  BY MessagesDiffer, PostGives
<1>2. ASSUME NEW q \in Ports, NEW i \in 1..Len(inbox'[q]), NEW r \in Requests,
             inbox'[q][i] = Open(r)
      PROVE  \E j \in 1..Len(inbox'[q]) : i < j /\ inbox'[q][j] = Done(r)
  <2>1. i \in 1..Len(inbox[q]) /\ inbox[q][i] = Open(r)
    BY <1>1, <1>2, MessagesDiffer
  <2>2. PICK j \in 1..Len(inbox[q]) : i < j /\ inbox[q][j] = Done(r)
    BY <1>0, <2>1
  <2>3. j \in 1..Len(inbox'[q]) /\ inbox'[q][j] = inbox[q][j]
    BY <1>1
  <2>. QED  BY <2>2, <2>3
<1>3. ASSUME NEW q \in Ports, port[q] = "open", screen[q] # None
      PROVE  \E i \in 1..Len(inbox'[q]) : inbox'[q][i] = Done(screen[q])
  <2>1. PICK i \in 1..Len(inbox[q]) : inbox[q][i] = Done(screen[q])
    BY <1>3 DEF PanelsShowPending, Done
  <2>2. i \in 1..Len(inbox'[q]) /\ inbox'[q][i] = inbox[q][i]
    BY <1>1
  <2>. QED  BY <2>1, <2>2
<1>4. PanelInv'
  BY <1>0, <1>1, <1>2
<1>5. PanelsShowPending'
  BY <1>0, <1>3 DEF PanelsShowPending, Done
<1>. QED  BY <1>4, <1>5

LEMMA PanelStep ==
  ASSUME ConfirmAssumption, IInv, WindowInv, PanelsInv, [Next]_vars
  PROVE  PanelsInv'
<1>. USE DEF taskVars, panelVars, userVars
<1>0. TypeOK /\ TaskInv /\ (queue # <<>> => Current \in Requests)
      /\ None \notin Requests /\ None \notin Ports
  BY CurrentWaits DEF IInv, ConfirmAssumption
<1>1. ASSUME NEW ok, Settle(ok)
      PROVE  pending'.panel = pending.panel /\ pending'.id = pending.id
  BY <1>0, <1>1 DEF Settle, TypeOK, Pending
<1>2. ASSUME UNCHANGED <<panelVars, pending>>  PROVE PanelsInv'
  BY <1>0, <1>2, QuietStep
<1>3. CASE \/ \E r \in Requests : Request(r) \/ CloseWindow(r)
           \/ NoPanel \/ WindowAppears \/ Approve \/ CloseNotification
           \/ RemoveRow \/ StoreRowFails \/ RemoveRowFails
           \/ \E d \in Decision : Click(d)
           \/ UNCHANGED vars
  BY <1>2, <1>3
     DEF Request, CloseWindow, NoPanel, WindowAppears, Approve,
         CloseNotification, RemoveRow, StoreRowFails, RemoveRowFails, Click, vars
<1>4. ASSUME UNCHANGED panelVars,
             pending'.id = pending.id, pending'.panel = pending.panel
      PROVE  PanelsInv'
  BY <1>0, <1>4, QuietStep
<1>5. CASE WindowOpened
  BY <1>0, <1>4, <1>5 DEF WindowOpened, TypeOK, Pending
<1>6. CASE \/ \E r \in Requests : WindowGone(r)
           \/ \E d \in decisions : OnRequestFinish(d)
  BY <1>1, <1>4, <1>6 DEF WindowGone, OnRequestFinish
<1>7. CASE StoreRow
  <2>1. pending.id = None /\ pending.panel = None /\ Current \in Requests
        /\ pending'.id = Current /\ pending'.panel = None
        /\ UNCHANGED panelVars
    BY <1>0, <1>7 DEF StoreRow, TaskInv, NoPending
  <2>2. \A p \in Ports : screen[p] # Current /\ ~OpenSent(p, Current)
    BY <1>7, NotShownYet DEF StoreRow, Shown, OpenSent, Open
  <2>3. PanelInv'
    BY <1>0, <2>1, <2>2 DEF PanelsInv, PanelInv, OpenSent
  <2>4. PanelsShowPending'
    BY <1>0, <2>1, <2>2 DEF PanelsInv, PanelsShowPending
  <2>. QED  BY <2>3, <2>4 DEF PanelsInv
<1>8. CASE Deny \/ SurfaceFails \/ \E o \in {"approved", "error"} : Approved(o)
  <2>1. pending.id \in Requests
    BY <1>0, <1>8 DEF Deny, SurfaceFails, Approved, TaskInv, TypeOK, Pending
  <2>. QED  BY <1>0, <1>8, <2>1, FinallyStep DEF Deny, SurfaceFails, Approved
<1>9. CASE \E p \in Ports : ShowInPanel(p)
  <2>1. pending.id \in Requests /\ pending.panel = None
    BY <1>0, <1>9 DEF ShowInPanel, TaskInv, TypeOK, Pending, WindowInv
  <2>. QED  BY <1>0, <1>9, <2>1, ShowStep
<1>10. ASSUME NEW p \in Ports, PanelGone(p)  PROVE PanelsInv'
  <2>1. pending'.panel = pending.panel /\ pending'.id = pending.id
    BY <1>1, <1>10 DEF PanelGone
  <2>. QED  BY <1>0, <1>10, <2>1, QuietStep DEF PanelGone, TypeOK
<1>11. CASE \E p \in Ports : PanelReads(p)
  BY <1>0, <1>11, ReadStep
<1>12. ASSUME NEW p \in Ports, ShowInPanelFails(p)  PROVE PanelsInv'
  BY <1>0, <1>12, QuietStep DEF ShowInPanelFails
<1>13. ASSUME NEW p \in Ports, PanelReady(p)  PROVE PanelsInv'
  <2>1. inbox[p] = <<>> /\ screen[p] = None /\ pending.panel # p /\ p \notin panels
    BY <1>13 DEF PanelReady, PanelsInv, PanelInv
  <2>2. PanelInv'
    BY <1>0, <1>13, <2>1 DEF PanelReady, PanelsInv, PanelInv, OpenSent, TypeOK
  <2>3. PanelsShowPending'
    BY <1>0, <1>13, <2>1 DEF PanelReady, PanelsInv, PanelsShowPending, TypeOK
  <2>. QED  BY <2>2, <2>3 DEF PanelsInv
<1>14. ASSUME NEW p \in Ports, ClosePanel(p)  PROVE PanelsInv'
  <2>1. /\ inbox'[p] = <<>> /\ screen'[p] = None /\ port'[p] = "closing"
        /\ \A q \in Ports : q # p => /\ inbox'[q] = inbox[q]
                                     /\ screen'[q] = screen[q]
                                     /\ port'[q] = port[q]
        /\ UNCHANGED <<panels, pending>>
    BY <1>0, <1>14 DEF ClosePanel, TypeOK
  <2>2. Len(inbox'[p]) = 0
    BY <2>1, EmptySeq
  <2>3. PanelInv'
    BY <1>0, <2>1, <2>2 DEF PanelsInv, PanelInv, OpenSent
  <2>4. PanelsShowPending'
    BY <1>0, <2>1, <2>2 DEF PanelsInv, PanelsShowPending
  <2>. QED  BY <2>3, <2>4 DEF PanelsInv
<1>15. ASSUME NEW p \in Ports, Navigate(p)  PROVE PanelsInv'
  <2>1. CASE inbox' = inbox
    BY <1>0, <1>15, <2>1, QuietStep DEF Navigate, Post, PanelsInv, PanelInv
  <2>2. CASE inbox' # inbox
    BY <1>0, <1>15, <2>2, NavigateStep DEF Navigate, TaskInv, NoPending
  <2>. QED  BY <2>1, <2>2
<1>16. CASE Restart
  <2>1. pending'.id = None /\ pending'.panel = None /\ panels' = {}
        /\ \A p \in Ports : inbox'[p] = <<>> /\ screen'[p] = None
    BY <1>16 DEF Restart, NoPending
  <2>2. \A p \in Ports : Len(inbox'[p]) = 0
    BY <2>1, EmptySeq
  <2>3. PanelInv'
    BY <1>0, <2>1, <2>2 DEF PanelInv, OpenSent
  <2>4. PanelsShowPending'
    BY <1>0, <2>1, <2>2 DEF PanelsShowPending
  <2>. QED  BY <2>3, <2>4 DEF PanelsInv
<1>. QED
  BY <1>3, <1>5, <1>6, <1>7, <1>8, <1>9, <1>10, <1>11, <1>12, <1>13, <1>14,
     <1>15, <1>16, NextCases

(* Panels show the pending confirmation until it is decided, and a         *)
(* confirmation that is over has been taken back from its panel.           *)
THEOREM PanelsAreTrue == Spec => []PanelsShowPending
<1>1. Init => PanelsInv
  <2>1. ASSUME Init  PROVE \A p \in Ports : Len(inbox[p]) = 0
    BY <2>1, EmptySeq DEF Init
  <2>. QED
    BY <2>1, ConfirmAssumption
       DEF ConfirmAssumption, Init, NoPending, PanelsInv, PanelInv, OpenSent,
           PanelsShowPending
<1>2. IInv /\ WindowInv /\ PanelsInv /\ [Next]_vars => PanelsInv'
  BY PanelStep, ConfirmAssumption
<1>. QED  BY <1>1, <1>2, SurfacesKept, PTL DEF Spec, PanelsInv
-----------------------------------------------------------------------------
(* Closed surfaces                                                         *)

(* Registered panels are connected, a window that closed while it was      *)
(* being opened has been seen to close, and a decision is possible.        *)
ClosingInv ==
  /\ \A p \in panels : port[p] # "gone"
  /\ \A p \in panels : port[p] # "new"
  /\ stage = "opening" /\ window[Current] = "gone" => seen
  /\ DecisionIsPossible

LEMMA ClosingStep ==
  ASSUME ConfirmAssumption, IInv, WindowInv, ClosingInv, [Next]_vars
  PROVE  ClosingInv'
<1>. USE DEF taskVars, panelVars, userVars
<1>0. /\ TypeOK /\ TaskInv /\ None \notin Requests /\ None \notin Ports
      /\ queue # <<>> => Current \in Requests
      /\ stage \notin {"idle", "storing", "closing", "removing"} =>
           pending.id = Current /\ Current \in Requests /\ queue # <<>>
      /\ panels \subseteq Ports
  BY CurrentWaits DEF IInv, TaskInv, TypeOK, ConfirmAssumption, Current
<1>1. ASSUME UNCHANGED <<panels, port>>,
             stage' \notin {"opening", "deciding"}
      PROVE  ClosingInv'
  BY <1>1 DEF ClosingInv, DecisionIsPossible
<1>2. CASE \E r \in Requests : Request(r)
  <2>1. CASE queue = <<>>
    BY <1>0, <1>1, <1>2, <2>1 DEF Request
  <2>2. CASE queue # <<>>
    <3>1. Current' = Current
      BY <1>0, <1>2, <2>2, RequestWaits
    <3>. QED
      BY <1>2, <2>2, <3>1 DEF Request, ClosingInv, DecisionIsPossible
  <2>. QED  BY <2>1, <2>2
<1>3. CASE \/ StoreRow \/ StoreRowFails \/ Approve \/ Deny \/ SurfaceFails
           \/ \E o \in {"approved", "error"} : Approved(o)
           \/ CloseNotification \/ RemoveRow \/ RemoveRowFails
  BY <1>1, <1>3
     DEF StoreRow, StoreRowFails, Approve, Deny, SurfaceFails, Approved, Finally,
         CloseNotification, RemoveRow, RemoveRowFails, EndTask
<1>4. CASE \/ NoPanel \/ \E p \in Ports : ShowInPanelFails(p)
  <2>1. window[Current] = "none" /\ stage = "finding"
    BY <1>4 DEF NoPanel, ShowInPanelFails, WindowInv
  <2>. QED
    BY <1>4, <2>1 DEF NoPanel, ShowInPanelFails, ClosingInv, DecisionIsPossible, Current
<1>5. CASE WindowAppears
  BY <1>0, <1>5 DEF WindowAppears, ClosingInv, DecisionIsPossible, TypeOK, Current
<1>6. CASE WindowOpened
  <2>1. /\ stage = "opening" /\ pending.panel = None /\ window[Current] # "none"
        /\ pending.id = Current
    BY <1>0, <1>6 DEF WindowOpened, WindowInv
  <2>2. /\ pending'.id = Current /\ pending'.panel = None /\ pending'.opened
        /\ pending'.settled = (pending.settled \/ seen)
        /\ UNCHANGED <<window, panels, port>> /\ stage' = "deciding"
    BY <1>0, <1>6, <2>1 DEF WindowOpened, TypeOK, Pending
  <2>3. ~seen => window[Current] \in {"open", "closing"}
    BY <1>0, <2>1 DEF ClosingInv, TypeOK
  <2>. QED  BY <2>1, <2>2, <2>3 DEF ClosingInv, DecisionIsPossible
<1>7. CASE \E p \in Ports : ShowInPanel(p)
  <2>1. PICK p \in Ports : ShowInPanel(p)
    BY <1>7
  <2>2. /\ pending'.panel = p /\ p \in panels /\ stage' = "deciding"
        /\ UNCHANGED <<panels, port>>
    BY <1>0, <2>1 DEF ShowInPanel, TypeOK, Pending
  <2>3. port[p] \in {"open", "closing"}
    BY <1>0, <2>2 DEF ClosingInv, TypeOK
  <2>. QED  BY <1>0, <2>2, <2>3 DEF ClosingInv, DecisionIsPossible
<1>8. ASSUME NEW ok, Settle(ok)
      PROVE  /\ pending'.id = pending.id /\ pending'.panel = pending.panel
             /\ pending'.opened = pending.opened /\ pending'.settled
  BY <1>0, <1>8 DEF Settle, TypeOK, Pending
<1>9. ASSUME NEW p \in Ports, PanelGone(p)  PROVE ClosingInv'
  <2>1. /\ port' = [port EXCEPT ![p] = "gone"] /\ panels' = panels \ {p}
        /\ UNCHANGED <<queue, stage, seen, window>>
    BY <1>9 DEF PanelGone
  <2>2. CASE pending.panel = p
    <3>1. pending'.settled
      BY <1>8, <1>9, <2>2 DEF PanelGone
    <3>. QED
      BY <1>0, <2>1, <3>1 DEF ClosingInv, DecisionIsPossible, TypeOK, Current
  <2>3. CASE pending.panel # p
    <3>1. pending' = pending
      BY <1>9, <2>3 DEF PanelGone
    <3>. QED
      BY <1>0, <2>1, <2>3, <3>1
         DEF ClosingInv, DecisionIsPossible, TypeOK, Pending, Current
  <2>. QED  BY <2>2, <2>3
<1>10. ASSUME NEW p \in Ports, ClosePanel(p) \/ PanelReady(p)  PROVE ClosingInv'
  BY <1>0, <1>10
     DEF ClosePanel, PanelReady, ClosingInv, DecisionIsPossible, TypeOK, Pending, Current
<1>11. ASSUME NEW r \in Requests, CloseWindow(r)  PROVE ClosingInv'
  BY <1>0, <1>11 DEF CloseWindow, ClosingInv, DecisionIsPossible, TypeOK, Current
<1>12. ASSUME NEW r \in Requests, WindowGone(r)  PROVE ClosingInv'
  <2>1. /\ window' = [window EXCEPT ![r] = "gone"] /\ seen' = (seen \/ pending.id = r)
        /\ UNCHANGED <<queue, stage, panels, port>>
    BY <1>12 DEF WindowGone
  <2>2. CASE pending.opened /\ pending.id = r
    BY <1>0, <1>8, <1>12, <2>1, <2>2
       DEF WindowGone, WindowInv, ClosingInv, DecisionIsPossible
  <2>3. CASE ~(pending.opened /\ pending.id = r)
    <3>1. pending' = pending
      BY <1>12, <2>3 DEF WindowGone
    <3>. QED
      BY <1>0, <2>1, <2>3, <3>1 DEF ClosingInv, DecisionIsPossible, TypeOK, Current
  <2>. QED  BY <2>2, <2>3
<1>13. CASE \E d \in decisions : OnRequestFinish(d)
  <2>1. UNCHANGED <<queue, stage, seen, window, panels, port>>
    BY <1>13 DEF OnRequestFinish
  <2>2. \/ pending' = pending
        \/ /\ pending'.id = pending.id /\ pending'.panel = pending.panel
           /\ pending'.opened = pending.opened /\ pending'.settled
    BY <1>8, <1>13 DEF OnRequestFinish
  <2>. QED  BY <2>1, <2>2 DEF ClosingInv, DecisionIsPossible, Current
<1>14. CASE \/ \E p \in Ports : PanelReads(p) \/ Navigate(p)
            \/ \E d \in Decision : Click(d)
            \/ UNCHANGED vars
  BY <1>0, <1>14
     DEF PanelReads, Navigate, Click, vars, ClosingInv, DecisionIsPossible, Current
<1>15. CASE Restart
  BY <1>0, <1>15 DEF Restart, ClosingInv, DecisionIsPossible
<1>. QED
  BY <1>2, <1>3, <1>4, <1>5, <1>6, <1>7, <1>9, <1>10, <1>11, <1>12, <1>13,
     <1>14, <1>15, NextCases

(* No request waits for a decision that nothing can bring any more: the    *)
(* safety on which AnsweredEventually stands.                              *)
THEOREM DecisionStaysPossible == Spec => []DecisionIsPossible
<1>1. Init => ClosingInv
  BY DEF Init, ClosingInv, DecisionIsPossible
<1>2. IInv /\ WindowInv /\ ClosingInv /\ [Next]_vars => ClosingInv'
  BY ClosingStep, ConfirmAssumption
<1>. QED  BY <1>1, <1>2, SurfacesKept, PTL DEF Spec, ClosingInv
=============================================================================
