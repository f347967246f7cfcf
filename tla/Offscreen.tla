------------------------------ MODULE Offscreen ------------------------------
(***************************************************************************)
(* The one offscreen document: who creates it (offscreenLock.ts), the two  *)
(* kinds of callers that use it (offscreen.ts proves transactions,         *)
(* scannerOffscreen.ts encrypts registrations) and the worker inside it    *)
(* that proves and broadcasts (offscreen_service/src/index.ts, worker.ts). *)
(*                                                                         *)
(* Critical sections of the offscreen lock are single steps. Chrome may    *)
(* drop the document at any time; its module registers its listener some   *)
(* time after the document was created, or never. Times are abstract: a    *)
(* caller gives up polling at any poll that found no listener.             *)
(***************************************************************************)
EXTENDS Naturals, Sequences, FiniteSets

CONSTANTS
  Txs,          \* transactions and deployments
  Scans,        \* registrations to encrypt
  None,
  MaxRestarts,  \* bound: service worker restarts
  MaxDrops      \* bound: documents dropped by Chrome or stopSending

ASSUME OffscreenAssumption ==
  /\ IsFiniteSet(Txs)
  /\ Txs \cap Scans = {}
  /\ None \notin Txs \cup Scans
  /\ Txs \cap {"ok", "error"} = {}
  /\ MaxRestarts \in Nat /\ MaxDrops \in Nat

Users == Txs \cup Scans

VARIABLES
  doc,          \* the document: "none", "loading" or "ready"
  currentPath,  \* the background believes a document is up
  reconciled,   \* that belief was seeded in this service worker's life
  txInFlight,   \* the transaction whose promise trackTx stored
  pc,           \* where each caller is
  prior,        \* the transaction that a waiting transaction awaits, or None
  didRecreate,  \* calls under way that recreated the document already
  answer,       \* what each caller got: a transaction id, "ok" or "error"
  listeners,    \* callers whose message the document accepted
  isSendingTx,  \* the document's flag
  worker,       \* the transaction worker: "none", "starting" or "inited"
  tasks,        \* tasks posted to the worker
  proving,      \* the task the worker executes
  broadcast,    \* it has reached the network
  crowded,      \* history: three transactions were unfinished at a time
  restarts,
  drops

background == <<currentPath, reconciled, txInFlight>>
callers == <<pc, prior, didRecreate, answer>>
workerVars == <<worker, tasks, proving, broadcast>>
document == <<doc, listeners, isSendingTx, workerVars>>
bounds == <<restarts, drops>>
vars == <<background, callers, document, crowded, bounds>>

Active == {"ensuring", "polling", "recreating", "sending", "served"}

Init ==
  /\ doc = "none"
  /\ currentPath = FALSE
  /\ reconciled = FALSE
  /\ txInFlight = None
  /\ pc = [u \in Users |-> "new"]
  /\ prior = [u \in Users |-> None]
  /\ didRecreate = {}
  /\ answer = [u \in Users |-> None]
  /\ listeners = {}
  /\ isSendingTx = FALSE
  /\ worker = "none"
  /\ tasks = <<>>
  /\ proving = None
  /\ broadcast = FALSE
  /\ crowded = FALSE
  /\ restarts = 0
  /\ drops = 0

-----------------------------------------------------------------------------
(* The document                                                            *)

(* A document that is not there any more takes its workers with it.        *)
FreshDocument(state) ==
  /\ doc' = state
  /\ listeners' = {}
  /\ isSendingTx' = FALSE
  /\ worker' = "none"
  /\ tasks' = <<>>
  /\ proving' = None
  /\ broadcast' = FALSE

PageLoads ==
  /\ doc = "loading"
  /\ doc' = "ready"
  /\ UNCHANGED <<background, callers, listeners, isSendingTx, workerVars,
                 crowded, bounds>>

(* Chrome drops the document; the background does not hear of it.          *)
DocumentDropped ==
  /\ doc # "none"
  /\ drops < MaxDrops
  /\ drops' = drops + 1
  /\ FreshDocument("none")
  /\ UNCHANGED <<background, callers, crowded, restarts>>

(* A rescan or a chain reset closes the document (closeOffscreen).         *)
StopSending ==
  /\ drops < MaxDrops
  /\ drops' = drops + 1
  /\ reconciled' = TRUE
  /\ IF currentPath \/ (~reconciled /\ doc # "none")
     THEN FreshDocument("none") /\ currentPath' = FALSE
     ELSE UNCHANGED <<document, currentPath>>
  /\ UNCHANGED <<txInFlight, callers, crowded, restarts>>

-----------------------------------------------------------------------------
(* Callers                                                                 *)

(* The call of u is over with answer a.                                    *)
End(u, a) ==
  /\ pc' = [pc EXCEPT ![u] = "done"]
  /\ answer' = [answer EXCEPT ![u] = a]
  /\ txInFlight' = IF txInFlight = u THEN None ELSE txInFlight
  /\ didRecreate' = didRecreate \ {u}
  /\ UNCHANGED prior

Goto(u, label) == pc' = [pc EXCEPT ![u] = label]

Unfinished == {t \in Txs : pc[t] \notin {"new", "done"}}

(* A transaction whose prior is over resumes before anything else runs.    *)
Resumable(t) == pc[t] = "waiting" /\ pc[prior[t]] = "done"

(* trackTx. Transactions are alike: the next to come is any new one.       *)
NextTx == CHOOSE t \in Txs : pc[t] = "new"

Send(t) ==
  /\ pc[t] = "new" /\ t = NextTx
  /\ \A u \in Txs : ~Resumable(u)
  /\ IF txInFlight = None
     THEN /\ Goto(t, "ensuring")
          /\ txInFlight' = t
          /\ UNCHANGED prior
     ELSE /\ Goto(t, "waiting")
          /\ prior' = [prior EXCEPT ![t] = txInFlight]
          /\ UNCHANGED txInFlight
  /\ crowded' = (crowded \/ Cardinality(Unfinished) >= 2)
  /\ UNCHANGED <<currentPath, reconciled, didRecreate, answer, document,
                 bounds>>

(* Mutant: a transaction that waited is not tracked itself.                *)
ResumeUntracked(t) ==
  /\ Resumable(t)
  /\ Goto(t, "ensuring")
  /\ prior' = [prior EXCEPT ![t] = None]
  /\ UNCHANGED <<background, didRecreate, answer, document, crowded, bounds>>

Resume(t) ==
  /\ Resumable(t)
  /\ Goto(t, "ensuring")
  /\ txInFlight' = t
  /\ prior' = [prior EXCEPT ![t] = None]
  /\ UNCHANGED <<currentPath, reconciled, didRecreate, answer, document,
                 crowded, bounds>>

(* Registrations take turns (offscreenEncryptMutex).                       *)
Encrypt(s) ==
  /\ pc[s] = "new"
  /\ \A u \in Scans : pc[u] \notin Active
  /\ Goto(s, "ensuring")
  /\ UNCHANGED <<background, prior, didRecreate, answer, document,
                 crowded, bounds>>

(* ensureLocked: trusts currentPath once it was seeded.                    *)
Ensure(u) ==
  /\ pc[u] = "ensuring"
  /\ Goto(u, "polling")
  /\ reconciled' = TRUE
  /\ currentPath' = TRUE
  /\ IF currentPath \/ doc # "none"
     THEN UNCHANGED document
     ELSE FreshDocument("loading")
  /\ UNCHANGED <<txInFlight, prior, didRecreate, answer, crowded, bounds>>

EnsureFails(u) ==
  /\ pc[u] = "ensuring"
  /\ ~currentPath
  /\ doc = "none"
  /\ End(u, "error")
  /\ reconciled' = TRUE
  /\ UNCHANGED <<currentPath, document, crowded, bounds>>

(* A poll finds the listener; the real message is sent.                    *)
PollAnswered(u) ==
  /\ pc[u] = "polling"
  /\ doc = "ready"
  /\ Goto(u, "sending")
  /\ UNCHANGED <<background, prior, didRecreate, answer, document,
                 crowded, bounds>>

(* Mutant: a caller recreates the document as often as it likes.           *)
GiveUpAgain(u) ==
  /\ pc[u] = "polling"
  /\ doc # "ready"
  /\ Goto(u, "recreating")
  /\ UNCHANGED <<background, prior, didRecreate, answer, document,
                 crowded, bounds>>

(* Polls found no listener for too long: recreate the document, once.      *)
GiveUp(u) ==
  /\ pc[u] = "polling"
  /\ doc # "ready"
  /\ u \notin didRecreate
  /\ Goto(u, "recreating")
  /\ UNCHANGED <<background, prior, didRecreate, answer, document,
                 crowded, bounds>>

(* By the time the lock is held the document may be ready and in use.      *)
Recreate(u) ==
  /\ pc[u] = "recreating"
  /\ Goto(u, "polling")
  /\ didRecreate' = didRecreate \cup {u}
  /\ reconciled' = TRUE
  /\ currentPath' = TRUE
  /\ FreshDocument("loading")
  /\ UNCHANGED <<txInFlight, prior, answer, crowded, bounds>>

RecreateFails(u) ==
  /\ pc[u] = "recreating"
  /\ End(u, "error")
  /\ reconciled' = TRUE
  /\ currentPath' = FALSE
  /\ FreshDocument("none")
  /\ UNCHANGED <<crowded, bounds>>

PollTimesOut(u) ==
  /\ pc[u] = "polling"
  /\ doc # "ready"
  /\ u \in didRecreate
  /\ End(u, "error")
  /\ UNCHANGED <<currentPath, reconciled, document, crowded, bounds>>

(* The document went away before or after it accepted the message.         *)
ChannelClosed(u) ==
  /\ \/ pc[u] = "sending" /\ doc # "ready"
     \/ pc[u] = "served" /\ u \notin listeners
  /\ End(u, "error")
  /\ UNCHANGED <<currentPath, reconciled, document, crowded, bounds>>

-----------------------------------------------------------------------------
(* Inside the document                                                     *)

(* Mutant: isSendingTx is left as it was.                                  *)
RunWorkerTaskUnmarked(t) ==
  /\ pc[t] = "sending"
  /\ doc = "ready"
  /\ Goto(t, "served")
  /\ listeners' = listeners \cup {t}
  /\ worker' = IF worker = "none" THEN "starting" ELSE worker
  /\ tasks' = IF worker = "inited" THEN Append(tasks, t) ELSE tasks
  /\ UNCHANGED <<background, prior, didRecreate, answer, doc, isSendingTx,
                 proving, broadcast, crowded, bounds>>

(* runWorkerTask: every task listens to the one worker.                    *)
RunWorkerTask(t) ==
  /\ pc[t] = "sending"
  /\ doc = "ready"
  /\ Goto(t, "served")
  /\ listeners' = listeners \cup {t}
  /\ isSendingTx' = TRUE
  /\ worker' = IF worker = "none" THEN "starting" ELSE worker
  /\ tasks' = IF worker = "inited" THEN Append(tasks, t) ELSE tasks
  /\ UNCHANGED <<background, prior, didRecreate, answer, doc, proving,
                 broadcast, crowded, bounds>>

(* "inited" reaches every listener and each posts its task.                *)
WorkerInited ==
  /\ worker = "starting"
  /\ worker' = "inited"
  /\ \E order \in [1..Cardinality(listeners \cap Txs) -> listeners \cap Txs] :
       /\ \A i, j \in DOMAIN order : order[i] = order[j] => i = j
       /\ tasks' = order
  /\ UNCHANGED <<background, callers, doc, listeners, isSendingTx, proving,
                 broadcast, crowded, bounds>>

(* executeTask                                                             *)
TaskStarts ==
  /\ proving = None
  /\ tasks # <<>>
  /\ proving' = Head(tasks)
  /\ tasks' = Tail(tasks)
  /\ broadcast' = FALSE
  /\ UNCHANGED <<background, callers, doc, listeners, isSendingTx, worker,
                 crowded, bounds>>

Broadcast ==
  /\ proving # None
  /\ broadcast' = TRUE
  /\ UNCHANGED <<background, callers, doc, listeners, isSendingTx, worker, tasks,
                 proving, crowded, bounds>>

(* Mutant: only the transaction that was proved is told and cleaned up.    *)
FinishTellsOne(result) ==
  /\ LET told == {t \in listeners \cap {proving} : pc[t] = "served"} IN
       /\ pc' = [u \in Users |-> IF u \in told THEN "done" ELSE pc[u]]
       /\ answer' = [u \in Users |-> IF u \in told THEN result ELSE answer[u]]
       /\ txInFlight' = IF txInFlight \in told THEN None ELSE txInFlight
       /\ didRecreate' = didRecreate \ told
  /\ listeners' = listeners \ {proving}
  /\ isSendingTx' = FALSE
  /\ worker' = "none"
  /\ tasks' = <<>>
  /\ proving' = None
  /\ broadcast' = FALSE
  /\ UNCHANGED <<currentPath, reconciled, prior, doc, crowded, bounds>>

(* Mutant: a worker that still has tasks is not terminated.                *)
FinishKeepsWorker(result) ==
  /\ LET told == {t \in listeners \cap Txs : pc[t] = "served"} IN
       /\ pc' = [u \in Users |-> IF u \in told THEN "done" ELSE pc[u]]
       /\ answer' = [u \in Users |-> IF u \in told THEN result ELSE answer[u]]
       /\ txInFlight' = IF txInFlight \in told THEN None ELSE txInFlight
       /\ didRecreate' = didRecreate \ told
  /\ listeners' = listeners \ Txs
  /\ isSendingTx' = FALSE
  /\ worker' = IF tasks = <<>> THEN "none" ELSE worker
  /\ proving' = None
  /\ broadcast' = FALSE
  /\ UNCHANGED <<currentPath, reconciled, prior, doc, tasks, crowded, bounds>>

(* finish: the first listener that is told terminates the worker, the      *)
(* others are told all the same.                                           *)
Finish(result) ==
  /\ LET told == {t \in listeners \cap Txs : pc[t] = "served"} IN
       /\ pc' = [u \in Users |-> IF u \in told THEN "done" ELSE pc[u]]
       /\ answer' = [u \in Users |-> IF u \in told THEN result ELSE answer[u]]
       /\ txInFlight' = IF txInFlight \in told THEN None ELSE txInFlight
       /\ didRecreate' = didRecreate \ told
  /\ listeners' = listeners \ Txs
  /\ isSendingTx' = FALSE
  /\ worker' = "none"
  /\ tasks' = <<>>
  /\ proving' = None
  /\ broadcast' = FALSE
  /\ UNCHANGED <<currentPath, reconciled, prior, doc, crowded, bounds>>

(* The result of a task. An error may be one that came after the broadcast.*)
WorkerPosts(result) ==
  /\ proving # None
  /\ \/ result = "error"
     \/ result = proving /\ broadcast
  /\ Finish(result)

(* The error event of a worker that fails to load or to start.             *)
WorkerDies ==
  /\ worker # "none"
  /\ proving = None
  /\ Finish("error")

(* The registration worker answers, fails or times out.                    *)
ScannerEncrypts(s) ==
  /\ pc[s] = "sending"
  /\ doc = "ready"
  /\ Goto(s, "served")
  /\ listeners' = listeners \cup {s}
  /\ UNCHANGED <<background, prior, didRecreate, answer, doc, isSendingTx,
                 workerVars, crowded, bounds>>

ScannerAnswers(s, a) ==
  /\ s \in listeners
  /\ pc[s] = "served"
  /\ End(s, a)
  /\ listeners' = listeners \ {s}
  /\ UNCHANGED <<currentPath, reconciled, doc, isSendingTx, workerVars,
                 crowded, bounds>>

-----------------------------------------------------------------------------
(* The service worker stops and the document lives on; calls in progress   *)
(* have nobody left to answer.                                             *)
Restart ==
  /\ restarts < MaxRestarts
  /\ restarts' = restarts + 1
  /\ currentPath' = FALSE
  /\ reconciled' = FALSE
  /\ txInFlight' = None
  /\ pc' = [u \in Users |-> IF pc[u] = "new" THEN "new" ELSE "done"]
  /\ prior' = [u \in Users |-> None]
  /\ didRecreate' = {}
  /\ UNCHANGED <<answer, document, crowded, drops>>

Next ==
  \/ PageLoads \/ DocumentDropped \/ StopSending
  \/ \E t \in Txs : Send(t) \/ Resume(t) \/ RunWorkerTask(t)
  \/ \E s \in Scans : Encrypt(s) \/ ScannerEncrypts(s)
  \/ \E s \in Scans, a \in {"ok", "error"} : ScannerAnswers(s, a)
  \/ \E u \in Users : Ensure(u) \/ EnsureFails(u) \/ PollAnswered(u)
  \/ \E u \in Users : GiveUp(u) \/ Recreate(u) \/ PollTimesOut(u)
  \/ \E u \in Users : RecreateFails(u) \/ ChannelClosed(u)
  \/ WorkerInited \/ TaskStarts \/ Broadcast
  \/ \E r \in Txs \cup {"error"} : WorkerPosts(r)
  \/ WorkerDies
  \/ Restart

Spec == Init /\ [][Next]_vars

(* Calls and workers go on; a poll that finds no listener for ever ends in *)
(* its own timeout. Nobody has to start a call, load the page or drop it.  *)
Fairness ==
  /\ \A u \in Users :
       /\ WF_vars(Ensure(u) \/ EnsureFails(u))
       /\ WF_vars(PollAnswered(u) \/ GiveUp(u) \/ PollTimesOut(u))
       /\ WF_vars(Recreate(u) \/ RecreateFails(u))
       /\ WF_vars(ChannelClosed(u))
  /\ \A t \in Txs : WF_vars(Resume(t)) /\ WF_vars(RunWorkerTask(t))
  /\ \A s \in Scans :
       /\ WF_vars(ScannerEncrypts(s))
       /\ WF_vars(\E a \in {"ok", "error"} : ScannerAnswers(s, a))
  /\ WF_vars(WorkerInited) /\ WF_vars(TaskStarts)
  /\ WF_vars(\E r \in Txs \cup {"error"} : WorkerPosts(r))

FairSpec == Spec /\ Fairness

-----------------------------------------------------------------------------
(* Properties                                                              *)

(* Every variable stays within its type.                                   *)
TypeOK ==
  /\ doc \in {"none", "loading", "ready"}
  /\ currentPath \in BOOLEAN /\ reconciled \in BOOLEAN
  /\ txInFlight \in Txs \cup {None}
  /\ pc \in [Users -> Active \cup {"new", "waiting", "done"}]
  /\ prior \in [Users -> Txs \cup {None}]
  /\ didRecreate \subseteq Users
  /\ answer \in [Users -> Txs \cup {None, "ok", "error"}]
  /\ listeners \subseteq Users
  /\ isSendingTx \in BOOLEAN
  /\ worker \in {"none", "starting", "inited"}
  /\ tasks \in Seq(Txs)
  /\ proving \in Txs \cup {None}
  /\ broadcast \in BOOLEAN /\ crowded \in BOOLEAN
  /\ restarts \in 0..MaxRestarts /\ drops \in 0..MaxDrops

(* What the comment in trackTx says (offscreen.ts:97): overlapping         *)
(* transaction requests are serialized.                                    *)
Serialized == \A t, u \in Txs : pc[t] \in Active /\ pc[u] \in Active => t = u

(* What trackTx does: requests are serialized, through restarts, failures  *)
(* and dropped documents, until three are unfinished at a time; then two   *)
(* wait for the same prior and run together (PopupServer sends without     *)
(* waiting, so nothing limits how many there are).                         *)
SerializedUntilCrowded == crowded \/ Serialized

(* isSendingAleoTransaction answers true from the moment a transaction may *)
(* use the document, before the document knows of it, until it is over:    *)
(* but for the background's part this holds only until three transactions  *)
(* were unfinished at a time, as txInFlight is then the later of two.      *)
(* However many there are, it answers true for a task that is proved, one  *)
(* that a restart left behind included, and false once all are over.       *)
StatusIsRight ==
  /\ (\E t \in Txs : pc[t] \in Active) => crowded \/ txInFlight # None
  /\ proving # None => isSendingTx
  /\ Unfinished = {} /\ listeners = {} => txInFlight = None /\ ~isSendingTx

(* A transaction the document has accepted is neither lost nor doubled in  *)
(* its worker: until it is answered there is one task of it, or the worker *)
(* is starting and will get one; and the worker, and the flag, last just   *)
(* as long as there is such a transaction. This holds whatever overlaps,   *)
(* is dropped or restarted, for transactions nobody waits for any more too.*)
Accepted == listeners \cap Txs

OneTaskEach ==
  /\ \A t \in Accepted : pc[t] \in {"served", "done"} /\ answer[t] = None
  /\ isSendingTx <=> Accepted # {}
  /\ worker = "none" <=> Accepted = {}
  /\ IF worker = "inited"
     THEN /\ \A t \in Txs : t \in Accepted <=>
               t = proving \/ \E i \in DOMAIN tasks : tasks[i] = t
          /\ \A i, j \in DOMAIN tasks : tasks[i] = tasks[j] => i = j
          /\ \A i \in DOMAIN tasks : tasks[i] # proving
     ELSE tasks = <<>> /\ proving = None

(* All tasks listen to one worker, whose results name no task: a result is *)
(* heard only by transactions the document had accepted together with the  *)
(* one it is of. So a transaction alone in the document is reported with   *)
(* its own id, and no result ever reaches a later transaction.             *)
NoStrayAnswer ==
  [][\A t \in Txs : answer[t] = None /\ answer'[t] \in Txs
                      => {t, answer'[t]} \subseteq Accepted]_vars

(* Every send and every registration ends, with an error at worst, if      *)
(* provers and workers end, whatever happens to the document meanwhile.    *)
CallsEnd == \A u \in Users : pc[u] # "new" ~> pc[u] = "done"

=============================================================================
