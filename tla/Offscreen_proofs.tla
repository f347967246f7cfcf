--------------------------- MODULE Offscreen_proofs ---------------------------
(***************************************************************************)
(* Proofs about Offscreen, for any transactions and registrations and any  *)
(* number of restarts and dropped documents, however many overlap.         *)
(*                                                                         *)
(* CallInv is about the background: the transaction in flight uses the     *)
(* document, and until three are unfinished at a time it is the only one   *)
(* that does, and one that waits has only the one it waits for to reckon   *)
(* with. TaskInv is about the document: it follows each transaction that   *)
(* the document has accepted through the queue of the worker.              *)
(***************************************************************************)
EXTENDS Offscreen, FunctionTheorems, FiniteSetTheorems, TLAPS

(* The transaction in flight uses the document.                            *)
FlightInv == txInFlight # None => pc[txInFlight] \in Active

(* While at most two are unfinished, none but the one in flight uses the   *)
(* document, and one that waits is alone with the one it waits for.        *)
SerialInv == ~crowded =>
  /\ \A t \in Txs : pc[t] \in Active => txInFlight = t
  /\ \A t \in Txs : pc[t] = "waiting" =>
       /\ prior[t] \in Txs /\ pc[prior[t]] \in Active \cup {"done"}
       /\ Unfinished \subseteq {t, prior[t]}

CallInv == TypeOK /\ FlightInv /\ SerialInv

-----------------------------------------------------------------------------
(* Types                                                                   *)

LEMMA NoTasks == <<>> \in Seq(Txs)
  OBVIOUS

LEMMA InitTypes == Init => TypeOK
<1> SUFFICES ASSUME Init PROVE TypeOK
  OBVIOUS
<1>1. restarts \in 0..MaxRestarts /\ drops \in 0..MaxDrops
  BY OffscreenAssumption DEF Init
<1>2. /\ pc \in [Users -> Active \cup {"new", "waiting", "done"}]
      /\ prior \in [Users -> Txs \cup {None}]
      /\ answer \in [Users -> Txs \cup {None, "ok", "error"}]
  BY DEF Init
<1> QED
  BY <1>1, <1>2, NoTasks DEF Init, TypeOK

LEMMA FreshTypes ==
  ASSUME TypeOK, NEW state \in {"none", "loading", "ready"}, FreshDocument(state)
  PROVE  /\ doc' \in {"none", "loading", "ready"} /\ listeners' \subseteq Users
         /\ isSendingTx' \in BOOLEAN /\ worker' \in {"none", "starting", "inited"}
         /\ tasks' \in Seq(Txs) /\ proving' \in Txs \cup {None}
         /\ broadcast' \in BOOLEAN
  BY NoTasks DEF FreshDocument

(* What a call that is over leaves.                                        *)
LEMMA EndTypes ==
  ASSUME TypeOK, NEW u \in Users, NEW a \in Txs \cup {None, "ok", "error"}, End(u, a)
  PROVE  /\ pc' \in [Users -> Active \cup {"new", "waiting", "done"}]
         /\ answer' \in [Users -> Txs \cup {None, "ok", "error"}]
         /\ txInFlight' \in Txs \cup {None}
         /\ prior' \in [Users -> Txs \cup {None}] /\ didRecreate' \subseteq Users
  BY DEF TypeOK, End

LEMMA GotoTypes ==
  ASSUME TypeOK, NEW u \in Users, NEW label \in Active \cup {"waiting", "done"}, Goto(u, label)
  PROVE  pc' \in [Users -> Active \cup {"new", "waiting", "done"}]
  BY DEF TypeOK, Goto

(* Steps that only move a caller along.                                    *)
LEMMA MoveTypes ==
  ASSUME TypeOK, NEW u \in Users,
         \/ PollAnswered(u) \/ GiveUp(u)
         \/ u \in Scans /\ Encrypt(u)
  PROVE  TypeOK'
<1>1. /\ Goto(u, "sending") \/ Goto(u, "recreating") \/ Goto(u, "ensuring")
      /\ UNCHANGED <<background, prior, didRecreate, answer, document, crowded, bounds>>
  BY DEF PollAnswered, GiveUp, Encrypt
<1>2. pc' \in [Users -> Active \cup {"new", "waiting", "done"}]
  BY <1>1, GotoTypes DEF Active
<1> QED
  BY <1>1, <1>2 DEF TypeOK, background, document, workerVars, bounds

LEMMA EndingTypes ==
  ASSUME TypeOK, NEW u \in Users,
         EnsureFails(u) \/ PollTimesOut(u) \/ ChannelClosed(u) \/ RecreateFails(u)
  PROVE  TypeOK'
<1>1. End(u, "error") /\ UNCHANGED <<crowded, bounds>>
  BY DEF EnsureFails, PollTimesOut, ChannelClosed, RecreateFails
<1>2. /\ pc' \in [Users -> Active \cup {"new", "waiting", "done"}]
      /\ answer' \in [Users -> Txs \cup {None, "ok", "error"}]
      /\ txInFlight' \in Txs \cup {None}
      /\ prior' \in [Users -> Txs \cup {None}] /\ didRecreate' \subseteq Users
  BY <1>1, EndTypes
<1>3. CASE UNCHANGED document /\ currentPath' = currentPath /\ reconciled' \in {TRUE, reconciled}
  BY <1>1, <1>2, <1>3 DEF TypeOK, document, workerVars, bounds
<1>4. CASE RecreateFails(u)
  <2>1. FreshDocument("none") /\ reconciled' = TRUE /\ currentPath' = FALSE
    BY <1>4 DEF RecreateFails
  <2> QED
    BY <1>1, <1>2, <2>1, FreshTypes DEF TypeOK, bounds
<1> QED
  BY <1>3, <1>4 DEF EnsureFails, PollTimesOut, ChannelClosed

LEMMA EnsuringTypes ==
  ASSUME TypeOK, NEW u \in Users, Ensure(u) \/ Recreate(u)
  PROVE  TypeOK'
<1>1. /\ Goto(u, "polling") /\ reconciled' = TRUE /\ currentPath' = TRUE
      /\ UNCHANGED <<txInFlight, prior, answer, crowded, bounds>>
      /\ didRecreate' \subseteq Users
      /\ FreshDocument("loading") \/ UNCHANGED document
  BY DEF Ensure, Recreate, TypeOK
<1>2. pc' \in [Users -> Active \cup {"new", "waiting", "done"}]
  BY <1>1, GotoTypes DEF Active
<1>3. CASE FreshDocument("loading")
  BY <1>1, <1>2, <1>3, FreshTypes DEF TypeOK, bounds
<1>4. CASE UNCHANGED document
  BY <1>1, <1>2, <1>4 DEF TypeOK, document, workerVars, bounds
<1> QED
  BY <1>1, <1>3, <1>4

LEMMA SendingTypes ==
  ASSUME TypeOK, NEW t \in Txs, Send(t) \/ Resume(t)
  PROVE  TypeOK'
<1>1. t \in Users
  BY DEF Users
<1>2. /\ Goto(t, "ensuring") \/ Goto(t, "waiting")
      /\ txInFlight' \in {t, txInFlight} /\ prior' \in {prior, [prior EXCEPT ![t] = txInFlight], [prior EXCEPT ![t] = None]}
      /\ UNCHANGED <<currentPath, reconciled, didRecreate, answer, document, bounds>>
      /\ crowded' \in BOOLEAN
  BY DEF Send, Resume, TypeOK
<1>3. pc' \in [Users -> Active \cup {"new", "waiting", "done"}]
  BY <1>1, <1>2, GotoTypes DEF Active
<1>4. txInFlight' \in Txs \cup {None} /\ prior' \in [Users -> Txs \cup {None}]
  BY <1>1, <1>2 DEF TypeOK
<1> QED
  BY <1>2, <1>3, <1>4 DEF TypeOK, document, workerVars, bounds

LEMMA DocumentTypes ==
  ASSUME TypeOK, PageLoads \/ DocumentDropped \/ StopSending
  PROVE  TypeOK'
<1>1. CASE PageLoads
  BY <1>1 DEF TypeOK, PageLoads, background, callers, workerVars, bounds
<1>2. CASE DocumentDropped
  <2>1. FreshDocument("none") /\ UNCHANGED <<background, callers, crowded, restarts>>
        /\ drops < MaxDrops /\ drops' = drops + 1
    BY <1>2 DEF DocumentDropped
  <2>2. drops' \in 0..MaxDrops
    BY <2>1, OffscreenAssumption DEF TypeOK
  <2> QED
    BY <2>1, <2>2, FreshTypes DEF TypeOK, background, callers
<1>3. CASE StopSending
  <2>1. /\ \/ FreshDocument("none") /\ currentPath' = FALSE
           \/ UNCHANGED <<document, currentPath>>
        /\ reconciled' = TRUE /\ UNCHANGED <<txInFlight, callers, crowded, restarts>>
        /\ drops < MaxDrops /\ drops' = drops + 1
    BY <1>3 DEF StopSending
  <2>2. drops' \in 0..MaxDrops
    BY <2>1, OffscreenAssumption DEF TypeOK
  <2>3. CASE FreshDocument("none") /\ currentPath' = FALSE
    BY <2>1, <2>2, <2>3, FreshTypes DEF TypeOK, callers
  <2>4. CASE UNCHANGED <<document, currentPath>>
    BY <2>1, <2>2, <2>4 DEF TypeOK, callers, document, workerVars
  <2> QED
    BY <2>1, <2>3, <2>4
<1> QED
  BY <1>1, <1>2, <1>3

LEMMA WorkingTypes ==
  ASSUME TypeOK,
         \/ \E t \in Txs : RunWorkerTask(t)
         \/ WorkerInited \/ TaskStarts \/ Broadcast
         \/ \E s \in Scans : ScannerEncrypts(s)
  PROVE  TypeOK'
<1>1. ASSUME NEW t \in Txs, RunWorkerTask(t)
      PROVE  TypeOK'
  <2>1. t \in Users
    BY DEF Users
  <2>2. pc' \in [Users -> Active \cup {"new", "waiting", "done"}]
    BY <1>1, <2>1, GotoTypes DEF RunWorkerTask, Active
  <2>3. tasks' \in Seq(Txs)
    BY <1>1 DEF RunWorkerTask, TypeOK
  <2> QED
    BY <1>1, <2>1, <2>2, <2>3 DEF RunWorkerTask, TypeOK, background, bounds
<1>2. CASE WorkerInited
  <2> DEFINE sending == listeners \cap Txs
  <2>1. PICK order \in [1..Cardinality(sending) -> sending] : tasks' = order
    BY <1>2 DEF WorkerInited
  <2>2. Cardinality(sending) \in Nat
    BY OffscreenAssumption, FS_Subset, FS_CardinalityType
  <2>3. tasks' \in Seq(Txs)
    <3> DEFINE n == Cardinality(sending)
    <3>1. n \in Nat /\ tasks' \in [1..n -> Txs]
      BY <2>1, <2>2
    <3> HIDE DEF n
    <3> QED
      BY <3>1
  <2> QED
    BY <1>2, <2>3 DEF WorkerInited, TypeOK, background, callers, bounds
<1>3. CASE TaskStarts
  <2>1. tasks' \in Seq(Txs) /\ proving' \in Txs /\ broadcast' = FALSE
    BY <1>3 DEF TaskStarts, TypeOK
  <2> QED
    BY <1>3, <2>1 DEF TaskStarts, TypeOK, background, callers, bounds
<1>4. CASE Broadcast
  BY <1>4 DEF Broadcast, TypeOK, background, callers, document, workerVars, bounds
<1>5. ASSUME NEW s \in Scans, ScannerEncrypts(s)
      PROVE  TypeOK'
  <2>1. s \in Users
    BY DEF Users
  <2>2. pc' \in [Users -> Active \cup {"new", "waiting", "done"}]
    BY <1>5, <2>1, GotoTypes DEF ScannerEncrypts, Active
  <2> QED
    BY <1>5, <2>1, <2>2 DEF ScannerEncrypts, TypeOK, background, workerVars, bounds
<1> QED
  BY <1>1, <1>2, <1>3, <1>4, <1>5

LEMMA AnsweringTypes ==
  ASSUME TypeOK,
         \/ \E r \in Txs \cup {"error"} : WorkerPosts(r)
         \/ WorkerDies
         \/ \E s \in Scans, a \in {"ok", "error"} : ScannerAnswers(s, a)
  PROVE  TypeOK'
<1>1. ASSUME NEW r \in Txs \cup {"error"}, Finish(r)
      PROVE  TypeOK'
  <2>1. /\ pc' \in [Users -> Active \cup {"new", "waiting", "done"}]
        /\ answer' \in [Users -> Txs \cup {None, "ok", "error"}]
        /\ txInFlight' \in Txs \cup {None}
    BY <1>1 DEF Finish, TypeOK
  <2> QED
    BY <1>1, <2>1, NoTasks DEF Finish, TypeOK, bounds
<1>2. ASSUME NEW s \in Scans, NEW a \in {"ok", "error"}, ScannerAnswers(s, a)
      PROVE  TypeOK'
  <2>1. s \in Users /\ End(s, a)
    BY <1>2 DEF Users, ScannerAnswers
  <2>2. /\ pc' \in [Users -> Active \cup {"new", "waiting", "done"}]
        /\ answer' \in [Users -> Txs \cup {None, "ok", "error"}]
        /\ txInFlight' \in Txs \cup {None}
        /\ prior' \in [Users -> Txs \cup {None}] /\ didRecreate' \subseteq Users
    BY <2>1, EndTypes
  <2> QED
    BY <1>2, <2>2 DEF ScannerAnswers, TypeOK, workerVars, bounds
<1> QED
  BY <1>1, <1>2 DEF WorkerPosts, WorkerDies

LEMMA RestartTypes ==
  ASSUME TypeOK, Restart
  PROVE  TypeOK'
<1>1. pc' \in [Users -> Active \cup {"new", "waiting", "done"}]
  BY DEF Restart
<1>2. restarts' \in 0..MaxRestarts
  BY OffscreenAssumption DEF Restart, TypeOK
<1> QED
  BY <1>1, <1>2 DEF Restart, TypeOK, document, workerVars

LEMMA StepTypes == TypeOK /\ [Next]_vars => TypeOK'
<1> SUFFICES ASSUME TypeOK, [Next]_vars PROVE TypeOK'
  OBVIOUS
<1>1. CASE UNCHANGED vars
  BY <1>1 DEF TypeOK, vars, background, callers, document, workerVars, bounds
<1>2. ASSUME NEW t \in Txs, Send(t) \/ Resume(t)
      PROVE  TypeOK'
  BY <1>2, SendingTypes
<1>3. ASSUME NEW s \in Scans, Encrypt(s)
      PROVE  TypeOK'
  BY <1>3, MoveTypes DEF Users
<1>4. ASSUME NEW u \in Users,
             \/ Ensure(u) \/ EnsureFails(u) \/ PollAnswered(u) \/ GiveUp(u)
             \/ Recreate(u) \/ PollTimesOut(u) \/ RecreateFails(u) \/ ChannelClosed(u)
      PROVE  TypeOK'
  BY <1>4, MoveTypes, EndingTypes, EnsuringTypes
<1> QED
  BY <1>1, <1>2, <1>3, <1>4, DocumentTypes, WorkingTypes, AnsweringTypes, RestartTypes
     DEF Next

-----------------------------------------------------------------------------
(* The transactions in the background                                      *)

(* What steps that start no transaction do to those that wait.             *)
LEMMA CallersKept ==
  ASSUME CallInv, prior' = prior, crowded' = crowded,
         \A t \in Txs : \/ pc'[t] = pc[t]
                        \/ pc[t] \in Active /\ pc'[t] \in Active \cup {"done"},
         txInFlight' = IF txInFlight # None /\ pc'[txInFlight] = "done" THEN None
                       ELSE txInFlight
  PROVE  FlightInv' /\ SerialInv'
<1>1. /\ txInFlight \in Txs \cup {None} /\ None \notin Txs
      /\ "new" \notin Active /\ "waiting" \notin Active /\ "done" \notin Active
  BY OffscreenAssumption DEF CallInv, TypeOK, Active
<1>2. FlightInv'
  BY <1>1 DEF CallInv, FlightInv
<1>3. Unfinished' \subseteq Unfinished
  BY <1>1 DEF Unfinished
<1>4. SerialInv'
  <2> SUFFICES ASSUME ~crowded
               PROVE  /\ \A t \in Txs : pc'[t] \in Active => txInFlight' = t
                      /\ \A t \in Txs : pc'[t] = "waiting" =>
                           /\ prior[t] \in Txs /\ pc'[prior[t]] \in Active \cup {"done"}
                           /\ Unfinished' \subseteq {t, prior[t]}
    BY DEF SerialInv
  <2>1. \A t \in Txs : pc'[t] \in Active => txInFlight' = t
    BY <1>1 DEF CallInv, SerialInv
  <2>2. ASSUME NEW t \in Txs, pc'[t] = "waiting"
        PROVE  /\ prior[t] \in Txs /\ pc'[prior[t]] \in Active \cup {"done"}
               /\ Unfinished' \subseteq {t, prior[t]}
    <3>1. pc[t] = "waiting"
      BY <1>1, <2>2
    <3> QED
      BY <1>3, <3>1 DEF CallInv, SerialInv
  <2> QED
    BY <2>1, <2>2
<1> QED
  BY <1>2, <1>4

(* The call of u, which uses the document, is over.                        *)
LEMMA EndKeeps ==
  ASSUME CallInv, NEW u \in Users, pc[u] \in Active, NEW a, End(u, a), crowded' = crowded
  PROVE  FlightInv' /\ SerialInv'
<1>1. /\ pc' = [pc EXCEPT ![u] = "done"] /\ prior' = prior
      /\ txInFlight' = IF txInFlight = u THEN None ELSE txInFlight
  BY DEF End
<1>2. /\ \A t \in Users : pc'[t] = IF t = u THEN "done" ELSE pc[t]
      /\ Txs \subseteq Users
      /\ txInFlight \in Txs \cup {None} /\ None \notin Users /\ "done" \notin Active
  BY <1>1, OffscreenAssumption DEF CallInv, TypeOK, Users, Active
<1>3. txInFlight # None => pc[txInFlight] \in Active
  BY DEF CallInv, FlightInv
<1>4. txInFlight' = IF txInFlight # None /\ pc'[txInFlight] = "done" THEN None
                    ELSE txInFlight
  BY <1>1, <1>2, <1>3
<1> QED
  BY <1>1, <1>2, <1>4, CallersKept

(* A caller goes on using the document.                                    *)
LEMMA MoveKeeps ==
  ASSUME CallInv, NEW u \in Users, NEW label \in Active, pc[u] \in Active \/ u \in Scans,
         Goto(u, label), UNCHANGED <<txInFlight, prior, crowded>>
  PROVE  FlightInv' /\ SerialInv'
<1>1. /\ \A t \in Users : pc'[t] = IF t = u THEN label ELSE pc[t]
      /\ Txs \subseteq Users /\ Txs \cap Scans = {} /\ "done" \notin Active
      /\ txInFlight \in Txs \cup {None}
  BY OffscreenAssumption DEF Goto, CallInv, TypeOK, Users, Active
<1>2. txInFlight # None => pc'[txInFlight] # "done"
  BY <1>1 DEF CallInv, FlightInv
<1> QED
  BY <1>1, <1>2, CallersKept

(* Two that are unfinished are the same, when the third is yet to come.    *)
LEMMA FewUnfinished ==
  ASSUME ~(Cardinality(Unfinished) >= 2), NEW t \in Unfinished, NEW u \in Unfinished
  PROVE  t = u
<1>1. IsFiniteSet(Unfinished)
  BY OffscreenAssumption, FS_Subset DEF Unfinished
<1>2. Cardinality(Unfinished) \in Nat /\ Cardinality(Unfinished) # 0
  BY <1>1, FS_CardinalityType, FS_EmptySet
<1>3. Cardinality(Unfinished) = 1
  BY <1>2
<1> QED
  BY <1>1, <1>3, FS_Singleton

(* trackTx: the new transaction is in flight, or waits for the one that is.*)
LEMMA SendKeeps ==
  ASSUME CallInv, NEW t \in Txs, Send(t)
  PROVE  FlightInv' /\ SerialInv'
<1>1. /\ pc[t] = "new" /\ crowded' = (crowded \/ Cardinality(Unfinished) >= 2)
      /\ \A u \in Txs : ~Resumable(u)
  BY DEF Send
<1>2. /\ txInFlight \in Txs \cup {None} /\ None \notin Txs /\ Txs \subseteq Users
      /\ pc \in [Users -> Active \cup {"new", "waiting", "done"}]
      /\ prior \in [Users -> Txs \cup {None}]
      /\ "new" \notin Active /\ "waiting" \notin Active /\ "done" \notin Active
      /\ "ensuring" \in Active
  BY OffscreenAssumption DEF CallInv, TypeOK, Active, Users
<1>3. \A u \in Txs : u # t => pc'[u] = pc[u] /\ prior'[u] = prior[u]
  BY <1>2 DEF Send, Goto
<1>4. CASE txInFlight = None
  <2>1. pc'[t] = "ensuring" /\ txInFlight' = t
    BY <1>2, <1>4 DEF Send, Goto
  <2>2. ASSUME ~crowded, NEW u \in Txs
        PROVE  pc[u] \notin Active /\ pc[u] # "waiting"
    BY <1>1, <1>2, <1>4, <2>2 DEF CallInv, SerialInv, Resumable
  <2>3. FlightInv'
    BY <1>2, <2>1 DEF FlightInv
  <2>4. SerialInv'
    BY <1>1, <1>2, <1>3, <2>1, <2>2 DEF SerialInv
  <2> QED
    BY <2>3, <2>4
<1>5. CASE txInFlight # None
  <2> DEFINE x == txInFlight
  <2>1. x \in Txs /\ pc[x] \in Active /\ x # t /\ x \in Unfinished
    BY <1>1, <1>2, <1>5 DEF CallInv, FlightInv, Unfinished
  <2>2. pc'[t] = "waiting" /\ prior'[t] = x /\ txInFlight' = x
    BY <1>2, <1>5 DEF Send, Goto
  <2>3. FlightInv'
    BY <1>2, <1>3, <2>1, <2>2 DEF FlightInv
  <2>4. SerialInv'
    <3> SUFFICES ASSUME ~crowded'
                 PROVE  SerialInv'
      BY DEF SerialInv
    <3>1. \A u \in Unfinished : u = x
      BY <1>1, <2>1, FewUnfinished
    <3>2. \A u \in Txs : pc[u] \in Active \/ pc[u] = "waiting" => u = x
      BY <1>2, <3>1 DEF Unfinished
    <3>3. Unfinished' \subseteq {t, x}
      BY <1>3, <3>1 DEF Unfinished
    <3> QED
      BY <1>2, <1>3, <2>1, <2>2, <3>2, <3>3 DEF SerialInv
  <2> QED
    BY <2>3, <2>4
<1> QED
  BY <1>4, <1>5

(* The transaction it waited for is over: it is in flight now.             *)
LEMMA ResumeKeeps ==
  ASSUME CallInv, NEW t \in Txs, Resume(t)
  PROVE  FlightInv' /\ SerialInv'
<1>1. /\ pc[t] = "waiting" /\ pc[prior[t]] = "done" /\ Goto(t, "ensuring")
      /\ txInFlight' = t /\ crowded' = crowded
  BY DEF Resume, Resumable
<1>2. /\ Txs \subseteq Users /\ pc \in [Users -> Active \cup {"new", "waiting", "done"}]
      /\ "new" \notin Active /\ "waiting" \notin Active /\ "done" \notin Active
      /\ "ensuring" \in Active /\ None \notin Txs
  BY OffscreenAssumption DEF CallInv, TypeOK, Active, Users
<1>3. pc'[t] = "ensuring" /\ \A u \in Txs : u # t => pc'[u] = pc[u]
  BY <1>1, <1>2 DEF Goto
<1>4. ASSUME ~crowded, NEW u \in Txs, u # t
      PROVE  pc[u] \notin Active /\ pc[u] # "waiting"
  <2>1. Unfinished \subseteq {t, prior[t]}
    BY <1>1, <1>4 DEF CallInv, SerialInv
  <2> QED
    BY <1>1, <1>2, <1>4, <2>1 DEF Unfinished
<1>5. FlightInv'
  BY <1>1, <1>2, <1>3 DEF FlightInv
<1>6. SerialInv'
  BY <1>1, <1>2, <1>3, <1>4 DEF SerialInv
<1> QED
  BY <1>5, <1>6

(* A result of the worker ends the calls of all it is told to.             *)
LEMMA FinishKeeps ==
  ASSUME CallInv, NEW result, Finish(result)
  PROVE  FlightInv' /\ SerialInv'
<1> DEFINE told == {t \in listeners \cap Txs : pc[t] = "served"}
<1>1. /\ pc' = [u \in Users |-> IF u \in told THEN "done" ELSE pc[u]]
      /\ txInFlight' = IF txInFlight \in told THEN None ELSE txInFlight
      /\ UNCHANGED <<prior, crowded>>
  BY DEF Finish
<1>2. Txs \subseteq Users /\ \A t \in told : pc[t] \in Active
  BY DEF Users, Active
<1>3. txInFlight' = IF txInFlight # None /\ pc'[txInFlight] = "done" THEN None
                    ELSE txInFlight
  <2>1. txInFlight \in Txs \cup {None} /\ None \notin Txs
    BY OffscreenAssumption DEF CallInv, TypeOK
  <2>2. txInFlight # None => pc[txInFlight] # "done"
    BY DEF CallInv, FlightInv, Active
  <2> QED
    BY <1>1, <1>2, <2>1, <2>2
<1> QED
  BY <1>1, <1>2, <1>3, CallersKept

LEMMA CallStep == CallInv /\ [Next]_vars => CallInv'
<1> SUFFICES ASSUME CallInv, [Next]_vars PROVE FlightInv' /\ SerialInv'
  BY StepTypes DEF CallInv
<1>1. ASSUME NEW u \in Users,
             \/ Ensure(u) \/ Recreate(u) \/ PollAnswered(u) \/ GiveUp(u)
             \/ u \in Scans /\ (Encrypt(u) \/ ScannerEncrypts(u))
             \/ u \in Txs /\ RunWorkerTask(u)
      PROVE  FlightInv' /\ SerialInv'
  <2>1. /\ pc[u] \in Active \/ u \in Scans
        /\ \/ Goto(u, "polling") \/ Goto(u, "sending") \/ Goto(u, "recreating")
           \/ Goto(u, "ensuring") \/ Goto(u, "served")
        /\ UNCHANGED <<txInFlight, prior, crowded>>
    BY <1>1 DEF Ensure, Recreate, PollAnswered, GiveUp, Encrypt, ScannerEncrypts,
                RunWorkerTask, Active, background
  <2> QED
    BY <2>1, MoveKeeps DEF Active
<1>2. ASSUME NEW u \in Users,
             \/ EnsureFails(u) \/ PollTimesOut(u) \/ ChannelClosed(u) \/ RecreateFails(u)
             \/ \E a \in {"ok", "error"} : ScannerAnswers(u, a)
      PROVE  FlightInv' /\ SerialInv'
  <2>1. pc[u] \in Active /\ crowded' = crowded /\ \E a : End(u, a)
    BY <1>2 DEF EnsureFails, PollTimesOut, ChannelClosed, RecreateFails, ScannerAnswers, Active
  <2> QED
    BY <2>1, EndKeeps
<1>3. CASE \/ PageLoads \/ DocumentDropped \/ StopSending
           \/ WorkerInited \/ TaskStarts \/ Broadcast \/ UNCHANGED vars
  <2>1. UNCHANGED <<pc, prior, txInFlight, crowded>>
    BY <1>3 DEF PageLoads, DocumentDropped, StopSending, WorkerInited, TaskStarts, Broadcast,
                vars, background, callers
  <2>2. txInFlight # None => pc[txInFlight] # "done"
    BY DEF CallInv, FlightInv, Active
  <2> QED
    BY <2>1, <2>2, CallersKept
<1>4. CASE Restart
  <2>1. txInFlight' = None /\ \A t \in Txs : pc'[t] \in {"new", "done"}
    BY <1>4 DEF Restart, Users
  <2> QED
    BY <2>1 DEF FlightInv, SerialInv, Active
<1>5. ASSUME NEW r, WorkerPosts(r) \/ WorkerDies
      PROVE  FlightInv' /\ SerialInv'
  BY <1>5, FinishKeeps DEF WorkerPosts, WorkerDies
<1> QED
  BY <1>1, <1>2, <1>3, <1>4, <1>5, SendKeeps, ResumeKeeps DEF Next, Users

-----------------------------------------------------------------------------
(* The tasks of the worker, whatever overlaps                              *)

Unanswered == \A u \in Users : pc[u] # "done" => answer[u] = None

TaskInv == TypeOK /\ Unanswered /\ OneTaskEach

(* Those the document serves, and its worker, stay.                        *)
LEMMA TasksKept ==
  ASSUME OneTaskEach, UNCHANGED <<isSendingTx, worker, tasks, proving>>,
         Accepted' = Accepted,
         \A t \in Accepted : pc'[t] \in {"served", "done"} /\ answer'[t] = answer[t]
  PROVE  OneTaskEach'
  BY DEF OneTaskEach

LEMMA TasksFresh ==
  ASSUME NEW state, FreshDocument(state)
  PROVE  OneTaskEach'
  BY DEF FreshDocument, OneTaskEach, Accepted

(* A call of one that the document does not serve, or of a registration.   *)
LEMMA OtherCall ==
  ASSUME TaskInv, NEW u \in Users, u \notin Accepted, NEW label, NEW a,
         pc' = [pc EXCEPT ![u] = label], answer' \in {answer, [answer EXCEPT ![u] = a]},
         label = "done" \/ (answer' = answer /\ pc[u] # "done")
  PROVE  /\ Unanswered'
         /\ \A t \in Accepted : pc'[t] \in {"served", "done"} /\ answer'[t] = answer[t]
<1>1. /\ \A v \in Users : v # u => pc'[v] = pc[v] /\ answer'[v] = answer[v]
      /\ pc'[u] = label /\ (label # "done" => answer'[u] = answer[u])
      /\ Accepted \subseteq Users
  BY DEF TaskInv, TypeOK, Accepted, Users
<1> QED
  BY <1>1 DEF TaskInv, Unanswered, OneTaskEach

LEMMA OthersKeepTasks ==
  ASSUME TaskInv, NEW u \in Users,
         \/ PollAnswered(u) \/ GiveUp(u) \/ PollTimesOut(u) \/ ChannelClosed(u)
         \/ Ensure(u) \/ EnsureFails(u) \/ Recreate(u) \/ RecreateFails(u)
         \/ u \in Txs /\ (Send(u) \/ Resume(u))
         \/ u \in Scans /\ Encrypt(u)
  PROVE  Unanswered' /\ OneTaskEach'
<1>1. u \notin Accepted
  <2>1. u \in Accepted => pc[u] \in {"served", "done"} /\ u \in listeners
    BY DEF TaskInv, OneTaskEach, Accepted
  <2> QED
    BY <2>1 DEF PollAnswered, GiveUp, PollTimesOut, ChannelClosed, Ensure, EnsureFails,
      Recreate, RecreateFails, Send, Resume, Resumable, Encrypt
<1>2. \E label, a : /\ pc' = [pc EXCEPT ![u] = label]
                    /\ answer' \in {answer, [answer EXCEPT ![u] = a]}
                    /\ label = "done" \/ (answer' = answer /\ pc[u] # "done")
  <2>1. CASE \E a : End(u, a)
    BY <2>1 DEF End
  <2>2. CASE \E label : Goto(u, label) /\ pc[u] # "done" /\ UNCHANGED answer
    BY <2>2 DEF Goto
  <2> QED
    BY <2>1, <2>2 DEF PollAnswered, GiveUp, PollTimesOut, ChannelClosed, Ensure, EnsureFails,
      Recreate, RecreateFails, Send, Resume, Resumable, Encrypt
<1>3. /\ Unanswered'
      /\ \A t \in Accepted : pc'[t] \in {"served", "done"} /\ answer'[t] = answer[t]
  BY <1>1, <1>2, OtherCall
<1>4. CASE \E state : FreshDocument(state)
  BY <1>3, <1>4, TasksFresh
<1>5. CASE UNCHANGED document
  BY <1>3, <1>5, TasksKept DEF document, workerVars, Accepted, TaskInv
<1> QED
  BY <1>4, <1>5 DEF PollAnswered, GiveUp, PollTimesOut, ChannelClosed, Ensure, EnsureFails,
    Recreate, RecreateFails, Send, Resume, Encrypt

LEMMA ScansKeepTasks ==
  ASSUME TaskInv, NEW s \in Scans,
         ScannerEncrypts(s) \/ \E a \in {"ok", "error"} : ScannerAnswers(s, a)
  PROVE  Unanswered' /\ OneTaskEach'
<1>0. s \in Users /\ s \notin Txs /\ s \notin Accepted
  BY OffscreenAssumption DEF Users, Accepted
<1>1. \E label, a : /\ pc' = [pc EXCEPT ![s] = label]
                    /\ answer' \in {answer, [answer EXCEPT ![s] = a]}
                    /\ label = "done" \/ (answer' = answer /\ pc[s] # "done")
  BY DEF ScannerEncrypts, ScannerAnswers, Goto, End
<1>2. /\ Unanswered'
      /\ \A t \in Accepted : pc'[t] \in {"served", "done"} /\ answer'[t] = answer[t]
  BY <1>0, <1>1, OtherCall
<1>3. /\ UNCHANGED <<isSendingTx, worker, tasks, proving>>
      /\ listeners' \in {listeners \cup {s}, listeners \ {s}}
  BY DEF ScannerEncrypts, ScannerAnswers, workerVars
<1>4. Accepted' = Accepted
  BY <1>0, <1>3 DEF Accepted
<1> QED
  BY <1>2, <1>3, <1>4, TasksKept DEF TaskInv

(* A transaction is accepted: its task is posted at once, or with those of *)
(* all that wait for the worker to start.                                  *)
LEMMA AcceptedHasTask ==
  ASSUME TaskInv, NEW t \in Txs, RunWorkerTask(t)
  PROVE  Unanswered' /\ OneTaskEach'
<1>1. /\ pc[t] = "sending" /\ pc' = [pc EXCEPT ![t] = "served"] /\ UNCHANGED <<answer, proving>>
      /\ listeners' = listeners \cup {t} /\ isSendingTx' = TRUE
      /\ worker' = IF worker = "none" THEN "starting" ELSE worker
      /\ tasks' = IF worker = "inited" THEN Append(tasks, t) ELSE tasks
  BY DEF RunWorkerTask, Goto
<1>2. t \in Users /\ t \notin Accepted /\ Accepted' = Accepted \cup {t} /\ t # None
  BY <1>1, OffscreenAssumption DEF Users, Accepted, TaskInv, OneTaskEach
<1>3. /\ Unanswered'
      /\ \A u \in Accepted : pc'[u] \in {"served", "done"} /\ answer'[u] = answer[u]
  BY <1>1, <1>2, OtherCall
<1>4. \A u \in Accepted' : pc'[u] \in {"served", "done"} /\ answer'[u] = None
  <2>1. pc'[t] = "served" /\ answer'[t] = None
    BY <1>1, <1>2 DEF TaskInv, TypeOK, Unanswered
  <2> QED
    BY <1>1, <1>2, <1>3, <2>1 DEF TaskInv, OneTaskEach
<1>5. CASE worker = "inited"
  <2>1. /\ tasks \in Seq(Txs) /\ tasks' = Append(tasks, t)
        /\ DOMAIN tasks' = 1..(Len(tasks) + 1) /\ DOMAIN tasks = 1..Len(tasks)
        /\ Len(tasks) \in Nat /\ tasks'[Len(tasks) + 1] = t
        /\ \A i \in 1..Len(tasks) : tasks'[i] = tasks[i]
    BY <1>1, <1>5 DEF TaskInv, TypeOK
  <2>2. \A i \in DOMAIN tasks' : i \in DOMAIN tasks \/ i = Len(tasks) + 1
    BY <2>1
  <2>3. /\ \A u \in Txs : u \in Accepted <=> u = proving \/ \E i \in DOMAIN tasks : tasks[i] = u
        /\ \A i, j \in DOMAIN tasks : tasks[i] = tasks[j] => i = j
        /\ \A i \in DOMAIN tasks : tasks[i] # proving /\ tasks[i] \in Txs
    BY <1>5, <2>1 DEF TaskInv, OneTaskEach
  <2>4. t # proving /\ \A i \in DOMAIN tasks : tasks[i] # t
    BY <1>2, <2>3
  <2>5. \A u \in Txs : u \in Accepted' <=>
          u = proving' \/ \E i \in DOMAIN tasks' : tasks'[i] = u
    BY <1>1, <1>2, <2>1, <2>2, <2>3
  <2>6. \A i, j \in DOMAIN tasks' : tasks'[i] = tasks'[j] => i = j
    BY <2>1, <2>2, <2>3, <2>4
  <2>7. \A i \in DOMAIN tasks' : tasks'[i] # proving'
    BY <1>1, <2>1, <2>2, <2>3, <2>4
  <2> QED
    BY <1>1, <1>2, <1>3, <1>4, <1>5, <2>5, <2>6, <2>7 DEF OneTaskEach
<1>6. CASE worker # "inited"
  BY <1>1, <1>2, <1>3, <1>4, <1>6 DEF TaskInv, TypeOK, OneTaskEach
<1> QED
  BY <1>5, <1>6

(* Who listens when the worker has started posts one task.                 *)
LEMMA StartedHasAll ==
  ASSUME TaskInv, WorkerInited
  PROVE  Unanswered' /\ OneTaskEach'
<1> DEFINE n == Cardinality(Accepted)
<1>1. /\ worker = "starting" /\ worker' = "inited" /\ tasks' \in [1..n -> Accepted]
      /\ \A i, j \in DOMAIN tasks' : tasks'[i] = tasks'[j] => i = j
      /\ UNCHANGED <<pc, answer, listeners, isSendingTx, proving>>
  BY DEF WorkerInited, callers, Accepted
<1>2. IsFiniteSet(Accepted) /\ n \in Nat
  BY OffscreenAssumption, FS_Subset, FS_CardinalityType DEF Accepted
<1>3. tasks' \in Injection(1..n, Accepted)
  BY <1>1, Fun_IsInj
<1>4. Cardinality(1..n) = n
  BY <1>2, FS_Interval
<1> HIDE DEF n
<1>5. tasks' \in Surjection(1..n, Accepted)
  BY <1>2, <1>3, <1>4, FS_Injection DEF n
<1>6. /\ DOMAIN tasks' = 1..n /\ \A i \in 1..n : tasks'[i] \in Accepted
      /\ \A t \in Accepted : \E i \in 1..n : tasks'[i] = t
  BY <1>1, <1>5 DEF Surjection
<1>7. Accepted' = Accepted /\ Accepted \subseteq Txs /\ None \notin Txs /\ proving = None
  BY <1>1, OffscreenAssumption DEF Accepted, TaskInv, OneTaskEach
<1> QED
  BY <1>1, <1>6, <1>7 DEF TaskInv, Unanswered, OneTaskEach

LEMMA TakenIsTask ==
  ASSUME TaskInv, TaskStarts
  PROVE  Unanswered' /\ OneTaskEach'
<1>1. /\ proving = None /\ tasks # <<>> /\ proving' = Head(tasks) /\ tasks' = Tail(tasks)
      /\ UNCHANGED <<pc, answer, listeners, isSendingTx, worker>>
      /\ tasks \in Seq(Txs) /\ None \notin Txs
  BY OffscreenAssumption DEF TaskStarts, callers, TaskInv, TypeOK
<1>2. /\ proving' = tasks[1] /\ Len(tasks) \in Nat \ {0} /\ DOMAIN tasks = 1..Len(tasks)
      /\ DOMAIN tasks' = 1..(Len(tasks) - 1)
      /\ \A i \in 1..(Len(tasks) - 1) : tasks'[i] = tasks[i + 1]
  BY <1>1
<1>3. worker = "inited" /\ Accepted' = Accepted
  BY <1>1 DEF TaskInv, OneTaskEach, Accepted
<1>4. /\ \A u \in Txs : u \in Accepted <=> u = proving \/ \E i \in DOMAIN tasks : tasks[i] = u
      /\ \A i, j \in DOMAIN tasks : tasks[i] = tasks[j] => i = j
      /\ \A i \in DOMAIN tasks : tasks[i] # proving /\ tasks[i] \in Txs
  BY <1>1, <1>3 DEF TaskInv, OneTaskEach
<1>5. \A i \in DOMAIN tasks' : i + 1 \in DOMAIN tasks /\ i + 1 # 1
  BY <1>2
<1>6. \A i \in DOMAIN tasks : i = 1 \/ (i - 1 \in DOMAIN tasks' /\ tasks'[i - 1] = tasks[i])
  BY <1>2
<1>7. ASSUME NEW u \in Txs
      PROVE  u \in Accepted' <=> u = proving' \/ \E i \in DOMAIN tasks' : tasks'[i] = u
  <2>1. u \in Accepted <=> \E i \in DOMAIN tasks : tasks[i] = u
    BY <1>1, <1>4
  <2>2. ASSUME NEW i \in DOMAIN tasks, tasks[i] = u
        PROVE  u = proving' \/ \E j \in DOMAIN tasks' : tasks'[j] = u
    BY <1>2, <1>6, <2>2
  <2>3. ASSUME NEW j \in DOMAIN tasks', tasks'[j] = u
        PROVE  \E i \in DOMAIN tasks : tasks[i] = u
    BY <1>2, <1>5, <2>3
  <2>4. 1 \in DOMAIN tasks /\ proving' = tasks[1]
    BY <1>2
  <2> QED
    BY <1>3, <2>1, <2>2, <2>3, <2>4
<1>8. \A i, j \in DOMAIN tasks' : tasks'[i] = tasks'[j] => i = j
  BY <1>2, <1>4, <1>5
<1>9. \A i \in DOMAIN tasks' : tasks'[i] # proving'
  BY <1>2, <1>4, <1>5
<1> QED
  BY <1>1, <1>3, <1>7, <1>8, <1>9 DEF TaskInv, Unanswered, OneTaskEach

LEMMA AnsweredHasNone ==
  ASSUME TaskInv, NEW result, Finish(result)
  PROVE  Unanswered' /\ OneTaskEach'
<1>1. /\ listeners' = listeners \ Txs /\ isSendingTx' = FALSE /\ worker' = "none"
      /\ tasks' = <<>> /\ proving' = None
  BY DEF Finish
<1>2. Accepted' = {}
  BY <1>1 DEF Accepted
<1>3. \A u \in Users : pc'[u] = "done" \/ (pc'[u] = pc[u] /\ answer'[u] = answer[u])
  BY DEF Finish
<1> QED
  BY <1>1, <1>2, <1>3 DEF TaskInv, Unanswered, OneTaskEach

LEMMA TasksStep == TaskInv /\ [Next]_vars => TaskInv'
<1> SUFFICES ASSUME TaskInv, [Next]_vars PROVE Unanswered' /\ OneTaskEach'
  BY StepTypes DEF TaskInv
<1>1. CASE /\ UNCHANGED <<pc, answer, isSendingTx, worker, tasks, proving, listeners>>
  BY <1>1, TasksKept DEF TaskInv, Unanswered, OneTaskEach, Accepted
<1>2. CASE PageLoads \/ Broadcast \/ UNCHANGED vars
  BY <1>1, <1>2 DEF PageLoads, Broadcast, vars, callers, document, workerVars
<1>3. CASE DocumentDropped \/ StopSending
  <2>1. Unanswered'
    BY <1>3 DEF DocumentDropped, StopSending, callers, TaskInv, Unanswered
  <2>2. CASE \E state : FreshDocument(state)
    BY <2>1, <2>2, TasksFresh
  <2>3. CASE UNCHANGED <<document, callers>>
    BY <1>1, <2>3 DEF document, callers, workerVars
  <2> QED
    BY <1>3, <2>2, <2>3 DEF DocumentDropped, StopSending
<1>4. CASE Restart
  <2>1. /\ UNCHANGED <<answer, isSendingTx, worker, tasks, proving, listeners>>
        /\ \A u \in Users : pc'[u] = IF pc[u] = "new" THEN "new" ELSE "done"
    BY <1>4 DEF Restart, document, workerVars
  <2>2. Unanswered'
    BY <2>1 DEF TaskInv, Unanswered
  <2>3. Accepted' = Accepted /\ Accepted \subseteq Users
    BY <2>1 DEF Accepted, Users
  <2>4. \A t \in Accepted : pc'[t] = "done"
    BY <2>1, <2>3 DEF TaskInv, OneTaskEach
  <2> QED
    BY <2>1, <2>2, <2>3, <2>4, TasksKept DEF TaskInv
<1>5. ASSUME NEW r, WorkerPosts(r) \/ WorkerDies
      PROVE  Unanswered' /\ OneTaskEach'
  BY <1>5, AnsweredHasNone DEF WorkerPosts, WorkerDies
<1>6. ASSUME NEW t \in Txs, Send(t) \/ Resume(t)
      PROVE  Unanswered' /\ OneTaskEach'
  BY <1>6, OthersKeepTasks DEF Users
<1>7. ASSUME NEW s \in Scans, Encrypt(s)
      PROVE  Unanswered' /\ OneTaskEach'
  BY <1>7, OthersKeepTasks DEF Users
<1> QED
  BY <1>2, <1>3, <1>4, <1>5, <1>6, <1>7, OthersKeepTasks, ScansKeepTasks, AcceptedHasTask,
    StartedHasAll, TakenIsTask DEF Next

-----------------------------------------------------------------------------
(* Every variable stays within its type, whatever overlaps.                *)
THEOREM TypeIsKept == Spec => []TypeOK
<1>1. Init => TypeOK
  BY InitTypes
<1>2. TypeOK /\ [Next]_vars => TypeOK'
  BY StepTypes
<1> QED
  BY <1>1, <1>2, PTL DEF Spec

(* The background's invariant holds in every state.                        *)
LEMMA CallsInvariance == Spec => []CallInv
<1>1. Init => CallInv
  <2> SUFFICES ASSUME Init PROVE FlightInv /\ SerialInv
    BY InitTypes DEF CallInv
  <2>1. txInFlight = None /\ \A t \in Txs : pc[t] = "new"
    BY DEF Init, Users
  <2> QED
    BY <2>1 DEF FlightInv, SerialInv, Active
<1> QED
  BY <1>1, CallStep, PTL DEF Spec

(* Overlapping requests are serialized, as the comment at offscreen.ts:97  *)
(* says of any number of them, until three are unfinished at a time.       *)
THEOREM SerializedUntilCrowdedHolds == Spec => []SerializedUntilCrowded
<1>1. CallInv => SerializedUntilCrowded
  BY DEF CallInv, SerialInv, SerializedUntilCrowded, Serialized
<1> QED
  BY <1>1, CallsInvariance, PTL

(* What the document has accepted, and its worker, are in step.            *)
LEMMA TasksInvariance == Spec => []TaskInv
<1>1. Init => TaskInv
  <2> SUFFICES ASSUME Init PROVE Unanswered /\ OneTaskEach
    BY InitTypes DEF TaskInv
  <2> QED
    BY DEF Init, Unanswered, OneTaskEach, Accepted
<1> QED
  BY <1>1, TasksStep, PTL DEF Spec

(* A transaction the document has accepted has one task until it is        *)
(* answered, and the worker and the flag last as long as there is one,     *)
(* whatever overlaps, is dropped or restarted (runWorkerTask).             *)
THEOREM TasksAreOne == Spec => []OneTaskEach
<1>1. TaskInv => OneTaskEach
  BY DEF TaskInv
<1> QED
  BY <1>1, TasksInvariance, PTL

(* The wallet says that it sends a transaction from before the document    *)
(* knows of it until the end, until three are unfinished at a time; that   *)
(* the document works, and never afterwards, however many there are        *)
(* (isSendingAleoTransaction).                                             *)
THEOREM StatusStaysRight == Spec => []StatusIsRight
<1>1. CallInv /\ TaskInv => StatusIsRight
  <2> SUFFICES ASSUME CallInv, TaskInv PROVE StatusIsRight
    OBVIOUS
  <2>1. /\ ~crowded => \A t \in Txs : pc[t] \in Active => txInFlight = t /\ t # None
        /\ txInFlight # None => txInFlight \in Txs /\ pc[txInFlight] \in Active
    BY OffscreenAssumption DEF CallInv, FlightInv, SerialInv, TypeOK
  <2>2. Unfinished = {} => txInFlight = None
    BY <2>1 DEF Unfinished, Active
  <2>3. listeners = {} => ~isSendingTx
    BY DEF TaskInv, OneTaskEach, Accepted
  <2>4. proving # None => isSendingTx
    BY DEF TaskInv, OneTaskEach
  <2> QED
    BY <2>1, <2>2, <2>3, <2>4 DEF StatusIsRight
<1> QED
  BY <1>1, CallsInvariance, TasksInvariance, PTL

(* A result that the worker posts is that of a transaction the document    *)
(* still listens to, and reaches only those it listens to.                 *)
LEMMA ResultsAreOfListeners ==
  ASSUME TaskInv, [Next]_vars, NEW t \in Txs, answer[t] = None, answer'[t] \in Txs
  PROVE  t \in Accepted /\ answer'[t] \in Accepted
<1>0. t \in Users /\ None \notin Txs /\ "ok" \notin Txs /\ "error" \notin Txs
      /\ answer \in [Users -> Txs \cup {None, "ok", "error"}]
  BY OffscreenAssumption DEF Users, TaskInv, TypeOK
<1>1. ASSUME NEW u \in Users, NEW a \in {"ok", "error"}, End(u, a)
      PROVE  FALSE
  BY <1>0, <1>1 DEF End
<1>2. CASE UNCHANGED answer
  BY <1>0, <1>2
<1>3. ASSUME NEW r \in Txs \cup {"error"}, WorkerPosts(r)
      PROVE  t \in Accepted /\ answer'[t] \in Accepted
  <2>1. /\ proving # None /\ (r = "error" \/ r = proving)
        /\ answer'[t] = IF t \in listeners \cap Txs /\ pc[t] = "served" THEN r ELSE answer[t]
    BY <1>0, <1>3 DEF WorkerPosts, Finish
  <2>2. t \in Accepted /\ answer'[t] = proving /\ proving \in Txs
    BY <1>0, <2>1 DEF Accepted
  <2>3. worker = "inited"
    BY <2>1 DEF TaskInv, OneTaskEach
  <2> QED
    BY <2>2, <2>3 DEF TaskInv, OneTaskEach
<1>4. CASE WorkerDies
  BY <1>0, <1>4 DEF WorkerDies, Finish
<1>5. ASSUME NEW u \in Users,
             \/ Ensure(u) \/ EnsureFails(u) \/ PollAnswered(u) \/ GiveUp(u)
             \/ Recreate(u) \/ PollTimesOut(u) \/ RecreateFails(u) \/ ChannelClosed(u)
      PROVE  t \in Accepted /\ answer'[t] \in Accepted
  BY <1>1, <1>2, <1>5 DEF Ensure, EnsureFails, PollAnswered, GiveUp, Recreate, PollTimesOut,
    RecreateFails, ChannelClosed
<1>6. ASSUME NEW s \in Scans,
             Encrypt(s) \/ ScannerEncrypts(s) \/ \E a \in {"ok", "error"} : ScannerAnswers(s, a)
      PROVE  t \in Accepted /\ answer'[t] \in Accepted
  BY <1>1, <1>2, <1>6 DEF Encrypt, ScannerEncrypts, ScannerAnswers, Users
<1>7. ASSUME NEW u \in Txs, Send(u) \/ Resume(u) \/ RunWorkerTask(u)
      PROVE  t \in Accepted /\ answer'[t] \in Accepted
  BY <1>2, <1>7 DEF Send, Resume, RunWorkerTask
<1>8. CASE \/ PageLoads \/ DocumentDropped \/ StopSending \/ WorkerInited \/ TaskStarts
           \/ Broadcast \/ Restart \/ UNCHANGED vars
  BY <1>2, <1>8 DEF PageLoads, DocumentDropped, StopSending, WorkerInited, TaskStarts,
    Broadcast, Restart, vars, callers
<1> QED
  BY <1>3, <1>4, <1>5, <1>6, <1>7, <1>8 DEF Next

(* The results of the worker name no task (index.ts:272): still no result  *)
(* reaches a transaction that the document did not accept together with    *)
(* the one it is of, whatever overlaps, is dropped or restarted.           *)
THEOREM NoStrayAnswerHolds == Spec => NoStrayAnswer
<1>1. TaskInv /\ [Next]_vars =>
        [\A t \in Txs : answer[t] = None /\ answer'[t] \in Txs
                        => {t, answer'[t]} \subseteq Accepted]_vars
  BY ResultsAreOfListeners
<1> QED
  BY <1>1, TasksInvariance, PTL DEF Spec, NoStrayAnswer
=============================================================================
