----------------------------- MODULE DurableLog -----------------------------
(***************************************************************************)
(* What the shared store promises those that dispatch updates to it,       *)
(* however it writes and over whatever ports it is reached: updates go     *)
(* into one log, each at most once and those of a session in the order in  *)
(* which they were sent; an update is acknowledged only once it is in the  *)
(* durable part of the log; the durable part only grows; a crash loses no  *)
(* more than the rest; and an update that is rejected may still be applied.*)
(*                                                                         *)
(* StoreBridge implements this module (StoreBridge!ImplementsLog).         *)
(***************************************************************************)
EXTENDS Naturals, Sequences

CONSTANTS
  Updates,
  Sessions,   \* what keeps the order of what is sent on it: a port
  Old,        \* the log's first entry, written before
  None

VARIABLES
  durable,    \* the part of the log that a crash leaves
  log,        \* the log, which continues it
  session,    \* the session an update was sent on, None before
  sent,       \* the updates sent, in order
  outcome     \* what the sender was told

logVars == <<durable, log, session, sent, outcome>>

Init ==
  /\ durable = <<Old>> /\ log = <<Old>>
  /\ session = [u \in Updates |-> None]
  /\ sent = <<>>
  /\ outcome = [u \in Updates |-> "new"]

InLog(u) == \E i \in DOMAIN log : log[i] = u
IsDurable(u) == \E i \in DOMAIN durable : durable[i] = u

(* v was sent before u.                                                    *)
Earlier(v, u) ==
  \E i, j \in DOMAIN sent : i < j /\ sent[i] = v /\ sent[j] = u

Send(u, c) ==
  /\ outcome[u] = "new"
  /\ outcome' = [outcome EXCEPT ![u] = "pending"]
  /\ session' = [session EXCEPT ![u] = c]
  /\ sent' = Append(sent, u)
  /\ UNCHANGED <<durable, log>>

(* An update is applied after those of its session that were.              *)
Apply(u) ==
  /\ session[u] # None
  /\ ~InLog(u)
  /\ \A i \in DOMAIN log :
       log[i] \in Updates /\ session[log[i]] = session[u] => Earlier(log[i], u)
  /\ log' = Append(log, u)
  /\ UNCHANGED <<durable, session, sent, outcome>>

(* The durable part grows towards the log.                                 *)
Persist(n) ==
  /\ n \in Len(durable)..Len(log)
  /\ durable' = SubSeq(log, 1, n)
  /\ UNCHANGED <<log, session, sent, outcome>>

Acknowledge(u) ==
  /\ outcome[u] = "pending" /\ IsDurable(u)
  /\ outcome' = [outcome EXCEPT ![u] = "resolved"]
  /\ UNCHANGED <<durable, log, session, sent>>

(* A sender that waited too long, or whose session ended.                  *)
Reject(us) ==
  /\ \A u \in us : outcome[u] = "pending"
  /\ outcome' = [u \in Updates |-> IF u \in us THEN "rejected" ELSE outcome[u]]
  /\ UNCHANGED <<durable, log, session, sent>>

Crash(n) ==
  /\ n \in Len(durable)..Len(log)
  /\ durable' = SubSeq(log, 1, n) /\ log' = durable'
  /\ UNCHANGED <<session, sent, outcome>>

Next ==
  \/ \E u \in Updates, c \in Sessions : Send(u, c)
  \/ \E u \in Updates : Apply(u) \/ Acknowledge(u)
  \/ \E us \in SUBSET Updates : Reject(us)
  \/ \E n \in Len(durable)..Len(log) : Persist(n) \/ Crash(n)

Spec == Init /\ [][Next]_logVars
=============================================================================
