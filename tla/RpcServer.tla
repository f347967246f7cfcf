------------------------------ MODULE RpcServer ------------------------------
(***************************************************************************)
(* The JSON-RPC calls that dapp requests are forwarded as (RPCServer.ts).  *)
(* A call asks the nodes of a configured list one after the other, starting*)
(* with the one preferred when the call began, until one gives a result.   *)
(* Calls run concurrently; all those with the same list share a preference.*)
(***************************************************************************)
EXTENDS Naturals, Sequences, FiniteSets

CONSTANTS
  Nodes,        \* RPC URLs
  Lists,        \* rpcUrlList of the configured networks, without duplicates
  Calls,
  Once,         \* the calls of NON_IDEMPOTENT_METHODS
  None,
  MaxRestarts   \* bound: service worker restarts

ASSUME RpcAssumption ==
  /\ Lists \subseteq Seq(Nodes)
  /\ \A l \in Lists :
       /\ l # <<>>
       /\ \A i, j \in 1..Len(l) : l[i] = l[j] => i = j
  /\ Once \subseteq Calls
  /\ None \notin Nodes
  /\ MaxRestarts \in Nat

VARIABLES
  preferences,      \* list -> [url, seq]; url None: no preference
  requestSequence,
  status,           \* "new", "running", "ok", "failed" or "lost"
  list,             \* the list of a call
  sequence,         \* its sequence number
  firstIndex,       \* where it began
  offset,           \* how far it is
  providerError,    \* the node whose error it will report, or None
  asked,            \* history: the nodes a call asked, in order
  refused,          \* history: those that answered with a JSON-RPC error
  session,          \* history: calls since the service worker started
  restarts

shared == <<preferences, requestSequence>>
progress == <<list, sequence, firstIndex>>
vars == <<shared, status, progress, offset, providerError, asked, refused,
          session, restarts>>

NoPreference == [url |-> None, seq |-> 0]

Init ==
  /\ preferences = [l \in Lists |-> NoPreference]
  /\ requestSequence = 0
  /\ status = [c \in Calls |-> "new"]
  /\ list \in [Calls -> Lists]
  /\ sequence = [c \in Calls |-> 0]
  /\ firstIndex = [c \in Calls |-> 0]
  /\ offset = [c \in Calls |-> 0]
  /\ providerError = [c \in Calls |-> None]
  /\ asked = [c \in Calls |-> <<>>]
  /\ refused = [c \in Calls |-> {}]
  /\ session = {}
  /\ restarts = 0

(* indexOf, counted from 0.                                                *)
IndexOf(l, url) == CHOOSE i \in 0..(Len(l) - 1) : l[i + 1] = url

CurrentRpcIndex(l) ==
  IF preferences[l].url = None THEN 0 ELSE IndexOf(l, preferences[l].url)

(* As if the starting node were not a snapshot.                            *)
NodeFromPreference(c, o) ==
  list[c][((CurrentRpcIndex(list[c]) + o) % Len(list[c])) + 1]

(* The node that call c asks at offset o.                                  *)
Node(c, o) == list[c][((firstIndex[c] + o) % Len(list[c])) + 1]

Begin(c) ==
  /\ status[c] = "new"
  /\ status' = [status EXCEPT ![c] = "running"]
  /\ requestSequence' = requestSequence + 1
  /\ sequence' = [sequence EXCEPT ![c] = requestSequence + 1]
  /\ LET first == CurrentRpcIndex(list[c]) IN
       /\ firstIndex' = [firstIndex EXCEPT ![c] = first]
       /\ asked' = [asked EXCEPT ![c] = <<list[c][first + 1]>>]
  /\ session' = session \cup {c}
  /\ UNCHANGED <<preferences, list, offset, providerError, refused, restarts>>

(* As if a late result could undo a newer choice.                          *)
SucceedAlways(c) ==
  /\ status[c] = "running"
  /\ status' = [status EXCEPT ![c] = "ok"]
  /\ preferences' = [preferences EXCEPT ![list[c]] =
       [url |-> Node(c, offset[c]), seq |-> sequence[c]]]
  /\ UNCHANGED <<requestSequence, progress, offset, providerError, asked,
                 refused, session, restarts>>

(* A result becomes the preference unless a newer call has set one.        *)
Succeed(c) ==
  /\ status[c] = "running"
  /\ status' = [status EXCEPT ![c] = "ok"]
  /\ preferences' = [preferences EXCEPT ![list[c]] =
       IF @.url = None \/ sequence[c] >= @.seq
       THEN [url |-> Node(c, offset[c]), seq |-> sequence[c]]
       ELSE @]
  /\ UNCHANGED <<requestSequence, progress, offset, providerError, asked,
                 refused, session, restarts>>

(* An off-by-one at the end of the list.                                   *)
AdvancePastEnd(c) ==
  LET next == offset[c] + 1 IN
  /\ offset' = [offset EXCEPT ![c] = next]
  /\ IF next <= Len(list[c])
     THEN /\ asked' = [asked EXCEPT ![c] = Append(@, Node(c, next))]
          /\ UNCHANGED status
     ELSE /\ status' = [status EXCEPT ![c] = "failed"]
          /\ UNCHANGED asked

(* The next node is asked; after the last one the call fails.              *)
Advance(c) ==
  LET next == offset[c] + 1 IN
  /\ offset' = [offset EXCEPT ![c] = next]
  /\ IF next < Len(list[c])
     THEN /\ asked' = [asked EXCEPT ![c] = Append(@, Node(c, next))]
          /\ UNCHANGED status
     ELSE /\ status' = [status EXCEPT ![c] = "failed"]
          /\ UNCHANGED asked

(* A timeout, an HTTP error or an invalid response.                        *)
NodeFails(c) ==
  /\ status[c] = "running"
  /\ Advance(c)
  /\ UNCHANGED <<shared, progress, providerError, refused, session, restarts>>

(* As if the last error were reported.                                     *)
NodeRefusesLast(c) ==
  /\ status[c] = "running"
  /\ refused' = [refused EXCEPT ![c] = @ \cup {Node(c, offset[c])}]
  /\ providerError' = [providerError EXCEPT ![c] = Node(c, offset[c])]
  /\ IF c \in Once
     THEN /\ status' = [status EXCEPT ![c] = "failed"]
          /\ UNCHANGED <<offset, asked>>
     ELSE Advance(c)
  /\ UNCHANGED <<shared, progress, session, restarts>>

(* A JSON-RPC error ends a call that must not be repeated.                 *)
NodeRefuses(c) ==
  /\ status[c] = "running"
  /\ refused' = [refused EXCEPT ![c] = @ \cup {Node(c, offset[c])}]
  /\ providerError' = [providerError EXCEPT ![c] =
       IF @ = None THEN Node(c, offset[c]) ELSE @]
  /\ IF c \in Once
     THEN /\ status' = [status EXCEPT ![c] = "failed"]
          /\ UNCHANGED <<offset, asked>>
     ELSE Advance(c)
  /\ UNCHANGED <<shared, progress, session, restarts>>

(* The preferences last for one background session.                        *)
Restart ==
  /\ restarts < MaxRestarts
  /\ restarts' = restarts + 1
  /\ preferences' = [l \in Lists |-> NoPreference]
  /\ requestSequence' = 0
  /\ status' = [c \in Calls |->
       IF status[c] = "running" THEN "lost" ELSE status[c]]
  /\ session' = {}
  /\ UNCHANGED <<progress, offset, providerError, asked, refused>>

Next ==
  \/ \E c \in Calls : Begin(c) \/ Succeed(c) \/ NodeFails(c) \/ NodeRefuses(c)
  \/ Restart

Spec == Init /\ [][Next]_vars

-----------------------------------------------------------------------------
(* Properties                                                              *)

(* Every variable stays within its type.                                   *)
TypeOK ==
  /\ preferences \in [Lists -> [url : Nodes \cup {None}, seq : Nat]]
  /\ requestSequence \in Nat
  /\ status \in [Calls -> {"new", "running", "ok", "failed", "lost"}]
  /\ list \in [Calls -> Lists]
  /\ sequence \in [Calls -> Nat]
  /\ firstIndex \in [Calls -> Nat]
  /\ offset \in [Calls -> Nat]
  /\ \A c \in Calls : firstIndex[c] < Len(list[c])
  /\ \A c \in Calls : status[c] = "running" => offset[c] < Len(list[c])
  /\ providerError \in [Calls -> Nodes \cup {None}]
  /\ asked \in [Calls -> Seq(Nodes)]
  /\ refused \in [Calls -> SUBSET Nodes]
  /\ session \subseteq Calls
  /\ restarts \in 0..MaxRestarts

(* The calls of this session that list l's nodes answered.                 *)
Won(l) == {c \in session : list[c] = l /\ status[c] = "ok"}

(* The preferred node of a list is the one that answered the newest of the *)
(* calls with a result, in whatever order the results came (RPCServer.ts:  *)
(* 100, "A late response from an older request must not undo a newer       *)
(* choice").                                                               *)
NewestWins ==
  \A l \in Lists :
    /\ preferences[l].url = None => Won(l) = {}
    /\ preferences[l].url # None =>
         \E c \in Won(l) :
           /\ preferences[l].url = Node(c, offset[c])
           /\ \A d \in Won(l) : sequence[d] <= sequence[c]

(* A call asks no node twice, whatever other calls do to the preference    *)
(* meanwhile (RPCServer.ts:44-45), and one that fails without a refusal    *)
(* has asked every node of its list.                                       *)
EachNodeOnce ==
  \A c \in Calls :
    /\ \A i, j \in 1..Len(asked[c]) : asked[c][i] = asked[c][j] => i = j
    /\ status[c] = "failed" /\ refused[c] = {} =>
         Len(asked[c]) = Len(list[c])

(* A failed call reports the first node that refused it, and a transaction *)
(* that was refused goes to no other node.                                 *)
RefusalDecides ==
  \A c \in Calls :
    /\ status[c] = "failed" /\ refused[c] # {} =>
         \E i \in 1..Len(asked[c]) :
           /\ asked[c][i] = providerError[c]
           /\ providerError[c] \in refused[c]
           /\ \A j \in 1..(i - 1) : asked[c][j] \notin refused[c]
    /\ c \in Once /\ refused[c] # {} =>
         /\ status[c] \in {"failed", "lost"}
         /\ refused[c] = {asked[c][Len(asked[c])]}

=============================================================================
