--------------------------- MODULE ConfirmService ---------------------------
(***************************************************************************)
(* What the wallet promises a dapp about confirmations, whatever surface   *)
(* shows them: requests of all chains stand in ONE line; only the first of *)
(* the line is served; its effect (signing, sending, connecting) happens   *)
(* only after the user consented to that very request; a request answered  *)
(* "denied" never had its effect, one answered "approved" had it.          *)
(* A restart of the service worker loses the whole line.                   *)
(*                                                                         *)
(* ConfirmUI implements this module (ConfirmUI!Service).                   *)
(***************************************************************************)
EXTENDS Sequences

CONSTANT Requests          \* identities of dapp requests (a nanoid each)

VARIABLES
  line,       \* requests not answered yet, the served one first
  consent,    \* requests the user has consented to
  effects,    \* requests whose effect was started
  outcome     \* what the dapp was answered

serviceVars == <<line, consent, effects, outcome>>

Outcomes == {"new", "queued", "approved", "denied", "error", "lost"}

Init ==
  /\ line = <<>>
  /\ consent = {}
  /\ effects = {}
  /\ outcome = [r \in Requests |-> "new"]

Submit(r) ==
  /\ outcome[r] = "new"
  /\ line' = Append(line, r)
  /\ outcome' = [outcome EXCEPT ![r] = "queued"]
  /\ UNCHANGED <<consent, effects>>

(* Only the request being served can be consented to: it is the only one   *)
(* the user is shown, except one whose answer was lost by a restart or     *)
(* whose surface is about to close.                                        *)
Consent(r) ==
  /\ outcome[r] # "new"
  /\ outcome[r] = "queued" => line # <<>> /\ r = Head(line)
  /\ consent' = consent \cup {r}
  /\ UNCHANGED <<line, effects, outcome>>

Perform ==
  /\ line # <<>>
  /\ Head(line) \in consent
  /\ Head(line) \notin effects
  /\ effects' = effects \cup {Head(line)}
  /\ UNCHANGED <<line, consent, outcome>>

Answer(o) ==
  /\ line # <<>>
  /\ o = "approved" => Head(line) \in effects
  /\ o = "denied" => Head(line) \notin effects
  /\ line' = Tail(line)
  /\ outcome' = [outcome EXCEPT ![Head(line)] = o]
  /\ UNCHANGED <<consent, effects>>

Lose ==
  /\ line' = <<>>
  /\ outcome' = [r \in Requests |->
                   IF outcome[r] = "queued" THEN "lost" ELSE outcome[r]]
  /\ UNCHANGED <<consent, effects>>

Next ==
  \/ \E r \in Requests : Submit(r) \/ Consent(r)
  \/ Perform
  \/ \E o \in {"approved", "denied", "error"} : Answer(o)
  \/ Lose

Spec == Init /\ [][Next]_serviceVars
=============================================================================
