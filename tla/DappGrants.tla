----------------------------- MODULE DappGrants -----------------------------
(***************************************************************************)
(* What the wallet promises its user about the sites that use it: a        *)
(* connection to an account permits what the user's last approval that was *)
(* carried out said, or, if that named nothing, what the connection last   *)
(* permitted; every approval is carried out at most once, for the account  *)
(* and the permission it was given for; a connection that ended comes back *)
(* by another approval only; and records are read under a connection that  *)
(* exists and permits something at that time.                              *)
(*                                                                         *)
(* DappAccess implements this module (DappAccess!ImplementsGrants).        *)
(***************************************************************************)
CONSTANTS Keys, Permissions, Calls, None, Spent

VARIABLES
  approved,    \* what the user approved in a call: None before, Spent after
  connected,   \* the keys that are connected
  permitted,   \* what a connection permits, or last permitted; None: nothing
  reading      \* the connection under which a call reads records

grantVars == <<approved, connected, permitted, reading>>

Approval == [key : Keys, permission : Permissions \cup {None}]

Init ==
  /\ approved = [c \in Calls |-> None]
  /\ connected = {}
  /\ permitted \in [Keys -> Permissions \cup {None}]
  /\ reading = [c \in Calls |-> None]

Approve(c, a) ==
  /\ approved[c] = None
  /\ approved' = [approved EXCEPT ![c] = a]
  /\ UNCHANGED <<connected, permitted, reading>>

Connect(c, a) ==
  /\ approved[c] = a
  /\ approved' = [approved EXCEPT ![c] = Spent]
  /\ connected' = connected \cup {a.key}
  /\ permitted' = IF a.permission = None THEN permitted
                  ELSE [permitted EXCEPT ![a.key] = a.permission]
  /\ UNCHANGED reading

Withdraw(k) ==
  /\ connected' = connected \ {k}
  /\ UNCHANGED <<approved, permitted, reading>>

(* Approvals come to nothing: their calls failed or were cut off.          *)
Drop(lost) ==
  /\ \A c \in lost : approved[c] \in Approval
  /\ approved' = [c \in Calls |-> IF c \in lost THEN Spent ELSE approved[c]]
  /\ UNCHANGED <<connected, permitted, reading>>

Read(c, k) ==
  /\ k \in connected /\ permitted[k] # None /\ reading[c] = None
  /\ reading' = [reading EXCEPT ![c] = k]
  /\ UNCHANGED <<approved, connected, permitted>>

Next ==
  \/ \E c \in Calls, a \in Approval : Approve(c, a) \/ Connect(c, a)
  \/ \E k \in Keys : Withdraw(k)
  \/ \E lost \in SUBSET Calls : Drop(lost)
  \/ \E c \in Calls, k \in Keys : Read(c, k)

Spec == Init /\ [][Next]_grantVars
=============================================================================
