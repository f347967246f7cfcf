---------------------------- MODULE MCRecordSync ----------------------------
(* Small instance of RecordSync for TLC.                                   *)
EXTENDS RecordSync, TLC
CONSTANTS r1, p1, p2, u1, u2

MCProgramOf == r1 :> p1
MCWanted == u1 :> {p1} @@ u2 :> {p2}
MCFilterOf == [u \in Consumers |-> "unspent"]
=============================================================================
