---- MODULE MCDappAccess ----
EXTENDS DappAccess
CONSTANTS s1, a1, a2, c1, c2, w1
MCSites == {s1}
MCCoins == {"ALEO", "QTUM"}
MCAccounts == {a1, a2}
MCCalls == {c1, c2}
MCWalletCalls == {w1}
MCPermissions == {"NoDecrypt", "AutoDecrypt"}
MCPast == <<[key |-> Key(s1, "ALEO", a1), connected |-> FALSE, fresh |-> FALSE,
             permission |-> "AutoDecrypt"]>>
(* Bounds on which calls start, for which no fairness asks: a site asks for *)
(* less than its connection permitted before, or names nothing; and a call *)
(* about QTUM, which never reaches the scanner, or a row of its, is not    *)
(* there next to the wallet's own calls.                                   *)
MCBound ==
  /\ \A c \in Calls : calls[c].permission # "AutoDecrypt"
  /\ (\E w \in WalletCalls : fetches[w].pc # "idle") =>
       /\ \A c \in Calls : calls[c].key # None => calls[c].key.coin = "ALEO"
       /\ \A i \in DOMAIN rows : rows[i].key.coin = "ALEO"
MCSpec == Init /\ [][Next /\ MCBound']_vars /\ Fairness
====
