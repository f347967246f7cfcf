---------------------------- MODULE Vault_proofs ----------------------------
(***************************************************************************)
(* Proofs about Vault for any wallets, mnemonics, numbers of accounts and  *)
(* restarts, and any set of older versions.                                *)
(*                                                                         *)
(* The invariant says what each stage of an operation knows of the wallet  *)
(* it works on (JobInv), what an old version implies (VersionInv), how far *)
(* a selection that has not strayed may lag behind the vault               *)
(* (SelectedInv), which addresses the Aleo store may still miss            *)
(* (TrackedInv), and, unless an update finds version 1, that the migration *)
(* is complete (CompleteInv).                                              *)
(***************************************************************************)
EXTENDS Vault, SequenceTheorems, TLAPS

Groups == {g \in Seq(SUBSET Options) : Len(g) \in 1..MaxAccounts}
WalletType == [hd : BOOLEAN, key : Addresses, groups : Groups]

Typed ==
  /\ version \in 0..VaultVersion
  /\ Ids \subseteq Wallets
  /\ wallets \in [Ids -> WalletType]
  /\ selected \in Selections \cup {None}
  /\ found \in Selections \cup {None}
  /\ selectedV1 \in Places \cup {None}
  /\ tracked \subseteq Addresses /\ tracking \subseteq Addresses
  /\ lost \subseteq Addresses
  /\ token \in BOOLEAN /\ asked \in BOOLEAN
  /\ strayed \in BOOLEAN /\ outdated \in BOOLEAN
  /\ pc \in {"idle", "migrate", "complete", "reselect", "select", "replace",
             "untrack", "erase", "keyring", "selection"}
  /\ restarts \in 0..MaxRestarts
  /\ regenerated \subseteq Wallets

JobInv ==
  /\ pc \in {"idle", "migrate", "keyring", "selection"} => job = None
  /\ pc \in {"complete", "reselect"} => job \in Places \cup {None}
  /\ pc \in {"select", "untrack", "erase"} => job \in Places
  /\ pc \in {"select", "replace", "untrack", "erase"} => job.wallet \in Ids
  /\ pc = "select" => job.index \in DOMAIN wallets[job.wallet].groups
  /\ pc = "replace" =>
       /\ job.old \in Addresses
       /\ wallets[job.wallet].hd
       /\ wallets[job.wallet].groups = <<RegeneratedOptions>>

(* A reset leaves no wallets; nobody unlocks version 1 without migrating,  *)
(* and nothing is selected in it.                                          *)
VersionInv ==
  /\ version = 0 => Ids = {}
  /\ version = 1 =>
       /\ selected = None /\ found = None
       /\ pc \in {"idle", "migrate", "keyring", "selection"}
       /\ pc # "migrate" => ~token
  /\ \A w \in Ids : wallets[w].hd =>
       \A i \in DOMAIN wallets[w].groups : "ALEO" \in wallets[w].groups[i]

SelectedInv ==
  selected # None /\ ~strayed =>
    /\ pc # "selection" => selected.wallet \in Ids
    /\ pc \in {"untrack", "erase"} => selected.wallet # job.wallet
    /\ pc \notin {"complete", "keyring"}
    /\ ~outdated /\ pc \in {"idle", "migrate", "untrack", "erase"} =>
         IsCurrent(selected)
    /\ pc = "reselect" => job # None

TrackedInv ==
  \A w \in Ids : (pc = "replace" => w # job.wallet) =>
    AleoOf(w) \subseteq UNION {tracked, tracking, lost}

CompleteInv ==
  1 \notin StartVersions =>
    /\ version # 1
    /\ version = VaultVersion =>
         \A w \in HDs \ regenerated : \A i \in DOMAIN wallets[w].groups :
           wallets[w].groups[i] = Options

IInv == Typed /\ JobInv /\ VersionInv /\ SelectedInv /\ TrackedInv /\ CompleteInv

-----------------------------------------------------------------------------
(* Wallets and what is derived of them                                     *)

LEMMA ConstantsFact ==
  /\ None \notin Wallets /\ None \notin Places /\ None \notin Selections
  /\ StartVersions \subseteq 1..VaultVersion
  /\ MaxAccounts \in Nat /\ 1 \in 1..MaxAccounts /\ MaxRestarts \in Nat
  BY VaultAssumption

(* The groups of a wallet as a sequence.                                   *)
LEMMA GroupsFact ==
  ASSUME NEW g \in Groups
  PROVE  /\ Len(g) \in 1..MaxAccounts /\ Len(g) \in Nat
         /\ DOMAIN g = 1..Len(g) /\ 1 \in DOMAIN g
         /\ DOMAIN g \subseteq 1..MaxAccounts
         /\ \A i \in DOMAIN g : g[i] \subseteq Options
<1>1. g \in Seq(SUBSET Options) /\ Len(g) \in 1..MaxAccounts
  BY DEF Groups
<1>2. DOMAIN g = 1..Len(g) /\ g \in [1..Len(g) -> SUBSET Options]
  BY <1>1, LenProperties
<1> QED
  BY <1>1, <1>2, ConstantsFact

LEMMA OneGroup ==
  ASSUME NEW S \in SUBSET Options
  PROVE  /\ <<S>> \in Groups
         /\ DOMAIN <<S>> = {1} /\ <<S>>[1] = S
<1>1. <<S>> \in Seq(SUBSET Options) /\ Len(<<S>>) = 1
  OBVIOUS
<1> QED
  BY <1>1, ConstantsFact DEF Groups

LEMMA GroupAppended ==
  ASSUME NEW g \in Groups, Len(g) < MaxAccounts
  PROVE  /\ Append(g, Options) \in Groups
         /\ DOMAIN Append(g, Options) = DOMAIN g \cup {Len(g) + 1}
         /\ Len(g) + 1 \notin DOMAIN g
         /\ Len(g) + 1 \in 1..MaxAccounts
         /\ Append(g, Options)[Len(g) + 1] = Options
         /\ \A i \in DOMAIN g : Append(g, Options)[i] = g[i]
<1> DEFINE h == Append(g, Options)
<1>1. Len(g) \in 1..MaxAccounts /\ Len(g) \in Nat /\ DOMAIN g = 1..Len(g)
  BY GroupsFact
<1>2. g \in Seq(SUBSET Options)
  BY DEF Groups
<1>3. /\ h \in Seq(SUBSET Options) /\ Len(h) = Len(g) + 1
      /\ \A i \in 1..Len(g) : h[i] = g[i]
      /\ h[Len(g) + 1] = Options
  BY <1>1, <1>2, AppendProperties
<1>4. DOMAIN h = 1..(Len(g) + 1)
  BY <1>3, LenProperties
<1> HIDE DEF h
<1>5. Len(g) + 1 \in 1..MaxAccounts
  BY <1>1, ConstantsFact
<1>6. h \in Groups
  BY <1>3, <1>5 DEF Groups
<1>7. DOMAIN h = DOMAIN g \cup {Len(g) + 1} /\ Len(g) + 1 \notin DOMAIN g
  BY <1>1, <1>4
<1> QED
  BY <1>1, <1>3, <1>5, <1>6, <1>7 DEF h

LEMMA GroupsCompleted ==
  ASSUME NEW g \in Groups
  PROVE  /\ [i \in DOMAIN g |-> g[i] \cup Options] \in Groups
         /\ DOMAIN [i \in DOMAIN g |-> g[i] \cup Options] = DOMAIN g
         /\ \A i \in DOMAIN g :
              [j \in DOMAIN g |-> g[j] \cup Options][i] = Options
<1> DEFINE h == [i \in DOMAIN g |-> g[i] \cup Options]
<1>1. /\ Len(g) \in 1..MaxAccounts /\ Len(g) \in Nat /\ DOMAIN g = 1..Len(g)
      /\ \A i \in DOMAIN g : g[i] \subseteq Options
  BY GroupsFact
<1>2. \A i \in DOMAIN g : h[i] = Options
  BY <1>1
<1>3. h \in [1..Len(g) -> SUBSET Options]
  BY <1>1, <1>2
<1>4. h \in Seq(SUBSET Options) /\ Len(h) = Len(g)
  <2> HIDE DEF h
  <2> QED
    BY <1>1, <1>3, SeqDef
<1> QED
  BY <1>1, <1>2, <1>4 DEF Groups

LEMMA KeyFact ==
  ASSUME NEW s \in Seeds
  PROVE  FirstKey(s) \in Addresses
  BY ConstantsFact DEF FirstKey, Addresses

(* What holds of every wallet.                                             *)
LEMMA WalletFact ==
  ASSUME Typed, NEW w \in Ids
  PROVE  /\ w \in Wallets /\ wallets[w] \in WalletType
         /\ wallets[w].hd \in BOOLEAN /\ wallets[w].key \in Addresses
         /\ wallets[w].groups \in Groups
         /\ 1 \in DOMAIN wallets[w].groups
         /\ DOMAIN wallets[w].groups \subseteq 1..MaxAccounts
         /\ \A i \in DOMAIN wallets[w].groups : wallets[w].groups[i] \subseteq Options
<1>1. w \in Wallets /\ wallets[w] \in WalletType
  BY DEF Typed
<1>2. /\ wallets[w].hd \in BOOLEAN /\ wallets[w].key \in Addresses
      /\ wallets[w].groups \in Groups
  BY <1>1 DEF WalletType
<1> QED
  BY <1>1, <1>2, GroupsFact

LEMMA SnapshotFact ==
  ASSUME Typed, NEW w \in Ids, NEW i \in DOMAIN wallets[w].groups
  PROVE  /\ Snapshot(w, i) \in Selections /\ Snapshot(w, i) # None
         /\ Snapshot(w, i).wallet = w /\ Snapshot(w, i).index = i
         /\ IsCurrent(Snapshot(w, i))
         /\ Place(w, i) \in Places /\ Place(w, i) # None
         /\ Place(w, i).wallet = w /\ Place(w, i).index = i
<1>1. /\ w \in Wallets /\ wallets[w].key \in Addresses /\ i \in 1..MaxAccounts
      /\ wallets[w].groups[i] \subseteq Options
  BY WalletFact
<1>2. /\ Snapshot(w, i) \in Selections
      /\ Snapshot(w, i).wallet = w /\ Snapshot(w, i).index = i
      /\ Place(w, i) \in Places
      /\ Place(w, i).wallet = w /\ Place(w, i).index = i
  BY <1>1 DEF Snapshot, Selections, Place, Places
<1> QED
  BY <1>2, ConstantsFact DEF IsCurrent

LEMMA AddressFact ==
  ASSUME Typed, NEW w \in Ids, NEW i \in 1..MaxAccounts
  PROVE  Address(w, i) \in Addresses
<1>1. wallets[w].key \in Addresses
  BY WalletFact
<1>2. [wallets[w].key EXCEPT !.index = i] \in Addresses
  BY <1>1 DEF Addresses
<1> QED
  BY <1>1, <1>2 DEF Address

(* What AleoOf is of a wallet, by its accounts.                            *)
LEMMA AleoFact ==
  ASSUME Typed, NEW w \in Ids
  PROVE  /\ AleoOf(w) = {Address(w, i) : i \in {j \in DOMAIN wallets[w].groups :
                                          "ALEO" \in wallets[w].groups[j]}}
         /\ \A n : AleoUpTo(w, n) \subseteq Addresses
<1>1. /\ wallets[w].groups \in Groups
      /\ DOMAIN wallets[w].groups \subseteq 1..MaxAccounts
  BY WalletFact
<1>2. \A j \in DOMAIN wallets[w].groups : j <= Len(wallets[w].groups)
  BY <1>1, GroupsFact
<1>3. {j \in DOMAIN wallets[w].groups :
         j <= Len(wallets[w].groups) /\ "ALEO" \in wallets[w].groups[j]}
      = {j \in DOMAIN wallets[w].groups : "ALEO" \in wallets[w].groups[j]}
  BY <1>2
<1>4. \A i \in DOMAIN wallets[w].groups : Address(w, i) \in Addresses
  BY <1>1, AddressFact
<1> QED
  BY <1>3, <1>4 DEF AleoOf, AleoUpTo

(* A wallet that stays as it was keeps its addresses and its copies.       *)
LEMMA WalletStays ==
  ASSUME NEW w, wallets'[w] = wallets[w]
  PROVE  /\ AleoOf(w)' = AleoOf(w)
         /\ \A i : Address(w, i)' = Address(w, i)
         /\ \A i : Snapshot(w, i)' = Snapshot(w, i)
  BY DEF AleoOf, AleoUpTo, Address, Snapshot

(* Steps that leave the wallets alone.                                     *)
LEMMA WalletsStay ==
  ASSUME wallets' = wallets
  PROVE  /\ Ids' = Ids /\ HDs' = HDs /\ Simples' = Simples
         /\ \A w : AleoOf(w)' = AleoOf(w)
         /\ \A w, i : Address(w, i)' = Address(w, i)
         /\ \A w, i : Snapshot(w, i)' = Snapshot(w, i)
         /\ selected' = selected => IsCurrent(selected)' = IsCurrent(selected)
  BY DEF Ids, HDs, Simples, AleoOf, AleoUpTo, Address, Snapshot, IsCurrent

LEMMA TrackedStays ==
  ASSUME IInv, wallets' = wallets,
         pc = "replace" => pc' = "replace" /\ job' = job,
         UNION {tracked, tracking, lost} \subseteq UNION {tracked, tracking, lost}'
  PROVE  TrackedInv'
<1>1. Ids' = Ids /\ \A w : AleoOf(w)' = AleoOf(w)
  BY WalletsStay
<1>2. \A w \in Ids : (pc' = "replace" => w # job'.wallet) =>
        (pc = "replace" => w # job.wallet)
  OBVIOUS
<1>3. TrackedInv
  BY DEF IInv
<1> QED
  BY <1>1, <1>2, <1>3 DEF TrackedInv

LEMMA CompleteStays ==
  ASSUME IInv, wallets' = wallets, UNCHANGED <<version, regenerated>>
  PROVE  CompleteInv'
<1>1. HDs' = HDs
  BY WalletsStay
<1> QED
  BY <1>1 DEF IInv, CompleteInv

(* Every selection an operation makes is one of the vault as it is.        *)
LEMMA SelectionMade ==
  ASSUME Typed, wallets' = wallets, strayed' = FALSE, pc' = "idle",
         NEW w \in Ids, NEW i \in DOMAIN wallets[w].groups,
         selected' = Snapshot(w, i)
  PROVE  SelectedInv' /\ selected' \in Selections
<1>1. /\ Snapshot(w, i) \in Selections /\ Snapshot(w, i).wallet = w
      /\ IsCurrent(Snapshot(w, i))
  BY SnapshotFact
<1>2. IsCurrent(selected)'
  BY <1>1 DEF IsCurrent, Snapshot, Ids
<1>3. Ids' = Ids
  BY WalletsStay
<1> QED
  BY <1>1, <1>2, <1>3 DEF SelectedInv

-----------------------------------------------------------------------------
(* Steps that leave the wallets alone                                      *)

LEMMA LoginKeeps ==
  ASSUME IInv, NEW valid \in BOOLEAN, Login(valid)
  PROVE  IInv'
<1> USE DEF IInv, Login, vault, selection, aleo, operation, outside, history
<1>1. wallets' = wallets
  OBVIOUS
<1>2. Ids' = Ids /\ HDs' = HDs
      /\ (selected' = selected => IsCurrent(selected)' = IsCurrent(selected))
  BY <1>1, WalletsStay
<1>3. Typed'
  BY <1>1, <1>2 DEF Typed
<1>4. JobInv'
  BY <1>1, <1>2 DEF JobInv
<1>5. VersionInv'
  BY <1>1, <1>2 DEF VersionInv
<1>6. SelectedInv'
  BY <1>1, <1>2 DEF SelectedInv
<1>7. TrackedInv'
  BY <1>1, TrackedStays
<1>8. CompleteInv'
  BY <1>1, CompleteStays
<1> QED
  BY <1>3, <1>4, <1>5, <1>6, <1>7, <1>8

LEMMA LockKeeps ==
  ASSUME IInv, Lock
  PROVE  IInv'
<1> USE DEF IInv, Lock, vault, selection, aleo, operation, outside, history
<1>1. wallets' = wallets
  OBVIOUS
<1>2. Ids' = Ids /\ HDs' = HDs
      /\ (selected' = selected => IsCurrent(selected)' = IsCurrent(selected))
  BY <1>1, WalletsStay
<1>3. Typed'
  BY <1>1, <1>2 DEF Typed
<1>4. JobInv'
  BY <1>1, <1>2 DEF JobInv
<1>5. VersionInv'
  BY <1>1, <1>2 DEF VersionInv
<1>6. SelectedInv'
  BY <1>1, <1>2 DEF SelectedInv
<1>7. TrackedInv'
  BY <1>1, TrackedStays
<1>8. CompleteInv'
  BY <1>1, CompleteStays
<1> QED
  BY <1>3, <1>4, <1>5, <1>6, <1>7, <1>8

LEMMA UpToDateKeeps ==
  ASSUME IInv, UpToDate
  PROVE  IInv'
<1> USE DEF IInv, UpToDate, vault, selection, aleo, operation, outside, history, VaultVersion
<1>1. wallets' = wallets
  OBVIOUS
<1>2. Ids' = Ids /\ HDs' = HDs
      /\ (selected' = selected => IsCurrent(selected)' = IsCurrent(selected))
  BY <1>1, WalletsStay
<1>3. Typed'
  BY <1>1, <1>2 DEF Typed
<1>4. JobInv'
  BY <1>1, <1>2 DEF JobInv
<1>5. VersionInv'
  BY <1>1, <1>2 DEF VersionInv
<1>6. SelectedInv'
  BY <1>1, <1>2 DEF SelectedInv
<1>7. TrackedInv'
  BY <1>1, TrackedStays
<1>8. CompleteInv'
  BY <1>1, CompleteStays
<1> QED
  BY <1>3, <1>4, <1>5, <1>6, <1>7, <1>8

LEMMA CompleteThrowsKeeps ==
  ASSUME IInv, CompleteThrows
  PROVE  IInv'
<1> USE DEF IInv, CompleteThrows, vault, selection, aleo, operation, outside, history, ReadyToComplete, VaultVersion
<1>1. wallets' = wallets
  OBVIOUS
<1>2. Ids' = Ids /\ HDs' = HDs
      /\ (selected' = selected => IsCurrent(selected)' = IsCurrent(selected))
  BY <1>1, WalletsStay
<1>3. Typed'
  BY <1>1, <1>2 DEF Typed
<1>4. JobInv'
  BY <1>1, <1>2 DEF JobInv
<1>5. VersionInv'
  BY <1>1, <1>2 DEF VersionInv
<1>6. SelectedInv'
  BY <1>1, <1>2 DEF SelectedInv
<1>7. TrackedInv'
  BY <1>1, TrackedStays
<1>8. CompleteInv'
  BY <1>1, CompleteStays
<1> QED
  BY <1>3, <1>4, <1>5, <1>6, <1>7, <1>8

LEMMA GetSelectedKeeps ==
  ASSUME IInv, GetSelectedGroupAccount
  PROVE  IInv'
<1> USE DEF IInv, GetSelectedGroupAccount, vault, selection, aleo, operation, outside, history
<1>1. wallets' = wallets
  OBVIOUS
<1>2. Ids' = Ids /\ HDs' = HDs
      /\ (selected' = selected => IsCurrent(selected)' = IsCurrent(selected))
  BY <1>1, WalletsStay
<1>3. Typed'
  BY <1>1, <1>2 DEF Typed
<1>4. JobInv'
  BY <1>1, <1>2 DEF JobInv
<1>5. VersionInv'
  BY <1>1, <1>2 DEF VersionInv
<1>6. SelectedInv'
  BY <1>1, <1>2 DEF SelectedInv
<1>7. TrackedInv'
  BY <1>1, TrackedStays
<1>8. CompleteInv'
  BY <1>1, CompleteStays
<1> QED
  BY <1>3, <1>4, <1>5, <1>6, <1>7, <1>8

LEMMA FindKeeps ==
  ASSUME IInv, FindSelectable
  PROVE  IInv'
<1> USE DEF IInv, FindSelectable, vault, selection, aleo, operation, outside, history
<1>1. wallets' = wallets
  OBVIOUS
<1>2. Ids' = Ids /\ HDs' = HDs
      /\ (selected' = selected => IsCurrent(selected)' = IsCurrent(selected))
  BY <1>1, WalletsStay
<1>2a. found' = None \/ found' = found \/ found' \in Selections
  BY WalletFact, SnapshotFact DEF HDs
<1>3. Typed'
  BY <1>1, <1>2, <1>2a DEF Typed
<1>4. JobInv'
  BY <1>1, <1>2, <1>2a DEF JobInv
<1>5. VersionInv'
  BY <1>1, <1>2, <1>2a DEF VersionInv
<1>6. SelectedInv'
  BY <1>1, <1>2, <1>2a DEF SelectedInv
<1>7. TrackedInv'
  BY <1>1, TrackedStays
<1>8. CompleteInv'
  BY <1>1, CompleteStays
<1> QED
  BY <1>3, <1>4, <1>5, <1>6, <1>7, <1>8

(* What a dapp's call selects holds, or is known to have strayed.          *)
LEMMA SelectFoundKeeps ==
  ASSUME IInv, SelectFound
  PROVE  IInv'
<1> USE DEF IInv, SelectFound, vault, selection, aleo, operation, outside, history, Strays
<1>1. wallets' = wallets
  OBVIOUS
<1>2. Ids' = Ids /\ HDs' = HDs
      /\ (selected' = selected => IsCurrent(selected)' = IsCurrent(selected))
  BY <1>1, WalletsStay
<1>2a. version # 1 /\ found \in Selections
  BY DEF VersionInv, Typed
<1>2b. strayed' = FALSE => pc' = "idle" /\ IsCurrent(selected)'
  BY <1>1 DEF IsCurrent, Snapshot, Ids
<1>3. Typed'
  BY <1>1, <1>2, <1>2a DEF Typed
<1>4. JobInv'
  BY <1>1, <1>2, <1>2a DEF JobInv
<1>5. VersionInv'
  BY <1>1, <1>2, <1>2a DEF VersionInv
<1>6. SelectedInv'
  BY <1>1, <1>2, <1>2b DEF SelectedInv, IsCurrent
<1>7. TrackedInv'
  BY <1>1, TrackedStays
<1>8. CompleteInv'
  BY <1>1, CompleteStays
<1> QED
  BY <1>3, <1>4, <1>5, <1>6, <1>7, <1>8

LEMMA ResetSelectionKeeps ==
  ASSUME IInv, ResetSelection
  PROVE  IInv'
<1> USE DEF IInv, ResetSelection, vault, selection, aleo, operation, outside, history, SelectionBecomes
<1>1. wallets' = wallets
  OBVIOUS
<1>2. Ids' = Ids /\ HDs' = HDs
      /\ (selected' = selected => IsCurrent(selected)' = IsCurrent(selected))
  BY <1>1, WalletsStay
<1>3. Typed'
  BY <1>1, <1>2 DEF Typed
<1>4. JobInv'
  BY <1>1, <1>2 DEF JobInv
<1>5. VersionInv'
  BY <1>1, <1>2 DEF VersionInv
<1>6. SelectedInv'
  BY <1>1, <1>2 DEF SelectedInv
<1>7. TrackedInv'
  BY <1>1, TrackedStays
<1>8. CompleteInv'
  BY <1>1, CompleteStays
<1> QED
  BY <1>3, <1>4, <1>5, <1>6, <1>7, <1>8

LEMMA SelectKeeps ==
  ASSUME IInv, Select
  PROVE  IInv'
<1> USE DEF IInv, Select, vault, selection, aleo, operation, outside, history, SelectionBecomes
<1>1. wallets' = wallets
  OBVIOUS
<1>2. Ids' = Ids /\ HDs' = HDs
      /\ (selected' = selected => IsCurrent(selected)' = IsCurrent(selected))
  BY <1>1, WalletsStay
<1>2a. job.wallet \in Ids /\ job.index \in DOMAIN wallets[job.wallet].groups
  BY DEF JobInv
<1>2b. SelectedInv' /\ selected' \in Selections
  BY <1>1, <1>2a, SelectionMade
<1>2c. version # 1
  BY DEF VersionInv
<1>3. Typed'
  BY <1>1, <1>2, <1>2b, <1>2c DEF Typed
<1>4. JobInv'
  BY <1>1, <1>2, <1>2b, <1>2c DEF JobInv
<1>5. VersionInv'
  BY <1>1, <1>2, <1>2b, <1>2c DEF VersionInv
<1>6. SelectedInv'
  BY <1>2b
<1>7. TrackedInv'
  BY <1>1, TrackedStays
<1>8. CompleteInv'
  BY <1>1, CompleteStays
<1> QED
  BY <1>3, <1>4, <1>5, <1>6, <1>7, <1>8

LEMMA SetSelectedKeeps ==
  ASSUME IInv, NEW w \in Ids, NEW i \in DOMAIN wallets[w].groups,
         SetSelectedGroupAccount(w, i)
  PROVE  IInv'
<1> USE DEF IInv, SetSelectedGroupAccount, vault, selection, aleo, operation, outside, history, SelectionBecomes
<1>1. wallets' = wallets
  OBVIOUS
<1>2. Ids' = Ids /\ HDs' = HDs
      /\ (selected' = selected => IsCurrent(selected)' = IsCurrent(selected))
  BY <1>1, WalletsStay
<1>2b. SelectedInv' /\ selected' \in Selections
  BY <1>1, SelectionMade
<1>2c. version # 1
  BY DEF VersionInv
<1>3. Typed'
  BY <1>1, <1>2, <1>2b, <1>2c DEF Typed
<1>4. JobInv'
  BY <1>1, <1>2, <1>2b, <1>2c DEF JobInv
<1>5. VersionInv'
  BY <1>1, <1>2, <1>2b, <1>2c DEF VersionInv
<1>6. SelectedInv'
  BY <1>2b
<1>7. TrackedInv'
  BY <1>1, TrackedStays
<1>8. CompleteInv'
  BY <1>1, CompleteStays
<1> QED
  BY <1>3, <1>4, <1>5, <1>6, <1>7, <1>8

(* Version 0 has no wallets, version 1 no selection.                       *)
LEMMA ConvertV1Keeps ==
  ASSUME IInv, ConvertV1
  PROVE  IInv'
<1> USE DEF IInv, ConvertV1, vault, selection, aleo, operation, outside, history
<1>1. wallets' = wallets
  OBVIOUS
<1>2. Ids' = Ids /\ HDs' = HDs
  BY <1>1, WalletsStay
<1>3. Typed'
  BY <1>1, <1>2, ConstantsFact DEF Typed, VaultVersion
<1>4. JobInv'
  BY <1>1, <1>2, ConstantsFact DEF JobInv, Typed
<1>5. VersionInv'
  BY <1>1, <1>2, ConstantsFact DEF VersionInv, VaultVersion
<1>6. SelectedInv'
  <2>1. selected # None => strayed
    BY DEF SelectedInv, VersionInv, Typed
  <2> QED
    BY <2>1 DEF SelectedInv
<1>7. TrackedInv'
  BY <1>1, TrackedStays
<1>8. CompleteInv'
  <2>1. 1 \notin StartVersions => HDs = {}
    <3>1. 1 \notin StartVersions => version = 0
      BY DEF CompleteInv
    <3>2. Ids = {} => HDs = {}
      BY DEF HDs
    <3> QED
      BY <3>1, <3>2 DEF VersionInv
  <2> QED
    BY <1>2, <2>1 DEF CompleteInv, VaultVersion
<1> QED
  BY <1>3, <1>4, <1>5, <1>6, <1>7, <1>8

(* What migrate may select is an account of a wallet; there is one, unless *)
(* there is no wallet.                                                     *)
LEMMA ReselectableFact ==
  ASSUME Typed, pc = "reselect"
  PROVE  /\ \A s \in Reselectable : \E w \in Ids : \E i \in DOMAIN wallets[w].groups :
              s = Snapshot(w, i)
         /\ Reselectable = {} => Ids = {}
<1>1. CASE job.wallet \in Ids /\ job.index \in DOMAIN wallets[job.wallet].groups
  <2>1. Reselectable = {Snapshot(job.wallet, job.index)}
    BY <1>1 DEF Reselectable
  <2> QED
    BY <1>1, <2>1
<1>2. CASE ~(job.wallet \in Ids /\ job.index \in DOMAIN wallets[job.wallet].groups)
  <2> DEFINE from == IF HDs # {} THEN HDs ELSE Simples
  <2>1. Reselectable = {Snapshot(w, 1) : w \in from}
    BY <1>2 DEF Reselectable
  <2>2. from \subseteq Ids /\ (from = {} => Ids = {})
    BY DEF HDs, Simples
  <2> HIDE DEF from
  <2>3. \A w \in from : w \in Ids /\ 1 \in DOMAIN wallets[w].groups
    BY <2>2, WalletFact
  <2>4. Reselectable = {} => from = {}
    BY <2>1
  <2> QED
    BY <2>1, <2>2, <2>3, <2>4
<1> QED
  BY <1>1, <1>2

LEMMA ReselectKeeps ==
  ASSUME IInv, Reselect
  PROVE  IInv'
<1> USE DEF IInv
<1>1. /\ UNCHANGED <<version, wallets, selectedV1, tracked, tracking, lost,
                     token, asked, found, restarts, regenerated>>
      /\ pc = "reselect" /\ pc' = "idle" /\ job' = None
  BY DEF Reselect, vault, aleo, outside, history
<1>2. Ids' = Ids /\ HDs' = HDs
  BY <1>1, WalletsStay
<1>3. \/ /\ UNCHANGED <<selected, strayed, outdated>>
         /\ job = None \/ Ids = {}
      \/ /\ strayed' = FALSE /\ outdated' = FALSE
         /\ \E w \in Ids : \E i \in DOMAIN wallets[w].groups :
              selected' = Snapshot(w, i)
  BY ReselectableFact DEF Reselect, SelectionBecomes, selection
<1>4. CASE /\ UNCHANGED <<selected, strayed, outdated>>
           /\ job = None \/ Ids = {}
  <2>1. selected # None => strayed
    BY <1>1, <1>4 DEF SelectedInv, Typed
  <2>2. Typed' /\ JobInv' /\ VersionInv'
    BY <1>1, <1>2, <1>4 DEF Typed, JobInv, VersionInv
  <2>3. SelectedInv'
    BY <1>4, <2>1 DEF SelectedInv
  <2> QED
    BY <1>1, <2>2, <2>3, TrackedStays, CompleteStays
<1>5. CASE /\ strayed' = FALSE /\ outdated' = FALSE
           /\ \E w \in Ids : \E i \in DOMAIN wallets[w].groups :
                selected' = Snapshot(w, i)
  <2>1. SelectedInv' /\ selected' \in Selections
    BY <1>1, <1>5, SelectionMade
  <2>2. version # 1
    BY <1>1 DEF VersionInv
  <2>3. Typed' /\ JobInv' /\ VersionInv'
    BY <1>1, <1>2, <1>5, <2>1, <2>2 DEF Typed, JobInv, VersionInv
  <2> QED
    BY <1>1, <2>1, <2>3, TrackedStays, CompleteStays
<1> QED
  BY <1>3, <1>4, <1>5

(* The selection moves away from a wallet that is to be deleted, to none   *)
(* only if there is no other.                                              *)
LEMMA SubstitutesFact ==
  ASSUME Typed, NEW w \in Ids
  PROVE  /\ \A s \in Substitutes(w) : \E v \in Ids \ {w} :
              /\ s = Snapshot(v, 1) /\ 1 \in DOMAIN wallets[v].groups
         /\ Substitutes(w) = {} => Ids = {w}
<1> DEFINE others == IF HDs \ {w} # {} THEN HDs \ {w} ELSE Simples \ {w}
<1>1. Substitutes(w) = {Snapshot(o, 1) : o \in others}
  BY DEF Substitutes
<1>2. others \subseteq Ids \ {w} /\ (others = {} => Ids = {w})
  BY DEF HDs, Simples
<1> HIDE DEF others
<1>3. \A v \in others : v \in Ids \ {w} /\ 1 \in DOMAIN wallets[v].groups
  BY <1>2, WalletFact
<1>4. Substitutes(w) = {} => others = {}
  BY <1>1
<1> QED
  BY <1>1, <1>2, <1>3, <1>4

LEMMA DeselectKeeps ==
  ASSUME IInv, NEW w \in Ids, Deselect(w)
  PROVE  IInv'
<1> USE DEF IInv
<1>1. /\ UNCHANGED <<version, wallets, selectedV1, tracked, tracking, lost,
                     token, asked, found, restarts, regenerated>>
      /\ pc = "idle" /\ pc' = "untrack" /\ token /\ job' = Place(w, 1)
  BY DEF Deselect, vault, aleo, outside, history
<1>2. /\ Ids' = Ids /\ HDs' = HDs
      /\ selected' = selected => IsCurrent(selected)' = IsCurrent(selected)
  BY <1>1, WalletsStay
<1>3. /\ w \in Wallets /\ Place(w, 1) \in Places /\ Place(w, 1).wallet = w
      /\ version # 1
  BY <1>1, WalletFact, SnapshotFact DEF VersionInv
<1>4. \/ /\ UNCHANGED <<selected, strayed, outdated>>
         /\ selected = None \/ selected.wallet # w
      \/ selected' = None /\ strayed' = FALSE /\ outdated' = FALSE
      \/ /\ strayed' = FALSE /\ outdated' = FALSE
         /\ \E v \in Ids \ {w} :
              selected' = Snapshot(v, 1) /\ 1 \in DOMAIN wallets[v].groups
  BY SubstitutesFact DEF Deselect, SelectionBecomes, selection
<1>5. TrackedInv' /\ CompleteInv'
  BY <1>1, TrackedStays, CompleteStays
<1>6. CASE /\ UNCHANGED <<selected, strayed, outdated>>
           /\ selected = None \/ selected.wallet # w
  <2>1. Typed' /\ JobInv' /\ VersionInv'
    BY <1>1, <1>2, <1>3, <1>6 DEF Typed, JobInv, VersionInv
  <2>2. SelectedInv'
    BY <1>1, <1>2, <1>3, <1>6 DEF SelectedInv
  <2> QED
    BY <1>5, <2>1, <2>2
<1>7. CASE selected' = None /\ strayed' = FALSE /\ outdated' = FALSE
  <2>1. Typed' /\ JobInv' /\ VersionInv' /\ SelectedInv'
    BY <1>1, <1>2, <1>3, <1>7 DEF Typed, JobInv, VersionInv, SelectedInv
  <2> QED
    BY <1>5, <2>1
<1>8. CASE /\ strayed' = FALSE /\ outdated' = FALSE
           /\ \E v \in Ids \ {w} :
                selected' = Snapshot(v, 1) /\ 1 \in DOMAIN wallets[v].groups
  <2>1. PICK v \in Ids \ {w} :
          selected' = Snapshot(v, 1) /\ 1 \in DOMAIN wallets[v].groups
    BY <1>8
  <2>2. /\ Snapshot(v, 1) \in Selections /\ Snapshot(v, 1).wallet = v
        /\ IsCurrent(Snapshot(v, 1))
    BY <2>1, SnapshotFact
  <2>3. IsCurrent(selected)'
    BY <1>1, <2>1, <2>2 DEF IsCurrent, Snapshot, Ids
  <2>4. selected' \in Selections /\ selected'.wallet = v
    BY <2>1, <2>2
  <2>5. Typed' /\ JobInv' /\ VersionInv'
    BY <1>1, <1>2, <1>3, <1>8, <2>4 DEF Typed, JobInv, VersionInv
  <2>6. SelectedInv'
    BY <1>1, <1>2, <1>3, <2>3, <2>4 DEF SelectedInv
  <2> QED
    BY <1>5, <2>5, <2>6
<1> QED
  BY <1>4, <1>6, <1>7, <1>8

LEMMA UntrackKeeps ==
  ASSUME IInv, Untrack
  PROVE  IInv'
<1> USE DEF IInv
<1>1. /\ UNCHANGED <<version, wallets, selected, strayed, outdated, selectedV1,
                     tracking, token, job, asked, found, restarts, regenerated>>
      /\ pc = "untrack" /\ pc' = "erase"
  BY DEF Untrack, vault, selection, outside, history
<1>2. /\ Ids' = Ids /\ HDs' = HDs
      /\ IsCurrent(selected)' = IsCurrent(selected)
  BY <1>1, WalletsStay
<1>3. PICK n \in 0..Len(wallets[job.wallet].groups) :
        /\ tracked' = tracked \ AleoUpTo(job.wallet, n)
        /\ lost' = lost \cup AleoUpTo(job.wallet, n)
  BY DEF Untrack
<1>4. AleoUpTo(job.wallet, n) \subseteq Addresses
  BY <1>1, AleoFact DEF JobInv
<1>5. Typed'
  BY <1>1, <1>2, <1>3, <1>4 DEF Typed
<1>6. JobInv' /\ VersionInv'
  BY <1>1, <1>2 DEF JobInv, VersionInv
<1>7. SelectedInv'
  BY <1>1, <1>2 DEF SelectedInv
<1>8. TrackedInv'
  BY <1>1, <1>3, TrackedStays
<1>9. CompleteInv'
  BY <1>1, CompleteStays
<1> QED
  BY <1>5, <1>6, <1>7, <1>8, <1>9

LEMMA TrackKeeps ==
  ASSUME IInv, NEW address \in tracking, Track(address)
  PROVE  IInv'
<1> USE DEF IInv
<1>1. /\ UNCHANGED <<version, wallets, selected, strayed, outdated, selectedV1,
                     lost, token, pc, job, asked, found, restarts, regenerated>>
      /\ tracking' = tracking \ {address} /\ tracked' = tracked \cup {address}
  BY DEF Track, vault, selection, operation, outside, history
<1>2. /\ Ids' = Ids /\ HDs' = HDs
      /\ IsCurrent(selected)' = IsCurrent(selected)
  BY <1>1, WalletsStay
<1>3. Typed' /\ JobInv' /\ VersionInv'
  BY <1>1, <1>2 DEF Typed, JobInv, VersionInv
<1>4. SelectedInv'
  BY <1>1, <1>2 DEF SelectedInv
<1>5. TrackedInv'
  BY <1>1, TrackedStays
<1>6. CompleteInv'
  BY <1>1, CompleteStays
<1> QED
  BY <1>3, <1>4, <1>5, <1>6

(* A restart may leave anything half done; the history it writes says so.  *)
LEMMA RestartKeeps ==
  ASSUME IInv, Restart
  PROVE  IInv'
<1> USE DEF IInv
<1>1. /\ UNCHANGED <<version, wallets, selected, selectedV1, tracked, regenerated>>
      /\ restarts' = restarts + 1 /\ restarts < MaxRestarts
      /\ token' = FALSE /\ asked' = FALSE /\ found' = None
      /\ tracking' = {} /\ pc' = "idle" /\ job' = None
      /\ strayed' = (strayed \/ pc = "selection")
      /\ outdated' = (outdated \/ pc \in {"reselect", "replace", "select"})
      /\ lost' = lost \cup tracking \cup
           (IF pc = "replace" THEN {Address(job.wallet, 1)} ELSE {})
  BY DEF Restart, vault
<1>2. /\ Ids' = Ids /\ HDs' = HDs /\ \A w : AleoOf(w)' = AleoOf(w)
      /\ IsCurrent(selected)' = IsCurrent(selected)
  BY <1>1, WalletsStay
<1>3. pc = "replace" =>
        /\ job.wallet \in Ids /\ Address(job.wallet, 1) \in Addresses
        /\ AleoOf(job.wallet) \subseteq {Address(job.wallet, 1)}
  <2> SUFFICES ASSUME pc = "replace"
               PROVE  /\ job.wallet \in Ids
                      /\ Address(job.wallet, 1) \in Addresses
                      /\ AleoOf(job.wallet) \subseteq {Address(job.wallet, 1)}
    OBVIOUS
  <2>1. /\ job.wallet \in Ids
        /\ wallets[job.wallet].groups = <<RegeneratedOptions>>
    BY DEF JobInv
  <2>2. DOMAIN <<RegeneratedOptions>> = {1}
    BY OneGroup DEF RegeneratedOptions, Options
  <2> QED
    BY <2>1, <2>2, AddressFact, AleoFact, ConstantsFact
<1>4. Typed'
  <2>1. lost' \subseteq Addresses /\ tracking' \subseteq Addresses
    BY <1>1, <1>3 DEF Typed
  <2>2. restarts' \in 0..MaxRestarts
    BY <1>1, ConstantsFact DEF Typed
  <2> QED
    BY <1>1, <1>2, <2>1, <2>2 DEF Typed
<1>5. JobInv' /\ VersionInv'
  BY <1>1, <1>2 DEF JobInv, VersionInv
<1>6. SelectedInv'
  BY <1>1, <1>2 DEF SelectedInv, Typed
<1>7. TrackedInv'
  <2> SUFFICES ASSUME NEW w \in Ids
               PROVE  AleoOf(w) \subseteq tracked \cup lost'
    BY <1>1, <1>2 DEF TrackedInv
  <2>1. CASE pc = "replace" /\ w = job.wallet
    BY <1>1, <1>3, <2>1
  <2>2. CASE ~(pc = "replace" /\ w = job.wallet)
    <3>1. AleoOf(w) \subseteq UNION {tracked, tracking, lost}
      BY <2>2 DEF TrackedInv
    <3> QED
      BY <1>1, <3>1
  <2> QED
    BY <2>1, <2>2
<1>8. CompleteInv'
  BY <1>1, CompleteStays
<1> QED
  BY <1>4, <1>5, <1>6, <1>7, <1>8

-----------------------------------------------------------------------------
(* Steps that change wallets                                               *)

(* A wallet is stored, new or in the place of an older one.                *)
LEMMA StoredFact ==
  ASSUME Typed, NEW w \in Wallets, NEW x \in WalletType, wallets' = Stored(w, x)
  PROVE  /\ Ids' = Ids \cup {w} /\ Ids' \subseteq Wallets
         /\ wallets' \in [Ids' -> WalletType] /\ wallets'[w] = x
         /\ HDs' = (HDs \ {w}) \cup (IF x.hd THEN {w} ELSE {})
         /\ \A v \in Ids \ {w} :
              wallets'[v] = wallets[v] /\ AleoOf(v)' = AleoOf(v)
         /\ \A a \in AleoOf(w)' : \E i \in DOMAIN x.groups :
              /\ "ALEO" \in x.groups[i]
              /\ a = IF x.hd THEN [x.key EXCEPT !.index = i] ELSE x.key
<1>1. Ids' = Ids \cup {w} /\ \A v \in Ids' : wallets'[v] = IF v = w THEN x ELSE wallets[v]
  BY DEF Stored, Ids
<1>2. wallets' \in [Ids' -> WalletType]
  <2>1. \A v \in Ids : wallets[v] \in WalletType
    BY DEF Typed
  <2> QED
    BY <1>1, <2>1 DEF Stored
<1>3. HDs' = {v \in Ids' : wallets'[v].hd} /\ HDs = {v \in Ids : wallets[v].hd}
  BY DEF HDs
<1>4. HDs' = (HDs \ {w}) \cup (IF x.hd THEN {w} ELSE {})
  BY <1>1, <1>3
<1>5. \A v \in Ids \ {w} : wallets'[v] = wallets[v]
  BY <1>1
<1>6. \A v \in Ids \ {w} : AleoOf(v)' = AleoOf(v)
  BY <1>5, WalletStays
<1>7. \A a \in AleoOf(w)' : \E i \in DOMAIN x.groups :
        /\ "ALEO" \in x.groups[i]
        /\ a = IF x.hd THEN [x.key EXCEPT !.index = i] ELSE x.key
  BY <1>1 DEF AleoOf, AleoUpTo, Address
<1>8. Ids' \subseteq Wallets
  BY <1>1 DEF Typed
<1> QED
  BY <1>1, <1>2, <1>4, <1>5, <1>6, <1>7, <1>8

(* A new wallet, without a selection yet.                                  *)
LEMMA AddWalletKeeps ==
  ASSUME IInv, NEW w \in Wallets, NEW x \in WalletType,
         NEW A \in SUBSET Addresses, AddWallet(w, x, A),
         DOMAIN x.groups = {1}, x.hd => x.groups[1] = Options,
         x.hd => x.key.index = 1,
         "ALEO" \in x.groups[1] => x.key \in A
  PROVE  IInv'
<1> USE DEF IInv
<1>1. /\ pc = "idle" /\ token /\ version # 0 /\ w \notin Ids
      /\ tracking' = tracking \cup A /\ lost' = lost \ A
      /\ job' = Place(w, 1) /\ pc' = "select"
      /\ regenerated' = regenerated \ {w}
      /\ UNCHANGED <<version, selected, strayed, outdated, selectedV1, tracked,
                     token, asked, found, restarts>>
  BY DEF AddWallet, StartTracking, selection, outside
<1>2. /\ Ids' = Ids \cup {w} /\ Ids' \subseteq Wallets
      /\ wallets' \in [Ids' -> WalletType] /\ wallets'[w] = x
      /\ HDs' = (HDs \ {w}) \cup (IF x.hd THEN {w} ELSE {})
      /\ \A v \in Ids \ {w} :
           wallets'[v] = wallets[v] /\ AleoOf(v)' = AleoOf(v)
      /\ \A a \in AleoOf(w)' : \E i \in DOMAIN x.groups :
           /\ "ALEO" \in x.groups[i]
           /\ a = IF x.hd THEN [x.key EXCEPT !.index = i] ELSE x.key
  BY StoredFact DEF AddWallet
<1>3. Place(w, 1) \in Places /\ Place(w, 1).wallet = w /\ Place(w, 1).index = 1
  BY ConstantsFact DEF Place, Places
<1>4. Typed'
  <2>1. tracking' \subseteq Addresses /\ lost' \subseteq Addresses
        /\ regenerated' \subseteq Wallets
    BY <1>1 DEF Typed
  <2> QED
    BY <1>1, <1>2, <2>1 DEF Typed
<1>5. JobInv'
  BY <1>1, <1>2, <1>3 DEF JobInv
<1>6. version # 1
  BY <1>1 DEF VersionInv
<1>7. VersionInv'
  <2>1. ASSUME NEW v \in Ids', wallets'[v].hd, NEW i \in DOMAIN wallets'[v].groups
        PROVE  "ALEO" \in wallets'[v].groups[i]
    <3>1. CASE v = w
      BY <1>2, <2>1, <3>1 DEF Options
    <3>2. CASE v # w
      BY <1>2, <2>1, <3>2 DEF VersionInv
    <3> QED
      BY <3>1, <3>2
  <2> QED
    BY <1>1, <1>6, <2>1 DEF VersionInv
<1>8. SelectedInv'
  BY <1>1, <1>2 DEF SelectedInv
<1>9. TrackedInv'
  <2> SUFFICES ASSUME NEW v \in Ids', NEW a \in AleoOf(v)'
               PROVE  a \in UNION {tracked, tracking', lost'}
    BY <1>1 DEF TrackedInv
  <2>1. CASE v = w
    <3>1. x.key \in [seed : Seeds, index : 1..MaxAccounts]
      BY DEF WalletType, Addresses
    <3>2. "ALEO" \in x.groups[1]
          /\ a = IF x.hd THEN [x.key EXCEPT !.index = 1] ELSE x.key
      BY <1>2, <2>1
    <3>3. x.hd => [x.key EXCEPT !.index = 1] = x.key
      BY <3>1
    <3>4. a = x.key
      BY <3>2, <3>3
    <3> QED
      BY <1>1, <3>2, <3>4
  <2>2. CASE v # w
    <3>1. a \in UNION {tracked, tracking, lost}
      BY <1>1, <1>2, <2>2 DEF TrackedInv
    <3> QED
      BY <1>1, <3>1
  <2> QED
    BY <2>1, <2>2
<1>10. CompleteInv'
  <2>1. ASSUME 1 \notin StartVersions, version' = VaultVersion,
               NEW v \in HDs' \ regenerated', NEW i \in DOMAIN wallets'[v].groups
        PROVE  wallets'[v].groups[i] = Options
    <3>1. CASE v = w
      BY <1>2, <2>1, <3>1
    <3>2. CASE v # w
      BY <1>1, <1>2, <2>1, <3>2 DEF CompleteInv, HDs
    <3> QED
      BY <3>1, <3>2
  <2> QED
    BY <1>1, <1>6, <2>1 DEF CompleteInv
<1> QED
  BY <1>4, <1>5, <1>7, <1>8, <1>9, <1>10

(* What a new wallet is.                                                   *)
LEMMA NewWalletFact ==
  /\ \A s \in Seeds :
       [hd |-> TRUE, key |-> FirstKey(s), groups |-> <<Options>>] \in WalletType
  /\ \A o \in {"ETH", "ALEO"}, k \in Addresses :
       [hd |-> FALSE, key |-> k, groups |-> <<{o}>>] \in WalletType
<1>1. /\ \A o \in {"ETH", "ALEO"} : {o} \in SUBSET Options
      /\ Options \in SUBSET Options
  <2>1. "ETH" \in Options /\ "ALEO" \in Options
    BY DEF Options
  <2> QED
    BY <2>1
<1>2. \A S \in SUBSET Options : <<S>> \in Groups
  BY OneGroup
<1> QED
  BY <1>1, <1>2, KeyFact DEF WalletType

LEMMA CreateKeeps ==
  ASSUME IInv, NEW w \in Wallets, NEW s \in Seeds, CreateWallet(w, s)
  PROVE  IInv'
<1> DEFINE x == [hd |-> TRUE, key |-> FirstKey(s), groups |-> <<Options>>]
<1>1. DOMAIN <<Options>> = {1} /\ <<Options>>[1] = Options
  BY OneGroup
<1>2. /\ x.hd /\ x.groups = <<Options>>
      /\ x.key = FirstKey(s) /\ x.key.index = 1
  BY DEF FirstKey
<1>3. x \in WalletType /\ AddWallet(w, x, {FirstKey(s)})
  BY NewWalletFact DEF CreateWallet
<1>4. {FirstKey(s)} \in SUBSET Addresses
  BY KeyFact
<1> HIDE DEF x
<1> QED
  BY <1>1, <1>2, <1>3, <1>4, AddWalletKeeps

LEMMA ImportKeeps ==
  ASSUME IInv, NEW w \in Wallets, NEW o \in {"ETH", "ALEO"},
         NEW k \in Addresses, ImportPrivateKey(w, o, k)
  PROVE  IInv'
<1> DEFINE x == [hd |-> FALSE, key |-> k, groups |-> <<{o}>>]
           A == IF o = "ALEO" THEN {k} ELSE {}
<1>1. DOMAIN <<{o}>> = {1} /\ <<{o}>>[1] = {o}
  BY OneGroup DEF Options
<1>2. ~x.hd /\ x.groups = <<{o}>> /\ x.key = k
  OBVIOUS
<1>3. x \in WalletType /\ AddWallet(w, x, A)
  BY NewWalletFact DEF ImportPrivateKey
<1>4. A \in SUBSET Addresses /\ ("ALEO" \in {o} => k \in A)
  OBVIOUS
<1> HIDE DEF x, A
<1> QED
  BY <1>1, <1>2, <1>3, <1>4, AddWalletKeeps

(* One more account of a wallet.                                           *)
LEMMA AddAccountKeeps ==
  ASSUME IInv, NEW w \in Wallets, AddAccount(w)
  PROVE  IInv'
<1> USE DEF IInv
<1> DEFINE g == wallets[w].groups
           n == Len(g) + 1
           x == [wallets[w] EXCEPT !.groups = Append(g, Options)]
<1>1. w \in HDs /\ w \in Ids /\ wallets[w].hd
  BY DEF AddAccount, HDs
<1>2. wallets[w] \in WalletType /\ g \in Groups
  BY <1>1, WalletFact
<1>3. Len(g) < MaxAccounts
  BY DEF AddAccount
<1>4. /\ Append(g, Options) \in Groups
      /\ DOMAIN Append(g, Options) = DOMAIN g \cup {n}
      /\ n \notin DOMAIN g /\ n \in 1..MaxAccounts
      /\ Append(g, Options)[n] = Options
      /\ \A i \in DOMAIN g : Append(g, Options)[i] = g[i]
  BY <1>2, <1>3, GroupAppended
<1>5. /\ pc = "idle" /\ token
      /\ tracking' = tracking \cup {Address(w, n)}
      /\ lost' = lost \ {Address(w, n)}
      /\ job' = Place(w, n) /\ pc' = "select"
      /\ UNCHANGED <<version, selected, strayed, outdated, selectedV1, tracked,
                     token, asked, found, restarts, regenerated>>
  BY DEF AddAccount, StartTracking, selection, outside, history
<1>6. wallets' = [wallets EXCEPT ![w].groups = Append(@, Options)]
  BY DEF AddAccount
<1> HIDE DEF n
<1>7. /\ x \in WalletType /\ x.hd = wallets[w].hd /\ x.key = wallets[w].key
      /\ x.groups = Append(g, Options)
  BY <1>2, <1>4 DEF WalletType
<1>8. wallets' = Stored(w, x)
  <2>1. wallets \in [Ids -> WalletType] /\ Ids \cup {w} = Ids
    BY <1>1 DEF Typed
  <2> QED
    BY <1>6, <2>1 DEF Stored
<1> HIDE DEF x
<1>9. /\ Ids' = Ids /\ Ids' \subseteq Wallets
      /\ wallets' \in [Ids' -> WalletType] /\ wallets'[w] = x
      /\ HDs' = HDs
      /\ \A v \in Ids \ {w} :
           wallets'[v] = wallets[v] /\ AleoOf(v)' = AleoOf(v)
      /\ \A a \in AleoOf(w)' : \E i \in DOMAIN x.groups :
           "ALEO" \in x.groups[i] /\ a = [wallets[w].key EXCEPT !.index = i]
  <2>1. Ids \cup {w} = Ids /\ (HDs \ {w}) \cup {w} = HDs
    BY <1>1
  <2>2. Ids' = Ids \cup {w} /\ HDs' = (HDs \ {w}) \cup {w}
    BY <1>1, <1>7, <1>8, StoredFact
  <2>3. /\ Ids' \subseteq Wallets
        /\ wallets' \in [Ids' -> WalletType] /\ wallets'[w] = x
        /\ \A v \in Ids \ {w} :
             wallets'[v] = wallets[v] /\ AleoOf(v)' = AleoOf(v)
    BY <1>7, <1>8, StoredFact
  <2>4. \A a \in AleoOf(w)' : \E i \in DOMAIN x.groups :
          /\ "ALEO" \in x.groups[i]
          /\ a = IF x.hd THEN [x.key EXCEPT !.index = i] ELSE x.key
    BY <1>7, <1>8, StoredFact
  <2>5. x.hd /\ x.key = wallets[w].key
    BY <1>1, <1>7
  <2> QED
    BY <2>1, <2>2, <2>3, <2>4, <2>5
<1>10. Place(w, n) \in Places /\ Place(w, n).wallet = w /\ Place(w, n).index = n
  BY <1>4 DEF Place, Places
<1>11. Address(w, n) \in Addresses
  BY <1>1, <1>4, AddressFact
<1>12. Typed'
  BY <1>5, <1>9, <1>11 DEF Typed
<1>13. JobInv'
  BY <1>1, <1>4, <1>5, <1>7, <1>9, <1>10 DEF JobInv
<1>14. ASSUME NEW v \in Ids, NEW i \in DOMAIN wallets'[v].groups
       PROVE  \/ /\ i \in DOMAIN wallets[v].groups
                 /\ wallets'[v].groups[i] = wallets[v].groups[i]
              \/ wallets'[v].groups[i] = Options
  BY <1>4, <1>7, <1>9
<1>15. \A v \in Ids : wallets'[v].hd = wallets[v].hd
  BY <1>7, <1>9
<1>16. VersionInv'
  <2>1. version # 0 /\ version # 1
    BY <1>1, <1>5 DEF VersionInv
  <2>2. ASSUME NEW v \in Ids, wallets'[v].hd, NEW i \in DOMAIN wallets'[v].groups
        PROVE  "ALEO" \in wallets'[v].groups[i]
    BY <1>14, <1>15, <2>2 DEF VersionInv, Options
  <2> QED
    BY <1>5, <1>9, <2>1, <2>2 DEF VersionInv
<1>17. SelectedInv'
  BY <1>5, <1>9 DEF SelectedInv
<1>18. TrackedInv'
  <2> SUFFICES ASSUME NEW v \in Ids, NEW a \in AleoOf(v)'
               PROVE  a \in UNION {tracked, tracking', lost'}
    BY <1>5, <1>9 DEF TrackedInv
  <2>1. AleoOf(v) \subseteq UNION {tracked, tracking, lost}
    BY <1>5 DEF TrackedInv
  <2>2. CASE v # w
    BY <1>5, <1>9, <2>1, <2>2
  <2>3. CASE v = w
    <3>1. PICK i \in DOMAIN x.groups :
            "ALEO" \in x.groups[i] /\ a = [wallets[w].key EXCEPT !.index = i]
      BY <1>9, <2>3
    <3>2. Address(w, i) = a
      BY <1>1, <3>1 DEF Address
    <3>3. CASE i = n
      BY <1>5, <3>2, <3>3
    <3>4. CASE i # n
      <4>1. i \in DOMAIN g /\ "ALEO" \in g[i]
        BY <1>4, <1>7, <3>1, <3>4
      <4>2. a \in AleoOf(w)
        BY <1>1, <3>2, <4>1, AleoFact
      <4> QED
        BY <1>5, <2>1, <2>3, <4>2
    <3> QED
      BY <3>3, <3>4
  <2> QED
    BY <2>2, <2>3
<1>19. CompleteInv'
  <2>1. \A v \in HDs : v \in Ids
    BY DEF HDs
  <2> QED
    BY <1>5, <1>9, <1>14, <2>1 DEF CompleteInv
<1> QED
  BY <1>12, <1>13, <1>16, <1>17, <1>18, <1>19

(* A wallet is stored anew, under another mnemonic.                        *)
LEMMA RegenerateKeeps ==
  ASSUME IInv, NEW w \in Wallets, NEW s \in Seeds, RegenerateWallet(w, s)
  PROVE  IInv'
<1> USE DEF IInv
<1> DEFINE x == [hd |-> TRUE, key |-> FirstKey(s), groups |-> <<RegeneratedOptions>>]
           j == [wallet |-> w, index |-> 1, old |-> wallets[w].key]
<1>1. w \in HDs /\ w \in Ids /\ wallets[w].key \in Addresses
  BY WalletFact DEF RegenerateWallet, HDs
<1>2. /\ <<RegeneratedOptions>> \in Groups /\ DOMAIN <<RegeneratedOptions>> = {1}
      /\ <<RegeneratedOptions>>[1] = RegeneratedOptions
      /\ "ALEO" \in RegeneratedOptions
  BY OneGroup DEF RegeneratedOptions, Options
<1>3. x \in WalletType /\ x.hd /\ x.groups = <<RegeneratedOptions>>
  BY <1>2, KeyFact DEF WalletType
<1>4. /\ pc = "idle" /\ token /\ wallets' = Stored(w, x)
      /\ job' = j /\ pc' = "replace" /\ regenerated' = regenerated \cup {w}
      /\ UNCHANGED <<version, selected, strayed, outdated, selectedV1, tracked,
                     tracking, lost, token, asked, found, restarts>>
  BY DEF RegenerateWallet, selection, aleo, outside
<1> HIDE DEF x
<1>5. /\ Ids' = Ids /\ Ids' \subseteq Wallets
      /\ wallets' \in [Ids' -> WalletType] /\ wallets'[w] = x
      /\ HDs' = HDs
      /\ \A v \in Ids \ {w} :
           wallets'[v] = wallets[v] /\ AleoOf(v)' = AleoOf(v)
  <2>1. Ids \cup {w} = Ids /\ (HDs \ {w}) \cup {w} = HDs
    BY <1>1
  <2>2. Ids' = Ids \cup {w} /\ HDs' = (HDs \ {w}) \cup {w}
    BY <1>3, <1>4, StoredFact
  <2>3. /\ Ids' \subseteq Wallets
        /\ wallets' \in [Ids' -> WalletType] /\ wallets'[w] = x
        /\ \A v \in Ids \ {w} :
             wallets'[v] = wallets[v] /\ AleoOf(v)' = AleoOf(v)
    BY <1>3, <1>4, StoredFact
  <2> QED
    BY <2>1, <2>2, <2>3
<1>6. j.wallet = w /\ j.old = wallets[w].key
  OBVIOUS
<1> HIDE DEF j
<1>7. Typed'
  BY <1>4, <1>5 DEF Typed
<1>8. JobInv'
  BY <1>1, <1>3, <1>4, <1>5, <1>6 DEF JobInv
<1>9. VersionInv'
  <2>1. version # 0 /\ version # 1
    BY <1>1, <1>4 DEF VersionInv
  <2>2. ASSUME NEW v \in Ids, wallets'[v].hd, NEW i \in DOMAIN wallets'[v].groups
        PROVE  "ALEO" \in wallets'[v].groups[i]
    <3>1. CASE v = w
      BY <1>2, <1>3, <1>5, <2>2, <3>1
    <3>2. CASE v # w
      BY <1>5, <2>2, <3>2 DEF VersionInv
    <3> QED
      BY <3>1, <3>2
  <2> QED
    BY <1>4, <1>5, <2>1, <2>2 DEF VersionInv
<1>10. SelectedInv'
  BY <1>4, <1>5 DEF SelectedInv
<1>11. TrackedInv'
  BY <1>4, <1>5, <1>6 DEF TrackedInv
<1>12. CompleteInv'
  <2>1. \A v \in HDs : v \in Ids
    BY DEF HDs
  <2> QED
    BY <1>4, <1>5, <2>1 DEF CompleteInv
<1> QED
  BY <1>7, <1>8, <1>9, <1>10, <1>11, <1>12

(* The Aleo store drops the account of the old mnemonic for the new one.   *)
LEMMA ReplaceKeeps ==
  ASSUME IInv, ReplaceTracked
  PROVE  IInv'
<1> USE DEF IInv
<1> DEFINE w == job.wallet
           old == job.old
           new == Address(w, 1)
<1>1. /\ pc = "replace" /\ pc' = "select" /\ job' = Place(w, 1)
      /\ tracked' = tracked \ {old} /\ tracking' = tracking \cup {new}
      /\ lost' = (lost \cup {old}) \ {new}
      /\ UNCHANGED <<version, wallets, selected, strayed, outdated, selectedV1,
                     token, asked, found, restarts, regenerated>>
  BY DEF ReplaceTracked, vault, selection, outside, history
<1>2. /\ Ids' = Ids /\ HDs' = HDs
      /\ \A v : AleoOf(v)' = AleoOf(v)
  BY <1>1, WalletsStay
<1>3. /\ w \in Ids /\ wallets[w].groups = <<RegeneratedOptions>>
      /\ old \in Addresses /\ DOMAIN wallets[w].groups = {1}
  <2>1. DOMAIN <<RegeneratedOptions>> = {1}
    BY OneGroup DEF RegeneratedOptions, Options
  <2> QED
    BY <1>1, <2>1 DEF JobInv
<1>4. new \in Addresses
  BY <1>3, ConstantsFact, AddressFact
<1>5. AleoOf(w) \subseteq {new}
  <2>1. AleoOf(w) = {Address(w, i) : i \in {j \in DOMAIN wallets[w].groups :
                                          "ALEO" \in wallets[w].groups[j]}}
    BY <1>3, AleoFact
  <2> QED
    BY <1>3, <2>1
<1>6. Place(w, 1) \in Places /\ Place(w, 1).wallet = w /\ Place(w, 1).index = 1
  <2>1. w \in Wallets
    BY <1>3, WalletFact
  <2> QED
    BY <2>1, ConstantsFact DEF Place, Places
<1> HIDE DEF w, old, new
<1>7. Typed'
  BY <1>1, <1>2, <1>3, <1>4 DEF Typed
<1>8. JobInv'
  BY <1>1, <1>2, <1>3, <1>6 DEF JobInv
<1>9. VersionInv' /\ SelectedInv'
  BY <1>1, <1>2 DEF VersionInv, SelectedInv
<1>10. TrackedInv'
  <2> SUFFICES ASSUME NEW v \in Ids, NEW a \in AleoOf(v)
               PROVE  a \in UNION {tracked', tracking', lost'}
    BY <1>1, <1>2 DEF TrackedInv
  <2>1. CASE v = w
    BY <1>1, <1>5, <2>1
  <2>2. CASE v # w
    <3>1. a \in UNION {tracked, tracking, lost}
      BY <1>1, <2>2 DEF TrackedInv, w
    <3> QED
      BY <1>1, <3>1
  <2> QED
    BY <2>1, <2>2
<1>11. CompleteInv'
  BY <1>1, CompleteStays
<1> QED
  BY <1>7, <1>8, <1>9, <1>10, <1>11

(* The accounts that older versions lack are derived.                      *)
LEMMA CompletedFact ==
  ASSUME Typed, wallets' = Completed(Options)
  PROVE  /\ Ids' = Ids /\ HDs' = HDs
         /\ wallets' \in [Ids -> WalletType]
         /\ \A w \in Ids :
              /\ wallets'[w].hd = wallets[w].hd /\ wallets'[w].key = wallets[w].key
              /\ DOMAIN wallets'[w].groups = DOMAIN wallets[w].groups
              /\ IF wallets[w].hd
                 THEN \A i \in DOMAIN wallets[w].groups :
                        wallets'[w].groups[i] = Options
                 ELSE wallets'[w] = wallets[w]
<1> DEFINE full(w) == [i \in DOMAIN wallets[w].groups |->
                         wallets[w].groups[i] \cup Options]
           x(w) == [wallets[w] EXCEPT !.groups = full(w)]
<1>1. wallets' = [w \in Ids |-> IF wallets[w].hd THEN x(w) ELSE wallets[w]]
  <2>1. \A w \in Ids :
          [wallets[w] EXCEPT !.groups = [i \in DOMAIN @ |-> @[i] \cup Options]] = x(w)
    BY WalletFact DEF WalletType
  <2> HIDE DEF x
  <2> QED
    BY <2>1 DEF Completed
<1>2. ASSUME NEW w \in Ids
      PROVE  /\ x(w) \in WalletType
             /\ x(w).hd = wallets[w].hd /\ x(w).key = wallets[w].key
             /\ DOMAIN x(w).groups = DOMAIN wallets[w].groups
             /\ \A i \in DOMAIN wallets[w].groups : x(w).groups[i] = Options
  <2>1. wallets[w] \in WalletType /\ wallets[w].groups \in Groups
    BY WalletFact
  <2>2. /\ full(w) \in Groups /\ DOMAIN full(w) = DOMAIN wallets[w].groups
        /\ \A i \in DOMAIN wallets[w].groups : full(w)[i] = Options
    BY <2>1, GroupsCompleted
  <2> HIDE DEF full
  <2> QED
    BY <2>1, <2>2 DEF WalletType
<1> HIDE DEF x
<1>3. Ids' = Ids /\ \A w \in Ids : wallets'[w] = IF wallets[w].hd THEN x(w) ELSE wallets[w]
  BY <1>1 DEF Ids
<1>4. \A w \in Ids : wallets[w] \in WalletType
  BY WalletFact
<1>5. wallets' \in [Ids -> WalletType]
  BY <1>1, <1>2, <1>4
<1>6. \A w \in Ids :
        /\ wallets'[w].hd = wallets[w].hd /\ wallets'[w].key = wallets[w].key
        /\ DOMAIN wallets'[w].groups = DOMAIN wallets[w].groups
        /\ IF wallets[w].hd
           THEN \A i \in DOMAIN wallets[w].groups : wallets'[w].groups[i] = Options
           ELSE wallets'[w] = wallets[w]
  BY <1>2, <1>3
<1>7. HDs' = HDs
  BY <1>3, <1>6 DEF HDs
<1> QED
  BY <1>3, <1>5, <1>6, <1>7

LEMMA CompleteKeeps ==
  ASSUME IInv, CompleteAccounts
  PROVE  IInv'
<1> USE DEF IInv
<1>1. /\ Ids' = Ids /\ HDs' = HDs
      /\ wallets' \in [Ids -> WalletType]
      /\ \A w \in Ids :
           /\ wallets'[w].hd = wallets[w].hd /\ wallets'[w].key = wallets[w].key
           /\ DOMAIN wallets'[w].groups = DOMAIN wallets[w].groups
           /\ IF wallets[w].hd
              THEN \A i \in DOMAIN wallets[w].groups :
                     wallets'[w].groups[i] = Options
              ELSE wallets'[w] = wallets[w]
  BY CompletedFact DEF CompleteAccounts
<1>2. /\ version' = VaultVersion /\ pc' = "reselect"
      /\ (pc = "complete" \/ pc = "migrate")
      /\ job' = IF pc = "complete" THEN job
                ELSE IF selected = None THEN None
                ELSE Place(selected.wallet, selected.index)
      /\ UNCHANGED <<selected, strayed, outdated, selectedV1, tracked, tracking,
                     lost, token, asked, found, restarts, regenerated>>
  BY DEF CompleteAccounts, ReadyToComplete, OldSelection, selection, aleo,
         outside, history
<1>3. selected # None => /\ Place(selected.wallet, selected.index) \in Places
                         /\ Place(selected.wallet, selected.index) # None
  BY ConstantsFact DEF Typed, Selections, Place, Places
<1>4. Typed'
  BY <1>1, <1>2 DEF Typed, VaultVersion
<1>5. JobInv'
  BY <1>2, <1>3 DEF JobInv
<1>6. VersionInv'
  <2>1. \A w \in Ids : wallets'[w].hd =>
          \A i \in DOMAIN wallets'[w].groups : "ALEO" \in wallets'[w].groups[i]
    BY <1>1 DEF Options
  <2> QED
    BY <1>1, <1>2, <2>1 DEF VersionInv, VaultVersion
<1>7. SelectedInv'
  BY <1>1, <1>2, <1>3 DEF SelectedInv
<1>8. TrackedInv'
  <2> SUFFICES ASSUME NEW w \in Ids, NEW a \in AleoOf(w)'
               PROVE  a \in UNION {tracked, tracking, lost}
    BY <1>1, <1>2 DEF TrackedInv
  <2>1. PICK i \in DOMAIN wallets'[w].groups :
          /\ "ALEO" \in wallets'[w].groups[i]
          /\ a = Address(w, i)'
    BY DEF AleoOf, AleoUpTo
  <2>2. /\ i \in DOMAIN wallets[w].groups
        /\ Address(w, i)' = Address(w, i)
    BY <1>1, <2>1 DEF Address
  <2>3. "ALEO" \in wallets[w].groups[i]
    <3>1. CASE wallets[w].hd
      BY <2>2, <3>1 DEF VersionInv
    <3>2. CASE ~wallets[w].hd
      BY <1>1, <2>1, <3>2
    <3> QED
      BY <3>1, <3>2
  <2>4. a \in AleoOf(w)
    BY <2>1, <2>2, <2>3, AleoFact
  <2> QED
    BY <1>2, <2>4 DEF TrackedInv
<1>9. CompleteInv'
  <2>1. \A w \in HDs : w \in Ids /\ wallets[w].hd
    BY DEF HDs
  <2> QED
    BY <1>1, <1>2, <2>1 DEF CompleteInv, VaultVersion
<1> QED
  BY <1>4, <1>5, <1>6, <1>7, <1>8, <1>9

(* The wallet that is deleted goes last.                                   *)
LEMMA EraseKeeps ==
  ASSUME IInv, Erase
  PROVE  IInv'
<1> USE DEF IInv
<1>1. /\ wallets' = [w \in Ids \ {job.wallet} |-> wallets[w]]
      /\ pc = "erase" /\ pc' = "idle" /\ job' = None
      /\ regenerated' = regenerated \ {job.wallet}
      /\ lost' = lost \cap UNION {AleoOf(w) : w \in Ids \ {job.wallet}}
      /\ UNCHANGED <<version, selected, strayed, outdated, selectedV1, tracked,
                     tracking, token, asked, found, restarts>>
  BY DEF Erase, Forget, selection, outside
<1>2. Ids' = Ids \ {job.wallet} /\ \A w \in Ids' : w \in Ids /\ wallets'[w] = wallets[w]
  BY <1>1 DEF Ids
<1>3. \A w \in Ids' : AleoOf(w)' = AleoOf(w)
  BY <1>2, WalletStays
<1>4. wallets' \in [Ids' -> WalletType]
  BY <1>1, <1>2 DEF Typed
<1>5. HDs' = HDs \ {job.wallet}
  BY <1>2 DEF HDs
<1>6. Typed'
  BY <1>1, <1>2, <1>4 DEF Typed
<1>7. JobInv'
  BY <1>1 DEF JobInv
<1>8. VersionInv'
  BY <1>1, <1>2 DEF VersionInv
<1>9. SelectedInv'
  <2> SUFFICES ASSUME selected # None, ~strayed
               PROVE  /\ selected.wallet \in Ids'
                      /\ ~outdated => IsCurrent(selected)'
    BY <1>1 DEF SelectedInv
  <2>1. selected.wallet \in Ids'
    BY <1>1, <1>2 DEF SelectedInv
  <2>2. ASSUME ~outdated PROVE IsCurrent(selected)'
    <3>1. IsCurrent(selected)
      BY <1>1, <2>2 DEF SelectedInv
    <3>2. wallets'[selected.wallet] = wallets[selected.wallet]
      BY <1>2, <2>1
    <3>3. Snapshot(selected.wallet, selected.index)'
          = Snapshot(selected.wallet, selected.index)
      BY <1>1, <3>2 DEF Snapshot
    <3> QED
      BY <1>1, <2>1, <3>1, <3>2, <3>3 DEF IsCurrent
  <2> QED
    BY <2>1, <2>2
<1>10. TrackedInv'
  <2> SUFFICES ASSUME NEW w \in Ids', NEW a \in AleoOf(w)
               PROVE  a \in UNION {tracked, tracking, lost'}
    BY <1>1, <1>3 DEF TrackedInv
  <2>1. w \in Ids \ {job.wallet} /\ a \in UNION {tracked, tracking, lost}
    BY <1>1, <1>2 DEF TrackedInv
  <2> QED
    BY <1>1, <2>1
<1>11. CompleteInv'
  <2>1. \A w \in HDs' : w \in HDs /\ wallets'[w] = wallets[w] /\ w # job.wallet
    BY <1>2, <1>5 DEF HDs
  <2>2. \A w \in HDs' \ regenerated' : w \in HDs \ regenerated /\ wallets'[w] = wallets[w]
    BY <1>1, <2>1
  <2>3. UNCHANGED version
    BY <1>1
  <2>4. ASSUME 1 \notin StartVersions, version = VaultVersion,
               NEW w \in HDs' \ regenerated', NEW i \in DOMAIN wallets'[w].groups
        PROVE  wallets'[w].groups[i] = Options
    <3>1. w \in HDs \ regenerated /\ wallets'[w] = wallets[w]
      BY <2>2
    <3> QED
      BY <2>4, <3>1 DEF CompleteInv
  <2> QED
    BY <2>3, <2>4 DEF CompleteInv
<1> QED
  BY <1>6, <1>7, <1>8, <1>9, <1>10, <1>11

(* Steps after which there is no wallet.                                   *)
LEMMA NoWallets ==
  ASSUME wallets' = <<>>
  PROVE  /\ Ids' = {} /\ HDs' = {}
         /\ wallets' \in [Ids' -> WalletType]
<1>1. DOMAIN <<>> = {} /\ <<>> \in [{} -> WalletType]
  OBVIOUS
<1>2. Ids' = {}
  BY <1>1 DEF Ids
<1> QED
  BY <1>1, <1>2 DEF HDs

LEMMA ResetKeyringKeeps ==
  ASSUME IInv, ResetKeyring
  PROVE  IInv'
<1> USE DEF IInv
<1>1. /\ Ids' = {} /\ HDs' = {}
      /\ wallets' \in [Ids' -> WalletType]
  BY NoWallets DEF ResetKeyring
<1>2. /\ version' = 0 /\ pc \in {"idle", "keyring"}
      /\ pc' = IF pc = "idle" THEN "selection" ELSE "idle"
      /\ regenerated' \subseteq regenerated /\ lost' \subseteq lost
      /\ UNCHANGED <<selected, strayed, outdated, selectedV1, tracked, tracking,
                     token, job, asked, found, restarts>>
  BY DEF ResetKeyring, Forget, selection, outside
<1>3. Typed'
  BY <1>1, <1>2 DEF Typed, VaultVersion
<1>4. JobInv'
  BY <1>2 DEF JobInv
<1>5. VersionInv'
  BY <1>1, <1>2 DEF VersionInv
<1>6. SelectedInv'
  BY <1>2 DEF SelectedInv
<1>7. TrackedInv'
  BY <1>1 DEF TrackedInv
<1>8. CompleteInv'
  BY <1>1, <1>2 DEF CompleteInv, VaultVersion
<1> QED
  BY <1>3, <1>4, <1>5, <1>6, <1>7, <1>8

(* A selection that was there has strayed.                                 *)
LEMMA InitPasswordKeeps ==
  ASSUME IInv, InitPassword
  PROVE  IInv'
<1> USE DEF IInv
<1>1. /\ Ids' = {} /\ HDs' = {}
      /\ wallets' \in [Ids' -> WalletType]
  BY NoWallets DEF InitPassword
<1>2. /\ pc = "idle" /\ version' = VaultVersion /\ token' = TRUE
      /\ strayed' = (selected # None)
      /\ regenerated' \subseteq regenerated /\ lost' \subseteq lost
      /\ UNCHANGED <<selected, outdated, selectedV1, tracked, tracking, pc, job,
                     asked, found, restarts>>
  BY DEF InitPassword, Forget, operation, outside
<1>3. strayed' \in BOOLEAN
  BY <1>2
<1>4. Typed'
  BY <1>1, <1>2, <1>3 DEF Typed, VaultVersion
<1>5. JobInv'
  BY <1>2 DEF JobInv
<1>6. VersionInv'
  BY <1>1, <1>2 DEF VersionInv, VaultVersion
<1>7. SelectedInv'
  BY <1>2 DEF SelectedInv
<1>8. TrackedInv'
  BY <1>1 DEF TrackedInv
<1>9. CompleteInv'
  BY <1>1, <1>2 DEF CompleteInv, VaultVersion
<1> QED
  BY <1>4, <1>5, <1>6, <1>7, <1>8, <1>9

-----------------------------------------------------------------------------
(* What an update of the code finds                                        *)

LEMMA OptionsFact ==
  ASSUME NEW v \in 1..VaultVersion
  PROVE  /\ OptionsAt(v) \in SUBSET Options /\ "ALEO" \in OptionsAt(v)
         /\ v = VaultVersion => OptionsAt(v) = Options
<1>1. v = VaultVersion => v # 1 /\ ~(v < VaultVersion)
  BY DEF VaultVersion
<1>2. /\ OptionsAt(v) \in {{"ALEO"}, {"ETH", "ALEO"}, Options}
      /\ v = VaultVersion => OptionsAt(v) = Options
  BY <1>1 DEF OptionsAt
<1>3. /\ {"ALEO"} \subseteq Options /\ {"ETH", "ALEO"} \subseteq Options
      /\ "ALEO" \in Options
  BY DEF Options
<1> QED
  BY <1>2, <1>3

LEMMA StartFact ==
  ASSUME Init
  PROVE  /\ version \in StartVersions /\ version \in 1..VaultVersion
         /\ Ids \subseteq Wallets /\ wallets \in [Ids -> WalletType]
         /\ \A w \in Ids :
              /\ DOMAIN wallets[w].groups = {1}
              /\ wallets[w].hd => wallets[w].groups[1] = OptionsAt(version)
<1> DEFINE H == {[hd |-> TRUE, key |-> FirstKey(s),
                  groups |-> <<OptionsAt(version)>>] : s \in Seeds}
           S == {[hd |-> FALSE, key |-> k, groups |-> <<{"ALEO"}>>] :
                   k \in Addresses}
<1>1. version \in StartVersions /\ version \in 1..VaultVersion
  BY ConstantsFact DEF Init
<1>2. PICK ids \in SUBSET Wallets : wallets \in [ids -> H \cup S]
  <2>1. wallets \in UNION {[ids -> H \cup S] :
                            ids \in IF version = VaultVersion
                                   THEN SUBSET Wallets
                                   ELSE (SUBSET Wallets) \ {{}}}
    BY DEF Init, StartWallets
  <2> HIDE DEF H, S
  <2> QED
    BY <2>1
<1>3. ASSUME NEW x \in H
      PROVE  /\ x \in WalletType /\ DOMAIN x.groups = {1}
             /\ x.groups[1] = OptionsAt(version)
  <2>1. OptionsAt(version) \in SUBSET Options
    BY <1>1, OptionsFact
  <2>2. PICK s \in Seeds : x = [hd |-> TRUE, key |-> FirstKey(s),
                                groups |-> <<OptionsAt(version)>>]
    OBVIOUS
  <2> QED
    BY <2>1, <2>2, OneGroup, KeyFact DEF WalletType
<1>4. ASSUME NEW x \in S
      PROVE  x \in WalletType /\ DOMAIN x.groups = {1} /\ ~x.hd
  <2>1. {"ALEO"} \in SUBSET Options
    BY DEF Options
  <2>2. PICK k \in Addresses : x = [hd |-> FALSE, key |-> k, groups |-> <<{"ALEO"}>>]
    OBVIOUS
  <2> QED
    BY <2>1, <2>2, OneGroup DEF WalletType
<1> HIDE DEF H, S
<1>5. Ids = ids /\ \A w \in Ids : wallets[w] \in H \cup S
  BY <1>2 DEF Ids
<1>6. wallets \in [Ids -> WalletType]
  BY <1>2, <1>3, <1>4, <1>5
<1> QED
  BY <1>1, <1>2, <1>3, <1>4, <1>5, <1>6

LEMMA InitIInv ==
  ASSUME Init
  PROVE  IInv
<1>1. /\ version \in StartVersions /\ version \in 1..VaultVersion
      /\ Ids \subseteq Wallets /\ wallets \in [Ids -> WalletType]
      /\ \A w \in Ids :
           /\ DOMAIN wallets[w].groups = {1}
           /\ wallets[w].hd => wallets[w].groups[1] = OptionsAt(version)
  BY StartFact
<1>2. /\ tracking = {} /\ token = FALSE /\ pc = "idle" /\ job = None
      /\ asked = FALSE /\ found = None /\ restarts = 0 /\ regenerated = {}
      /\ lost = {} /\ strayed = FALSE /\ outdated = FALSE
      /\ tracked = UNION {AleoOf(w) : w \in Ids}
  BY DEF Init
<1>3. \A w \in Ids : /\ Place(w, 1) \in Places
                     /\ Snapshot(w, 1) \in Selections
                     /\ Snapshot(w, 1).wallet = w /\ Snapshot(w, 1).index = 1
  <2> SUFFICES ASSUME NEW w \in Ids
               PROVE  /\ Place(w, 1) \in Places
                      /\ Snapshot(w, 1) \in Selections
                      /\ Snapshot(w, 1).wallet = w /\ Snapshot(w, 1).index = 1
    OBVIOUS
  <2>1. w \in Wallets /\ wallets[w] \in WalletType /\ 1 \in DOMAIN wallets[w].groups
    BY <1>1
  <2>2. wallets[w].key \in Addresses /\ wallets[w].groups[1] \subseteq Options
    BY <2>1, GroupsFact DEF WalletType
  <2> QED
    BY <2>1, <2>2, ConstantsFact DEF Snapshot, Selections, Place, Places
<1>4. \/ selected = None
      \/ version # 1 /\ \E w \in Ids : selected = Snapshot(w, 1)
  BY DEF Init
<1>5. selectedV1 \in Places \cup {None}
  BY <1>3 DEF Init
<1>6. Typed
  <2>1. tracked \subseteq Addresses
    <3>1. ASSUME NEW w \in Ids
          PROVE  AleoOf(w) \subseteq Addresses
      <4>1. /\ DOMAIN wallets[w].groups = {1}
            /\ wallets[w].key \in Addresses
        BY <1>1 DEF WalletType
      <4>2. [wallets[w].key EXCEPT !.index = 1] \in Addresses
        BY <4>1, ConstantsFact DEF Addresses
      <4>3. Address(w, 1) \in Addresses
        BY <4>1, <4>2 DEF Address
      <4> QED
        BY <4>1, <4>3 DEF AleoOf, AleoUpTo
    <3> QED
      BY <1>2, <3>1
  <2>2. selected \in Selections \cup {None}
    BY <1>3, <1>4
  <2>3. restarts \in 0..MaxRestarts
    BY <1>2, ConstantsFact
  <2>4. version \in 0..VaultVersion
    BY <1>1 DEF VaultVersion
  <2> QED
    BY <1>1, <1>2, <1>5, <2>1, <2>2, <2>3, <2>4 DEF Typed
<1>7. JobInv
  BY <1>2 DEF JobInv
<1>8. VersionInv
  <2>1. "ALEO" \in OptionsAt(version)
    BY <1>1, OptionsFact
  <2>2. version # 0 /\ (version = 1 => selected = None)
    BY <1>1, <1>4
  <2> QED
    BY <1>1, <1>2, <2>1, <2>2 DEF VersionInv
<1>9. SelectedInv
  <2>1. ASSUME selected # None
        PROVE  selected.wallet \in Ids /\ IsCurrent(selected)
    <3>1. PICK w \in Ids : selected = Snapshot(w, 1)
      BY <1>4, <2>1
    <3> QED
      BY <1>1, <1>3, <3>1 DEF IsCurrent
  <2> QED
    BY <1>2, <2>1 DEF SelectedInv
<1>10. TrackedInv
  BY <1>2 DEF TrackedInv
<1>11. CompleteInv
  <2> SUFFICES ASSUME 1 \notin StartVersions
               PROVE  /\ version # 1
                      /\ version = VaultVersion =>
                           \A w \in HDs : \A i \in DOMAIN wallets[w].groups :
                             wallets[w].groups[i] = Options
    BY DEF CompleteInv
  <2>1. version # 1
    BY <1>1
  <2>2. version = VaultVersion =>
          \A w \in HDs : \A i \in DOMAIN wallets[w].groups :
            wallets[w].groups[i] = Options
    BY <1>1, OptionsFact DEF HDs
  <2> QED
    BY <2>1, <2>2
<1> QED
  BY <1>6, <1>7, <1>8, <1>9, <1>10, <1>11 DEF IInv

-----------------------------------------------------------------------------
(* Every step                                                              *)

LEMMA StutterKeeps ==
  ASSUME IInv, UNCHANGED vars
  PROVE  IInv'
<1> USE DEF IInv, vars, vault, selection, aleo, operation, outside, history
<1>1. wallets' = wallets
  OBVIOUS
<1>2. Ids' = Ids /\ HDs' = HDs
      /\ (selected' = selected => IsCurrent(selected)' = IsCurrent(selected))
  BY <1>1, WalletsStay
<1>3. Typed'
  BY <1>1, <1>2 DEF Typed
<1>4. JobInv'
  BY <1>1, <1>2 DEF JobInv
<1>5. VersionInv'
  BY <1>1, <1>2 DEF VersionInv
<1>6. SelectedInv'
  BY <1>1, <1>2 DEF SelectedInv
<1>7. TrackedInv'
  BY <1>1, TrackedStays
<1>8. CompleteInv'
  BY <1>1, CompleteStays
<1> QED
  BY <1>3, <1>4, <1>5, <1>6, <1>7, <1>8

LEMMA Inductive == IInv /\ [Next]_vars => IInv'
<1> SUFFICES ASSUME IInv, [Next]_vars
             PROVE  IInv'
  OBVIOUS
<1>1. CASE InitPassword
  BY <1>1, InitPasswordKeeps
<1>2. CASE Lock
  BY <1>2, LockKeeps
<1>3. CASE \E valid \in BOOLEAN : Login(valid)
  BY <1>3, LoginKeeps
<1>4. CASE UpToDate
  BY <1>4, UpToDateKeeps
<1>5. CASE ConvertV1
  BY <1>5, ConvertV1Keeps
<1>6. CASE CompleteAccounts
  BY <1>6, CompleteKeeps
<1>7. CASE CompleteThrows
  BY <1>7, CompleteThrowsKeeps
<1>8. CASE Reselect
  BY <1>8, ReselectKeeps
<1>9. CASE \E w \in Wallets, s \in Seeds : CreateWallet(w, s)
  BY <1>9, CreateKeeps
<1>10. CASE \E w \in Wallets : AddAccount(w)
  BY <1>10, AddAccountKeeps
<1>11. CASE \E w \in Wallets, s \in Seeds : RegenerateWallet(w, s)
  BY <1>11, RegenerateKeeps
<1>12. CASE \E w \in Wallets, o \in {"ETH", "ALEO"}, k \in Addresses :
              ImportPrivateKey(w, o, k)
  BY <1>12, ImportKeeps
<1>13. CASE ReplaceTracked
  BY <1>13, ReplaceKeeps
<1>14. CASE Select
  BY <1>14, SelectKeeps
<1>15. CASE \E address \in tracking : Track(address)
  BY <1>15, TrackKeeps
<1>16. CASE \E w \in Ids : \E i \in DOMAIN wallets[w].groups :
              SetSelectedGroupAccount(w, i)
  BY <1>16, SetSelectedKeeps
<1>17. CASE GetSelectedGroupAccount
  BY <1>17, GetSelectedKeeps
<1>18. CASE FindSelectable
  BY <1>18, FindKeeps
<1>19. CASE SelectFound
  BY <1>19, SelectFoundKeeps
<1>20. CASE \E w \in Ids : Deselect(w)
  BY <1>20, DeselectKeeps
<1>21. CASE Untrack
  BY <1>21, UntrackKeeps
<1>22. CASE Erase
  BY <1>22, EraseKeeps
<1>23. CASE ResetKeyring
  BY <1>23, ResetKeyringKeeps
<1>24. CASE ResetSelection
  BY <1>24, ResetSelectionKeeps
<1>25. CASE Restart
  BY <1>25, RestartKeeps
<1>26. CASE UNCHANGED vars
  BY <1>26, StutterKeeps
<1> QED
  BY <1>1, <1>2, <1>3, <1>4, <1>5, <1>6, <1>7, <1>8, <1>9, <1>10, <1>11,
     <1>12, <1>13, <1>14, <1>15, <1>16, <1>17, <1>18, <1>19, <1>20, <1>21,
     <1>22, <1>23, <1>24, <1>25, <1>26 DEF Next

-----------------------------------------------------------------------------
(* What a step may do to a wallet                                          *)

Kept(w) ==
  /\ w \in Ids'
  /\ wallets'[w].hd = wallets[w].hd
  /\ wallets'[w].key = wallets[w].key
  /\ \A i \in DOMAIN wallets[w].groups :
       /\ i \in DOMAIN wallets'[w].groups
       /\ wallets[w].groups[i] \subseteq wallets'[w].groups[i]

KeyStep ==
  \A w \in Ids :
    \/ pc = "erase" /\ w = job.wallet
    \/ version' = 0
    \/ pc' = "replace" /\ w = job'.wallet
    \/ Ids' = {} /\ token' /\ ~(token /\ HDs # {})
    \/ Kept(w)

LEMMA SameWalletKept ==
  ASSUME NEW w \in Ids', wallets'[w] = wallets[w]
  PROVE  Kept(w)
  BY DEF Kept

LEMMA AddWalletLoses ==
  ASSUME IInv, NEW w \in Wallets, NEW x \in WalletType, NEW A, AddWallet(w, x, A)
  PROVE  KeyStep
<1>1. w \notin Ids /\ wallets' = Stored(w, x)
  BY DEF AddWallet
<1>2. \A v \in Ids : v \in Ids' /\ wallets'[v] = wallets[v]
  BY <1>1, StoredFact DEF IInv
<1> QED
  BY <1>2, SameWalletKept DEF KeyStep

LEMMA AddAccountLoses ==
  ASSUME IInv, NEW w \in Wallets, AddAccount(w)
  PROVE  KeyStep
<1> DEFINE g == wallets[w].groups
<1>1. /\ w \in HDs /\ w \in Ids /\ Len(g) < MaxAccounts
      /\ wallets' = [wallets EXCEPT ![w].groups = Append(@, Options)]
  BY DEF AddAccount, HDs
<1>2. wallets \in [Ids -> WalletType] /\ wallets[w] \in WalletType /\ g \in Groups
  BY <1>1, WalletFact DEF IInv, Typed
<1>3. \A i \in DOMAIN g : /\ i \in DOMAIN Append(g, Options)
                          /\ Append(g, Options)[i] = g[i]
  BY <1>1, <1>2, GroupAppended
<1>4. /\ Ids' = Ids
      /\ wallets'[w].hd = wallets[w].hd /\ wallets'[w].key = wallets[w].key
      /\ wallets'[w].groups = Append(g, Options)
      /\ \A v \in Ids \ {w} : wallets'[v] = wallets[v]
  BY <1>1, <1>2 DEF Ids, WalletType
<1>5. Kept(w)
  BY <1>1, <1>3, <1>4 DEF Kept
<1> QED
  BY <1>4, <1>5, SameWalletKept DEF KeyStep

LEMMA RegenerateLoses ==
  ASSUME IInv, NEW w \in Wallets, NEW s \in Seeds, RegenerateWallet(w, s)
  PROVE  KeyStep
<1> DEFINE x == [hd |-> TRUE, key |-> FirstKey(s), groups |-> <<RegeneratedOptions>>]
<1>1. x \in WalletType
  <2>1. RegeneratedOptions \in SUBSET Options
    BY DEF RegeneratedOptions, Options
  <2> QED
    BY <2>1, OneGroup, KeyFact DEF WalletType
<1>2. /\ w \in Ids /\ wallets' = Stored(w, x)
      /\ pc' = "replace" /\ job'.wallet = w
  BY DEF RegenerateWallet, HDs
<1>3. \A v \in Ids \ {w} : v \in Ids' /\ wallets'[v] = wallets[v]
  <2> HIDE DEF x
  <2> QED
    BY <1>1, <1>2, StoredFact DEF IInv
<1> QED
  BY <1>2, <1>3, SameWalletKept DEF KeyStep

LEMMA CompleteLoses ==
  ASSUME IInv, CompleteAccounts
  PROVE  KeyStep
<1> SUFFICES ASSUME NEW w \in Ids
             PROVE  Kept(w)
  BY DEF KeyStep
<1>1. /\ Ids' = Ids
      /\ wallets'[w].hd = wallets[w].hd /\ wallets'[w].key = wallets[w].key
      /\ DOMAIN wallets'[w].groups = DOMAIN wallets[w].groups
      /\ IF wallets[w].hd
         THEN \A i \in DOMAIN wallets[w].groups : wallets'[w].groups[i] = Options
         ELSE wallets'[w] = wallets[w]
  BY CompletedFact DEF IInv, CompleteAccounts
<1>2. \A i \in DOMAIN wallets[w].groups : wallets[w].groups[i] \subseteq Options
  BY WalletFact DEF IInv
<1> QED
  BY <1>1, <1>2 DEF Kept

LEMMA EraseLoses ==
  ASSUME Erase
  PROVE  KeyStep
<1>1. wallets' = [w \in Ids \ {job.wallet} |-> wallets[w]] /\ pc = "erase"
  BY DEF Erase
<1>2. \A w \in Ids \ {job.wallet} : w \in Ids' /\ wallets'[w] = wallets[w]
  BY <1>1 DEF Ids
<1> QED
  BY <1>1, <1>2, SameWalletKept DEF KeyStep

(* initPassword empties a locked vault, or one without HD wallets.         *)
LEMMA InitPasswordLoses ==
  ASSUME InitPassword
  PROVE  KeyStep
<1>1. Ids' = {}
  BY NoWallets DEF InitPassword
<1>2. token' /\ ~(token /\ HDs # {})
  BY DEF InitPassword
<1> QED
  BY <1>1, <1>2 DEF KeyStep

LEMMA UnchangedLoses ==
  ASSUME wallets' = wallets
  PROVE  KeyStep
<1>1. \A w \in Ids : w \in Ids' /\ wallets'[w] = wallets[w]
  BY DEF Ids
<1> QED
  BY <1>1, SameWalletKept DEF KeyStep

LEMMA StepLoses ==
  ASSUME IInv, Next
  PROVE  KeyStep
<1>1. CASE InitPassword
  BY <1>1, InitPasswordLoses
<1>2. CASE CompleteAccounts
  BY <1>2, CompleteLoses
<1>3. CASE \E w \in Wallets, s \in Seeds : CreateWallet(w, s)
  BY <1>3, AddWalletLoses, NewWalletFact DEF CreateWallet
<1>4. CASE \E w \in Wallets : AddAccount(w)
  BY <1>4, AddAccountLoses
<1>5. CASE \E w \in Wallets, s \in Seeds : RegenerateWallet(w, s)
  BY <1>5, RegenerateLoses
<1>6. CASE \E w \in Wallets, o \in {"ETH", "ALEO"}, k \in Addresses :
             ImportPrivateKey(w, o, k)
  BY <1>6, AddWalletLoses, NewWalletFact DEF ImportPrivateKey
<1>7. CASE Erase
  BY <1>7, EraseLoses
<1>8. CASE ResetKeyring
  BY <1>8 DEF ResetKeyring, KeyStep
<1>9. CASE Lock \/ (\E valid \in BOOLEAN : Login(valid)) \/ UpToDate
           \/ CompleteThrows
  BY <1>9, UnchangedLoses DEF Lock, Login, UpToDate, CompleteThrows, vault
<1>10. CASE ConvertV1 \/ Reselect \/ ReplaceTracked \/ Select
            \/ (\E address \in tracking : Track(address))
  BY <1>10, UnchangedLoses DEF ConvertV1, Reselect, ReplaceTracked, Select,
     Track, vault
<1>11. CASE \/ \E w \in Ids : \E i \in DOMAIN wallets[w].groups :
                 SetSelectedGroupAccount(w, i)
            \/ GetSelectedGroupAccount \/ FindSelectable \/ SelectFound
  BY <1>11, UnchangedLoses DEF SetSelectedGroupAccount,
     GetSelectedGroupAccount, FindSelectable, SelectFound, vault
<1>12. CASE \E w \in Ids : Deselect(w)
  BY <1>12, UnchangedLoses DEF Deselect, vault
<1>13. CASE Untrack \/ ResetSelection \/ Restart
  BY <1>13, UnchangedLoses DEF Untrack, ResetSelection, Restart, vault
<1> QED
  BY <1>1, <1>2, <1>3, <1>4, <1>5, <1>6, <1>7, <1>8, <1>9, <1>10, <1>11,
     <1>12, <1>13 DEF Next

-----------------------------------------------------------------------------
(* Theorems                                                                *)

LEMMA Always == Spec => []IInv
<1>1. Init => IInv
  BY InitIInv
<1> QED
  BY <1>1, Inductive, PTL DEF Spec

LEMMA IInvTypes == IInv => TypeOK
<1> SUFFICES ASSUME IInv
             PROVE  TypeOK
  OBVIOUS
<1>1. \A w \in Ids :
        /\ wallets[w].hd \in BOOLEAN /\ wallets[w].key \in Addresses
        /\ wallets[w].groups \in Seq(SUBSET Options)
        /\ Len(wallets[w].groups) \in 1..MaxAccounts
  BY WalletFact DEF IInv, Groups
<1>2. /\ {selected, found} \subseteq Selections \cup {None}
      /\ UNION {tracked, tracking, lost} \subseteq Addresses
      /\ {token, asked, strayed, outdated} \subseteq BOOLEAN
  BY DEF IInv, Typed
<1> QED
  BY <1>1, <1>2 DEF IInv, Typed, JobInv, TypeOK

(* Every state of every installation is well typed: the vault only ever    *)
(* holds wallets with between one and MaxAccounts accounts, and an         *)
(* operation is remembered only while it runs.                             *)
THEOREM TypesHold == Spec => []TypeOK
  BY Always, IInvTypes, PTL

(* The account that AccountStorage holds as selected is one the vault has, *)
(* whatever operation or crash came before, and between operations an      *)
(* exact copy of it unless a crash cut an operation short. A reset torn in *)
(* two, an initPassword over a selection, and what getSelectedGroupAccount *)
(* writes late are excepted until the next selection.                      *)
THEOREM SelectionAlwaysFollows == Spec => []SelectionFollows
<1>1. IInv => SelectionFollows
  BY DEF IInv, SelectedInv, SelectionFollows
<1> QED
  BY <1>1, Always, PTL

(* KeyringManager hands every Aleo account it derives to the Aleo store,   *)
(* and only the deletion of a wallet with the same key, the store being    *)
(* keyed by address, or a crash takes the address of an account out again. *)
THEOREM OwnedAreTracked == Spec => []OwnedIsTracked
<1>1. IInv => OwnedIsTracked
  BY DEF IInv, TrackedInv, OwnedIsTracked
<1> QED
  BY <1>1, Always, PTL

(* From any version but the first, the migration marks the vault current   *)
(* only with the accounts it derives.                                      *)
THEOREM CurrentStaysComplete ==
  ASSUME 1 \notin StartVersions
  PROVE  Spec => []CurrentIsComplete
<1>1. IInv => CurrentIsComplete
  BY DEF IInv, CompleteInv, CurrentIsComplete
<1> QED
  BY <1>1, Always, PTL

(* No step loses a wallet, an account or a key but the deletion of the     *)
(* wallet, a reset, a regeneration, and an initPassword on a vault that is *)
(* locked or has no HD wallet.                                             *)
THEOREM KeysStay == Spec => KeysAreKept
<1>1. IInv /\ [Next]_vars => [KeyStep]_vars
  BY StepLoses
<1>2. Spec => [][KeyStep]_vars
  BY <1>1, Always, PTL DEF Spec
<1> QED
  BY <1>2 DEF KeysAreKept, KeyStep, Kept

=============================================================================
