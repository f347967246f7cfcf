-------------------------------- MODULE Vault --------------------------------
(***************************************************************************)
(* The wallets an installation stores: the vault (VaultStorage.ts), the    *)
(* operations on it (KeyringManager.ts, PopupServer.ts), the selected      *)
(* account (AccountStorage.ts, a database of its own), the addresses the   *)
(* Aleo store knows (AleoStorage.ts), and the migration that login runs.   *)
(*                                                                         *)
(* The popup handler runs one operation at a time; each of its writes is a *)
(* step, and the service worker may restart between any two of them.       *)
(* getSelectedGroupAccount also runs for a dapp's request, outside the     *)
(* popup handler, and interleaves with all of them. A mnemonic is a seed,  *)
(* an address the place of its key among those a seed derives, so that an  *)
(* imported private key may be the key of an account of an HD wallet.      *)
(***************************************************************************)
EXTENDS Naturals, Sequences, FiniteSets

CONSTANTS
  Wallets,        \* wallet ids
  Seeds,          \* mnemonics
  None,
  StartVersions,  \* versions of the vault that an update of the code finds
  MayRegenerate,  \* regenerateWallet is called (a popup method no page uses)
  MaxAccounts,    \* bound: group accounts of a wallet
  MaxTracking,    \* bound: setAccountInfo calls under way
  MaxRestarts     \* bound: service worker restarts

VaultVersion == 5
Options == {"ETH", "ALEO", "QTUM", "QTUM testnet"}   \* ALL_ACCOUNT_OPTIONS

(* regenerateWallet derives one account for each coin type.                *)
RegeneratedOptions == {"ETH", "ALEO", "QTUM"}

(* Where a key is derived, where an account is, and what is kept of a      *)
(* selected one.                                                           *)
Addresses == [seed : Seeds, index : 1..MaxAccounts]
Places == [wallet : Wallets, index : 1..MaxAccounts]
Selections == [wallet : Wallets, index : 1..MaxAccounts, key : Addresses,
               accounts : SUBSET Options]

ASSUME VaultAssumption ==
  /\ None \notin Wallets /\ None \notin Places /\ None \notin Selections
  /\ StartVersions \subseteq 1..VaultVersion
  /\ MayRegenerate \in BOOLEAN
  /\ MaxAccounts \in Nat \ {0} /\ {MaxTracking, MaxRestarts} \subseteq Nat

(* What an older version stored for an HD wallet.                          *)
OptionsAt(v) ==
  IF v = 1 THEN {"ALEO"}
  ELSE IF v < VaultVersion THEN {"ETH", "ALEO"}
  ELSE Options

VARIABLES
  version,      \* keyring.version, 0 when it is undefined
  wallets,      \* the keyring: wallet id -> [hd, key, groups]
  selected,     \* the selected group account as it was stored, or None
  selectedV1,   \* the selected account of a version 1 installation
  tracked,      \* the addresses in the Aleo store
  tracking,     \* setAccountInfo calls nobody awaits
  token,
  pc,           \* the write the current operation does next
  job,          \* the operation's wallet and account, or the old selection
  asked,        \* a dapp's getSelectedGroupAccount found nothing selected
  found,        \* the account it is about to select, or None
  restarts,
  regenerated,  \* history: the wallets that were given another mnemonic
  lost,         \* history: addresses of wallets, cleared with another wallet
                \* or operation, or whose setAccountInfo a restart cut off
  strayed,      \* history: the selection was left behind, see Strays below
  outdated      \* history: a restart kept an operation from selecting

vault == <<version, wallets>>
selection == <<selected, strayed, outdated>>
aleo == <<tracked, tracking, lost>>
operation == <<pc, job>>
outside == <<asked, found>>
history == <<restarts, regenerated>>
vars == <<vault, selection, selectedV1, aleo, token, operation, outside,
          history>>

Ids == DOMAIN wallets
HDs == {w \in Ids : wallets[w].hd}
Simples == Ids \ HDs

Snapshot(w, i) ==
  [wallet |-> w, index |-> i, key |-> wallets[w].key,
   accounts |-> wallets[w].groups[i]]

IsCurrent(s) ==
  /\ s.wallet \in Ids
  /\ s.index \in DOMAIN wallets[s.wallet].groups
  /\ s = Snapshot(s.wallet, s.index)

(* An HD wallet's key is its first one; a simple wallet has no other.      *)
Address(w, i) ==
  IF wallets[w].hd THEN [wallets[w].key EXCEPT !.index = i]
  ELSE wallets[w].key

(* The addresses of the Aleo accounts among the first n of wallet w.       *)
AleoUpTo(w, n) ==
  {Address(w, i) : i \in {j \in DOMAIN wallets[w].groups :
                            j <= n /\ "ALEO" \in wallets[w].groups[j]}}
AleoOf(w) == AleoUpTo(w, Len(wallets[w].groups))

Place(w, i) == [wallet |-> w, index |-> i]

(* The history of wallets that are no more is forgotten.                   *)
Forget(gone) ==
  /\ regenerated' = regenerated \ gone
  /\ lost' = lost \cap UNION {AleoOf(w) : w \in Ids \ gone}

FirstKey(s) == [seed |-> s, index |-> 1]
SeedsInUse == {wallets[w].key.seed : w \in HDs}

(* The wallets that an update of the code finds: no two HD wallets of one  *)
(* mnemonic, no two simple wallets of one key.                             *)
StartWallets(v) ==
  {f \in UNION {[ids -> {[hd |-> TRUE, key |-> FirstKey(s),
                          groups |-> <<OptionsAt(v)>>] : s \in Seeds}
                        \cup {[hd |-> FALSE, key |-> k,
                               groups |-> <<{"ALEO"}>>] : k \in Addresses}] :
                  ids \in IF v = VaultVersion THEN SUBSET Wallets
                          ELSE (SUBSET Wallets) \ {{}}} :
     \A w, o \in DOMAIN f : w # o /\ f[w].hd = f[o].hd => f[w].key # f[o].key}

Init ==
  /\ version \in StartVersions
  /\ wallets \in StartWallets(version)
  /\ IF version = 1 \/ Ids = {}
     THEN selected = None
     ELSE \E w \in Ids : selected = Snapshot(w, 1)
  /\ IF version = 1
     THEN \E w \in Ids : selectedV1 = Place(w, 1)
     ELSE selectedV1 = None
  /\ tracked = UNION {AleoOf(w) : w \in Ids}
  /\ tracking = {}
  /\ token = FALSE
  /\ pc = "idle"
  /\ job = None
  /\ asked = FALSE
  /\ found = None
  /\ restarts = 0
  /\ regenerated = {}
  /\ lost = {}
  /\ strayed = FALSE
  /\ outdated = FALSE

-----------------------------------------------------------------------------
(* Passwords                                                               *)

(* As if an unlocked vault with wallets were not checked for.              *)
InitPasswordUnchecked ==
  /\ pc = "idle"
  /\ version' = VaultVersion
  /\ wallets' = <<>>
  /\ token' = TRUE
  /\ strayed' = (selected # None)
  /\ Forget(Ids)
  /\ UNCHANGED <<selected, outdated, selectedV1, tracked, tracking, operation,
                 outside, restarts>>

(* Refused while an unlocked vault has HD wallets. Otherwise the keyring   *)
(* is replaced by an empty one and nothing else is touched: a selection    *)
(* that was there strays.                                                  *)
InitPassword ==
  /\ pc = "idle"
  /\ ~(token /\ HDs # {})
  /\ version' = VaultVersion
  /\ wallets' = <<>>
  /\ token' = TRUE
  /\ strayed' = (selected # None)
  /\ Forget(Ids)
  /\ UNCHANGED <<selected, outdated, selectedV1, tracked, tracking, operation,
                 outside, restarts>>

(* login migrates whether the password was right or not.                   *)
Login(valid) ==
  /\ pc = "idle"
  /\ token' = (token \/ valid)
  /\ pc' = "migrate"
  /\ UNCHANGED <<vault, selection, selectedV1, aleo, job, outside, history>>

Lock ==
  /\ pc = "idle"
  /\ token' = FALSE
  /\ UNCHANGED <<vault, selection, selectedV1, aleo, operation, outside,
                 history>>

-----------------------------------------------------------------------------
(* migrate                                                                 *)

UpToDate ==
  /\ pc = "migrate"
  /\ version = VaultVersion
  /\ pc' = "idle"
  /\ UNCHANGED <<vault, selection, selectedV1, aleo, token, job, outside,
                 history>>

(* Version 1: the new format is stored, with the new version, before the   *)
(* missing accounts are derived.                                           *)
ConvertV1 ==
  /\ pc = "migrate"
  /\ version \in {0, 1}
  /\ version' = VaultVersion
  /\ job' = selectedV1
  /\ pc' = "complete"
  /\ UNCHANGED <<wallets, selection, selectedV1, aleo, token, outside,
                 history>>

ReadyToComplete ==
  \/ pc = "complete"
  \/ pc = "migrate" /\ version \in 2..(VaultVersion - 1)

(* What the migration selects again: the old selection, read last.         *)
OldSelection ==
  IF pc = "complete" THEN job
  ELSE IF selected = None THEN None
  ELSE Place(selected.wallet, selected.index)

(* The HD wallets with the given options added to each account.            *)
Completed(options) ==
  [w \in Ids |->
     IF wallets[w].hd
     THEN [wallets[w] EXCEPT !.groups = [i \in DOMAIN @ |-> @[i] \cup options]]
     ELSE wallets[w]]

(* As if only the first QTUM option were added to older wallets.           *)
CompleteAccountsMainnet ==
  /\ ReadyToComplete
  /\ token
  /\ wallets' = Completed({"QTUM"})
  /\ version' = VaultVersion
  /\ job' = OldSelection
  /\ pc' = "reselect"
  /\ UNCHANGED <<selection, selectedV1, aleo, token, outside, history>>

(* completeAccountsForHdWallet, then the selection is read.                *)
CompleteAccounts ==
  /\ ReadyToComplete
  /\ token
  /\ wallets' = Completed(Options)
  /\ version' = VaultVersion
  /\ job' = OldSelection
  /\ pc' = "reselect"
  /\ UNCHANGED <<selection, selectedV1, aleo, token, outside, history>>

(* Without a token it throws, and so does login.                           *)
CompleteThrows ==
  /\ ReadyToComplete
  /\ ~token
  /\ pc' = "idle"
  /\ job' = None
  /\ UNCHANGED <<vault, selection, selectedV1, aleo, token, outside, history>>

(* The accounts the migration may select: the old one, else the first one  *)
(* of an HD wallet, else the first one of a simple wallet.                 *)
Reselectable ==
  IF job.wallet \in Ids /\ job.index \in DOMAIN wallets[job.wallet].groups
  THEN {Snapshot(job.wallet, job.index)}
  ELSE {Snapshot(w, 1) : w \in IF HDs # {} THEN HDs ELSE Simples}

(* Writing the selection makes up for what had left it behind.             *)
SelectionBecomes(s) ==
  selected' = s /\ strayed' = FALSE /\ outdated' = FALSE

Reselect ==
  /\ pc = "reselect"
  /\ IF job = None \/ Reselectable = {}
     THEN UNCHANGED selection
     ELSE \E s \in Reselectable : SelectionBecomes(s)
  /\ pc' = "idle"
  /\ job' = None
  /\ UNCHANGED <<vault, selectedV1, aleo, token, outside, history>>

-----------------------------------------------------------------------------
(* Adding wallets and accounts                                             *)

Stored(w, wallet) ==
  [id \in Ids \cup {w} |-> IF id = w THEN wallet ELSE wallets[id]]

(* A call of setAccountInfo that nobody awaits.                            *)
StartTracking(addresses) ==
  /\ Cardinality(tracking) < MaxTracking
  /\ tracking' = tracking \cup addresses
  /\ lost' = lost \ addresses

(* addHDWallet and addSimpleWallet. Version 0 is what a reset leaves, and  *)
(* onboarding calls initPassword before it adds a wallet.                  *)
AddWallet(w, wallet, addresses) ==
  /\ pc = "idle"
  /\ token /\ version # 0
  /\ w \notin Ids
  /\ wallets' = Stored(w, wallet)
  /\ StartTracking(addresses)
  /\ job' = Place(w, 1)
  /\ regenerated' = regenerated \ {w}
  /\ pc' = "select"
  /\ UNCHANGED <<version, selection, selectedV1, tracked, token, outside,
                 restarts>>

(* createWallet with a new mnemonic, importHDWallet with one no HD wallet  *)
(* has.                                                                    *)
CreateWallet(w, s) ==
  /\ s \notin SeedsInUse
  /\ AddWallet(w, [hd |-> TRUE, key |-> FirstKey(s), groups |-> <<Options>>],
               {FirstKey(s)})

(* The key is one that no simple wallet has; an HD wallet may have it.     *)
ImportPrivateKey(w, option, key) ==
  /\ \A o \in Simples : wallets[o].groups = <<{option}>> => wallets[o].key # key
  /\ AddWallet(w, [hd |-> FALSE, key |-> key, groups |-> <<{option}>>],
               IF option = "ALEO" THEN {key} ELSE {})

(* As if setAccountInfo were left to the wallet's first account.           *)
AddAccountUntracked(w) ==
  /\ pc = "idle"
  /\ token
  /\ w \in HDs
  /\ Len(wallets[w].groups) < MaxAccounts
  /\ wallets' = [wallets EXCEPT ![w].groups = Append(@, Options)]
  /\ job' = Place(w, Len(wallets[w].groups) + 1)
  /\ pc' = "select"
  /\ UNCHANGED <<version, selection, selectedV1, aleo, token, outside,
                 history>>

AddAccount(w) ==
  /\ pc = "idle"
  /\ token
  /\ w \in HDs
  /\ Len(wallets[w].groups) < MaxAccounts
  /\ LET index == Len(wallets[w].groups) + 1 IN
       /\ wallets' = [wallets EXCEPT ![w].groups = Append(@, Options)]
       /\ StartTracking({Address(w, index)})
       /\ job' = Place(w, index)
  /\ pc' = "select"
  /\ UNCHANGED <<version, selection, selectedV1, tracked, token, outside,
                 history>>

(* The new mnemonic is stored; the account of the old one is dropped next. *)
RegenerateWallet(w, s) ==
  /\ MayRegenerate
  /\ pc = "idle"
  /\ token
  /\ w \in HDs /\ s \notin SeedsInUse
  /\ wallets' = Stored(w, [hd |-> TRUE, key |-> FirstKey(s),
                          groups |-> <<RegeneratedOptions>>])
  /\ regenerated' = regenerated \cup {w}
  /\ job' = [wallet |-> w, index |-> 1, old |-> wallets[w].key]
  /\ pc' = "replace"
  /\ UNCHANGED <<version, selection, selectedV1, aleo, token, outside,
                 restarts>>

ReplaceTracked ==
  /\ pc = "replace"
  /\ LET new == Address(job.wallet, 1) IN
       /\ tracked' = tracked \ {job.old}
       /\ tracking' = tracking \cup {new}
       /\ lost' = (lost \cup {job.old}) \ {new}
  /\ job' = Place(job.wallet, 1)
  /\ pc' = "select"
  /\ UNCHANGED <<vault, selection, selectedV1, token, outside, history>>

(* The operation ends by selecting the account it added.                   *)
Select ==
  /\ pc = "select"
  /\ SelectionBecomes(Snapshot(job.wallet, job.index))
  /\ pc' = "idle"
  /\ job' = None
  /\ UNCHANGED <<vault, selectedV1, aleo, token, outside, history>>

(* setAccountInfo finishes some time after it was called.                  *)
Track(address) ==
  /\ address \in tracking
  /\ tracking' = tracking \ {address}
  /\ tracked' = tracked \cup {address}
  /\ UNCHANGED <<vault, selection, selectedV1, lost, token, operation,
                 outside, history>>

-----------------------------------------------------------------------------
(* Selecting                                                               *)

(* Pages select an account of the wallets the background showed them.      *)
SetSelectedGroupAccount(w, i) ==
  /\ pc = "idle"
  /\ token
  /\ SelectionBecomes(Snapshot(w, i))
  /\ UNCHANGED <<vault, selectedV1, aleo, token, operation, outside, history>>

(* getSelectedGroupAccount, for a page or for a dapp's request: nothing is *)
(* selected, so it reads the wallets, needs no token and falls back to an  *)
(* HD wallet only. One call at a time is followed.                         *)
GetSelectedGroupAccount ==
  /\ ~asked /\ found = None
  /\ selected = None
  /\ asked' = TRUE
  /\ UNCHANGED <<vault, selection, selectedV1, aleo, token, operation, found,
                 history>>

(* The wallets of version 1 have no groups, and the call throws.           *)
FindSelectable ==
  /\ asked
  /\ asked' = FALSE
  /\ IF version = 1 \/ HDs = {}
     THEN UNCHANGED found
     ELSE \E w \in HDs : found' = Snapshot(w, 1)
  /\ UNCHANGED <<vault, selection, selectedV1, aleo, token, operation,
                 history>>

(* What the call selects strays when it was read before another write, or  *)
(* is written in the middle of an operation.                               *)
Strays(s) == pc # "idle" \/ ~IsCurrent(s)

SelectFound ==
  /\ found # None
  /\ selected' = found
  /\ strayed' = Strays(found)
  /\ outdated' = FALSE
  /\ found' = None
  /\ UNCHANGED <<vault, selectedV1, aleo, token, operation, asked, history>>

-----------------------------------------------------------------------------
(* Deleting                                                                *)

(* The accounts deleteWallet may select instead of one of wallet w.        *)
Substitutes(w) ==
  LET others == IF HDs \ {w} # {} THEN HDs \ {w} ELSE Simples \ {w}
  IN  {Snapshot(o, 1) : o \in others}

(* As if the selection were left to getSelectedGroupAccount.               *)
DeselectNothing(w) ==
  /\ pc = "idle"
  /\ token
  /\ job' = Place(w, 1)
  /\ pc' = "untrack"
  /\ UNCHANGED <<vault, selection, selectedV1, aleo, token, outside, history>>

(* deleteWallet: first the selection moves away.                           *)
Deselect(w) ==
  /\ pc = "idle"
  /\ token
  /\ IF selected # None /\ selected.wallet = w
     THEN IF Substitutes(w) = {} THEN SelectionBecomes(None)
          ELSE \E s \in Substitutes(w) : SelectionBecomes(s)
     ELSE UNCHANGED selection
  /\ job' = Place(w, 1)
  /\ pc' = "untrack"
  /\ UNCHANGED <<vault, selectedV1, aleo, token, outside, history>>

(* The store is cleared by address, whichever wallet has it. An address    *)
(* that cannot be cleared ends the loop, not the deletion.                 *)
Untrack ==
  /\ pc = "untrack"
  /\ \E n \in 0..Len(wallets[job.wallet].groups) :
       /\ tracked' = tracked \ AleoUpTo(job.wallet, n)
       /\ lost' = lost \cup AleoUpTo(job.wallet, n)
  /\ pc' = "erase"
  /\ UNCHANGED <<vault, selection, selectedV1, tracking, token, job, outside,
                 history>>

Erase ==
  /\ pc = "erase"
  /\ wallets' = [w \in Ids \ {job.wallet} |-> wallets[w]]
  /\ Forget({job.wallet})
  /\ pc' = "idle"
  /\ job' = None
  /\ UNCHANGED <<version, selection, selectedV1, tracked, tracking, token,
                 outside, restarts>>

(* resetWallet writes both stores at once, in either order.                *)
ResetKeyring ==
  /\ pc \in {"idle", "keyring"}
  /\ version' = 0
  /\ wallets' = <<>>
  /\ Forget(Ids)
  /\ pc' = IF pc = "idle" THEN "selection" ELSE "idle"
  /\ UNCHANGED <<selection, selectedV1, tracked, tracking, token, job, outside,
                 restarts>>

ResetSelection ==
  /\ pc \in {"idle", "selection"}
  /\ SelectionBecomes(None)
  /\ pc' = IF pc = "idle" THEN "keyring" ELSE "idle"
  /\ UNCHANGED <<vault, selectedV1, aleo, token, job, outside, history>>

(* What the restart cuts off: the rest of the operation, and every         *)
(* setAccountInfo under way or still to be called.                         *)
Restart ==
  /\ restarts < MaxRestarts
  /\ restarts' = restarts + 1
  /\ token' = FALSE
  /\ tracking' = {}
  /\ lost' = lost \cup tracking \cup
       (IF pc = "replace" THEN {Address(job.wallet, 1)} ELSE {})
  /\ strayed' = (strayed \/ pc = "selection")
  /\ outdated' = (outdated \/ pc \in {"reselect", "replace", "select"})
  /\ pc' = "idle"
  /\ job' = None
  /\ asked' = FALSE
  /\ found' = None
  /\ UNCHANGED <<vault, selected, selectedV1, tracked, regenerated>>

Next ==
  \/ InitPassword \/ Lock
  \/ \E valid \in BOOLEAN : Login(valid)
  \/ UpToDate \/ ConvertV1 \/ CompleteAccounts \/ CompleteThrows \/ Reselect
  \/ \E w \in Wallets, s \in Seeds : CreateWallet(w, s) \/ RegenerateWallet(w, s)
  \/ \E w \in Wallets : AddAccount(w)
  \/ \E w \in Wallets, o \in {"ETH", "ALEO"}, k \in Addresses :
       ImportPrivateKey(w, o, k)
  \/ ReplaceTracked \/ Select
  \/ \E address \in tracking : Track(address)
  \/ \E w \in Ids : \E i \in DOMAIN wallets[w].groups :
       SetSelectedGroupAccount(w, i)
  \/ GetSelectedGroupAccount \/ FindSelectable \/ SelectFound
  \/ \E w \in Ids : Deselect(w)
  \/ Untrack \/ Erase
  \/ ResetKeyring \/ ResetSelection
  \/ Restart

Spec == Init /\ [][Next]_vars

-----------------------------------------------------------------------------
(* Properties                                                              *)

(* Every variable stays within its type.                                   *)
TypeOK ==
  /\ version \in 0..VaultVersion
  /\ Ids \subseteq Wallets
  /\ \A w \in Ids :
       /\ wallets[w].hd \in BOOLEAN
       /\ wallets[w].key \in Addresses
       /\ wallets[w].groups \in Seq(SUBSET Options)
       /\ Len(wallets[w].groups) \in 1..MaxAccounts
  /\ {selected, found} \subseteq Selections \cup {None}
  /\ UNION {tracked, tracking, lost} \subseteq Addresses
  /\ {token, asked, strayed, outdated} \subseteq BOOLEAN
  /\ pc \in {"idle", "migrate", "complete", "reselect", "select", "replace",
             "untrack", "erase", "keyring", "selection"}
  /\ pc \in {"idle", "migrate", "keyring", "selection"} => job = None
  /\ restarts \in 0..MaxRestarts
  /\ regenerated \subseteq Wallets

(* A vault that carries the current version lacks no account that the      *)
(* migration derives, whatever crashed before (VaultStorage.ts:474,        *)
(* "deriving accounts from other networks"): migrate will not look again.  *)
(* A regenerated wallet has only RegeneratedOptions.                       *)
CurrentIsComplete ==
  version = VaultVersion /\ pc = "idle" =>
    \A w \in HDs \ regenerated : \A i \in DOMAIN wallets[w].groups :
      wallets[w].groups[i] = Options

(* The stored selection is an account of a wallet that exists, even after  *)
(* a crash between the writes of two stores; and between operations the    *)
(* copy of it that pages show is the account of the vault, unless a crash  *)
(* kept an operation from selecting (outdated). It strays only             *)
(* when a crash tears a reset, when initPassword replaces the vault of     *)
(* which an account is selected (PopupServer.ts:628), or when a dapp's     *)
(* getSelectedGroupAccount writes what it read before another operation's  *)
(* writes or amid them (PopupServer.ts:790); until the next selection.     *)
SelectionFollows ==
  selected # None /\ ~strayed /\ pc # "selection" =>
    /\ selected.wallet \in Ids
    /\ pc = "idle" /\ ~outdated => IsCurrent(selected)

(* Every Aleo account of a wallet is in the Aleo store, or about to be:    *)
(* else it would never be synchronized. The exceptions are an address that *)
(* was cleared with a wallet that had it, which a restart kept from being  *)
(* erased or which another wallet duplicates, and one whose setAccountInfo *)
(* a restart cut off; none outlives the next setAccountInfo.               *)
OwnedIsTracked ==
  \A w \in Ids : (pc = "replace" => w # job.wallet) =>
    AleoOf(w) \subseteq UNION {tracked, tracking, lost}

(* Migrations, crashes and operations on other wallets lose no wallet, no  *)
(* account and no key: that takes the deletion of the wallet, a reset, its *)
(* regeneration, or an initPassword, which an unlocked vault with HD       *)
(* wallets refuses (PopupServer.ts:629-634) and a locked one does not.     *)
KeysAreKept ==
  [][\A w \in Ids :
       \/ pc = "erase" /\ w = job.wallet
       \/ version' = 0
       \/ pc' = "replace" /\ w = job'.wallet
       \/ Ids' = {} /\ token' /\ ~(token /\ HDs # {})
       \/ /\ w \in Ids'
          /\ wallets'[w].hd = wallets[w].hd
          /\ wallets'[w].key = wallets[w].key
          /\ \A i \in DOMAIN wallets[w].groups :
               /\ i \in DOMAIN wallets'[w].groups
               /\ wallets[w].groups[i] \subseteq wallets'[w].groups[i]]_vars

=============================================================================
