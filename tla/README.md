# FoxWallet extension: specification, model checking and proofs

TLA+ specifications of the parts of the FoxWallet browser extension (a wallet
for Aleo, Ethereum, Filecoin and Qtum) whose correctness depends on the order of
events: the confirmation queue, locking, the offscreen document that proves
transactions, the vault, the choice of RPC nodes, the store that every page
mirrors, the calls of the pages, the record scanner, and what dapps may do. Paths below are relative to `src/`; `background/` stands for
`app/scripts/background/`.

Every module models code that was read line by line; `PROJECT.json` maps each
definition to its lines. An operator whose comment starts with *Mutant* or *As
if* is a deliberately wrong variant of the definition after it. `PROJECT.json`
pairs each property with the variant that must break it.

## 1. Inventory

The extension is a service worker (the *background*), wallet pages (popup, side
panel, notification windows, tabs), content scripts inside web sites (*dapps*)
and one offscreen document with web workers. They share nothing but messages,
ports, IndexedDB and `chrome.storage`. The browser may stop the service worker
when it likes; its memory, its promises and its ports are then gone.

| part | state | operations | what is hard | what makes it correct |
|---|---|---|---|---|
| Confirmations: `background/helper/confirmUI.ts`, `app/hooks/useConfirmUI.ts` | promise queue, the pending request, registered panels, windows, request rows | `request`, `finish`, `canFinish`, `navigate`, panel and window events | several dapps, surfaces that close at any time, decisions that arrive late or twice, restarts | no effect without consent for that very request; first come first served; every request is answered |
| Unlocking: `AuthManager.ts`, `PopupServerHandler.ts`, `background/index.ts` | token, time stamp, timer handle, mutex | `login`, `lock`, `hasAuth`, `timeoutLock`, `clearTimeoutLock`, messages, disconnects | handlers queue behind a mutex while ports close | a wallet whose pages are closed locks; a wallet in use does not; the last message wins |
| Offscreen document: `offscreen.ts`, `offscreenLock.ts`, `scannerOffscreen.ts`, `offscreen_service/` | the document, the lock, `txInFlight`, worker, listeners | send, deploy, encrypt, recreate, status | two users of one document, each of which may recreate it; restarts while it proves | a transaction is one task of the worker; no answer reaches a transaction it has nothing to do with; transactions end and are visible while they run |
| Vault: `VaultStorage.ts`, `KeyringManager.ts`, `PopupServer.ts`, `AccountStorage.ts`, `AleoStorage.ts` | keyring and version, selection, Aleo addresses: three databases | create, import, add, regenerate, delete, reset, select, migrate | several writes per operation with a restart between any two; migrations from five versions | no key is lost; the selection and the Aleo store follow the vault; migrations are complete |
| RPC nodes: `background/servers/RPCServer.ts` | preferred node of each list, running calls | `call` | concurrent calls, late answers, timeouts, transactions that must not be repeated | the newest answer decides; each node asked at most once; refusals are reported |
| Shared store: `app/store/bridge.ts`, `proxy.ts`, `persistence.ts` | Redux state, IndexedDB, ports, mirrors, pending updates | dispatch, apply, flush, acknowledge, restore, reconnect | acknowledgements, failed writes and reads, reconnections, restarts | acknowledged means stored; nothing stored is lost; mirrors go forward and converge |
| Record views: `core/coins/ALEO/service/scanner/RecordSyncService.ts` | view scopes with their consumers, records and scanned height, refreshes in flight, timers; caches of direct reads | get records, refresh light and hard, leave, reset | single-flight requests that calls and timers join, disposal and resets while an answer is awaited, answers that leave records out | spent stays spent; a hard refresh is one; a light one leaves no gap; a disposed scope holds nothing |
| Scanner registration: `ProvableScannerService.ts`, `ScannerStorage.ts`, `ScannerAuthManager.ts` | the stored id of each account, registrations and re-registrations under way, attempts, keys and tokens | register, answer 422, re-register, resolve | promises shared by calls of several pages, refusals of ids that were replaced meanwhile | a registration the scanner accepts is kept; every call ends |
| Dapp connections: `DappStorage.ts`, `ALEOContentServer.ts`, `ETHContentSever.ts`, `QTUMContentSever.ts` | connection rows | connect, revoke, disconnect, renew, check | two approvals at once, a disconnection next to one, a count and a write with an await between them | a connection permits what the user approved for that account and no more |
| Calls of the pages: `app/common/utils/client.ts`, `port.ts` | pending calls, the port listened to and the port posted to | connect, call, hear, be told of a disconnection | ports that close with calls and answers under way, a wrapper that opens ports by itself | every call ends; answers go to their calls |
| Dapp messaging: `app/messaging/`, `app/scripts/content/` | none in the background | forward requests | formats of three chains | not modelled |
| Reconciliation and serialization: `app/store/reconcileState.ts`, `serialization.ts` | none | pure functions | sharing of unchanged branches, tags against collisions | equal value, maximal sharing; decode inverts encode |
| Coin services, key derivation, Redux slices, databases, user interface, build | - | - | - | not modelled, see section 7 |

How they interact: content scripts send a dapp's request to the background
(`ContentServerHandler`), whose servers ask `confirmUI.request` before anything
takes effect. `approve` then uses the keyring (which needs the token of
`AuthManager`), the offscreen document for Aleo proofs, or `RPCServer`. Pages
call the background through `PopupServerHandler`, one message at a time under
one mutex; a decision about a confirmation is such a message. Pages read
settings and balances from their mirror of the store.

`PROJECT.json` lists under "hazards" the places where this goes wrong easily,
each with the properties that watch it.

## 2. Plan

Done, in this order, the most important behaviour first: ConfirmService and
ConfirmUI, AutoLock, Offscreen, Vault, RpcServer, StoreBridge with the abstract
DurableLog, RecordSync, DappConnections and ScannerRegistration composed in
DappAccess, PopupCalls over AutoLock; proofs for ConfirmUI, AutoLock with
PopupCalls, RpcServer, StoreBridge with its refinement, DappConnections and
DappAccess with their refinement of DappGrants, RecordSync, Offscreen, Vault.

What a next step would prove: the safety under the liveness properties that
have none proved yet, `Converges` of RecordSync and `CallsEnd` of Offscreen and
DappAccess (that what a call waits for is always under way).

What a next step would model:

1. *ScannerCredentials*: `ScannerAuthManager`, keys and tokens shared by
   concurrent callers, with credentials refused while requests use them.
2. The caches of direct reads of RecordSync: a result put back after a reset.
3. *Reconcile* and *Paging*: pure algorithms against a reference definition over
   bounded inputs.

Every module is written to be proved about: parameters are CONSTANTS with a
named assumption, there is one action per operation, and no RECURSIVE operator.

## 3. Modules

**ConfirmService** is the abstract promise: a line of requests, consent given to
some, effects of the first in line only with its consent, then its answer. It
has four actions and no notion of panels or windows.

**ConfirmUI** is the code. `queue` is the promise chain, `stage` the `await` at
which its first task stands (storing, finding, opening, deciding, approving,
closing, removing), `pending` the field of the same name, `port`, `inbox` and
`screen` the side panels with their unread messages, `window` the notification
windows, `rows` the table of dapp requests. Each handler and each stretch of
`request` between two awaits is one action; storage and windows may fail where
the code handles it; `Restart` empties the memory and keeps rows and windows.
`ImplementsService` is the refinement of ConfirmService.

**AutoLock**: `Send`, `Acquire`, `Return` are the life of a handler under the
mutex, `Disconnect` the port event, which does not wait for the mutex,
`ShouldSkip` the sync timer that asks `hasAuth`, `Fire` a timer. `timeoutLock` is
both what the last port to close does and a method that pages may call. `forgotten`,
`late` and `mandate` are history variables.

**PopupCalls** extends AutoLock with the wallet pages. A client remembers the
port it listens to (`heard`), the port its wrapper posts to (`raw`) and whether
the wrapper takes that one to be open (`connected`): they differ when a call on a
dead port threw and the next call made the wrapper open another port. `Notice`
is the client's disconnect handler, which rejects all pending calls and connects
anew; `Answer` is `Return` with the answer posted to whoever listens. A page that
closes forgets at once; the background is told of each of its ports later.

**Offscreen**: `pc` says where each caller stands; critical sections of the
offscreen lock are single steps, since the lock is held throughout them.
`Send`/`Resume`/`End` are `trackTx`. Inside the document, one worker, its queue
of tasks and the listeners that hear whatever it posts; the worker answers a
task (`WorkerPosts`) or dies before it has one (`WorkerDies`). Nothing limits how many
transactions overlap; `crowded` is the history of three having been unfinished at once,
after which two that waited for the same one run together.

**Vault**: an operation of the popup handler is a job whose writes are separate steps, so
that `Restart` may come between any two. `getSelectedGroupAccount` also runs for a dapp's
request, outside the mutex of the popup handler: `GetSelectedGroupAccount`,
`FindSelectable` and `SelectFound`, its two reads and its write, interleave with every
operation. A mnemonic is a seed, an address a seed and the index of its key; the Aleo
store is a set of addresses, whichever wallet has them, and an imported private key may
be the key of an account of an HD wallet, which `importPrivateKey` does not look for.
`InitPassword` may come at any time between operations; the server refuses it only while an
unlocked vault has HD wallets. Four variables are history: `lost` holds the addresses that
a deletion cleared and a wallet still has, or whose `setAccountInfo` a restart cut off;
`strayed` and `outdated` say that something left the selection behind, until it is made
again; `regenerated` holds the wallets that got another mnemonic.

**RpcServer**: each call keeps the start it copied; `Succeed`, `NodeFails` and
`NodeRefuses` are the three ways an attempt ends.

**StoreBridge**: the state is the sequence of updates that made it, so that order
and loss are visible. `writes` is what IndexedDB has been given and has not
committed; a port serves one message at a time; `Flush` and `WriteEnds` are the
`await flush()` of the handler. redux-persist is external and modelled by what
`persistence.ts` relies on: a flush writes the whole state if it changed, writes
are committed in order, a failed write is reported to the flushes that wait.
Updates that leave the state unchanged are left out.

**DurableLog** is what the store promises to those that dispatch: one log, each
update in it at most once and in the order of its session, acknowledged only in
its durable part, of which a crash takes nothing. `ImplementsLog` is the
refinement: `durable` is what IndexedDB holds, the log is the state of a restored
store, a session is a port, and an error, a timeout or a lost port is a rejection.

**RecordSync**: the screens that show records are consumers of a view scope, one
for each id and filter. `scopes[i].refresh` is the refresh in flight, with the mode
it was begun in, whether a hard one waits behind it, and its stage (owned records
and height asked for together, then the tags). Scopes that were disposed of stay in the
model, so that an answer that comes later could do harm. The chain (`MineBlock`)
and the scanner (`Advance`, `Owned`), which is behind it by at most `Lag` blocks,
are external. `ever` and `covered` are history.

**DappConnections**: the rows of the connection table and the calls of dapps.
`Look`, `Count` and `Add` are separated by awaits, between which other calls run;
`Consent` and `Answer` are the confirmation, abstract here, since ConfirmUI shows
what it does. `granted` is the history of what the user approved and has not
withdrawn. An approval may name no permission (`None`), since `connect` takes whatever the
page says; a renewal then keeps the permission of the row (`Renewed`), and `Check` refuses
a row that never had one.

**ScannerRegistration**: `stored` is the id kept for an account, `reregister` the
re-registration that all calls of an account share, `fetches` the calls to the
scanner. Ids are numbered in the order in which the scanner gave them out; it may
forget any. `index` is the index of owners that `findScannerUuidOwner` looks an id up in:
it is loaded when it is first needed (`LookUp`) and hears of a write of `stored` only later
(`writes`, `Indexed`), so that a refusal of an old id may find its owner there
(`NotRegistered`), which then loses whatever is stored by then.

**DappAccess** composes the two: a call of a dapp that passes `Check` becomes a
request to the scanner, next to those of the wallet's own pages; a stop of the
background ends both.

**DappGrants** is what the user is promised about sites: approvals, each carried
out at most once and as it was given; connections, which change by such an approval
or end; and readings, which begin under a connection that exists. `ImplementsGrants`
is the refinement: an approval is a call that the user consented to and that has not
written its row (`Approved`), a connection permits what the oldest of its rows says
(`Permitted`). `Count` and `Add` are two steps of the code and one `Connect`.

`MC*` modules define symmetry and the functions and sets that a `.cfg` cannot write.

## 4. Runs

| run | question | bounds |
|---|---|---|
| `confirm_safety` | can requests, surfaces or decisions mix, can a shown request be decided; does the queue implement the service | 2 requests, 2 panels, 1 restart, 1 unread message when navigating |
| `confirm_answered` | is every request answered | 2 requests, 1 panel, no restart (a restart loses requests by nature) |
| `autolock` | do the calls of pages end, is none orphaned; timers, mutex and tokens; does an idle wallet lock | 2 pages, 3 ports in all, 2 messages, stops of the background at any time |
| `autolock_forgotten` | does every armed timer stay under control: **violated** | 2 ports, 2 messages |
| `offscreen` | one task for each accepted transaction, answers, status, serialization as far as it goes, and does every call end | 3 transactions, 1 registration, 1 restart, 2 dropped documents |
| `offscreen_overlap` | are three overlapping transactions serialized: **violated** | 3 transactions |
| `vault_safety` | keys, selection, Aleo store, migration | 2 wallets of 2 accounts, 2 mnemonics, versions 2 to 5, 1 `setAccountInfo` and 1 `getSelectedGroupAccount` under way, 1 restart |
| `vault_v1` | is the migration of version 1 complete: **violated** | 2 wallets, 1 restart |
| `rpc` | preference, traversal, refusals | 3 calls, lists of 3 and 2 nodes that share nodes, 1 restart |
| `store` | does the store implement the durable log; what pages are told and see, do they converge | 2 pages, 3 ports in all, 2 updates, 1 restart, 1 failed write or read |
| `records` | spent flags, hard and light refreshes, disposal and resets; does a view converge | 1 record, 2 programs, 2 consumers, 1 id, 2 calls, 2 scopes, 2 blocks, `Lookback` = `Lag` = 1, every request may fail |
| `dapp_access` | are connections what the user approved, and do they implement the abstract grants; are registrations kept; do calls end | 1 site, 2 calls of dapps and 1 of the wallet, 2 accounts, ALEO and QTUM, a disconnected row of an earlier use, 2 ids, 1 attempt (3 in the code), 1 stop |

The bounds are enough to meet the cases the hazards name: two requests so that
one can wait behind, or be mistaken for, another, and two surfaces so that a
decision can come from the wrong one; two messages of
two pages so that one waits behind the other, and a port more than there are
pages, so that one page reconnects or its wrapper opens a port by itself; three transactions, because with two the
serialization of `trackTx` holds and with three it does not, and a registration, so that
both users of the document meet; two wallets, so that one is there while the other is
deleted, and may have the same key; an earlier connection that permitted more, so
that a blank request brings that back; two updates and a
port more than there are pages, so that one page reconnects with an update under
way while the other sees the result; two consumers that want different
programs, so that one joins a refresh that does not fetch its own, and two scopes,
so that one is disposed of and made again under the same key while its first
refresh is under way; two calls of dapps, so that the rows change between the
awaits of one of them, and two ids, so that a refusal of the first arrives
when the second is stored; a restart at every step. Deadlock is not
checked: users may stop, and counters reach their bounds.

Three runs are violated, each by a real disagreement between the code and what
it says:

- `autolock_forgotten`: `hasAuth` resets `#timerId` one line before it clears it,
  so the timer it announces to clear stays armed and later locks a wallet in use.
- `offscreen_overlap`: `trackTx` says that overlapping transactions are
  serialized; the second and the third both wait for the first and then overlap.
- `vault_v1`: the migration of a version 1 vault marks it as current before it
  derives the accounts, and a wrong password or a restart in between is never
  made good.

In `dapp_access`, `MCBound` keeps the run small by limiting which calls start: none asks
for more than the earlier connection permitted, and a call about QTUM, which never reaches
the scanner, does not run next to a call of the wallet's own pages. The theorems on
`DappAccess` have no such bound.

`CurrentIsComplete` is checked in `vault_safety` from versions 2 to 5 only: that version 1
is different is what `vault_v1` shows, and no passing run covers it.

Some properties are weaker than one might hope, because the code is:

- `SerializedUntilCrowded` and the first part of `StatusIsRight` hold until three
  transactions are unfinished at a time. `PopupServer` sends without waiting for earlier
  ones, so that nothing prevents three: then two wait for the same one and run together
  (`offscreen_overlap`), and `txInFlight` is the later of the two. `NoStrayAnswer` and
  `OneTaskEach` hold with any number. The results of the worker name no task, so that
  transactions which the document has accepted together, one left from before a restart
  included, may be answered with each other's ids: `NoStrayAnswer` rules out any other.
- `KeysAreKept` lists what may lose a key, and an `initPassword` is on the list: on a locked
  vault, or one with imported keys only, it replaces the keyring by an empty one
  (`PopupServer.ts:628-637`). The pages call it in onboarding and nothing in the server
  ties it to that.
- `SelectionFollows` makes an exception of a selection that `initPassword` leaves over an
  empty vault, of a reset that a restart tears in two, and of what
  `getSelectedGroupAccount` writes for a dapp after, or amid, the writes of another
  operation: it may select a wallet that has just been deleted. The next selection ends
  the exception. After a restart that cuts off an operation before it selects, the copy
  kept of the selected account may lack what the operation changed.
- `OwnedIsTracked` makes an exception of addresses that a deletion cleared although a
  wallet still has them: a deletion that stopped before the wallet was erased, and the
  deletion of an imported key that is also the key of an account of an HD wallet, whose
  records are then no longer synchronized. So it does of an address whose
  `setAccountInfo`, which nobody awaits, a restart cut off.
- `ConnectionsAreGranted` and the abstract grants let an approval that names no permission
  bring back the one the row had, even if it was withdrawn since
  (`DappStorage.ts:99-101`); the confirmation then shows a blank.
- `KeepsRegistration` does not speak of an id between its write and the moment the index
  of owners hears of it, two awaits later (`ScannerStorage.ts:90-95`): a refusal of the id
  before, with its attempts used up, finds the owner there and clears the new id.

`CurrentIsComplete` asks of a regenerated wallet only the options that
`regenerateWallet` derives, which lack the second QTUM account of other wallets;
no page of this version calls it. `SpentWins` speaks of what a scope shows: the
comment on `replaceRecordsForPrograms` says that a spent flag also survives an
answer that drops the record, but the code drops the record then, and its flag with
it. `ConnectionsAreGranted` says nothing of a revocation on Ethereum, which changes
no row: the call passes the lower-case address and rows hold the checksummed one, so
that the connection stays until it expires (`Leave`). Expiry itself matters only to
`connect`: a connection past its twelve hours still lets records be read (`Check`).
`ImplementsGrants` needs three calls to meet a disconnected row at a `Check` (one
to connect, one to disconnect, one to read); the run has two, so that this case rests
on the theorem `GrantsImplemented`, which has no bound.

Three invariants are the safety on which a liveness property stands, stated apart
because they can be proved: a request that waits for its decision can still get one
(`DecisionIsPossible`, for `AnsweredEventually`); a call that a page waits for has its
answer, or the news that its port is gone, still to come (`NoneIsOrphaned`, for
`CallsEnd` of the pages); a connected page shows the background's state or has it on
its way (`PagesAreTold`, for `Converges` of the store).

## 5. Fairness

- ConfirmUI: the promise chain and browser events make progress; of the user only
  that the surface of the pending request does not stay open undecided for ever.
  Approving ends (in the code it has no deadline of its own).
- PopupCalls: the handler goes on and its methods end, an armed timer fires, an
  answer and a disconnection are told, to the page and, once the page is closed, to
  the background. Nothing is assumed of users or of the sync timers: a page may
  never close, a port may stay open, no message need be sent. No password check
  lasts as long as the lock time.
- Offscreen: calls go on, polling ends by its own timeout, workers answer or fail.
  Neither the load of the document nor its survival is assumed.
- RpcServer: none. Its properties are safety properties; the deadline of an
  attempt is one of the ways in which a node fails.
- RecordSync: what was begun goes on, by an answer or a failure, and the timer of
  hard refreshes fires (`HARD_REFRESH_MS`). Requests that are made again and again
  do not fail for ever: strong fairness of the answer to a hard request and of the
  answer to the tags. No light refresh is assumed, since none happens before a hard
  one has succeeded.
- DappAccess: the background goes on, requests end by an answer or a failure, the
  user answers a confirmation that is shown, one way or the other, and one page of
  records is the last sooner or later. Nothing obliges the user to connect or the
  scanner to forget.
- StoreBridge: messages on an open port arrive, a page whose port died hears of it
  and connects again (`setTimeout(connect, 250)`), a restore ends. That an update
  is ever applied, or a write ends, is not needed for convergence.

## 6. Proofs

`tlapm` checks these theorems for every value of the constants that satisfies
the named assumption of the module.

- **ConfirmUI_proofs**: `TypeCorrect`, `PendingIsFirstHolds`, `ConsentHolds`,
  `FirstDecisionHolds`, `SurfacesAreClosed`, `PanelsAreTrue`,
  `DecisionStaysPossible`, and `QueueImplementsService`, the refinement. The
  properties are not inductive. The invariant adds: what each stage of the first
  task implies about `pending` (`TaskInv`); that the queue holds exactly the
  requests whose outcome is "queued", each once (`QueueInv`); that an accepting
  decision under way or settled was made by a click about that request
  (`ConsentInv`); that a request has had its effect only if it was approved
  (`EffectInv`); and that only the first request, or one that is over, is ever
  shown (`ShownInv`). Refinement is proved action by action: two actions are
  `Submit` and `Perform`, the clicks are `Consent`, the two ends are `Answer`,
  the restart is `Lose`, and the others stutter. `SurfacesAreClosed` needs what each
  stage knows of the window and the row of its request (`WindowInv`, `RowInv`): a window
  is open only once `pending` has heard of it, and whatever ends the stage closes it.
  `PanelsAreTrue` follows the messages on their way (`PanelInv`): only the chosen panel
  is told to open the pending request, and after each message that opens another one
  there is a message that it is done. Lemmas say what a post, a read and a navigation
  do to these messages. `DecisionStaysPossible` needs that the panels of the background
  are connected, and that a window which is gone before its id is known has been
  seen to close (`ClosingInv`).
- **AutoLock_proofs**: `TypeCorrect`, `TimersAccountedHolds`, `ClosedMeansTimedHolds`,
  `LastOneWinsHolds`; and of the pages, `NoneIsOrphanedHolds`,
  `PagesClosedMeansTimed`, `PagesLastOneWins`. `KnownInv` says that a timer handle is known or lost,
  `OrderInv` that the mutex keeps the order of arrival, `TimedInv` which login may
  still unlock a wallet without pages. For the pages, `ClientInv` says that a page uses
  a port other than the one it listens to only once that one is closed. Every step of
  the pages is one of AutoLock or leaves it alone, except that `CallOnNewPort` connects
  and sends at once; so the promises of AutoLock carry over. `NoneIsOrphaned` is
  inductive with these and the type of the answers (`OrphanInv`).
- **RpcServer_proofs**: `TypeCorrect`, `NewestWinsHolds`, `EachNodeOnceHolds`,
  `RefusalDecidesHolds`. The invariant says which calls belong to the session and
  that their sequence numbers differ (`SessionInv`), that the preference is that
  of the newest successful call (`PrefInv`), that the nodes asked are a rotation
  of the list from the copied start (`AskedInv`), and where the first refusal is
  (`RefusedInv`). A lemma on remainders shows that a rotation repeats nothing.

- **StoreBridge_proofs**: `Inductive`, `TypeIsKept`, `DefaultStaysHidden`,
  `IsDurableLog`, the refinement, `OwnWritesAreRead`, `MirrorsGoForward` and
  `PagesStayTold`. The heart
  of the invariant is `WritesInv`: what IndexedDB holds, the writes it was given and
  the state are prefixes of one another, so that a write that fails or is cut off
  leaves a prefix too.
  `ServedInv` says what each stage of a port's handler has done, `MessagesInv` that an
  acknowledgement on its way was earned, `OrderInv` that updates are applied in the
  order in which their port got them; `StoreTyped`, `ServerTyped` and `PageTyped`
  are the types. Dispatching is `Send`; receiving a result is `Acknowledge`, `Reject`
  or, for a page that no longer waits, nothing; a timeout and a lost port are
  `Reject`; applying is `Apply`; the end of a write is `Persist`; a restart is
  `Crash`; all else stutters.
  `OwnWritesAreRead` and `MirrorsGoForward` need what the pages see, `SeenInv`: the states on their way to
  a page are prefixes of one another, and of the state while its port is served
  (`Chained`, `Live`); the state an update left is a prefix of what is saved, shown and
  sent once it is acknowledged (`Acked`), and with it goes its result (`Results`,
  `Serving`); before a restart what is shown is a prefix of all that will be (`Forward`).
  `PagesStayTold` is inductive with the first part: every change of the state is posted
  to all open ports, and a port that opens is posted the state, at once or when the
  restore ends. Its lemmas say what a message that is posted, read or not about the
  state does to the last state on its way (`ToldMore`, `ToldReads`, `ToldStays`).
- **DappAccess_proofs** has the lemmas on connections, those on registrations and the
  theorems on the composition: `TypesHold`, `ConnectionsGranted`, `RegistrationIsKept`
  and `GrantsImplemented`, the refinement. `DappInv` adds to the types (`Typed`) which calls have a
  key (`Keyed`), that a call that writes a row is the first of the queue and has seen
  the row as it is (`Writing`), and that consent was given for what it asks
  (`Consented`). `ScannerInv` says that a call holds an id that was issued
  (`FetchInv`), that so was what is stored (`StoredInv`), and that only an id the
  scanner has forgotten, and for good, is registered again (`StaleInv`). `TypesHold`
  needs that a call reads exactly while it has a request to the scanner, for the
  account of its key (`Tied`). `IndexInv` says that the index is what is stored once it has
  heard of every write, so that what a lookup finds of an accepted id is that id. The refinement is proved action by action: consent is
  `Approve`, writing the row is `Connect`, a disconnection is `Withdraw`, a call that
  ends or is cut off after consent is `Drop`, a check that succeeds is `Read`; all
  else stutters. That the first of the queue alone writes, and has seen the row as it
  is, is why `Add` changes one connection and makes no second row.
- **RecordSync_proofs**: `TypesHold`, `ScopesHaveOwners`, `SpentStays`, `HardWins`,
  `NothingIsMissed`.
  `ScopesAreOwned` is inductive once it is known that the index lists a scope under
  its own key (`Typed`). `SpentInv` is why spent wins: a record once known as spent is
  tagged or spent on the chain for good; the scope shows it as spent until an answer
  leaves it out, which, asked for everything, happens only when the scanner will not
  list it again (`Gone`); and a light answer, which may leave it out because of its
  start, removes nothing. `ModeInv` gives a live refresh its mode, and `CallsInv` says
  that what a call waits for is under way, and that a hard call that joined a light
  refresh has left its mark. Lemmas say what `Begun`, `Refreshed`, `Fetched`, `End`,
  `Without` and `Disposed` make of one scope; the steps cite them. `NothingIsMissed`
  compares heights: what a scope does not hold of the programs it covers was found
  within `Lookback` of the height it last noted (`HeldInv`); a record that an answer
  leaves out was found since, within `Lag` of the height at that time, and the height
  noted with the answer is at most `Slack` later (`AnswerInv`). This is where
  `Lag + Slack <= Lookback` is used. It needs that the scope lists unspent records: one
  for spent records only, which no screen asks for, is not sent a record that was
  spent long after it was mined.

- **Offscreen_proofs**: `TypeIsKept`, `SerializedUntilCrowdedHolds`, `StatusStaysRight`,
  `TasksAreOne` and `NoStrayAnswerHolds`, for any number of transactions that overlap.
  `FlightInv` says that the transaction in flight uses the document, `SerialInv` that,
  while at most two are unfinished, no other does, and one that waits is alone with the one
  it waits for. `OneTaskEach` is inductive once it is known that a call which has not ended
  has no answer (`Unanswered`); with it, a step that gives a transaction a result is one of
  the worker's, to a listener, about the task it proves, which is a listener's too.

- **Vault_proofs**: `TypesHold`, `SelectionAlwaysFollows`, `OwnedAreTracked`,
  `CurrentStaysComplete`, `KeysStay`. None of the properties is inductive. `JobInv`
  says what each stage of an operation knows of its wallet; `VersionInv` what an old version
  implies, and that every account of an HD wallet includes Aleo; `SelectedInv` how far a
  selection that has not strayed may lag behind the vault at each stage of an operation:
  it is never of the wallet that is being deleted, and outside the stages that end by
  selecting it is an exact copy; `TrackedInv` which wallet may lack addresses in the Aleo
  store meanwhile. `CompleteInv` needs that no update finds version 1, and so does
  `CurrentStaysComplete`: `vault_v1` shows that it is false without that. The other
  theorems hold from any version.

Only proved, and checked by no run: `PendingIsFirst`, a step towards
`ConsentBeforeEffect` and the refinement; `TimersAccounted`; and the type
invariants of all modules but RpcServer, whose run takes the numeric edges of its
lists. They are theorems, so that the runs are spent on properties that say more.

Only model-checked: liveness under fairness (`AnsweredEventually`,
`IdleWalletLocks`, `CallsEnd`, `Converges`), which is beyond the prover; of three of
these the safety they stand on is proved (`DecisionIsPossible`, `NoneIsOrphaned`,
`PagesAreTold`). Every other property of a passing run is a theorem.

## 7. Not modelled

- Cryptography, proving, WASM and key derivation: pure computation; keys and
  transactions are values.
- Coin services and price services: requests and formatting.
- Redux slices and migrations: pure updates. StoreBridge treats them as opaque.
- User interface: rendering. The hooks and screens that take part in a protocol
  are modelled with it.
- Credentials of the scanner (`ScannerAuthManager`), and the caches of direct reads
  with the decryption of records: left for a next step.
- Entry points, build, packaging, locales.
- In the modelled parts: rejection of ports that are not wallet documents,
  exporting keys, renaming and hiding of accounts, the readiness handshake of the
  scanner worker, the
  networks of Aleo and Qtum connections (their rows do not interact), the steps in which the
  index of stored ids is loaded (it is one), more than one `getSelectedGroupAccount` at a
  time, failures of single vault writes that the code does not handle, the clients of content scripts and their keep-alive.

Most of the repository is outside what is worth modelling in this way: a generated
script of 30 thousand lines (`public/injector.js`), lists of chains and tokens,
screens, and the services of four coins, which format requests and answers. The
modules cover the code that keeps state and meets concurrency, failure and restarts.
