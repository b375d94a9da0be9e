# A TLA+ model of Logos Chronicle

Specifications, TLC models and TLAPS proofs for the document pipeline of this
repository: *upload* a file to Logos Storage, *broadcast* its metadata on Logos
Delivery, *anchor* its CID in an on-chain registry. The definitions are
translated from the source; `PROJECT.json` gives for each one the lines it
stands for.

## 1. The system

| Part | Where | State it keeps | Operations | Talks to |
|---|---|---|---|---|
| chronicle: upload queue | `logos-chronicle/src/chronicle_plugin.cpp` 343-558 | `m_uploads`, `m_activeUploadId`, `m_sessionToUpload`, single-shot timers, staging directories | `uploadFileJson`, `startUpload`, `onUploadDone`, `failUpload` | storage_module: `uploadUrl` (call), `storageUploadDone` (event) |
| chronicle: publish and broadcast | 568-805, 981-1018 | `m_publishes`, `m_broadcasts`, `m_bcastToPublish`, `m_bcastDedupe`, `publish-ledger.json` | `publishFileJson`, `afterUpload`, `broadcastEnvelopeJson`, `sendBroadcast`, `afterBroadcast`, `clearPublishedJson` | the upload queue (in the same step), delivery_module: `createNode`, `start`, `send` |
| chronicle: anchoring | 807-967, `chronicle_anchor_*.cpp` | `m_anchors`, `anchor-ledger.json`, the anchor configuration | `anchorBatchJson`, `lookupAnchorJson`, `initRegistryJson`, ... | the FFI library |
| chronicle: network bring-up | 197-268, 568-579 | `m_storageReady`, `m_deliveryObjReady`, `m_deliveryNodeUp`, `m_deliveryStarted` | `startBroadcasterJson`, `storageReady`, `deliveryReady` | storage_module: `init`, `start`; delivery_module: `createNode`, `start` |
| chronicle: metadata helpers | `chronicle_helpers.cpp` | none | content types, cleaning, canonical JSON, hash, envelope, back-off | - |
| registry FFI | `ffi/src/lib.rs` | none | `index_batch_impl`, `get_registry_impl`, `init_registry_impl` | the `spel` and `lgs` programs |
| registry program | `methods/guest/src/bin/chronicle_registry.rs`, `chronicle_registry_core` | the registry account: `Registry.entries` | `init_registry`, `index_batch` | - |
| batch-anchor | `batch-anchor/src` | `BatchBuffer` (`entries`, `first_entry_at`, `known`) | `watch`, `init`, `lookup`, `node` | nwaku (relay queue, store), registry program through `chronicle_registry_cli` |
| Whistleblower | `logos-whistleblower/src` | `phase`, `working`, the polled job, retry counters | `submitDocument`, `tickJobPoll`, `connectDelivery`, `discardHistory`, `anchorJob` | chronicle, by remote calls |
| vendored spel-framework, scripts, docs, build files | `vendor/`, `scripts/`, `docs/` | - | - | - |

### How the parts interact, and what is hard

* **chronicle** is one Qt object in one thread. A handler is a step, with one
  exception: `startUpload` *waits* for the reply of `uploadUrl` (and
  `sendBroadcast` for those of `deliveryReady`). Whether the remote-objects
  wait serves other events is decided outside this repository. Everything else
  is timers: one that starts each upload, one that ends each attempt, one for
  each back-off. A timer cannot be cancelled; only the tests at the top of
  `startUpload` and of the time-out lambda tell an outdated one from a current
  one. Storage's events may come after the attempt they belong to was given
  up, or after a restart.
* **batch-anchor** is one task that awaits in turn the chain, the store, the
  relay queue and a child process that submits a transaction. The network, the
  chain and other watchers move meanwhile; it may be killed anywhere; a
  transaction it takes for failed may still land.
* **Anchoring** from chronicle blocks its thread in a call to the FFI library,
  which runs `spel` and waits for the transaction to be in a block. Meanwhile
  the chain moves, other anchorers write, the plugin may be killed, and what
  `spel` gave up may be included later.
* **The registry program** is sequential and all-or-nothing: what counts is
  that its checks make repeated, late and conflicting batches harmless.

What makes each part correct:

* upload queue: one upload at a time, the slot never left taken, an event is
  credited to the upload it belongs to, every attempt and every upload ends,
  staged copies do not outlive their job;
* publish: "done" means handed to the network, one broadcast per envelope, disk
  and memory agree, records survive a restart, a publish ends;
* metadata: an envelope verifies from its own fields, whichever way it was made;
* bring-up: what chronicle takes the other modules to have done, they have done;
  asking again brings up what a fault has undone;
* registry: first write wins for ever, bounded batches;
* anchor ledger: "confirmed" means on chain, disk and memory agree, a good
  request is confirmed;
* Whistleblower: while it works it polls a publish, it sees the end of every
  publish that chronicle remembers, and it anchors only what is published;
* batch-anchor: a CID is never buffered twice, lost other than by a crash, or
  wrongly taken for anchored; what is on chain agrees with a broadcast; what
  was read gets anchored.

The hazards behind these properties, each at its line, are in `PROJECT.json`.

## 2. The modules

| Module | Models | Kind |
|---|---|---|
| `UploadQueue` | chronicle's upload queue | specification |
| `UploadTiming` | the clock of one upload: time-outs, back-off, deadline | specification |
| `PublishJobs` | what chronicle promises of its publishes | abstract specification |
| `Publish` | publishing on top of the queue (EXTENDS `UploadQueue`) | composition, refines `PublishJobs` |
| `Metadata` | what the helpers make of a document's metadata | operators |
| `Delivery` | one document on both ways to the network; bringing storage and delivery up | specification on top of `Metadata` |
| `AnchorLog` | what the registry promises: a write-once log | abstract specification |
| `Registry` | the registry program | specification, refines `AnchorLog` |
| `BatchAnchor` | watchers, their network and the chain (INSTANCE `Registry`) | composition, refines `AnchorLog` |
| `AnchorLedger` | the plugin's anchoring, its FFI and the chain (INSTANCE `Registry`) | composition, refines `AnchorLog` |
| `Whistleblower` | the client, its buttons and the publishes it sees (EXTENDS `PublishJobs`) | composition |
| `MCPublish`, `MCDelivery`, `MCRegistry`, `MCBatchAnchor`, `MCAnchorLedger`, `MCWhistleblower` | inputs and symmetry for TLC | models |
| `UploadQueueProofs`, `UploadTimingProofs`, `PublishProofs`, `DeliveryProofs`, `RegistryProofs`, `BatchAnchorProofs`, `AnchorLedgerProofs`, `WhistleblowerProofs` | theorems | proofs |

Definitions marked "Mutant" are used by no specification. Each is a plausible
bug in place of the definition that follows it, and breaks the property that
`PROJECT.json` pairs it with under the run's own configuration.

### UploadQueue

One action per handler outcome. `timers[u]` counts the pending single-shot
timers that call `startUpload(u)`: firing one is `StartUpload(u)`, split into
the early return (`StartIgnored`), the failure when storage events are not
subscribed (`StartUnsubscribed`) and the part up to the call (`StartCall`). The
rest of `startUpload`, after the wait, is `UploadUrlReturns`; `calls` is the
stack of such waits. With `Reentrant` FALSE no handler runs during a wait
(`Idle`), with TRUE any may, and waits nest, the innermost returning first. A
session is named by the upload and attempt that asked for it; storage opens it
(`StorageAccepts`), before or after the client has given up waiting, only while
the staged file is there, and reports its end at any later time or never
(`OnUploadDone`). `m_sessionToUpload` is represented by its keys.

Time is abstract here; `UploadTiming` has it. A timer may fire at any moment after it is armed. The
deadline is `overdue`: the uploads for which the next back-off would end after
`deadlineMs`; until then a retry is allowed, up to `MaxAttempts`, the bound that
stands for the finite budget. "Start next queued" takes any queued upload, as
the hash has no order.

### Publish

Extends the queue's state with `m_publishes` (`pub`, `want`, `pubKey`), the
link from an upload to its publish (`linked`), `m_broadcasts` with
`m_bcastToPublish` (`broadcasts`, one record each with its `owner`), the file
(`ledger`) and what was given to delivery (`handed`). `afterUpload` runs inside
the handler that ends the upload, so `QueueStep` is a step of the queue
*conjoined with* `AfterUpload`. A document's CID is decided by `Content`, its
metadata hash by `Meta`; the key of an envelope is the pair. Note that the CID
is that of the upload the event *came from*, which need not be the one it is
credited to.

`Restart` loses the memory, keeps staged copies, the file and storage's
sessions, and reloads the ledger. Going down inside `savePublish`, between the
truncation of the file and the write, leaves it empty; this can only happen
when a save can be under way (`SavePending`). Ids are UUIDs, so an id used
before a restart is `spent`.

`PublishJobs` is the promise to a client, and no weaker than the code's own
documents make it: an id is used once, a publish under way goes on or ends, an
end is final, a restart forgets only what was under way, and nothing but the
client's clearing (`HistoryCleared`) forgets the rest. The code does not keep
it, so `KeepsJobs`, with `pub` for `jobs` and every id handed out for `spent`
(`Used`), says that a step of `Publish` is one of `PublishJobs`, or clearing, or
one of three departures that are named and nothing else:

* `StartedAgain`: a left-over timer starts the upload of a publish that is done,
  which fails for want of its staged file and turns it into an error;
* `SentAfterError`: the broadcast such a publish still had queued is sent, and it
  is done again;
* `LedgerTorn`: a restart after going down inside `savePublish` finds the file
  empty (`logos-chronicle/README.md:88` says records persist).

`Whistleblower` uses the same actions and the same departures (`JobDeparts`) as
its picture of chronicle, so what is checked there rests on what is checked
here.

### UploadTiming

One upload with its clock, in quarters of a second so that the jitter of the
back-off is whole: `Timeout` is `uploadTimeoutMs`, `Budget` is `uploadBudgetMs`,
`BackoffFor` the set of delays `backoffFor` may give. An attempt fails at once
or after its time-out, the two ends of what is possible, and a retry is set if
it is due before the deadline. Every timer, and what ends an attempt, may be
handled late by any of `Delays`, as the plugin's one thread may be blocked: in
the `uploadUrl` wait of another upload (up to 5 minutes) or in the call of
`anchorBatchJson`. `late` adds up what the running attempt was kept waiting, its
own start included, so that the bound on the clock can be exact: delays of
earlier attempts use up the budget and do not count. `1 << (attempt - 1)` overflows at attempt 32:
the delay is then negative, passes the deadline test and arms a timer with
nonsense (`adrift`). 32 attempts that fail at once need 608 s of back-off, which
the budget has from 79 MiB on: hence `Sizes` 0, 78 and 79.

### Metadata and Delivery

A text is a sequence of abstract characters, of which blanks, slashes,
semicolons, underscores and case matter to the helpers; JSON and SHA-256 lose
nothing, so canonical metadata is a record and a hash is that record. Each
operator is one helper, with its order of trimming, replacing and cutting; the
loop of `cleanTags` is a recursive function over the number of tags seen. Of the
table of aliases it is assumed, as of `application/octet-stream`, that its
values need no more cleaning (`AliasAssumption`), which the six rows of
`mimeAliases` meet: lower case, no blank, one slash, and none of them an alias.

`Delivery` follows one document: through `uploadFileJson`, which keeps type,
size and clean title, to the envelope `onUploadDone` makes of it; and through
`buildMetadataEnvelopeJson`, to which a client gives all its fields and which
takes tags only as text (`parseTags`; those of a JSON array it does not see).
Both are queued by `broadcastEnvelopeJson` and sent by `sendBroadcast`, which
first needs `deliveryReady`. Bringing up is one action per remote call
(`calling`), in the order of the code, each answered, refused, or lost before or
after it was carried out. `stage` stands for three flags that are set one after
the other and never taken back; `storage` and `delivery` are what the two
modules have really done, and a restart of either sets it back. That storage
tells a second `init` or `start` apart (`isAlready`) is in the code; whether the
delivery module takes a second `createNode` is not, so it may do either.

### Registry and AnchorLog

`index_batch` is `IndexBatch`: the checks in the order of the code
(`SizeFits`, `ArityMatches`, `EntriesValid`, `Fits`), then the loop as one
function update that leaves existing keys alone and takes the first of
duplicate rows. A rejected batch is a transaction that panics: no step. An
empty list cannot reach the program, because splitting an empty string gives
one empty piece (`EmptyCid`). The account's byte limit is a number of records.
`AnchorLog` has one action: some CIDs without a record get one.

### BatchAnchor

`pc[w]` follows `run()`: `down`, `seeded` (registry read), `replaying` (store
reply being pushed), `polling`, `pushing` (relay reply being pushed),
`submitting` (waiting for the child process). `inbox` holds the envelopes of the
last reply that are not pushed yet, `batch` the drained entries. A transaction
in `pool` may land or be dropped at any time; when its watcher has stopped
waiting for it (`Retired`) it is `late` and its landing is not reported. The
two are separate so that a failed report and a landed transaction can coincide.
`Args` is the conversion from entries to the three joined lists: a CID that
holds a comma becomes more pieces than hashes, and timestamps are cut to u32
(`Modulus`). The timestamp of a record is therefore the sender's, where
`chronicle_registry_core/src/lib.rs:18` says it is that of anchoring. `Faulty` lets nodes restart, lose messages and fail requests.

### AnchorLedger

`anchorBatchJson` is split at its one blocking call: `AnchorBatch` up to it,
`phase` for how far it got (`called`, `sent`, `landed`), `AnchorConfirmed` and
`AnchorFailed` for the return with the record and the save. The thread is blocked,
so the plugin's other handlers need `phase = "idle"`; `Restart`, which is a kill
and a start, and the chain do not. What was sent and not seen to be included is
a `stray` that may land later. `ArgsMembers` are the names the plugin writes and
`IndexBatchReads` those the library of `ffi/` insists on; with `OwnLibrary`
FALSE the library is another one (`CHRONICLE_FFI_PATH`) that understands the
plugin, so that the rest of the code can be examined. Hashes, URLs and wallets
are opaque; a ledger file that cannot be opened is not modelled, one that is
torn by a kill is. Look-ups change nothing.
The row it submits carries the plugin's own clock (`chronicle_plugin.cpp:861`, 870),
one value in the model: a `timestamp` in the request is ignored, although
`logos-chronicle/scripts/logoscore-anchor-smoke.sh:174` asserts that the chain
holds the one the request sent.

### Whistleblower

The client's handlers run one at a time and make their calls of chronicle in
turn; `calling` is the call the running handler waits for, and a handler is an
action up to its first call and one for each way a call can end, which leads to
the next call or to none. The wait of `invokeRemoteMethod` is taken to serve no
other handler of the client. A lost call and a lost answer are the same to it:
it goes on with an empty answer, and chronicle has or has not done its part.
`ConnectDelivery`, `SubmitDocument`, `DiscardHistory` and `AnchorJob` have the
guards of the slots and of the buttons of `Main.qml` that call them. `polling`
and `retryDue` are the two timers, `due` the start-up timers; the start-up
refreshes of anchors and capabilities are display only and left out, as are
the texts shown.

Of chronicle it keeps the publishes (`jobs`), the ids handed out (`spent`) and
which publishes have an anchor record, moved by the actions of `PublishJobs` and
its departures. `wasDone`, which only properties read, is what chronicle has ever
shown as done. The history shown is cut to what the Anchor button looks at: a
publish is absent, done or anything else (`Listed`). `tries` counts as
`m_deliveryTries` does, on past `MaxTries` when the user clicks Reconnect.
Both sides restart at any time: `Relaunch` loses all the client knows, a restart
of chronicle the publishes under way, or all of them if the ledger was torn.

## 3. What TLC checks

Passing runs (bounds; what they show is in `PROJECT.json` under "about"):

| Run | Instance | Properties |
|---|---|---|
| `UploadSerial` | 2 uploads (one oversize), 2 attempts, no nested loop, fairness | `TypeOK`, `ActiveIsUploading`, `OneInFlight`, `SessionMapLive`, `TerminalUnstaged`, `AttemptEnds`, `QueueDrains`, `RetryingSettles` |
| `UploadTiming` | files of 0, 78 and 79 MiB, every attempt, handlers in time or 5 minutes late, fairness | `TypeOK`, `OverInTime`, `SmallEnds` |
| `PublishLedger` | 2 publishes of different documents, posted envelope, restarts | `PublishTypeOK`, `LedgerAgrees`, `DoneWasHanded`, `OneBroadcastPerKey`, `KeepsJobs` |
| `Delivery` | 8 documents that each meet another case of the helpers, 2 broadcasts, 2 faults, fairness | `DeliveryTypeOK`, `Verifiable`, `SameDocumentOnce`, `PartedByFault`, `ComesUp` |
| `Registry` | all batches of up to 2 rows, malformed ones | `TypeOK`, `IsLog`, `BatchesAreBounded` |
| `AnchorOne` | 1 watcher, 2 CIDs and one with a comma, 2 messages, faults, invalid entries | `TypeOK`, `PendingIsNew`, `KnownOnChain`, `AnchoredAsBroadcast`, `EntriesSurvive` |
| `AnchorLive` | 1 watcher, 3 CIDs, 3 messages, room for a batch of 2, fairness | `ReadIsAnchored` |
| `ClientSees` | 2 publishes, 2 tries, lost calls, restarts of both sides, fairness | `TypeOK`, `PollsWhileWorking`, `PhaseIsCurrent`, `AnchoredWasDone`, `KeepsTrying`, `EndIsSeen` |
| `LedgerChain` | 2 CIDs, room for 1 record, 2 hashes and the zero one, 2 signers, a library that reads the arguments, faults | `TypeOK`, `ConfirmedOnChain` |

Runs that show the code departs from what the repository says of it:

| Run | Property | What happens |
|---|---|---|
| `UploadCid` | `CidNamesOwnFile` | a late event is credited to another upload |
| `PublishStuck` | `BroadcastingEnds` | a publish with a duplicate envelope never leaves "broadcasting" |
| `LedgerArgs` | `GoodRequestsConfirmed` | the library of `ffi/` refuses every request for want of `anchorer`, `entries` and `idl_path` |

Other departures are named in passing properties, as the one case they except:

* a retry timer that fires while another upload is active is swallowed, and the
  upload stays `retrying` (`Stranded` in `RetryingSettles`);
* the back-off of attempt 32 overflows, and the upload never ends
  (`SmallEnds` excepts files of 79 MiB and more; `logos-chronicle/README.md:62`
  promises `RETRIES_EXHAUSTED`);
* a buffer past `MAX_BATCH` is refused for ever (`Oversize` in `ReadIsAnchored`;
  `batch-anchor/README.md:55-57` says `max_size` triggers a submission);
* a field that is cut at its limit may keep a blank at its end, which the next
  cleaning takes away, so an envelope a client had built need not verify
  (`Uncut` in `Verifiable`; `logos-chronicle/README.md:126`);
* `publishFileJson` drops description and tags, which
  `logos-chronicle/README.md:86` lists among its members, and
  `buildMetadataEnvelopeJson` tags given as a JSON array, so a document that is
  published and announced goes out twice (`SameDocumentOnce`);
* when the answer to `createNode` or `start` of the delivery module is lost, or
  that module restarts, chronicle may be refused for ever or send to a node that
  is gone (`DeliveryApart` in `ComesUp`);
* storage that restarts once `m_storageReady` is set is never started again
  (`StorageApart` in `ComesUp`, `chronicle_plugin.cpp:208`);
* a publish that was done becomes an error, or one that failed becomes done, and
  a torn ledger loses the history (`Departs` in `KeepsJobs`;
  `logos-chronicle/README.md:88` says records persist across restarts);
* a record's timestamp is that of its broadcast, cut to 32 bits, and not the time
  of anchoring (`AnchoredAsBroadcast` says so; `chronicle_registry_core/src/lib.rs:18`
  says the contrary).

Visible in the models, with no property to say so: `anchorBatchJson` anchors its
own clock and not the request's timestamp (`logoscore-anchor-smoke.sh:174`
asserts the contrary); a message between
store query and subscription is missed until the watcher starts again
(`watch.rs:69`); a confirmed record may name another hash than the chain holds,
where the first write stands (`tx.rs:486`); the client is not `working` while a
publish is in flight whose acceptance was lost on the way
(`whistleblower.rep:10` says it is); `networkReady` stays set when chronicle
restarts (`whistleblower.rep:25`); `historyJson` lists running publishes too
(`whistleblower.rep:28`). If the wait of `uploadUrl` ran a nested event loop, a
publish whose left-over timer starts its finished upload again could be marked
done for an envelope that was never handed over: `DoneWasHanded` relies on
`Reentrant` FALSE.

Why the bounds are enough: two uploads suffice for every interleaving between
the active upload and another one, the second attempt brings outdated timers,
sessions and events. Two publishes let the client poll one while another, which
it lost sight of, goes on. In `BatchAnchor` two messages give a duplicate or a
disagreement, three a batch that is too big for `MaxBatch` 2. In `Delivery` the
limits are so small (a title of 3, an envelope of 11 characters) that documents
of five characters meet every cut, and two faults part chronicle from a module
and hit it again. Bounds are `MaxAttempts`, `MaxPosts` and `MaxFaults` (guards of
`UploadDone`, `BroadcastEnvelope` and `Fault`), `MaxPosted` (guards `PostEnvelope`), `MaxStore` (guards
`Broadcast`), `MaxCount` (guards `ConnectDelivery`: nobody clicks Reconnect after so many
failed tries; the retry timer counts past it), `Delays` (in time, and as late as
the longest `uploadUrl` wait makes it) and the finite sets of ids. `MaxTries` is
the code's `kMaxDeliveryTries`, 6, made small. Nested event loops (`Reentrant`) and
several watchers are left to the proofs, which cover any number of both.
Deadlock is not checked: the plugin may be idle for ever, every upload over,
every message anchored.

### Fairness

* `UploadQueue`: Qt timers fire, a remote call returns within its `Timeout`,
  time passes (weak fairness of `StartUpload`, `AttemptTimeout`,
  `UploadUrlReturns`, `DeadlinePasses`). Nothing is assumed of storage.
  `QueueDrains` excepts what the queue does not survive, a retryable failure
  (hazard at `chronicle_plugin.cpp:533`); a time-out is one of them.
* `UploadTiming`: timers fire (weak fairness of `Next`).
* `Publish`: a queued broadcast's timer fires and the wait of `uploadUrl` ends.
* `Delivery`: a call ends within its `Timeout`, and somebody who was not answered
  "started" asks again: Whistleblower by its retry timer, then the user by its
  Reconnect button. Faults end, as `MaxFaults` bounds them.
* `BatchAnchor`: a watcher that is up runs on and its flush timer passes; the
  chain does not refuse a watcher's transaction for ever (strong fairness of its
  landing while it is awaited). Nothing restarts a watcher that is down.
* `Whistleblower`: a call returns within its time-out, the poll timer ticks, and
  of the polls that would show the end of a publish not all are lost. Nothing is
  assumed of chronicle's progress or of the user.

## 4. What is proved

All theorems hold for every value of the constants under the named
assumptions of the modules, which TLC evaluates.

* `UploadQueueProofs`: type correctness, `ActiveIsUploading` and
  `TerminalUnstaged` in either mode; `OneInFlight` and `SessionMapLive` under
  `~ Reentrant`. These need each other and a lemma: that the reply belongs to the
  running attempt of the active upload (`CallIsActive`) holds because nothing ran
  during the wait, that the map is live because the entry is removed
  by whichever handler ends the attempt, and that there is one upload because
  only the active one starts. Their conjunction is inductive.
  `TerminalUnstaged` is not inductive without the statement that an absent
  upload has no staged copy, which it therefore includes. `SourceInv`, for the
  proofs about publishes: an upload whose staged copy is gone is `uploading` only
  while the wait of `uploadUrl` lasts, and storage opens no session for it.
* `UploadTimingProofs`: types and `OverInTime`, for every size of file, so also
  for the budgets TLC cannot count through, and for every set of delays. `ClockInv` says where the clock is:
  no attempt but the first starts after the deadline, and none before the
  back-offs that came before it are over. The second half, with the shortest
  back-offs added up to attempt 32 (`Waited`), gives that no upload of less than
  79 MiB reaches the overflow.
* `PublishProofs`: types; `LedgerAgrees`, in either mode, whatever the queue
  does: it is inductive together with the fact that every row of the file is
  done or failed, which is needed because a restart turns rows into publishes;
  `OneBroadcastPerKey`, from the check for duplicates alone.

  `DoneWasHanded` and the refinement `KeepsJobs` hold under `~ Reentrant`, the
  second by showing that every step is one of `PublishJobs`, clearing, a named
  departure or a stutter: what a queued broadcast may do to a publish
  that is over needs that no two broadcasts have one owner (`OnceInv`). Both
  rest on one invariant, `PipelineInv`: ids in use were handed out (`IdsInv`),
  a row is of a publish that is over (`RowsInv`), a publish waits for its upload
  as long as the staged copy is there (`LinkedInv`), and the owner of a broadcast
  has the key of that broadcast (`OwnerInv`). The last one is the point: a key
  that changed after the broadcast was queued would make "done" speak of another
  envelope. It changes only when an upload succeeds, which takes a staged copy,
  and an upload that is over has none (`EndsCleanly`, lemma on the queue); a
  left-over timer can start it again but only to fail. With a nested event loop
  other handlers run during that wait, and a late event could complete it.
* `DeliveryProofs`: types, `Verifiable`, `SameDocumentOnce` and `PartedByFault`,
  for all documents, limits and alias tables that `MetadataAssumption` and
  `AliasAssumption` allow. The first two come from lemmas on the helpers:
  trimming, lower-casing, cutting and replacing an alias are done with after one
  cleaning (`CoercedTwice`, `CleanTitleTwice`, ...), which is what lets the
  envelope of an upload, cleaned in two places, carry the hash of its own
  fields. For tags this takes an induction over the loop of `cleanTags`; as the
  library's induction theorems cannot be used here, `Induction` gives it for a
  *set* of naturals, by the least element of its complement. From there
  `DeliveryInv` says what every envelope made and every broadcast queued has a
  hash of, and a document that no route drops fields of (`Apt`) has one hash
  only. `PartedByFault`, for both modules, needs `CallInv`: each call of
  `deliveryReady` is made at the stage it is to bring about.
* `AnchorLedgerProofs`: types; `ConfirmedOnChain`. A record is
  confirmed only after the transaction was seen in a block (`LandedIsAnchored`),
  records on chain never go away (which needs that the account is opened before
  it has entries), and a restart reads no more than what memory had confirmed,
  which is why the statement about the file is part of the invariant. That the
  registry stays a write-once log is proved here too (`AnchorersKeepLog`), over
  late and repeated transactions and other anchorers.
* `WhistleblowerProofs`: types; `PollsWhileWorking` and `PhaseIsCurrent`, by an
  invariant that also says what holds while a handler waits (`Inv`): `working`
  and the poll timer go together except while `publishFileJson` is out, and a
  poll or a clearing knows which of the two it is in. `AnchoredWasDone`: a
  publish that is not under way never will be again, as ids are handed out once
  (`FinishedIsStable`), so what was shown as done may still be anchored; and the
  history shows as done only what was. `KeepsTrying`, from an invariant that also
  covers the start-up timer and the try that is under way (`TryInv`).
* `RegistryProofs`: types; the program implements `AnchorLog` (each step maps to
  `Anchor` of the new CIDs or to a stutter); `BatchesAreBounded`: what one transaction adds is named by the rows of one
  batch, and the registry cannot be opened a second time over its entries.
* `BatchAnchorProofs`: types; `KnownOnChain`, by an invariant that follows a
  transaction: whatever a watcher awaits and sees landed was its own batch
  (`OwnTx`), what landed is anchored (`LandedIsAnchored`), and records never go
  away; that the registry stays a write-once log whatever watchers and network
  do. `PendingIsNew` rests on `OneHolder`, that entries are in the buffer or on
  their way, never both, because the one task does not push while it awaits;
  `EntriesSurvive` on that and on `KnownOnChain`, as a start replaces what was
  known by what is on chain. `AnchoredAsBroadcast` follows every entry from the
  log through queue, reply, buffer, batch and transaction (`HeardInv`).

Every property of a passing run is stated by a theorem, except liveness, which is
only model-checked: `AttemptEnds`, `QueueDrains`, `RetryingSettles`,
`SmallEnds`, `EndIsSeen`, `ReadIsAnchored`, `ComesUp`. Fairness speaks of what is
enabled, and the prover has no rule for `ENABLED`. The safety half of
`SmallEnds`, that the overflow is out of reach below 79 MiB, is proved.

## 5. What is not modelled, and why

* JSON, SHA-256 and characters as such; file extensions.
* The rules of the chain's runtime on who may write an account; proofs and
  gas. The macro's account checks (`init`: the account is still empty) are in
  `Registry`.
* The broadcast topic: `setBroadcastTopic` between queueing and sending changes
  where an envelope goes, and neither the duplicate check nor the status says
  so. No document promises anything of the case.
* Calls of chronicle's own clients that only read.
* What Whistleblower only displays. The FFI's look-up and its string ownership.
* QML layout, scripts, vendored code, build files.

## 6. Plan

Done: the modules above, with the proofs above. Next, in this order:

1. The anchors Whistleblower shows, with `AnchorLedger` in place of a set.
2. The safety halves of the liveness properties: what is awaited is always
   still on its way (an attempt has its timer, a publish that a client polls has
   a poll timer or a call), so that only fairness is left to the model checker.
