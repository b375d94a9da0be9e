---------------------------- MODULE BatchAnchor ----------------------------
(***************************************************************************)
(* batch-anchor watch (cmd/watch.rs, batch/mod.rs, delivery/, registry/):  *)
(* watchers that read broadcast envelopes from their nwaku nodes, buffer   *)
(* the CIDs they have not seen, and commit the buffer to the on-chain      *)
(* registry.  Each watcher is one task: nothing of its own state moves     *)
(* while it awaits, but the network, the chain and the other watchers do.  *)
(*                                                                         *)
(* A CID is a whole string.  One that holds a comma is a member of Commas: *)
(* the guest splits the joined list at commas, so such a CID adds pieces,  *)
(* modelled as EmptyCid.  What the chain does is module Registry.          *)
(***************************************************************************)
EXTENDS Naturals, Sequences, FiniteSets

CONSTANTS
  Watchers,   \* batch-anchor processes, each with its nwaku and its signer
  Cids,       \* CIDs without a comma
  Commas,     \* CIDs with one
  EmptyCid,   \* the empty string
  Hashes, ZeroHash,
  NoRecord,
  Envelopes,  \* what Envelope::from_payload lets through
  Modulus,    \* a timestamp is cut to u32: 2^32 in the code
  MaxSize,    \* batch.max_size
  MaxBatch,   \* MAX_BATCH, in the watcher and in the guest
  Capacity,   \* the records that fit in the registry account
  Faulty,     \* may the nwaku nodes lose messages and fail requests?
  MaxStore    \* bound: the messages broadcast in a behaviour

Entry == [cid : Cids \cup Commas, hash : Hashes, ts : Nat \ {0}]

ASSUME BatchAnchorAssumption ==
  /\ EmptyCid \notin Cids \cup Commas
  /\ Cids \cap Commas = {}
  /\ IsFiniteSet(Cids)
  /\ ZeroHash \in Hashes
  /\ Modulus \in Nat \ {0}
  /\ MaxSize \in Nat /\ MaxBatch \in Nat /\ Capacity \in Nat /\ MaxStore \in Nat
  /\ Faulty \in BOOLEAN
ASSUME EnvelopesAssumption == \A e \in Envelopes : e \in Entry

VARIABLES
  entries, opened,  \* the registry account
  pool,             \* transactions sent and neither included nor dropped
  landed,           \* the transaction this watcher waits for was included
  store,            \* the nodes' message log
  queue,            \* a node's relay messages not read yet
  subscribed,       \* the node holds this watcher's subscription
  pc,               \* where run() is
  known,            \* BatchBuffer.known
  buffer, aged,     \* BatchBuffer.entries; its first one is flush_after_s old
  batch,            \* the drained entries index_batch was called with
  inbox             \* envelopes of the last reply that are still to be pushed

chainVars == <<entries, opened>>
txVars == <<pool, landed>>
netVars == <<store, queue, subscribed>>
bufferVars == <<known, buffer, aged, batch, inbox>>
vars == <<chainVars, txVars, netVars, pc, bufferVars>>

PCs == {"down", "seeded", "replaying", "polling", "pushing", "submitting"}
Tx == [by : Watchers, batch : Seq(Envelopes), late : BOOLEAN]

-----------------------------------------------------------------------------
(* The argument lists a transaction may carry. *)
Submissions == [cids : Seq(Cids \cup {EmptyCid}), hashes : Seq(Hashes),
                stamps : Seq(0 .. Modulus - 1)]

Chain == INSTANCE Registry WITH Stamps <- 0 .. Modulus - 1, Anchorers <- Watchers,
                                Batches <- Submissions

ASSUME AbsentAssumption == NoRecord \notin Chain!Records

CidsOf(s) == {s[i].cid : i \in DOMAIN s}
CommasIn(s) == {i \in DOMAIN s : s[i].cid \in Commas}

(* Mutant: the hashes are joined in the opposite order. *)
ArgsReversed(s) ==
  [cids   |-> [i \in 1 .. Len(s) + Cardinality(CommasIn(s)) |->
                 IF i <= Len(s) /\ i \notin CommasIn(s) THEN s[i].cid ELSE EmptyCid],
   hashes |-> [i \in 1 .. Len(s) |-> s[Len(s) + 1 - i].hash],
   stamps |-> [i \in 1 .. Len(s) |-> s[i].ts % Modulus]]

(* The three joined lists of index_batch as the guest reads them. *)
Args(s) ==
  [cids   |-> [i \in 1 .. Len(s) + Cardinality(CommasIn(s)) |->
                 IF i <= Len(s) /\ i \notin CommasIn(s) THEN s[i].cid ELSE EmptyCid],
   hashes |-> [i \in 1 .. Len(s) |-> s[i].hash],
   stamps |-> [i \in 1 .. Len(s) |-> s[i].ts % Modulus]]

Current(w) == [by |-> w, batch |-> batch[w], late |-> FALSE]

Init ==
  /\ Chain!Init
  /\ pool = {}
  /\ landed = [w \in Watchers |-> FALSE]
  /\ store = <<>>
  /\ queue = [w \in Watchers |-> <<>>]
  /\ subscribed = [w \in Watchers |-> FALSE]
  /\ pc = [w \in Watchers |-> "down"]
  /\ known = [w \in Watchers |-> {}]
  /\ buffer = [w \in Watchers |-> <<>>]
  /\ aged = [w \in Watchers |-> FALSE]
  /\ batch = [w \in Watchers |-> <<>>]
  /\ inbox = [w \in Watchers |-> <<>>]

-----------------------------------------------------------------------------
(* The network. *)

(* A message reaches the log and every subscribed node, or some of them. *)
Broadcast(e) ==
  /\ Len(store) < MaxStore
  /\ store' = Append(store, e)
  /\ \E reached \in SUBSET {w \in Watchers : subscribed[w]} :
       /\ ~ Faulty => reached = {w \in Watchers : subscribed[w]}
       /\ queue' = [w \in Watchers |-> IF w \in reached THEN Append(queue[w], e)
                                                        ELSE queue[w]]
  /\ UNCHANGED <<chainVars, txVars, subscribed, pc, bufferVars>>

(* The node of w restarts: it keeps its log, not its subscriptions. *)
NodeRestart(w) ==
  /\ Faulty
  /\ subscribed[w]
  /\ subscribed' = [subscribed EXCEPT ![w] = FALSE]
  /\ queue' = [queue EXCEPT ![w] = <<>>]
  /\ UNCHANGED <<chainVars, txVars, store, pc, bufferVars>>

(* The chain. *)

(* batch-anchor init: the transaction is included. *)
OpenRegistry ==
  /\ Chain!InitRegistry
  /\ UNCHANGED <<txVars, netVars, pc, bufferVars>>

(* A transaction is included: the guest accepts its batch. *)
Land(t) ==
  /\ t \in pool
  /\ Chain!IndexBatch(Args(t.batch), t.by)
  /\ pool' = pool \ {t}
  /\ landed' = [landed EXCEPT ![t.by] = @ \/ ~ t.late]
  /\ UNCHANGED <<netVars, pc, bufferVars>>

(* A transaction never runs, or the guest rejects it. *)
Drop(t) ==
  /\ t \in pool
  /\ pool' = pool \ {t}
  /\ UNCHANGED <<chainVars, landed, netVars, pc, bufferVars>>

-----------------------------------------------------------------------------
(* Starting up. *)

(* run() reads the registry: every key of the map, or nothing if it is not open. *)
Start(w) ==
  /\ pc[w] = "down"
  /\ pc' = [pc EXCEPT ![w] = "seeded"]
  /\ known' = [known EXCEPT ![w] = Chain!AnchoredCids]
  /\ UNCHANGED <<chainVars, txVars, netVars, buffer, aged, batch, inbox>>

(* query_store: the log since the start of the window.  A failed query is *)
(* logged and gives nothing, like a lookback of zero hours.               *)
CatchUp(w) ==
  /\ pc[w] = "seeded"
  /\ \E from \in 1 .. Len(store) + 1 :
       /\ ~ Faulty => from = 1
       /\ inbox' = [inbox EXCEPT ![w] = SubSeq(store, from, Len(store))]
  /\ pc' = [pc EXCEPT ![w] = "replaying"]
  /\ UNCHANGED <<chainVars, txVars, netVars, known, buffer, aged, batch>>

Subscribe(w) ==
  /\ pc[w] = "replaying"
  /\ inbox[w] = <<>>
  /\ subscribed' = [subscribed EXCEPT ![w] = TRUE]
  /\ pc' = [pc EXCEPT ![w] = "polling"]
  /\ UNCHANGED <<chainVars, txVars, store, queue, bufferVars>>

(* The process exits, on an error of its start-up or for any other reason. *)
(* The transaction it waits for stays in the pool.                         *)
Retired(w) ==
  IF Current(w) \in pool
  THEN (pool \ {Current(w)}) \cup {[Current(w) EXCEPT !.late = TRUE]}
  ELSE pool

Crash(w) ==
  /\ pc[w] # "down"
  /\ pc' = [pc EXCEPT ![w] = "down"]
  /\ pool' = Retired(w)
  /\ landed' = [landed EXCEPT ![w] = FALSE]
  /\ known' = [known EXCEPT ![w] = {}]
  /\ buffer' = [buffer EXCEPT ![w] = <<>>]
  /\ aged' = [aged EXCEPT ![w] = FALSE]
  /\ batch' = [batch EXCEPT ![w] = <<>>]
  /\ inbox' = [inbox EXCEPT ![w] = <<>>]
  /\ UNCHANGED <<chainVars, netVars>>

-----------------------------------------------------------------------------
(* The loop. *)

(* drain: the node hands over what it has queued, and forgets it. *)
PollDrain(w) ==
  /\ pc[w] = "polling"
  /\ inbox' = [inbox EXCEPT ![w] = queue[w]]
  /\ queue' = [queue EXCEPT ![w] = <<>>]
  /\ pc' = [pc EXCEPT ![w] = "pushing"]
  /\ UNCHANGED <<chainVars, txVars, store, subscribed, known, buffer, aged, batch>>

(* The reply is lost, or does not parse: "poll error", and round again. *)
PollLost(w) ==
  /\ Faulty
  /\ pc[w] = "polling"
  /\ queue' = [queue EXCEPT ![w] = <<>>]
  /\ UNCHANGED <<chainVars, txVars, store, subscribed, pc, bufferVars>>

(* Mutant: the buffer is not looked in. *)
FreshOnChain(w, e) == e.cid \notin known[w]

Fresh(w, e) == e.cid \notin known[w] /\ e.cid \notin CidsOf(buffer[w])

(* push. *)
Push(w) ==
  /\ inbox[w] # <<>>
  /\ inbox' = [inbox EXCEPT ![w] = Tail(@)]
  /\ buffer' = [buffer EXCEPT ![w] =
                  IF Fresh(w, Head(inbox[w])) THEN Append(@, Head(inbox[w])) ELSE @]
  /\ UNCHANGED <<chainVars, txVars, netVars, pc, known, aged, batch>>

(* flush_after_s passes for the first entry of the buffer. *)
Age(w) ==
  /\ buffer[w] # <<>>
  /\ ~ aged[w]
  /\ aged' = [aged EXCEPT ![w] = TRUE]
  /\ UNCHANGED <<chainVars, txVars, netVars, pc, known, buffer, batch, inbox>>

(* Mutant: only a full buffer is flushed. *)
ShouldFlushFull(w) == buffer[w] # <<>> /\ Len(buffer[w]) >= MaxSize

(* should_flush. *)
ShouldFlush(w) ==
  /\ buffer[w] # <<>>
  /\ Len(buffer[w]) >= MaxSize \/ aged[w]

KeepBuffering(w) ==
  /\ pc[w] = "pushing"
  /\ inbox[w] = <<>>
  /\ ~ ShouldFlush(w)
  /\ pc' = [pc EXCEPT ![w] = "polling"]
  /\ UNCHANGED <<chainVars, txVars, netVars, bufferVars>>

(* index_batch sends a transaction, unless the batch is too big. *)
Sent(w) ==
  IF Len(buffer[w]) <= MaxBatch
  THEN pool \cup {[by |-> w, batch |-> buffer[w], late |-> FALSE]}
  ELSE pool

(* Mutant: drain keeps the time of the first entry. *)
AgedStill(w) == aged

AgedReset(w) == [aged EXCEPT ![w] = FALSE]

(* drain, and the call of index_batch. *)
Flush(w) ==
  /\ pc[w] = "pushing"
  /\ inbox[w] = <<>>
  /\ ShouldFlush(w)
  /\ batch' = [batch EXCEPT ![w] = buffer[w]]
  /\ buffer' = [buffer EXCEPT ![w] = <<>>]
  /\ aged' = AgedReset(w)
  /\ pool' = Sent(w)
  /\ pc' = [pc EXCEPT ![w] = "submitting"]
  /\ UNCHANGED <<chainVars, landed, netVars, known, inbox>>

(* Mutant: any answer is taken for a confirmation. *)
ConfirmedAnyway(w) == pc[w] = "submitting"

Confirmed(w) == pc[w] = "submitting" /\ landed[w]

(* mark_flushed: the transaction was seen in a block. *)
Confirm(w) ==
  /\ Confirmed(w)
  /\ known' = [known EXCEPT ![w] = @ \cup CidsOf(batch[w])]
  /\ batch' = [batch EXCEPT ![w] = <<>>]
  /\ landed' = [landed EXCEPT ![w] = FALSE]
  /\ pc' = [pc EXCEPT ![w] = "polling"]
  /\ UNCHANGED <<chainVars, pool, netVars, buffer, aged, inbox>>

(* Mutant: the entries are not put back. *)
ReturnedNone(w) == buffer[w]

Returned(w) == batch[w] \o buffer[w]

(* return_failed: the batch was too big, was not sent, was rejected, or was  *)
(* not seen in a block in time, in which case it may still get into one.     *)
SubmitFails(w) ==
  /\ pc[w] = "submitting"
  /\ buffer' = [buffer EXCEPT ![w] = Returned(w)]
  /\ batch' = [batch EXCEPT ![w] = <<>>]
  /\ landed' = [landed EXCEPT ![w] = FALSE]
  /\ pool' = Retired(w)
  /\ pc' = [pc EXCEPT ![w] = "polling"]
  /\ UNCHANGED <<chainVars, netVars, known, aged, inbox>>

-----------------------------------------------------------------------------
Watch(w) ==
  \/ Start(w) \/ CatchUp(w) \/ Subscribe(w) \/ Crash(w)
  \/ PollDrain(w) \/ PollLost(w) \/ Push(w) \/ Age(w)
  \/ KeepBuffering(w) \/ Flush(w) \/ Confirm(w) \/ SubmitFails(w)

Next ==
  \/ \E e \in Envelopes : Broadcast(e)
  \/ \E w \in Watchers : NodeRestart(w)
  \/ OpenRegistry
  \/ \E t \in pool : Land(t)
  \/ \E t \in pool : Drop(t)
  \/ \E w \in Watchers : Watch(w)

Spec == Init /\ [][Next]_vars

(***************************************************************************)
(* A process that is up runs on, and its timer runs; nothing restarts it.  *)
(* The sequencer need not include any one transaction, but it does not     *)
(* refuse a watcher's every attempt: strong fairness of Land.              *)
(***************************************************************************)
LandOwn(w) == \E t \in pool : t = Current(w) /\ Land(t)

Fairness ==
  \A w \in Watchers :
    /\ WF_vars(CatchUp(w)) /\ WF_vars(Subscribe(w))
    /\ WF_vars(PollDrain(w)) /\ WF_vars(Push(w)) /\ WF_vars(Age(w))
    /\ WF_vars(KeepBuffering(w) \/ Flush(w))
    /\ WF_vars(Confirm(w) \/ SubmitFails(w))
    /\ SF_vars(LandOwn(w))

FairSpec == Spec /\ Fairness

-----------------------------------------------------------------------------
TypeOK ==
  /\ Chain!TypeOK
  /\ pool \subseteq Tx
  /\ landed \in [Watchers -> BOOLEAN]
  /\ store \in Seq(Envelopes)
  /\ queue \in [Watchers -> Seq(Envelopes)]
  /\ subscribed \in [Watchers -> BOOLEAN]
  /\ pc \in [Watchers -> PCs]
  /\ known \in [Watchers -> SUBSET (Cids \cup Commas)]
  /\ buffer \in [Watchers -> Seq(Envelopes)]
  /\ aged \in [Watchers -> BOOLEAN]
  /\ batch \in [Watchers -> Seq(Envelopes)]
  /\ inbox \in [Watchers -> Seq(Envelopes)]
  /\ \A w \in Watchers : aged[w] => buffer[w] # <<>>

(* A watcher holds a CID once, and none the chain already holds for sure:  *)
(* push looks only at the buffer, not at the entries that are being        *)
(* submitted, which come back in front of it when the transaction fails.   *)
Distinct(s) == \A i, j \in DOMAIN s : s[i].cid = s[j].cid => i = j
DistinctPending == \A w \in Watchers : Distinct(batch[w] \o buffer[w])
PendingUnknown ==
  \A w \in Watchers : known[w] \cap CidsOf(batch[w] \o buffer[w]) = {}
PendingIsNew == DistinctPending /\ PendingUnknown

(* What a watcher takes for anchored is anchored, whatever happens to its  *)
(* transactions: a CID that is wrongly in "known" would never be sent.     *)
KnownOnChain == \A w \in Watchers : known[w] \subseteq Chain!AnchoredCids

(***************************************************************************)
(* The rows of a record stay together: its CID, hash and timestamp come    *)
(* from one message, though they travel in three joined lists that the     *)
(* guest splits again, through batching, retries and resending.  So the    *)
(* timestamp is the sender's, cut to u32 (state.rs:252), and not the       *)
(* "Unix seconds at time of anchoring" of the record's own comment         *)
(* (chronicle_registry_core/src/lib.rs:18).                                *)
(***************************************************************************)
AnchoredAsBroadcast ==
  \A c \in Chain!AnchoredCids : \E i \in DOMAIN store :
    /\ store[i].cid = c
    /\ store[i].hash = entries[c].metadata_hash
    /\ store[i].ts % Modulus = entries[c].anchor_timestamp

(* Only a crash makes a watcher forget a CID it has read and not anchored. *)
Held(w) == known[w] \cup CidsOf(buffer[w]) \cup CidsOf(batch[w]) \cup CidsOf(inbox[w])
HeldAreKept == \A w \in Watchers : pc'[w] = "down" \/ Held(w) \subseteq Held(w)'
EntriesSurvive == [][HeldAreKept]_vars

(***************************************************************************)
(* A CID that a watcher has to hand gets on chain, unless the watcher goes *)
(* down: through polls, buffering, the flush timer and failed submissions. *)
(* It has to hand what its node queues and, as it starts, the whole log,   *)
(* so what fell between query_store and subscribe is made up for then.     *)
(* A buffer that grew past MAX_BATCH is refused as one batch for ever,     *)
(* though batch-anchor/README.md:56 says it is submitted at max_size.      *)
(***************************************************************************)
Reading(w) == CidsOf(queue[w]) \cup CidsOf(inbox[w]) \cup CidsOf(buffer[w])
              \cup (IF pc[w] = "seeded" THEN CidsOf(store) ELSE {})
Oversize(w) == Len(buffer[w]) > MaxBatch
ReadIsAnchored ==
  \A w \in Watchers, c \in Cids :
    c \in Reading(w) ~> c \in Chain!AnchoredCids \/ pc[w] = "down" \/ Oversize(w)
=============================================================================
