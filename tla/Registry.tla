------------------------------ MODULE Registry ------------------------------
(***************************************************************************)
(* The chronicle_registry program: init_registry and index_batch of        *)
(* methods/guest/src/bin/chronicle_registry.rs on the registry PDA, with   *)
(* the account checks the lez_program macro puts in front of them.  A      *)
(* transaction that fails any check panics in the guest and changes        *)
(* nothing.  The byte limit on account data is a limit on records.         *)
(***************************************************************************)
EXTENDS Naturals, Sequences, FiniteSets

CONSTANTS
  Cids,       \* CIDs
  EmptyCid,   \* the empty string, as a piece of the comma-separated list
  Hashes,     \* metadata hashes, ZeroHash among them
  ZeroHash,   \* [0u8; 32]
  Stamps,     \* the u32 timestamps of the model
  Anchorers,  \* signers
  NoRecord,   \* a CID with no entry in the map
  Batches,    \* the index_batch arguments that are submitted
  MaxBatch,   \* MAX_BATCH
  Capacity    \* the records that fit in the account

ASSUME RegistryAssumption ==
  /\ EmptyCid \notin Cids
  /\ ZeroHash \in Hashes
  /\ Stamps \subseteq Nat
  /\ MaxBatch \in Nat
  /\ Capacity \in Nat
  /\ IsFiniteSet(Cids)

(* The arguments of index_batch, the CIDs after the split at commas. *)
Pieces == Cids \cup {EmptyCid}
Batch == [cids : Seq(Pieces), hashes : Seq(Hashes), stamps : Seq(Stamps)]

ASSUME BatchesAssumption == \A b \in Batches : b \in Batch

Records == [metadata_hash : Hashes \ {ZeroHash}, anchor_timestamp : Stamps \ {0},
            anchored_by : Anchorers]

ASSUME NoRecordAssumption == NoRecord \notin Records

VARIABLES
  entries,    \* Registry.entries
  opened      \* the account's data is not empty

registryVars == <<entries, opened>>

AnchoredCids == {c \in Cids : entries[c] # NoRecord}
Named(b) == {b.cids[i] : i \in DOMAIN b.cids}

-----------------------------------------------------------------------------
Init ==
  /\ entries = [c \in Cids |-> NoRecord]
  /\ opened = FALSE

(* Mutant: the account is opened again. *)
InitRegistryAgain ==
  /\ opened' = TRUE
  /\ entries' = [c \in Cids |-> NoRecord]

(* init_registry: the account must still be the default one. *)
InitRegistry ==
  /\ ~ opened
  /\ opened' = TRUE
  /\ entries' = [c \in Cids |-> NoRecord]

(* Mutant: a batch may be of any size. *)
SizeFitsAny(b) == Len(b.cids) # 0

(* The checks of index_batch, in the order of the code; each rejects it all. *)
SizeFits(b) == Len(b.cids) \in 1 .. MaxBatch
ArityMatches(b) == Len(b.hashes) = Len(b.cids) /\ Len(b.stamps) = Len(b.cids)
EntriesValid(b) ==
  \A i \in DOMAIN b.cids : /\ b.cids[i] # EmptyCid
                           /\ b.hashes[i] # ZeroHash
                           /\ b.stamps[i] # 0

(* The first occurrence of c in the batch; later ones find the key taken. *)
FirstOf(b, c) ==
  CHOOSE i \in DOMAIN b.cids : /\ b.cids[i] = c
                               /\ \A j \in DOMAIN b.cids : b.cids[j] = c => i <= j

RecordOf(b, c, by) ==
  [metadata_hash |-> b.hashes[FirstOf(b, c)],
   anchor_timestamp |-> b.stamps[FirstOf(b, c)],
   anchored_by |-> by]

(* The map after the loop: a CID that has a record keeps it. *)
Inserted(b, by) ==
  [c \in Cids |-> IF entries[c] = NoRecord /\ c \in Named(b)
                  THEN RecordOf(b, c, by) ELSE entries[c]]

Fits(b) == Cardinality(AnchoredCids \cup Named(b)) <= Capacity

(* Mutant: the timestamps and hashes are not looked at. *)
AcceptedUnchecked(b) == SizeFits(b) /\ ArityMatches(b) /\ Fits(b)

Accepted(b) == SizeFits(b) /\ ArityMatches(b) /\ EntriesValid(b) /\ Fits(b)

(* index_batch signed by "by". *)
IndexBatch(b, by) ==
  /\ Accepted(b)
  /\ entries' = Inserted(b, by)
  /\ opened' = TRUE

-----------------------------------------------------------------------------
Next ==
  \/ InitRegistry
  \/ \E b \in Batches, by \in Anchorers : IndexBatch(b, by)

Spec == Init /\ [][Next]_registryVars

-----------------------------------------------------------------------------
TypeOK ==
  /\ entries \in [Cids -> Records \cup {NoRecord}]
  /\ opened \in BOOLEAN

(* init_registry, which writes an empty map, only ever runs on an empty one: *)
(* a batch that came before it has already taken the account.  IsLog needs it. *)
EntriesNeedAccount == AnchoredCids # {} => opened

(***************************************************************************)
(* First write wins, for ever: the map is a log that gives every CID at    *)
(* most one record, through every batch, duplicate and second opening.     *)
(***************************************************************************)
Log == INSTANCE AnchorLog
IsLog == Log!Spec

(***************************************************************************)
(* One transaction adds at most MAX_BATCH records, and at most one signer  *)
(* is named in them: E_BATCH_TOO_BIG bounds what one transaction costs.    *)
(***************************************************************************)
OneBatch ==
  LET new == {c \in Cids : entries'[c] # entries[c]}
  IN  /\ Cardinality(new) <= MaxBatch
      /\ \A c, d \in new : entries'[c].anchored_by = entries'[d].anchored_by
BatchesAreBounded == [][OneBatch]_entries
=============================================================================
