--------------------------- MODULE RegistryProofs ---------------------------
(* Theorems about Registry, for any CIDs, batches, signers and limits. *)
EXTENDS Registry, FiniteSetTheorems, WellFoundedInduction, TLAPS

USE RegistryAssumption, NoRecordAssumption, BatchesAssumption

-----------------------------------------------------------------------------
(* FirstOf is an index of the batch that holds the CID, and the least one. *)
LEMMA FirstOfIsIndex ==
  ASSUME NEW b \in Batch, NEW c \in Named(b)
  PROVE  /\ FirstOf(b, c) \in DOMAIN b.cids
         /\ b.cids[FirstOf(b, c)] = c
  <1> DEFINE At == {i \in DOMAIN b.cids : b.cids[i] = c}
             Less == OpToRel(<, Nat)
  <1>1. At \subseteq Nat /\ At # {}
    BY DEF Batch, Named
  <1>2. \A i, j \in Nat : j < i => <<j, i>> \in Less
    BY Zenon DEF Less, OpToRel
  <1>3. IsWellFoundedOn(Less, Nat)
    BY Zenon, NatLessThanWellFounded DEF Less
  <1> HIDE DEF Less
  <1>4. PICK i \in At : \A j \in At : ~ (<<j, i>> \in Less)
    BY <1>1, <1>3, WFMin
  <1>5. \A j \in At : i <= j
    <2> HIDE DEF At
    <2>1. \A j \in At : i \in Nat /\ j \in Nat /\ ~ (j < i)
      BY Zenon, <1>1, <1>2, <1>4
    <2>2. QED
      BY <2>1
  <1>6. \E k \in DOMAIN b.cids : /\ b.cids[k] = c
                                 /\ \A j \in DOMAIN b.cids : b.cids[j] = c => k <= j
    BY <1>4, <1>5
  <1>7. QED
    BY <1>6 DEF FirstOf

(* An accepted batch writes valid records only. *)
LEMMA RecordIsValid ==
  ASSUME NEW b \in Batch, NEW by \in Anchorers, Accepted(b), NEW c \in Named(b)
  PROVE  RecordOf(b, c, by) \in Records
  <1> DEFINE i == FirstOf(b, c)
  <1>1. i \in DOMAIN b.cids
    BY FirstOfIsIndex
  <1> HIDE DEF i
  <1>2. b.hashes[i] \in Hashes \ {ZeroHash}
    BY <1>1 DEF Batch, Accepted, ArityMatches, EntriesValid
  <1>3. b.stamps[i] \in Stamps \ {0}
    BY <1>1 DEF Batch, Accepted, ArityMatches, EntriesValid
  <1>4. QED
    BY <1>2, <1>3 DEF RecordOf, Records, i

-----------------------------------------------------------------------------
RegistryInv == TypeOK /\ EntriesNeedAccount

LEMMA InsertedType ==
  ASSUME TypeOK, NEW b \in Batch, NEW by \in Anchorers, Accepted(b)
  PROVE  Inserted(b, by) \in [Cids -> Records \cup {NoRecord}]
  <1>1. \A c \in Cids : c \in Named(b) => RecordOf(b, c, by) \in Records
    BY RecordIsValid
  <1> HIDE DEF RecordOf
  <1>2. QED
    BY <1>1 DEF Inserted, TypeOK

LEMMA RegistryStep == RegistryInv /\ [Next]_registryVars => RegistryInv'
  <1> SUFFICES ASSUME RegistryInv, [Next]_registryVars PROVE RegistryInv'
    OBVIOUS
  <1>1. CASE InitRegistry
    BY <1>1 DEF InitRegistry, RegistryInv, TypeOK, EntriesNeedAccount, AnchoredCids
  <1>2. ASSUME NEW b \in Batches, NEW by \in Anchorers, IndexBatch(b, by)
        PROVE  RegistryInv'
    BY <1>2, InsertedType DEF IndexBatch, RegistryInv, TypeOK, EntriesNeedAccount
  <1>3. CASE UNCHANGED registryVars
    BY <1>3 DEF registryVars, RegistryInv, TypeOK, EntriesNeedAccount, AnchoredCids
  <1>4. QED
    BY <1>1, <1>2, <1>3 DEF Next

LEMMA RegistryInvariant == Spec => []RegistryInv
  <1>1. Init => RegistryInv
    BY DEF Init, RegistryInv, TypeOK, EntriesNeedAccount, AnchoredCids
  <1>2. QED
    BY <1>1, RegistryStep, PTL DEF Spec

(***************************************************************************)
(* Every record on chain has a hash that is not zero, a timestamp that is  *)
(* not zero and a signer.                                                  *)
(***************************************************************************)
THEOREM TypeCorrect == Spec => []TypeOK
  <1>1. RegistryInv => TypeOK
    BY DEF RegistryInv
  <1>2. QED
    BY <1>1, RegistryInvariant, PTL

-----------------------------------------------------------------------------
(* An accepted batch anchors what it names that has no record, and only that. *)
LEMMA BatchAnchors ==
  ASSUME TypeOK, NEW b \in Batch, NEW by \in Anchorers, IndexBatch(b, by)
  PROVE  Log!Next \/ entries' = entries
  <1> DEFINE new == {c \in Cids : entries[c] = NoRecord /\ c \in Named(b)}
  <1>1. Accepted(b) /\ entries' = Inserted(b, by)
    BY DEF IndexBatch
  <1>2. \A c \in new : RecordOf(b, c, by) \in Records
    BY <1>1, RecordIsValid
  <1>3. entries' \in [Cids -> Records \cup {NoRecord}]
    BY <1>1, InsertedType
  <1>4. /\ \A c \in new : entries'[c] # NoRecord
        /\ \A c \in Cids \ new : entries'[c] = entries[c]
    BY <1>1, <1>2 DEF Inserted
  <1>5. CASE new = {}
    BY <1>3, <1>4, <1>5 DEF TypeOK
  <1>6. CASE new # {}
    <2>1. Log!Anchor(new)
      BY <1>3, <1>4, <1>6 DEF Log!Anchor
    <2>2. QED
      BY <2>1 DEF Log!Next
  <1>7. QED
    BY <1>5, <1>6

(* First write wins: the registry implements a permanent log of CIDs. *)
THEOREM RegistryIsLog == Spec => IsLog
  <1>1. Init => Log!Init
    BY DEF Init, Log!Init
  <1>2. RegistryInv /\ [Next]_registryVars => [Log!Next]_entries
    <2> SUFFICES ASSUME RegistryInv, [Next]_registryVars
                 PROVE  Log!Next \/ entries' = entries
      OBVIOUS
    <2>1. CASE InitRegistry
      BY <2>1 DEF InitRegistry, RegistryInv, TypeOK, EntriesNeedAccount, AnchoredCids
    <2>2. ASSUME NEW b \in Batches, NEW by \in Anchorers, IndexBatch(b, by)
          PROVE  Log!Next \/ entries' = entries
      BY <2>2, BatchAnchors DEF RegistryInv
    <2>3. CASE UNCHANGED registryVars
      BY <2>3 DEF registryVars
    <2>4. QED
      BY <2>1, <2>2, <2>3 DEF Next
  <1>3. QED
    BY <1>1, <1>2, RegistryInvariant, PTL DEF Spec, Log!Spec, IsLog

-----------------------------------------------------------------------------
(* A batch names no more CIDs than it has rows. *)
LEMMA NamedBound ==
  ASSUME NEW b \in Batch, Accepted(b)
  PROVE  /\ Named(b) \subseteq Cids
         /\ IsFiniteSet(Named(b))
         /\ Cardinality(Named(b)) <= MaxBatch
  <1>1. PICK n \in Nat : Len(b.cids) = n /\ n <= MaxBatch
    BY DEF Batch, Accepted, SizeFits
  <1>2. Named(b) \subseteq Cids
    BY DEF Accepted, EntriesValid, Named, Batch, Pieces
  <1>3. IsFiniteSet(Named(b))
    BY <1>2, FS_Subset
  <1> DEFINE row == [i \in 1 .. n |-> b.cids[i]]
  <1>4. DOMAIN b.cids = 1 .. n
    BY <1>1 DEF Batch
  <1>5. row \in Surjection(1 .. n, Named(b))
    BY <1>4 DEF Surjection, Named
  <1>6. Cardinality(Named(b)) <= n
    BY <1>5, FS_SurjCardinalityBound DEF ExistsSurjection
  <1>7. PICK k \in Nat : k = Cardinality(Named(b))
    BY <1>3, FS_CardinalityType
  <1>8. QED
    BY <1>1, <1>2, <1>3, <1>6, <1>7

(***************************************************************************)
(* One transaction adds at most MAX_BATCH records, all of one signer.  It  *)
(* takes EntriesNeedAccount: a second opening would not add, but remove.   *)
(***************************************************************************)
THEOREM RegistryGrowsByBatches == Spec => BatchesAreBounded
  <1> DEFINE new == {c \in Cids : entries'[c] # entries[c]}
  <1>1. ASSUME RegistryInv, InitRegistry PROVE OneBatch
    <2>1. \A c \in Cids : entries[c] = NoRecord /\ entries'[c] = NoRecord
      BY <1>1 DEF InitRegistry, RegistryInv, EntriesNeedAccount, AnchoredCids
    <2>2. new = {}
      BY <2>1
    <2>3. QED
      BY <2>2, FS_EmptySet DEF OneBatch
  <1>2. ASSUME RegistryInv, NEW b \in Batches, NEW by \in Anchorers, IndexBatch(b, by)
        PROVE  OneBatch
    <2>1. Accepted(b) /\ entries' = Inserted(b, by)
      BY <1>2 DEF IndexBatch
    <2>2. new \subseteq Named(b)
      BY <2>1 DEF Inserted
    <2>3. Cardinality(new) <= MaxBatch
      <3>1. /\ IsFiniteSet(Named(b)) /\ Cardinality(Named(b)) <= MaxBatch
        BY <2>1, NamedBound
      <3>2. IsFiniteSet(new) /\ Cardinality(new) <= Cardinality(Named(b))
        BY <2>2, <3>1, FS_Subset
      <3>3. PICK j \in Nat, k \in Nat : j = Cardinality(new) /\ k = Cardinality(Named(b))
        BY <3>1, <3>2, FS_CardinalityType
      <3>4. QED
        BY <3>1, <3>2, <3>3
    <2>4. ASSUME NEW c \in new PROVE entries'[c].anchored_by = by
      <3>1. entries'[c] = RecordOf(b, c, by)
        BY <2>1 DEF Inserted
      <3>2. QED
        BY <3>1 DEF RecordOf
    <2>5. QED
      BY <2>3, <2>4 DEF OneBatch
  <1>3. RegistryInv /\ [Next]_registryVars => [OneBatch]_entries
    BY <1>1, <1>2 DEF Next, registryVars
  <1>4. QED
    BY <1>3, RegistryInvariant, PTL DEF Spec, BatchesAreBounded
=============================================================================
