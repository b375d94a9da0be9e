------------------------- MODULE BatchAnchorProofs -------------------------
(* Theorems about BatchAnchor, for any number of watchers, CIDs, envelopes, *)
(* limits and clock widths.                                                 *)
EXTENDS BatchAnchor, FiniteSetTheorems, SequenceTheorems, WellFoundedInduction, TLAPS

USE BatchAnchorAssumption, EnvelopesAssumption, AbsentAssumption

-----------------------------------------------------------------------------
(* What the guest is given for a batch, and what it writes if it accepts it. *)

LEMMA CommasAreFew ==
  ASSUME NEW s \in Seq(Envelopes)
  PROVE  /\ Cardinality(CommasIn(s)) \in Nat
         /\ Cardinality(CommasIn(s)) = 0 => CommasIn(s) = {}
  <1>1. IsFiniteSet(1 .. Len(s))
    BY FS_Interval
  <1>2. CommasIn(s) \subseteq 1 .. Len(s)
    BY DEF CommasIn
  <1>3. IsFiniteSet(CommasIn(s))
    BY <1>1, <1>2, FS_Subset
  <1>4. QED
    BY <1>3, FS_CardinalityType, FS_EmptySet

LEMMA ArgsType ==
  ASSUME NEW s \in Seq(Envelopes)
  PROVE  /\ Args(s) \in Submissions
         /\ Len(Args(s).cids) = Len(s) + Cardinality(CommasIn(s))
         /\ Len(Args(s).hashes) = Len(s)
         /\ Len(Args(s).stamps) = Len(s)
  <1> DEFINE n == Len(s) + Cardinality(CommasIn(s))
             cids == [i \in 1 .. n |-> IF i <= Len(s) /\ i \notin CommasIn(s)
                                       THEN s[i].cid ELSE EmptyCid]
             hashes == [i \in 1 .. Len(s) |-> s[i].hash]
             stamps == [i \in 1 .. Len(s) |-> s[i].ts % Modulus]
  <1>1. n \in Nat
    BY CommasAreFew
  <1>2. \A i \in 1 .. Len(s) : s[i] \in Entry
    OBVIOUS
  <1> HIDE DEF n
  <1>3. \A i \in 1 .. n : cids[i] \in Cids \cup {EmptyCid}
    BY <1>1, <1>2 DEF CommasIn, Entry
  <1>4. cids \in Seq(Cids \cup {EmptyCid}) /\ Len(cids) = n
    BY <1>1, <1>3
  <1>5. hashes \in Seq(Hashes) /\ Len(hashes) = Len(s)
    BY <1>2 DEF Entry
  <1>6. stamps \in Seq(0 .. Modulus - 1) /\ Len(stamps) = Len(s)
    BY <1>2 DEF Entry
  <1> HIDE DEF cids, hashes, stamps
  <1>7. Args(s) = [cids |-> cids, hashes |-> hashes, stamps |-> stamps]
    BY DEF Args, cids, hashes, stamps, n
  <1>8. QED
    BY <1>4, <1>5, <1>6, <1>7 DEF Submissions, n

(* The first row of a batch that names c. *)
LEMMA FirstOfIsIndex ==
  ASSUME NEW b \in Submissions, NEW c \in Chain!Named(b)
  PROVE  /\ Chain!FirstOf(b, c) \in DOMAIN b.cids
         /\ b.cids[Chain!FirstOf(b, c)] = c
  <1> DEFINE At == {i \in DOMAIN b.cids : b.cids[i] = c}
             Less == OpToRel(<, Nat)
  <1>1. At \subseteq Nat /\ At # {}
    BY DEF Submissions, Chain!Named
  <1>2. \A i, j \in Nat : j < i => <<j, i>> \in Less
    BY Zenon DEF Less, OpToRel
  <1>3. IsWellFoundedOn(Less, Nat)
    BY Zenon, NatLessThanWellFounded DEF Less
  <1> HIDE DEF Less
  <1>4. PICK i \in At : \A j \in At : ~ (<<j, i>> \in Less)
    BY <1>1, <1>3, WFMin
  <1>5. \A j \in At : i <= j
    <2> HIDE DEF At
    <2>1. \A j \in At : i \in Nat /\ j \in Nat /\ ~ (j < i)
      BY Zenon, <1>1, <1>2, <1>4
    <2>2. QED
      BY <2>1
  <1>6. QED
    BY <1>4, <1>5 DEF Chain!FirstOf

(* The record an entry of a batch asks for. *)
RecordFor(e, w) ==
  [metadata_hash |-> e.hash, anchor_timestamp |-> e.ts % Modulus, anchored_by |-> w]

(* Only a batch without commas is accepted, and row by row as it was written. *)
LEMMA AcceptedArgs ==
  ASSUME NEW s \in Seq(Envelopes), NEW w \in Watchers, Chain!Accepted(Args(s))
  PROVE  /\ Chain!Named(Args(s)) = CidsOf(s)
         /\ \A c \in CidsOf(s) : /\ c \in Cids
                                 /\ Chain!RecordOf(Args(s), c, w) \in Chain!Records
                                 /\ \E i \in DOMAIN s :
                                      /\ s[i].cid = c
                                      /\ Chain!RecordOf(Args(s), c, w) = RecordFor(s[i], w)
  <1>1. CommasIn(s) = {} /\ Cardinality(CommasIn(s)) = 0
    <2>1. Len(Args(s).hashes) = Len(Args(s).cids)
      BY DEF Chain!Accepted, Chain!ArityMatches
    <2>2. QED
      BY <2>1, ArgsType, CommasAreFew
  <1>2. /\ Args(s).cids = [i \in 1 .. Len(s) |-> s[i].cid]
        /\ Args(s).hashes = [i \in 1 .. Len(s) |-> s[i].hash]
        /\ Args(s).stamps = [i \in 1 .. Len(s) |-> s[i].ts % Modulus]
    BY <1>1 DEF Args
  <1>3. Chain!Named(Args(s)) = CidsOf(s)
    BY <1>2 DEF Chain!Named, CidsOf
  <1>4. ASSUME NEW c \in CidsOf(s)
        PROVE  /\ c \in Cids
               /\ Chain!RecordOf(Args(s), c, w) \in Chain!Records
               /\ \E i \in DOMAIN s : /\ s[i].cid = c
                                      /\ Chain!RecordOf(Args(s), c, w) = RecordFor(s[i], w)
    <2> DEFINE i == Chain!FirstOf(Args(s), c)
    <2>1. i \in 1 .. Len(s) /\ s[i].cid = c
      BY <1>2, <1>3, ArgsType, FirstOfIsIndex
    <2> HIDE DEF i
    <2>2. s[i] \in Entry /\ i \notin CommasIn(s)
      BY <1>1, <2>1
    <2>3. c \in Cids
      BY <2>1, <2>2 DEF CommasIn, Entry
    <2>4. s[i].hash # ZeroHash /\ s[i].ts % Modulus # 0
      BY <1>2, <2>1 DEF Chain!Accepted, Chain!EntriesValid
    <2>5. Chain!RecordOf(Args(s), c, w) = RecordFor(s[i], w)
      BY <1>2, <2>1 DEF Chain!RecordOf, RecordFor, i
    <2>6. s[i].ts % Modulus \in 0 .. Modulus - 1
      BY <2>2 DEF Entry
    <2>7. RecordFor(s[i], w) \in Chain!Records
      BY <2>2, <2>4, <2>6 DEF RecordFor, Chain!Records, Entry
    <2>8. QED
      BY <2>1, <2>3, <2>5, <2>7
  <1>5. QED
    BY <1>3, <1>4

-----------------------------------------------------------------------------
(* What a step of the chain does to the registry. *)

LandsAs(t) ==
  /\ Chain!AnchoredCids' = Chain!AnchoredCids \cup CidsOf(t.batch)
  /\ \A c \in Chain!AnchoredCids : entries'[c] = entries[c]
  /\ \A c \in CidsOf(t.batch) \ Chain!AnchoredCids :
       \E i \in DOMAIN t.batch : /\ t.batch[i].cid = c
                                 /\ entries'[c] = RecordFor(t.batch[i], t.by)

LEMMA LandStep ==
  ASSUME Chain!TypeOK, NEW t \in Tx, Chain!IndexBatch(Args(t.batch), t.by)
  PROVE  Chain!TypeOK' /\ Chain!EntriesNeedAccount' /\ LandsAs(t)
  <1> DEFINE s == t.batch
             w == t.by
  <1>1. s \in Seq(Envelopes) /\ w \in Watchers
    BY DEF Tx
  <1>2. /\ Chain!Accepted(Args(s))
        /\ entries' = Chain!Inserted(Args(s), w)
        /\ opened' = TRUE
    BY DEF Chain!IndexBatch
  <1> HIDE DEF s, w
  <1>3. /\ Chain!Named(Args(s)) = CidsOf(s)
        /\ \A c \in CidsOf(s) : /\ c \in Cids
                                /\ Chain!RecordOf(Args(s), c, w) \in Chain!Records
                                /\ \E i \in DOMAIN s :
                                     /\ s[i].cid = c
                                     /\ Chain!RecordOf(Args(s), c, w) = RecordFor(s[i], w)
    BY <1>1, <1>2, AcceptedArgs
  <1>4. entries' = [c \in Cids |-> IF entries[c] = NoRecord /\ c \in CidsOf(s)
                                   THEN Chain!RecordOf(Args(s), c, w) ELSE entries[c]]
    BY <1>2, <1>3 DEF Chain!Inserted
  <1>5. entries' \in [Cids -> Chain!Records \cup {NoRecord}]
    BY <1>3, <1>4 DEF Chain!TypeOK
  <1>6. Chain!AnchoredCids' = Chain!AnchoredCids \cup CidsOf(s)
    BY <1>3, <1>4 DEF Chain!AnchoredCids
  <1>7. \A c \in Chain!AnchoredCids : entries'[c] = entries[c]
    BY <1>4 DEF Chain!AnchoredCids
  <1>8. \A c \in CidsOf(s) \ Chain!AnchoredCids :
          entries'[c] = Chain!RecordOf(Args(s), c, w)
    BY <1>3, <1>4 DEF Chain!AnchoredCids
  <1>9. QED
    BY <1>2, <1>3, <1>5, <1>6, <1>7, <1>8
    DEF Chain!TypeOK, Chain!EntriesNeedAccount, LandsAs, s, w

LEMMA OpenStep ==
  ASSUME Chain!TypeOK, Chain!EntriesNeedAccount, Chain!InitRegistry
  PROVE  Chain!TypeOK' /\ Chain!EntriesNeedAccount' /\ entries' = entries
  BY DEF Chain!TypeOK, Chain!EntriesNeedAccount, Chain!InitRegistry, Chain!AnchoredCids

-----------------------------------------------------------------------------
(* Types. *)

LEMMA InitType == Init => TypeOK /\ Chain!EntriesNeedAccount
  <1> SUFFICES ASSUME Init PROVE TypeOK /\ Chain!EntriesNeedAccount
    OBVIOUS
  <1>1. Chain!TypeOK /\ Chain!EntriesNeedAccount
    BY DEF Init, Chain!Init, Chain!TypeOK, Chain!EntriesNeedAccount, Chain!AnchoredCids
  <1>2. pool \subseteq Tx /\ landed \in [Watchers -> BOOLEAN]
    BY DEF Init
  <1>3. <<>> \in Seq(Envelopes)
    OBVIOUS
  <1>4. /\ store \in Seq(Envelopes)
        /\ queue \in [Watchers -> Seq(Envelopes)]
        /\ inbox \in [Watchers -> Seq(Envelopes)]
        /\ buffer \in [Watchers -> Seq(Envelopes)]
        /\ batch \in [Watchers -> Seq(Envelopes)]
    BY <1>3 DEF Init
  <1>5. /\ subscribed \in [Watchers -> BOOLEAN]
        /\ aged \in [Watchers -> BOOLEAN]
        /\ known \in [Watchers -> SUBSET (Cids \cup Commas)]
        /\ \A w \in Watchers : aged[w] => buffer[w] # <<>>
    BY DEF Init
  <1>6. pc \in [Watchers -> PCs]
    BY DEF Init, PCs
  <1>7. QED
    BY <1>1, <1>2, <1>4, <1>5, <1>6 DEF TypeOK

(* The transactions of a step are well-formed. *)
LEMMA PoolType ==
  ASSUME TypeOK, NEW w \in Watchers
  PROVE  Retired(w) \subseteq Tx /\ Sent(w) \subseteq Tx
  <1>1. Current(w) \in Tx
    BY DEF Current, Tx, TypeOK
  <1>2. [Current(w) EXCEPT !.late = TRUE] \in Tx
    BY <1>1 DEF Current, Tx
  <1>3. [by |-> w, batch |-> buffer[w], late |-> FALSE] \in Tx
    BY DEF Tx, TypeOK
  <1>4. QED
    BY <1>2, <1>3 DEF Retired, Sent, TypeOK

LEMMA EnvironmentType ==
  ASSUME TypeOK, Chain!EntriesNeedAccount,
         \/ \E e \in Envelopes : Broadcast(e)
         \/ \E w \in Watchers : NodeRestart(w)
         \/ OpenRegistry
         \/ \E t \in pool : Land(t)
         \/ \E t \in pool : Drop(t)
  PROVE  TypeOK' /\ Chain!EntriesNeedAccount'
  <1> USE DEF chainVars, txVars, netVars, bufferVars
  <1>1. UNCHANGED chainVars => (Chain!TypeOK' /\ Chain!EntriesNeedAccount')
    BY DEF TypeOK, Chain!TypeOK, Chain!EntriesNeedAccount, Chain!AnchoredCids
  <1>2. ASSUME NEW e \in Envelopes, Broadcast(e)
        PROVE  TypeOK' /\ Chain!EntriesNeedAccount'
    <2>1. store' \in Seq(Envelopes)
      BY <1>2 DEF Broadcast, TypeOK
    <2>2. \A w \in Watchers : Append(queue[w], e) \in Seq(Envelopes)
      BY DEF TypeOK
    <2>3. queue' \in [Watchers -> Seq(Envelopes)]
      BY <1>2, <2>2 DEF Broadcast, TypeOK
    <2>4. QED
      BY <1>1, <1>2, <2>1, <2>3 DEF Broadcast, TypeOK
  <1>3. ASSUME NEW w \in Watchers, NodeRestart(w)
        PROVE  TypeOK' /\ Chain!EntriesNeedAccount'
    BY <1>1, <1>3 DEF NodeRestart, TypeOK
  <1>4. CASE OpenRegistry
    BY <1>4, OpenStep DEF OpenRegistry, TypeOK
  <1>5. ASSUME NEW t \in pool, Land(t)
        PROVE  TypeOK' /\ Chain!EntriesNeedAccount'
    <2>1. Chain!TypeOK' /\ Chain!EntriesNeedAccount'
      BY <1>5, LandStep DEF Land, TypeOK
    <2>2. landed' \in [Watchers -> BOOLEAN]
      BY <1>5 DEF Land, TypeOK
    <2>3. QED
      BY <1>5, <2>1, <2>2 DEF Land, TypeOK
  <1>6. ASSUME NEW t \in pool, Drop(t)
        PROVE  TypeOK' /\ Chain!EntriesNeedAccount'
    BY <1>1, <1>6 DEF Drop, TypeOK
  <1>7. QED
    BY <1>2, <1>3, <1>4, <1>5, <1>6

LEMMA WatchType ==
  ASSUME TypeOK, Chain!EntriesNeedAccount, NEW w \in Watchers, Watch(w)
  PROVE  TypeOK' /\ Chain!EntriesNeedAccount'
  <1> USE DEF chainVars, txVars, netVars, bufferVars, PCs
  <1>1. Chain!TypeOK' /\ Chain!EntriesNeedAccount'
    <2>1. UNCHANGED chainVars
      BY DEF Watch, Start, CatchUp, Subscribe, Crash, PollDrain, PollLost, Push, Age,
             KeepBuffering, Flush, Confirm, SubmitFails
    <2>2. QED
      BY <2>1 DEF TypeOK, Chain!TypeOK, Chain!EntriesNeedAccount, Chain!AnchoredCids
  <1>2. CASE Start(w)
    BY <1>1, <1>2 DEF Start, TypeOK, Chain!AnchoredCids
  <1>3. CASE CatchUp(w)
    <2>1. PICK from \in 1 .. Len(store) + 1 :
            inbox' = [inbox EXCEPT ![w] = SubSeq(store, from, Len(store))]
      BY <1>3 DEF CatchUp
    <2>2. SubSeq(store, from, Len(store)) \in Seq(Envelopes)
      BY SubSeqProperties DEF TypeOK
    <2>3. inbox' \in [Watchers -> Seq(Envelopes)]
      BY <2>1, <2>2 DEF TypeOK
    <2>4. QED
      BY <1>1, <1>3, <2>3 DEF CatchUp, TypeOK
  <1>4. CASE Subscribe(w)
    BY <1>1, <1>4 DEF Subscribe, TypeOK
  <1>5. CASE Crash(w)
    BY <1>1, <1>5, PoolType DEF Crash, TypeOK
  <1>6. CASE PollDrain(w)
    BY <1>1, <1>6 DEF PollDrain, TypeOK
  <1>7. CASE PollLost(w)
    BY <1>1, <1>7 DEF PollLost, TypeOK
  <1>8. CASE Push(w)
    <2>1. /\ Head(inbox[w]) \in Envelopes
          /\ Tail(inbox[w]) \in Seq(Envelopes)
      BY <1>8 DEF Push, TypeOK
    <2>2. /\ Append(buffer[w], Head(inbox[w])) \in Seq(Envelopes)
          /\ Append(buffer[w], Head(inbox[w])) # <<>>
      <3>1. buffer[w] \in Seq(Envelopes)
        BY DEF TypeOK
      <3>2. \A s \in Seq(Envelopes), e \in Envelopes :
              Append(s, e) \in Seq(Envelopes) /\ Len(Append(s, e)) # 0
        OBVIOUS
      <3>3. Len(<<>>) = 0
        OBVIOUS
      <3>4. QED
        BY <2>1, <3>1, <3>2, <3>3
    <2>3. /\ buffer' \in [Watchers -> Seq(Envelopes)]
          /\ inbox' \in [Watchers -> Seq(Envelopes)]
      BY <1>8, <2>1, <2>2 DEF Push, TypeOK
    <2>4. \A v \in Watchers : buffer[v] # <<>> => buffer'[v] # <<>>
      BY <1>8, <2>2 DEF Push, TypeOK
    <2>5. QED
      BY <1>1, <1>8, <2>3, <2>4 DEF Push, TypeOK
  <1>9. CASE Age(w)
    BY <1>1, <1>9 DEF Age, TypeOK
  <1>10. CASE KeepBuffering(w)
    BY <1>1, <1>10 DEF KeepBuffering, TypeOK
  <1>11. CASE Flush(w)
    BY <1>1, <1>11, PoolType DEF Flush, AgedReset, TypeOK
  <1>12. CASE Confirm(w)
    <2>1. CidsOf(batch[w]) \subseteq Cids \cup Commas
      BY DEF CidsOf, TypeOK, Entry
    <2>2. QED
      BY <1>1, <1>12, <2>1 DEF Confirm, TypeOK
  <1>13. CASE SubmitFails(w)
    <2>1. /\ Returned(w) \in Seq(Envelopes)
          /\ buffer[w] # <<>> => Returned(w) # <<>>
      BY DEF Returned, TypeOK
    <2>2. QED
      BY <1>1, <1>13, <2>1, PoolType DEF SubmitFails, TypeOK
  <1>14. QED
    BY <1>2, <1>3, <1>4, <1>5, <1>6, <1>7, <1>8, <1>9, <1>10, <1>11, <1>12, <1>13
    DEF Watch

LEMMA StutterType ==
  ASSUME TypeOK, Chain!EntriesNeedAccount, UNCHANGED vars
  PROVE  TypeOK' /\ Chain!EntriesNeedAccount'
  BY DEF vars, chainVars, txVars, netVars, bufferVars, TypeOK, Chain!TypeOK,
         Chain!EntriesNeedAccount, Chain!AnchoredCids

TypeInv == TypeOK /\ Chain!EntriesNeedAccount

LEMMA TypeInvariant == Spec => []TypeInv
  <1>1. Init => TypeInv
    BY InitType DEF TypeInv
  <1>2. TypeInv /\ [Next]_vars => TypeInv'
    BY EnvironmentType, WatchType, StutterType DEF TypeInv, Next
  <1>3. QED
    BY <1>1, <1>2, PTL DEF Spec

(***************************************************************************)
(* Watchers, their nodes and the chain hold what run() lets them hold, and *)
(* the flush timer runs only for a buffer that has an entry.               *)
(***************************************************************************)
THEOREM TypeCorrect == Spec => []TypeOK
  <1>1. TypeInv => TypeOK
    BY DEF TypeInv
  <1>2. QED
    BY <1>1, TypeInvariant, PTL

-----------------------------------------------------------------------------
(* What a watcher takes for anchored is anchored. *)

(* A watcher that waits has one transaction out at most, and a result only *)
(* for that one; a watcher that does not wait has neither.                 *)
OwnTx ==
  /\ \A w \in Watchers : pc[w] # "submitting" => ~ landed[w]
  /\ \A t \in pool : ~ t.late => /\ pc[t.by] = "submitting"
                                 /\ t.batch = batch[t.by]
                                 /\ ~ landed[t.by]

LandedIsAnchored ==
  \A w \in Watchers : landed[w] => CidsOf(batch[w]) \subseteq Chain!AnchoredCids

KnownInv == OwnTx /\ LandedIsAnchored /\ KnownOnChain

LEMMA RetiredTx ==
  ASSUME TypeOK, OwnTx, NEW w \in Watchers, NEW t \in Retired(w), ~ t.late
  PROVE  t \in pool /\ t.by # w
  <1>1. t \in pool
    BY DEF Retired, Current
  <1>2. t \in Tx /\ t.batch = batch[t.by]
    BY <1>1 DEF OwnTx, TypeOK
  <1>3. t.by = w => t = Current(w)
    BY <1>2 DEF Tx, Current
  <1>4. t # Current(w)
    BY <1>1 DEF Retired, Current
  <1>5. QED
    BY <1>1, <1>3, <1>4

LEMMA SentTx ==
  ASSUME NEW w \in Watchers, NEW t \in Sent(w), t \notin pool
  PROVE  t.by = w /\ t.batch = buffer[w]
  BY DEF Sent

LEMMA EnvironmentKnown ==
  ASSUME TypeInv, KnownInv,
         \/ \E e \in Envelopes : Broadcast(e)
         \/ \E w \in Watchers : NodeRestart(w)
         \/ OpenRegistry
         \/ \E t \in pool : Land(t)
         \/ \E t \in pool : Drop(t)
  PROVE  KnownInv'
  <1> USE DEF chainVars, txVars, netVars, bufferVars
  <1>1. CASE \E e \in Envelopes : Broadcast(e)
    BY <1>1 DEF Broadcast, KnownInv, OwnTx, LandedIsAnchored, KnownOnChain,
                Chain!AnchoredCids, CidsOf
  <1>2. CASE \E w \in Watchers : NodeRestart(w)
    BY <1>2 DEF NodeRestart, KnownInv, OwnTx, LandedIsAnchored, KnownOnChain,
                Chain!AnchoredCids, CidsOf
  <1>3. CASE OpenRegistry
    <2>1. entries' = entries
      BY <1>3, OpenStep DEF OpenRegistry, TypeInv, TypeOK
    <2>2. QED
      BY <1>3, <2>1 DEF OpenRegistry, KnownInv, OwnTx, LandedIsAnchored, KnownOnChain,
                        Chain!AnchoredCids, CidsOf
  <1>4. ASSUME NEW t \in pool, Land(t) PROVE KnownInv'
    <2>1. t \in Tx
      BY DEF TypeInv, TypeOK
    <2>2. /\ Chain!AnchoredCids' = Chain!AnchoredCids \cup CidsOf(t.batch)
          /\ UNCHANGED <<netVars, pc, bufferVars>>
          /\ pool' = pool \ {t}
          /\ landed' = [landed EXCEPT ![t.by] = @ \/ ~ t.late]
      BY <1>4, <2>1, LandStep DEF Land, TypeInv, TypeOK, LandsAs
    <2>3. OwnTx'
      <3>1. ASSUME NEW u \in pool', ~ u.late PROVE u.by = t.by => t.late
        <4>1. u \in Tx /\ u # t
          BY <2>2 DEF TypeInv, TypeOK
        <4>2. u.batch = batch[u.by]
          BY <2>2, <3>1 DEF KnownInv, OwnTx
        <4>3. ~ t.late => t.batch = batch[t.by]
          BY DEF KnownInv, OwnTx
        <4>4. QED
          BY <2>1, <3>1, <4>1, <4>2, <4>3 DEF Tx
      <3>2. \A u \in pool' : ~ u.late => ~ landed'[u.by]
        BY <2>2, <3>1 DEF KnownInv, OwnTx, TypeInv, TypeOK, Tx
      <3>3. \A w \in Watchers : pc[w] # "submitting" => ~ landed'[w]
        BY <2>2 DEF KnownInv, OwnTx, TypeInv, TypeOK, Tx
      <3>4. QED
        BY <2>2, <3>2, <3>3 DEF KnownInv, OwnTx
    <2>4. LandedIsAnchored'
      <3>1. ASSUME NEW w \in Watchers, landed'[w]
            PROVE  CidsOf(batch[w]) \subseteq Chain!AnchoredCids'
        <4>1. CASE landed[w]
          BY <2>2, <4>1 DEF KnownInv, LandedIsAnchored
        <4>2. CASE ~ landed[w]
          <5>1. w = t.by /\ ~ t.late
            BY <2>1, <2>2, <3>1, <4>2 DEF TypeInv, TypeOK, Tx
          <5>2. t.batch = batch[w]
            BY <5>1 DEF KnownInv, OwnTx
          <5>3. QED
            BY <2>2, <5>2
        <4>3. QED
          BY <4>1, <4>2
      <3>2. batch' = batch
        BY <2>2
      <3>3. QED
        BY <3>1, <3>2 DEF LandedIsAnchored, CidsOf
    <2>5. KnownOnChain'
      BY <2>2 DEF KnownInv, KnownOnChain
    <2>6. QED
      BY <2>3, <2>4, <2>5 DEF KnownInv
  <1>5. CASE \E t \in pool : Drop(t)
    BY <1>5 DEF Drop, KnownInv, OwnTx, LandedIsAnchored, KnownOnChain,
                Chain!AnchoredCids, CidsOf
  <1>6. QED
    BY <1>1, <1>2, <1>3, <1>4, <1>5

LEMMA WatchKnown ==
  ASSUME TypeInv, KnownInv, NEW w \in Watchers, Watch(w)
  PROVE  KnownInv'
  <1> USE DEF chainVars, txVars, netVars, bufferVars, TypeInv
  <1>1. Chain!AnchoredCids' = Chain!AnchoredCids
    BY DEF Watch, Start, CatchUp, Subscribe, Crash, PollDrain, PollLost, Push, Age,
           KeepBuffering, Flush, Confirm, SubmitFails, Chain!AnchoredCids
  <1>2. CASE Start(w)
    BY <1>1, <1>2 DEF Start, KnownInv, OwnTx, LandedIsAnchored, KnownOnChain, CidsOf, TypeOK, PCs
  <1>3. CASE CatchUp(w)
    BY <1>1, <1>3 DEF CatchUp, KnownInv, OwnTx, LandedIsAnchored, KnownOnChain, CidsOf, TypeOK, PCs
  <1>4. CASE Subscribe(w)
    BY <1>1, <1>4 DEF Subscribe, KnownInv, OwnTx, LandedIsAnchored, KnownOnChain, CidsOf, TypeOK, PCs
  <1>5. CASE Crash(w)
    <2>1. OwnTx'
      <3>1. \A t \in Retired(w) : ~ t.late => t \in pool /\ t.by # w
        BY RetiredTx DEF KnownInv
      <3>2. QED
        BY <1>5, <3>1 DEF Crash, KnownInv, OwnTx, TypeOK
    <2>2. QED
      BY <1>1, <1>5, <2>1 DEF Crash, KnownInv, LandedIsAnchored, KnownOnChain, CidsOf, TypeOK
  <1>6. CASE PollDrain(w)
    BY <1>1, <1>6 DEF PollDrain, KnownInv, OwnTx, LandedIsAnchored, KnownOnChain, CidsOf, TypeOK, PCs
  <1>7. CASE PollLost(w)
    BY <1>1, <1>7 DEF PollLost, KnownInv, OwnTx, LandedIsAnchored, KnownOnChain, CidsOf
  <1>8. CASE Push(w)
    BY <1>1, <1>8 DEF Push, KnownInv, OwnTx, LandedIsAnchored, KnownOnChain, CidsOf
  <1>9. CASE Age(w)
    BY <1>1, <1>9 DEF Age, KnownInv, OwnTx, LandedIsAnchored, KnownOnChain, CidsOf
  <1>10. CASE KeepBuffering(w)
    BY <1>1, <1>10 DEF KeepBuffering, KnownInv, OwnTx, LandedIsAnchored, KnownOnChain, CidsOf,
                       TypeOK, PCs
  <1>11. CASE Flush(w)
    <2>1. ~ landed[w] /\ \A t \in pool : t.by = w => t.late
      BY <1>11 DEF Flush, KnownInv, OwnTx
    <2>2. OwnTx'
      <3>1. ASSUME NEW t \in Sent(w), ~ t.late
            PROVE  pc'[t.by] = "submitting" /\ t.batch = batch'[t.by] /\ ~ landed'[t.by]
        <4>1. CASE t \in pool
          BY <1>11, <2>1, <3>1, <4>1 DEF Flush, KnownInv, OwnTx, TypeOK, Tx
        <4>2. CASE t \notin pool
          BY <1>11, <2>1, <4>2, SentTx DEF Flush, TypeOK
        <4>3. QED
          BY <4>1, <4>2
      <3>2. \A v \in Watchers : pc'[v] # "submitting" => ~ landed'[v]
        BY <1>11 DEF Flush, KnownInv, OwnTx, TypeOK
      <3>3. pool' = Sent(w)
        BY <1>11 DEF Flush
      <3>4. QED
        BY <3>1, <3>2, <3>3 DEF OwnTx
    <2>3. LandedIsAnchored'
      BY <1>1, <1>11, <2>1 DEF Flush, KnownInv, LandedIsAnchored, CidsOf, TypeOK
    <2>4. KnownOnChain'
      BY <1>1, <1>11 DEF Flush, KnownInv, KnownOnChain
    <2>5. QED
      BY <2>2, <2>3, <2>4 DEF KnownInv
  <1>12. CASE Confirm(w)
    <2>1. landed[w]
      BY <1>12 DEF Confirm, Confirmed
    <2>2. OwnTx'
      BY <1>12, <2>1 DEF Confirm, KnownInv, OwnTx, TypeOK, Tx
    <2>3. LandedIsAnchored'
      BY <1>1, <1>12 DEF Confirm, KnownInv, LandedIsAnchored, CidsOf, TypeOK
    <2>4. KnownOnChain'
      <3>1. CidsOf(batch[w]) \subseteq Chain!AnchoredCids
        BY <2>1 DEF KnownInv, LandedIsAnchored
      <3>2. QED
        BY <1>1, <1>12, <3>1 DEF Confirm, KnownInv, KnownOnChain, TypeOK
    <2>5. QED
      BY <2>2, <2>3, <2>4 DEF KnownInv
  <1>13. CASE SubmitFails(w)
    <2>1. OwnTx'
      <3>1. \A t \in Retired(w) : ~ t.late => t \in pool /\ t.by # w
        BY RetiredTx DEF KnownInv
      <3>2. QED
        BY <1>13, <3>1 DEF SubmitFails, KnownInv, OwnTx, TypeOK
    <2>2. QED
      BY <1>1, <1>13, <2>1 DEF SubmitFails, KnownInv, LandedIsAnchored, KnownOnChain, CidsOf, TypeOK
  <1>14. QED
    BY <1>2, <1>3, <1>4, <1>5, <1>6, <1>7, <1>8, <1>9, <1>10, <1>11, <1>12, <1>13
    DEF Watch

LEMMA StutterKnown ==
  ASSUME KnownInv, UNCHANGED vars
  PROVE  KnownInv'
  BY DEF vars, chainVars, txVars, netVars, bufferVars, KnownInv, OwnTx, LandedIsAnchored,
         KnownOnChain, CidsOf, Chain!AnchoredCids

(***************************************************************************)
(* A CID that a watcher will never send again is on chain, whatever became *)
(* of the transactions it sent before and after a crash: late ones cannot  *)
(* be taken for the one it waits for.                                      *)
(***************************************************************************)
THEOREM KnownIsAnchored == Spec => []KnownOnChain
  <1>1. Init => KnownInv
    BY DEF Init, KnownInv, OwnTx, LandedIsAnchored, KnownOnChain
  <1>2. TypeInv /\ KnownInv /\ [Next]_vars => KnownInv'
    BY EnvironmentKnown, WatchKnown, StutterKnown DEF Next
  <1>3. KnownInv => KnownOnChain
    BY DEF KnownInv
  <1>4. QED
    BY <1>1, <1>2, <1>3, TypeInvariant, PTL DEF Spec

-----------------------------------------------------------------------------
(* What a watcher holds is new, and held once. *)

(* Entries are in the buffer or on their way, never in both at once: the one *)
(* task of a watcher does not push while it awaits index_batch.              *)
OneHolder ==
  \A w \in Watchers :
    /\ pc[w] # "submitting" => batch[w] = <<>>
    /\ pc[w] \in {"submitting", "down"} => buffer[w] = <<>>
    /\ pc[w] \notin {"replaying", "pushing"} => inbox[w] = <<>>

NewTo(w, s) == Distinct(s) /\ known[w] \cap CidsOf(s) = {}
HeldIsNew == \A w \in Watchers : NewTo(w, buffer[w]) /\ NewTo(w, batch[w])

PendingInv == OneHolder /\ HeldIsNew

LEMMA NothingIsNew == \A w : Distinct(<<>>) /\ CidsOf(<<>>) = {} /\ NewTo(w, <<>>)
  BY DEF Distinct, CidsOf, NewTo

LEMMA PendingIsConcat ==
  ASSUME TypeOK, PendingInv
  PROVE  PendingIsNew
  <1>1. \A s \in Seq(Envelopes) : s \o <<>> = s /\ <<>> \o s = s
    BY ConcatEmptySeq
  <1>2. ASSUME NEW w \in Watchers
        PROVE  NewTo(w, batch[w] \o buffer[w])
    <2>1. batch[w] \in Seq(Envelopes) /\ buffer[w] \in Seq(Envelopes)
      BY DEF TypeOK
    <2>2. batch[w] = <<>> \/ buffer[w] = <<>>
      BY DEF PendingInv, OneHolder
    <2>3. NewTo(w, batch[w]) /\ NewTo(w, buffer[w])
      BY DEF PendingInv, HeldIsNew
    <2>4. QED
      BY <1>1, <2>1, <2>2, <2>3
  <1>3. QED
    BY <1>2 DEF PendingIsNew, DistinctPending, PendingUnknown, NewTo

LEMMA FreshIsNew ==
  ASSUME NEW w \in Watchers, NEW s \in Seq(Envelopes), NEW e \in Envelopes,
         NewTo(w, s), e.cid \notin known[w], e.cid \notin CidsOf(s)
  PROVE  NewTo(w, Append(s, e))
  <1>1. /\ DOMAIN Append(s, e) = 1 .. Len(s) + 1
        /\ \A i \in 1 .. Len(s) : Append(s, e)[i] = s[i]
        /\ Append(s, e)[Len(s) + 1] = e
    OBVIOUS
  <1>2. DOMAIN s = 1 .. Len(s) /\ Len(s) \in Nat
    OBVIOUS
  <1>3. \A i \in DOMAIN Append(s, e) : i \in DOMAIN s \/ i = Len(s) + 1
    BY <1>1, <1>2
  <1>4. Distinct(Append(s, e))
    BY <1>1, <1>2, <1>3 DEF Distinct, CidsOf, NewTo
  <1>5. CidsOf(Append(s, e)) = CidsOf(s) \cup {e.cid}
    BY <1>1, <1>2, <1>3 DEF CidsOf
  <1>6. QED
    BY <1>4, <1>5 DEF NewTo

(* A step that touches neither what watchers hold nor what they know. *)
LEMMA PendingFrame ==
  ASSUME PendingInv, UNCHANGED <<known, buffer, batch>>, OneHolder'
  PROVE  PendingInv'
  BY DEF PendingInv, HeldIsNew, NewTo, Distinct, CidsOf

LEMMA EnvironmentPending ==
  ASSUME PendingInv,
         \/ \E e \in Envelopes : Broadcast(e)
         \/ \E w \in Watchers : NodeRestart(w)
         \/ OpenRegistry
         \/ \E t \in pool : Land(t)
         \/ \E t \in pool : Drop(t)
  PROVE  PendingInv'
  <1>1. UNCHANGED <<pc, bufferVars>>
    BY DEF Broadcast, NodeRestart, OpenRegistry, Land, Drop
  <1>2. QED
    BY <1>1, PendingFrame DEF bufferVars, PendingInv, OneHolder

LEMMA WatchPending ==
  ASSUME TypeOK, PendingInv, NEW w \in Watchers, Watch(w)
  PROVE  PendingInv'
  <1> USE DEF bufferVars, txVars, netVars, chainVars
  <1> DEFINE Others == \A v \in Watchers \ {w} : /\ known'[v] = known[v]
                                                /\ buffer'[v] = buffer[v]
                                                /\ batch'[v] = batch[v]
  <1>0. ASSUME OneHolder', Others,
               buffer'[w] = <<>> \/ (Distinct(buffer'[w]) /\ known'[w] \cap CidsOf(buffer'[w]) = {}),
               batch'[w] = <<>> \/ (Distinct(batch'[w]) /\ known'[w] \cap CidsOf(batch'[w]) = {})
        PROVE  PendingInv'
    <2>1. \A v \in Watchers : /\ Distinct(buffer'[v]) /\ known'[v] \cap CidsOf(buffer'[v]) = {}
                              /\ Distinct(batch'[v]) /\ known'[v] \cap CidsOf(batch'[v]) = {}
      BY <1>0, NothingIsNew DEF PendingInv, HeldIsNew, NewTo
    <2>2. QED
      BY <1>0, <2>1 DEF PendingInv, HeldIsNew, NewTo, Distinct, CidsOf
  <1>1. CASE CatchUp(w) \/ Subscribe(w) \/ PollDrain(w) \/ PollLost(w) \/ Age(w) \/ KeepBuffering(w)
    <2>1. UNCHANGED <<known, buffer, batch>>
      BY <1>1 DEF CatchUp, Subscribe, PollDrain, PollLost, Age, KeepBuffering
    <2>2. OneHolder'
      BY <1>1 DEF CatchUp, Subscribe, PollDrain, PollLost, Age, KeepBuffering,
                  PendingInv, OneHolder, TypeOK
    <2>3. QED
      BY <2>1, <2>2, PendingFrame
  <1>2. CASE Start(w)
    <2>1. buffer'[w] = <<>> /\ batch'[w] = <<>> /\ Others
      BY <1>2 DEF Start, PendingInv, OneHolder, TypeOK
    <2>2. OneHolder'
      BY <1>2 DEF Start, PendingInv, OneHolder, TypeOK
    <2>3. QED
      BY <1>0, <2>1, <2>2
  <1>3. CASE Crash(w)
    <2>1. buffer'[w] = <<>> /\ batch'[w] = <<>> /\ Others
      BY <1>3 DEF Crash, TypeOK
    <2>2. OneHolder'
      BY <1>3 DEF Crash, PendingInv, OneHolder, TypeOK
    <2>3. QED
      BY <1>0, <2>1, <2>2
  <1>4. CASE Push(w)
    <2> DEFINE e == Head(inbox[w])
    <2>1. e \in Envelopes /\ buffer[w] \in Seq(Envelopes)
      BY <1>4 DEF Push, TypeOK
    <2>2. pc[w] \in {"replaying", "pushing"}
      BY <1>4 DEF Push, PendingInv, OneHolder
    <2>3. /\ Others /\ known' = known /\ batch' = batch
          /\ buffer'[w] = IF Fresh(w, e) THEN Append(buffer[w], e) ELSE buffer[w]
      BY <1>4 DEF Push, TypeOK
    <2>4. OneHolder'
      BY <1>4, <2>2, <2>3 DEF Push, PendingInv, OneHolder, TypeOK
    <2>5. NewTo(w, buffer'[w])
      BY <2>1, <2>3, FreshIsNew DEF Fresh, PendingInv, HeldIsNew
    <2>6. NewTo(w, batch'[w])
      BY <2>3 DEF PendingInv, HeldIsNew
    <2>7. QED
      BY <1>0, <2>3, <2>4, <2>5, <2>6 DEF NewTo
  <1>5. CASE Flush(w)
    <2>1. buffer'[w] = <<>> /\ batch'[w] = buffer[w] /\ known' = known /\ Others
      BY <1>5 DEF Flush, TypeOK
    <2>2. OneHolder'
      BY <1>5 DEF Flush, PendingInv, OneHolder, TypeOK
    <2>3. QED
      BY <1>0, <2>1, <2>2 DEF PendingInv, HeldIsNew, NewTo
  <1>6. CASE Confirm(w)
    <2>1. pc[w] = "submitting"
      BY <1>6 DEF Confirm, Confirmed
    <2>2. buffer'[w] = <<>> /\ batch'[w] = <<>> /\ Others
      BY <1>6, <2>1 DEF Confirm, PendingInv, OneHolder, TypeOK
    <2>3. OneHolder'
      BY <1>6, <2>1 DEF Confirm, PendingInv, OneHolder, TypeOK
    <2>4. QED
      BY <1>0, <2>2, <2>3
  <1>7. CASE SubmitFails(w)
    <2>1. buffer[w] = <<>> /\ batch[w] \in Seq(Envelopes)
      BY <1>7 DEF SubmitFails, PendingInv, OneHolder, TypeOK
    <2>2. batch[w] \o buffer[w] = batch[w]
      BY <2>1, ConcatEmptySeq
    <2>3. buffer'[w] = batch[w] /\ batch'[w] = <<>> /\ known' = known /\ Others
      BY <1>7, <2>2 DEF SubmitFails, Returned, TypeOK
    <2>4. OneHolder'
      BY <1>7 DEF SubmitFails, PendingInv, OneHolder, TypeOK
    <2>5. QED
      BY <1>0, <2>3, <2>4 DEF PendingInv, HeldIsNew, NewTo
  <1>8. QED
    BY <1>1, <1>2, <1>3, <1>4, <1>5, <1>6, <1>7 DEF Watch

LEMMA PendingStep == TypeInv /\ PendingInv /\ [Next]_vars => PendingInv'
  <1> SUFFICES ASSUME TypeInv, PendingInv, [Next]_vars PROVE PendingInv'
    OBVIOUS
  <1>1. CASE UNCHANGED vars
    BY <1>1, PendingFrame DEF vars, bufferVars, PendingInv, OneHolder
  <1>2. QED
    BY <1>1, EnvironmentPending, WatchPending DEF Next, TypeInv

LEMMA PendingInvariant == Spec => []PendingInv
  <1>1. Init => PendingInv
    BY NothingIsNew DEF Init, PendingInv, OneHolder, HeldIsNew
  <1>2. QED
    BY <1>1, PendingStep, TypeInvariant, PTL DEF Spec

(***************************************************************************)
(* However submissions fail and are repeated, push and return_failed keep  *)
(* a CID in one place, and one that is known is not sent again.            *)
(***************************************************************************)
THEOREM HeldOnceAndNew == Spec => []PendingIsNew
  <1>1. TypeInv /\ PendingInv => PendingIsNew
    BY PendingIsConcat DEF TypeInv
  <1>2. QED
    BY <1>1, PendingInvariant, TypeInvariant, PTL

-----------------------------------------------------------------------------
(* What is anchored was broadcast. *)

HeardIn(log, s) == \A i \in DOMAIN s : \E j \in DOMAIN log : log[j] = s[i]

(* Nothing a watcher holds or sends is but a message of the log. *)
HeardInv ==
  /\ \A w \in Watchers : /\ HeardIn(store, queue[w])
                          /\ HeardIn(store, inbox[w])
                          /\ HeardIn(store, buffer[w])
                          /\ HeardIn(store, batch[w])
  /\ \A t \in pool : HeardIn(store, t.batch)

BroadcastInv == HeardInv /\ AnchoredAsBroadcast

LEMMA NothingHeard == \A log : HeardIn(log, <<>>)
  BY DEF HeardIn

LEMMA LogGrows ==
  ASSUME NEW log \in Seq(Envelopes), NEW e \in Envelopes
  PROVE  /\ \A j \in DOMAIN log : j \in DOMAIN Append(log, e) /\ Append(log, e)[j] = log[j]
         /\ \E j \in DOMAIN Append(log, e) : Append(log, e)[j] = e
         /\ \A s : HeardIn(log, s) => HeardIn(Append(log, e), s)
  <1>1. \A j \in DOMAIN log : j \in DOMAIN Append(log, e) /\ Append(log, e)[j] = log[j]
    OBVIOUS
  <1>2. Len(log) + 1 \in DOMAIN Append(log, e) /\ Append(log, e)[Len(log) + 1] = e
    OBVIOUS
  <1>3. \A s : HeardIn(log, s) => HeardIn(Append(log, e), s)
    <2> SUFFICES ASSUME NEW s, HeardIn(log, s), NEW i \in DOMAIN s
                 PROVE  \E j \in DOMAIN Append(log, e) : Append(log, e)[j] = s[i]
      BY DEF HeardIn
    <2>1. PICK j \in DOMAIN log : log[j] = s[i]
      BY DEF HeardIn
    <2>2. QED
      BY <1>1, <2>1
  <1>4. QED
    BY <1>1, <1>2, <1>3

LEMMA HeardAppend ==
  ASSUME NEW log, NEW s \in Seq(Envelopes), NEW e \in Envelopes,
         HeardIn(log, s), \E j \in DOMAIN log : log[j] = e
  PROVE  HeardIn(log, Append(s, e))
  <1>1. /\ DOMAIN Append(s, e) = 1 .. Len(s) + 1 /\ DOMAIN s = 1 .. Len(s)
        /\ \A i \in 1 .. Len(s) : Append(s, e)[i] = s[i]
        /\ Append(s, e)[Len(s) + 1] = e
        /\ Len(s) \in Nat
    OBVIOUS
  <1>2. \A i \in 1 .. Len(s) + 1 : i \in 1 .. Len(s) \/ i = Len(s) + 1
    BY <1>1
  <1>3. QED
    BY <1>1, <1>2 DEF HeardIn

LEMMA HeardConcat ==
  ASSUME NEW log, NEW s \in Seq(Envelopes), NEW t \in Seq(Envelopes),
         HeardIn(log, s), HeardIn(log, t)
  PROVE  HeardIn(log, s \o t)
  <1>1. /\ DOMAIN (s \o t) = 1 .. Len(s) + Len(t)
        /\ \A i \in 1 .. Len(s) + Len(t) :
             (s \o t)[i] = IF i <= Len(s) THEN s[i] ELSE t[i - Len(s)]
        /\ DOMAIN s = 1 .. Len(s) /\ DOMAIN t = 1 .. Len(t)
        /\ Len(s) \in Nat /\ Len(t) \in Nat
    OBVIOUS
  <1>2. ASSUME NEW i \in 1 .. Len(s) + Len(t)
        PROVE  \E j \in DOMAIN log : log[j] = (s \o t)[i]
    <2>1. CASE i <= Len(s)
      BY <1>1, <2>1 DEF HeardIn
    <2>2. CASE ~ (i <= Len(s))
      <3>1. i - Len(s) \in 1 .. Len(t)
        BY <1>1, <2>2
      <3>2. (s \o t)[i] = t[i - Len(s)]
        BY <1>1, <2>2
      <3>3. QED
        BY <1>1, <3>1, <3>2 DEF HeardIn
    <2>3. QED
      BY <2>1, <2>2
  <1>3. QED
    BY <1>1, <1>2 DEF HeardIn

LEMMA HeardPool ==
  ASSUME TypeOK, HeardInv, NEW w \in Watchers
  PROVE  /\ \A t \in Retired(w) : HeardIn(store, t.batch)
         /\ \A t \in Sent(w) : HeardIn(store, t.batch)
  <1>1. [Current(w) EXCEPT !.late = TRUE].batch = batch[w]
    BY DEF Current
  <1>2. ASSUME NEW t \in Retired(w) PROVE HeardIn(store, t.batch)
    <2>1. t \in pool \/ t = [Current(w) EXCEPT !.late = TRUE]
      BY DEF Retired
    <2>2. t \in pool \/ t.batch = batch[w]
      BY <1>1, <2>1
    <2>3. QED
      BY <2>2 DEF HeardInv
  <1>3. ASSUME NEW t \in Sent(w) PROVE HeardIn(store, t.batch)
    <2>1. t \in pool \/ t.batch = buffer[w]
      BY SentTx
    <2>2. QED
      BY <2>1 DEF HeardInv
  <1>4. QED
    BY <1>2, <1>3

LEMMA EnvironmentHeard ==
  ASSUME TypeInv, BroadcastInv,
         \/ \E e \in Envelopes : Broadcast(e)
         \/ \E w \in Watchers : NodeRestart(w)
         \/ OpenRegistry
         \/ \E t \in pool : Land(t)
         \/ \E t \in pool : Drop(t)
  PROVE  BroadcastInv'
  <1> USE DEF chainVars, txVars, netVars, bufferVars
  <1>1. ASSUME NEW e \in Envelopes, Broadcast(e) PROVE BroadcastInv'
    <2>1. /\ store \in Seq(Envelopes) /\ store' = Append(store, e)
          /\ queue \in [Watchers -> Seq(Envelopes)]
          /\ \A w \in Watchers : queue'[w] \in {queue[w], Append(queue[w], e)}
          /\ UNCHANGED <<entries, pool, inbox, buffer, batch>>
      BY <1>1 DEF Broadcast, TypeInv, TypeOK
    <2>2. /\ \A j \in DOMAIN store : j \in DOMAIN store' /\ store'[j] = store[j]
          /\ \E j \in DOMAIN store' : store'[j] = e
          /\ \A s : HeardIn(store, s) => HeardIn(store', s)
      <3>1. /\ \A j \in DOMAIN store : /\ j \in DOMAIN Append(store, e)
                                       /\ Append(store, e)[j] = store[j]
            /\ \E j \in DOMAIN Append(store, e) : Append(store, e)[j] = e
            /\ \A s : HeardIn(store, s) => HeardIn(Append(store, e), s)
        BY <2>1, LogGrows, Zenon
      <3>2. QED
        BY <2>1, <3>1, Zenon
    <2>3. HeardInv'
      <3>1. \A w \in Watchers : HeardIn(store', queue[w])
        BY <2>2 DEF BroadcastInv, HeardInv
      <3>2. \A w \in Watchers : HeardIn(store', Append(queue[w], e))
        BY <2>1, <2>2, <3>1, HeardAppend
      <3>3. \A w \in Watchers : HeardIn(store', queue'[w])
        BY <2>1, <3>1, <3>2
      <3>4. \A w \in Watchers : /\ HeardIn(store', inbox'[w])
                                /\ HeardIn(store', buffer'[w])
                                /\ HeardIn(store', batch'[w])
        BY <2>1, <2>2 DEF BroadcastInv, HeardInv
      <3>5. \A t \in pool' : HeardIn(store', t.batch)
        BY <2>1, <2>2 DEF BroadcastInv, HeardInv
      <3>6. QED
        BY <3>3, <3>4, <3>5 DEF HeardInv
    <2>4. AnchoredAsBroadcast'
      BY <2>1, <2>2 DEF BroadcastInv, AnchoredAsBroadcast, Chain!AnchoredCids
    <2>5. QED
      BY <2>3, <2>4 DEF BroadcastInv
  <1>2. ASSUME NEW w \in Watchers, NodeRestart(w) PROVE BroadcastInv'
    BY <1>2, NothingHeard DEF NodeRestart, BroadcastInv, HeardInv, AnchoredAsBroadcast,
                              Chain!AnchoredCids, TypeInv, TypeOK
  <1>3. CASE OpenRegistry
    <2>1. entries' = entries
      BY <1>3, OpenStep DEF OpenRegistry, TypeInv, TypeOK
    <2>2. QED
      BY <1>3, <2>1 DEF OpenRegistry, BroadcastInv, HeardInv, AnchoredAsBroadcast,
                        Chain!AnchoredCids
  <1>4. ASSUME NEW t \in pool, Land(t) PROVE BroadcastInv'
    <2>1. t \in Tx /\ LandsAs(t)
      BY <1>4, LandStep DEF Land, TypeInv, TypeOK
    <2>2. HeardIn(store, t.batch)
      BY DEF BroadcastInv, HeardInv
    <2>3. UNCHANGED <<store, queue, inbox, buffer, batch>> /\ pool' \subseteq pool
      BY <1>4 DEF Land
    <2>4. HeardInv'
      BY <2>3 DEF BroadcastInv, HeardInv
    <2>5. ASSUME NEW c \in Chain!AnchoredCids'
          PROVE  \E i \in DOMAIN store : /\ store[i].cid = c
                                         /\ store[i].hash = entries'[c].metadata_hash
                                         /\ store[i].ts % Modulus = entries'[c].anchor_timestamp
      <3>1. CASE c \in Chain!AnchoredCids
        BY <2>1, <3>1 DEF LandsAs, BroadcastInv, AnchoredAsBroadcast
      <3>2. CASE c \notin Chain!AnchoredCids
        <4>1. PICK k \in DOMAIN t.batch : /\ t.batch[k].cid = c
                                          /\ entries'[c] = RecordFor(t.batch[k], t.by)
          BY <2>1, <3>2 DEF LandsAs
        <4>2. PICK i \in DOMAIN store : store[i] = t.batch[k]
          BY <2>2 DEF HeardIn
        <4>3. QED
          BY <4>1, <4>2 DEF RecordFor
      <3>3. QED
        BY <3>1, <3>2
    <2>6. AnchoredAsBroadcast'
      BY <2>3, <2>5 DEF AnchoredAsBroadcast
    <2>7. QED
      BY <2>4, <2>6 DEF BroadcastInv
  <1>5. ASSUME NEW t \in pool, Drop(t) PROVE BroadcastInv'
    BY <1>5 DEF Drop, BroadcastInv, HeardInv, AnchoredAsBroadcast, Chain!AnchoredCids
  <1>6. QED
    BY <1>1, <1>2, <1>3, <1>4, <1>5

LEMMA WatchHeard ==
  ASSUME TypeInv, BroadcastInv, NEW w \in Watchers, Watch(w)
  PROVE  BroadcastInv'
  <1> USE DEF chainVars, txVars, netVars, bufferVars, TypeInv
  <1>1. UNCHANGED <<store, entries>>
    BY DEF Watch, Start, CatchUp, Subscribe, Crash, PollDrain, PollLost, Push, Age,
           KeepBuffering, Flush, Confirm, SubmitFails
  <1>2. SUFFICES HeardInv'
    BY <1>1 DEF BroadcastInv, AnchoredAsBroadcast, Chain!AnchoredCids
  <1> USE DEF BroadcastInv, HeardInv
  <1>3. CASE Start(w) \/ Subscribe(w) \/ Age(w) \/ KeepBuffering(w)
    BY <1>1, <1>3 DEF Start, Subscribe, Age, KeepBuffering
  <1>4. CASE CatchUp(w)
    <2>1. PICK from \in 1 .. Len(store) + 1 :
            inbox' = [inbox EXCEPT ![w] = SubSeq(store, from, Len(store))]
      BY <1>4 DEF CatchUp
    <2>2. HeardIn(store, SubSeq(store, from, Len(store)))
      <3>1. \A i \in DOMAIN SubSeq(store, from, Len(store)) :
              /\ from + i - 1 \in DOMAIN store
              /\ SubSeq(store, from, Len(store))[i] = store[from + i - 1]
        BY SubSeqProperties DEF TypeOK
      <3>2. QED
        BY <3>1 DEF HeardIn
    <2>3. QED
      BY <1>1, <1>4, <2>1, <2>2 DEF CatchUp, TypeOK
  <1>5. CASE Crash(w)
    BY <1>1, <1>5, NothingHeard, HeardPool DEF Crash, TypeOK
  <1>6. CASE PollDrain(w) \/ PollLost(w)
    <2>1. /\ \A v \in Watchers : queue'[v] \in {queue[v], <<>>} /\ inbox'[v] \in {inbox[v], queue[v]}
          /\ UNCHANGED <<buffer, batch, pool>>
      BY <1>6 DEF PollDrain, PollLost, TypeOK
    <2>2. QED
      BY <1>1, <2>1, NothingHeard
  <1>7. CASE Push(w)
    <2> DEFINE e == Head(inbox[w])
    <2>1. /\ inbox[w] \in Seq(Envelopes) /\ inbox[w] # <<>>
          /\ buffer[w] \in Seq(Envelopes)
      BY <1>7 DEF Push, TypeOK
    <2>2. /\ e \in Envelopes /\ 1 \in DOMAIN inbox[w] /\ e = inbox[w][1]
          /\ \A i \in DOMAIN Tail(inbox[w]) : /\ i + 1 \in DOMAIN inbox[w]
                                               /\ Tail(inbox[w])[i] = inbox[w][i + 1]
      BY <2>1
    <2>3. HeardIn(store, Tail(inbox[w]))
      BY <2>2 DEF HeardIn
    <2>4. \E j \in DOMAIN store : store[j] = e
      BY <2>2 DEF HeardIn
    <2> HIDE DEF e
    <2>5. HeardIn(store, Append(buffer[w], e))
      BY <2>1, <2>2, <2>4, HeardAppend
    <2>6. /\ inbox'[w] = Tail(inbox[w])
          /\ buffer'[w] \in {buffer[w], Append(buffer[w], e)}
          /\ \A v \in Watchers \ {w} : inbox'[v] = inbox[v] /\ buffer'[v] = buffer[v]
          /\ UNCHANGED <<queue, batch, pool>>
      BY <1>7 DEF Push, TypeOK, e
    <2>7. QED
      BY <1>1, <2>3, <2>5, <2>6
  <1>8. CASE Flush(w)
    BY <1>1, <1>8, NothingHeard, HeardPool DEF Flush, TypeOK
  <1>9. CASE Confirm(w)
    BY <1>1, <1>9, NothingHeard DEF Confirm, TypeOK
  <1>10. CASE SubmitFails(w)
    <2>1. HeardIn(store, Returned(w))
      BY HeardConcat DEF Returned, TypeOK
    <2>2. QED
      BY <1>1, <1>10, <2>1, NothingHeard, HeardPool DEF SubmitFails, TypeOK
  <1>11. QED
    BY <1>3, <1>4, <1>5, <1>6, <1>7, <1>8, <1>9, <1>10 DEF Watch

(***************************************************************************)
(* Batching, joining, splitting, resending and another watcher's crash mix *)
(* no two messages up: every record has the hash and the time of one       *)
(* message about its CID.                                                  *)
(***************************************************************************)
THEOREM RecordsAreBroadcast == Spec => []AnchoredAsBroadcast
  <1>1. Init => BroadcastInv
    BY NothingHeard DEF Init, Chain!Init, BroadcastInv, HeardInv, AnchoredAsBroadcast,
                        Chain!AnchoredCids
  <1>2. TypeInv /\ BroadcastInv /\ [Next]_vars => BroadcastInv'
    <2> SUFFICES ASSUME TypeInv, BroadcastInv, [Next]_vars PROVE BroadcastInv'
      OBVIOUS
    <2>1. CASE UNCHANGED vars
      BY <2>1 DEF vars, chainVars, txVars, netVars, bufferVars, BroadcastInv, HeardInv,
                  AnchoredAsBroadcast, Chain!AnchoredCids
    <2>2. QED
      BY <2>1, EnvironmentHeard, WatchHeard DEF Next
  <1>3. BroadcastInv => AnchoredAsBroadcast
    BY DEF BroadcastInv
  <1>4. QED
    BY <1>1, <1>2, <1>3, TypeInvariant, PTL DEF Spec

-----------------------------------------------------------------------------
(* Nothing is lost but by a crash. *)

LEMMA CidsOfEnds ==
  ASSUME NEW s \in Seq(Envelopes), s # <<>>
  PROVE  CidsOf(s) \subseteq {Head(s).cid} \cup CidsOf(Tail(s))
  <1> SUFFICES ASSUME NEW i \in 1 .. Len(s), i # 1
               PROVE  s[i].cid \in CidsOf(Tail(s))
    BY DEF CidsOf
  <1>1. i - 1 \in DOMAIN Tail(s) /\ Tail(s)[i - 1] = s[i]
    OBVIOUS
  <1>2. QED
    BY <1>1 DEF CidsOf

LEMMA CidsOfJoined ==
  ASSUME NEW s \in Seq(Envelopes), NEW t \in Seq(Envelopes)
  PROVE  CidsOf(s) \cup CidsOf(t) \subseteq CidsOf(s \o t)
  <1>1. /\ \A i \in DOMAIN s : i \in DOMAIN (s \o t) /\ (s \o t)[i] = s[i]
        /\ \A i \in DOMAIN t : /\ Len(s) + i \in DOMAIN (s \o t)
                                /\ (s \o t)[Len(s) + i] = t[i]
    OBVIOUS
  <1>2. QED
    BY <1>1 DEF CidsOf

LEMMA WatchKeeps ==
  ASSUME TypeOK, PendingInv, KnownOnChain, NEW w \in Watchers, Watch(w)
  PROVE  HeldAreKept
  <1> USE DEF chainVars, txVars, netVars, bufferVars
  <1>1. \A v \in Watchers \ {w} : Held(v)' = Held(v)
    <2>1. \A v \in Watchers \ {w} : /\ known'[v] = known[v] /\ buffer'[v] = buffer[v]
                                    /\ batch'[v] = batch[v] /\ inbox'[v] = inbox[v]
      BY DEF Watch, Start, CatchUp, Subscribe, Crash, PollDrain, PollLost, Push, Age,
             KeepBuffering, Flush, Confirm, SubmitFails, TypeOK
    <2>2. QED
      BY <2>1 DEF Held, CidsOf
  <1>2. SUFFICES pc'[w] = "down" \/ Held(w) \subseteq Held(w)'
    BY <1>1 DEF HeldAreKept
  <1>3. CASE Start(w)
    <2>1. known[w] \subseteq known'[w] /\ UNCHANGED <<buffer, batch, inbox>>
      BY <1>3 DEF Start, KnownOnChain, TypeOK
    <2>2. QED
      BY <2>1 DEF Held, CidsOf
  <1>4. CASE CatchUp(w) \/ PollDrain(w)
    <2>1. inbox[w] = <<>>
      BY <1>4 DEF CatchUp, PollDrain, PendingInv, OneHolder
    <2>2. UNCHANGED <<known, buffer, batch>> /\ CidsOf(inbox[w]) = {}
      BY <1>4, <2>1, NothingIsNew DEF CatchUp, PollDrain
    <2>3. QED
      BY <2>2 DEF Held, CidsOf
  <1>5. CASE Subscribe(w) \/ PollLost(w) \/ Age(w) \/ KeepBuffering(w)
    BY <1>5 DEF Subscribe, PollLost, Age, KeepBuffering, Held, CidsOf
  <1>6. CASE Crash(w)
    BY <1>6 DEF Crash, TypeOK
  <1>7. CASE Push(w)
    <2> DEFINE e == Head(inbox[w])
    <2>1. /\ inbox[w] \in Seq(Envelopes) /\ inbox[w] # <<>>
          /\ buffer[w] \in Seq(Envelopes) /\ e \in Envelopes
      BY <1>7 DEF Push, TypeOK
    <2>2. /\ known' = known /\ batch' = batch /\ inbox'[w] = Tail(inbox[w])
          /\ buffer'[w] = IF Fresh(w, e) THEN Append(buffer[w], e) ELSE buffer[w]
      BY <1>7 DEF Push, TypeOK
    <2>3. CidsOf(buffer[w]) \cup {e.cid} \subseteq CidsOf(Append(buffer[w], e))
      <3>1. /\ \A i \in DOMAIN buffer[w] : /\ i \in DOMAIN Append(buffer[w], e)
                                           /\ Append(buffer[w], e)[i] = buffer[w][i]
            /\ Len(buffer[w]) + 1 \in DOMAIN Append(buffer[w], e)
            /\ Append(buffer[w], e)[Len(buffer[w]) + 1] = e
        BY <2>1
      <3>2. QED
        BY <3>1 DEF CidsOf
    <2>4. CidsOf(inbox[w]) \subseteq {e.cid} \cup CidsOf(Tail(inbox[w]))
      BY <2>1, CidsOfEnds
    <2>5. Held(w)' = known'[w] \cup CidsOf(buffer'[w]) \cup CidsOf(batch'[w]) \cup CidsOf(inbox'[w])
      BY DEF Held, CidsOf
    <2>6. e.cid \in known[w] \cup CidsOf(buffer'[w]) /\ CidsOf(buffer[w]) \subseteq CidsOf(buffer'[w])
      BY <2>2, <2>3 DEF Fresh
    <2> HIDE DEF e
    <2>7. QED
      BY <2>2, <2>4, <2>5, <2>6 DEF Held
  <1>8. CASE Flush(w)
    <2>1. batch[w] = <<>> /\ CidsOf(batch[w]) = {}
      BY <1>8, NothingIsNew DEF Flush, PendingInv, OneHolder
    <2>2. known' = known /\ inbox' = inbox /\ batch'[w] = buffer[w]
      BY <1>8 DEF Flush, TypeOK
    <2>3. QED
      BY <2>1, <2>2 DEF Held, CidsOf
  <1>9. CASE Confirm(w)
    <2>1. /\ known'[w] = known[w] \cup CidsOf(batch[w])
          /\ buffer' = buffer /\ inbox' = inbox
      BY <1>9 DEF Confirm, TypeOK
    <2>2. QED
      BY <2>1 DEF Held, CidsOf
  <1>10. CASE SubmitFails(w)
    <2>1. buffer'[w] = batch[w] \o buffer[w] /\ known' = known /\ inbox' = inbox
      BY <1>10 DEF SubmitFails, Returned, TypeOK
    <2>2. CidsOf(batch[w]) \cup CidsOf(buffer[w]) \subseteq CidsOf(buffer'[w])
      BY <2>1, CidsOfJoined DEF TypeOK
    <2>3. Held(w)' = known'[w] \cup CidsOf(buffer'[w]) \cup CidsOf(batch'[w]) \cup CidsOf(inbox'[w])
      BY DEF Held, CidsOf
    <2>4. QED
      BY <2>1, <2>2, <2>3 DEF Held
  <1>11. QED
    BY <1>3, <1>4, <1>5, <1>6, <1>7, <1>8, <1>9, <1>10 DEF Watch

(***************************************************************************)
(* Unless it goes down, a watcher keeps every CID it has read, pushed,     *)
(* drained and taken back, until it knows that the CID is on chain.        *)
(***************************************************************************)
THEOREM NothingIsDropped == Spec => EntriesSurvive
  <1>1. TypeInv /\ PendingInv /\ KnownOnChain /\ [Next]_vars => [HeldAreKept]_vars
    <2> SUFFICES ASSUME TypeInv, PendingInv, KnownOnChain, Next PROVE HeldAreKept
      OBVIOUS
    <2>1. CASE \E w \in Watchers : Watch(w)
      BY <2>1, WatchKeeps DEF TypeInv
    <2>2. CASE ~ \E w \in Watchers : Watch(w)
      <3>1. UNCHANGED bufferVars
        BY <2>2 DEF Next, Broadcast, NodeRestart, OpenRegistry, Land, Drop
      <3>2. QED
        BY <3>1 DEF bufferVars, HeldAreKept, Held, CidsOf
    <2>3. QED
      BY <2>1, <2>2
  <1>2. QED
    BY <1>1, TypeInvariant, PendingInvariant, KnownIsAnchored, PTL DEF Spec, EntriesSurvive

-----------------------------------------------------------------------------
(* The watchers together implement the permanent log. *)

LEMMA LandIsAnchor ==
  ASSUME TypeInv, NEW t \in pool, Land(t)
  PROVE  Chain!Log!Next \/ entries' = entries
  <1> DEFINE new == CidsOf(t.batch) \ Chain!AnchoredCids
  <1>1. LandsAs(t) /\ Chain!TypeOK' /\ Chain!TypeOK
    BY LandStep DEF Land, TypeInv, TypeOK
  <1>2. entries \in [Cids -> Chain!Records \cup {NoRecord}]
        /\ entries' \in [Cids -> Chain!Records \cup {NoRecord}]
    BY <1>1 DEF Chain!TypeOK
  <1>3. Chain!AnchoredCids' = Chain!AnchoredCids \cup new
    BY <1>1 DEF LandsAs
  <1>4. /\ new \subseteq Cids
        /\ \A c \in new : entries[c] = NoRecord /\ entries'[c] # NoRecord
        /\ \A c \in Cids \ new : entries'[c] = entries[c]
    BY <1>1, <1>3 DEF LandsAs, Chain!AnchoredCids
  <1> HIDE DEF new
  <1>5. CASE new = {}
    BY <1>2, <1>4, <1>5
  <1>6. CASE new # {}
    BY <1>2, <1>4, <1>6 DEF Chain!Log!Next, Chain!Log!Anchor
  <1>7. QED
    BY <1>5, <1>6

(* Nothing but a transaction that lands writes to the registry: opening it *)
(* comes before it has an entry.                                           *)
LEMMA OnlyLandingWrites ==
  ASSUME TypeInv, [Next]_vars, \A t \in pool : ~ Land(t)
  PROVE  UNCHANGED entries
  <1> USE DEF chainVars, txVars, netVars, bufferVars
  <1>1. CASE \E w \in Watchers : Watch(w)
    BY <1>1 DEF Watch, Start, CatchUp, Subscribe, Crash, PollDrain, PollLost, Push, Age,
                KeepBuffering, Flush, Confirm, SubmitFails
  <1>2. CASE \/ \E e \in Envelopes : Broadcast(e)
             \/ \E w \in Watchers : NodeRestart(w)
             \/ \E t \in pool : Drop(t)
             \/ UNCHANGED vars
    BY <1>2 DEF Broadcast, NodeRestart, Drop, vars
  <1>3. CASE OpenRegistry
    BY <1>3, OpenStep DEF OpenRegistry, TypeInv, TypeOK
  <1>4. QED
    BY <1>1, <1>2, <1>3 DEF Next

(***************************************************************************)
(* Any number of watchers, sending the same CIDs twice, late, out of order *)
(* and across crashes, leave each CID with the first record it was given.  *)
(***************************************************************************)
THEOREM WatchersKeepLog == Spec => Chain!IsLog
  <1>1. Init => Chain!Log!Init
    BY DEF Init, Chain!Init, Chain!Log!Init
  <1>2. TypeInv /\ [Next]_vars => [Chain!Log!Next]_entries
    BY LandIsAnchor, OnlyLandingWrites
  <1>3. QED
    BY <1>1, <1>2, TypeInvariant, PTL DEF Spec, Chain!IsLog, Chain!Log!Spec
=============================================================================
