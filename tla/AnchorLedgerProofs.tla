------------------------- MODULE AnchorLedgerProofs -------------------------
(* Theorems about AnchorLedger, for any CIDs, hashes, signers and limits, *)
(* for either library and with or without faults.                         *)
EXTENDS AnchorLedger, TLAPS

USE AnchorLedgerAssumption, NoneAssumption, AbsentAssumption

-----------------------------------------------------------------------------
(* What the one row of a request does to the chain. *)

LEMMA RowIsOne ==
  ASSUME NEW r \in Request
  PROVE  /\ Chain!Named(Row(r)) = {r.cid}
         /\ Chain!FirstOf(Row(r), r.cid) = 1
         /\ Row(r).cids[1] = r.cid /\ Row(r).hashes[1] = r.hash /\ Row(r).stamps[1] = 1
         /\ 1 \in DOMAIN Row(r).cids
  <1>1. /\ Row(r).cids = <<r.cid>> /\ Row(r).hashes = <<r.hash>> /\ Row(r).stamps = <<1>>
        /\ DOMAIN Row(r).cids = {1}
    BY DEF Row
  <1>2. Chain!Named(Row(r)) = {r.cid}
    BY <1>1 DEF Chain!Named
  <1>3. \A i \in DOMAIN Row(r).cids : i = 1
    BY <1>1
  <1>4. /\ 1 \in DOMAIN Row(r).cids
        /\ Row(r).cids[1] = r.cid
        /\ \A j \in DOMAIN Row(r).cids : Row(r).cids[j] = r.cid => 1 <= j
    BY <1>1
  <1>5. Chain!FirstOf(Row(r), r.cid) = 1
    BY <1>3, <1>4 DEF Chain!FirstOf
  <1>6. QED
    BY <1>1, <1>2, <1>5

(* Its CID is anchored by a valid record, and no record goes away. *)
LEMMA RowAnchors ==
  ASSUME Chain!TypeOK, NEW r \in Request, NEW by \in Anchorers,
         Chain!IndexBatch(Row(r), by)
  PROVE  /\ Chain!TypeOK'
         /\ Chain!AnchoredCids \subseteq Chain!AnchoredCids'
         /\ r.cid \in Chain!AnchoredCids'
  <1> DEFINE rec == Chain!RecordOf(Row(r), r.cid, by)
  <1>1. r.cid \in Cids /\ r.hash \in Hashes
    BY DEF Request
  <1>2. r.hash # ZeroHash
    BY RowIsOne DEF Chain!IndexBatch, Chain!Accepted, Chain!EntriesValid
  <1>3. rec \in Chain!Records
    BY <1>1, <1>2, RowIsOne DEF Chain!RecordOf, Chain!Records
  <1>4. rec # NoRecord
    BY <1>3
  <1>5. entries' = [c \in Cids |-> IF entries[c] = NoRecord /\ c = r.cid
                                   THEN rec ELSE entries[c]]
    BY RowIsOne DEF Chain!IndexBatch, Chain!Inserted
  <1> HIDE DEF rec
  <1>6. entries' \in [Cids -> Chain!Records \cup {NoRecord}]
    BY <1>3, <1>5 DEF Chain!TypeOK
  <1>7. opened' \in BOOLEAN
    BY DEF Chain!IndexBatch
  <1>8. QED
    BY <1>1, <1>4, <1>5, <1>6, <1>7 DEF Chain!TypeOK, Chain!AnchoredCids

-----------------------------------------------------------------------------
(***************************************************************************)
(* The inductive invariant.  Between the inclusion of the transaction and  *)
(* the record that says so, its CID is on chain; the file has to hold      *)
(* nothing but what memory held, as a restart makes it the memory.         *)
(***************************************************************************)
LandedIsAnchored == phase = "landed" => asked.cid \in Chain!AnchoredCids
LedgerInv ==
  /\ TypeOK
  /\ Chain!EntriesNeedAccount
  /\ ConfirmedOnChain
  /\ LedgerOnDisk
  /\ LandedIsAnchored

LEMMA LedgerInit == Init => LedgerInv
  <1> SUFFICES ASSUME Init PROVE LedgerInv
    OBVIOUS
  <1>1. TypeOK
    BY DEF Init, TypeOK, Chain!Init, Chain!TypeOK, Phases
  <1>2. Chain!EntriesNeedAccount /\ ConfirmedOnChain /\ LedgerOnDisk /\ LandedIsAnchored
    BY DEF Init, Chain!Init, Chain!EntriesNeedAccount, Chain!AnchoredCids, ConfirmedOnChain,
           Confirmed, LedgerOnDisk, LandedIsAnchored
  <1>3. QED
    BY <1>1, <1>2 DEF LedgerInv

(* A request that gets on chain, whoever submitted it. *)
LEMMA ChainGrows ==
  ASSUME LedgerInv, NEW r \in Request, NEW by \in Anchorers,
         Chain!IndexBatch(Row(r), by), UNCHANGED <<ledgerVars, asked>>,
         phase' = "landed" => r = asked \/ phase = "landed"
  PROVE  /\ Chain!TypeOK'
         /\ Chain!EntriesNeedAccount'
         /\ ConfirmedOnChain' /\ LedgerOnDisk' /\ LandedIsAnchored'
  <1>1. /\ Chain!TypeOK'
        /\ Chain!AnchoredCids \subseteq Chain!AnchoredCids'
        /\ r.cid \in Chain!AnchoredCids'
    BY RowAnchors DEF LedgerInv, TypeOK
  <1>2. Chain!EntriesNeedAccount'
    BY DEF Chain!IndexBatch, Chain!EntriesNeedAccount
  <1>3. ConfirmedOnChain' /\ LedgerOnDisk'
    BY <1>1 DEF LedgerInv, ledgerVars, ConfirmedOnChain, Confirmed, LedgerOnDisk
  <1>4. LandedIsAnchored'
    BY <1>1 DEF LedgerInv, LandedIsAnchored
  <1>5. QED
    BY <1>1, <1>2, <1>3, <1>4

(* The call ends with a record that is "confirmed" only if the CID is on chain. *)
LEMMA RecordKeeps ==
  ASSUME LedgerInv, NEW state \in {"confirmed", "failed"}, phase # "idle",
         state = "confirmed" => asked.cid \in Chain!AnchoredCids,
         Recorded(asked.cid, state), CallReturns, UNCHANGED <<chainVars, configVars>>
  PROVE  LedgerInv'
  <1>1. asked \in Request
    BY DEF LedgerInv, TypeOK
  <1>2. asked.cid \in Cids /\ asked.hash \in Hashes
    BY <1>1 DEF Request
  <1> DEFINE rec == [state |-> state, hash |-> asked.hash]
  <1>3. rec \in AnchorRecord /\ rec.state = state
    BY <1>2 DEF AnchorRecord
  <1>4. anchors' = [anchors EXCEPT ![asked.cid] = rec] /\ anchorFile' = anchors'
    BY DEF Recorded, SaveAnchor, LedgerInv, LedgerOnDisk
  <1> HIDE DEF rec
  <1>5. anchors' \in [Cids -> AnchorRecord \cup {None}]
    BY <1>2, <1>3, <1>4 DEF LedgerInv, TypeOK
  <1>6. phase' = "idle" /\ asked' = None /\ strays' \subseteq Request
    BY <1>1 DEF CallReturns, LedgerInv, TypeOK
  <1>7. TypeOK'
    BY <1>4, <1>5, <1>6
       DEF LedgerInv, TypeOK, Chain!TypeOK, Phases, chainVars, configVars
  <1>8. Chain!AnchoredCids' = Chain!AnchoredCids /\ opened' = opened
    BY DEF chainVars, Chain!AnchoredCids
  <1>9. ConfirmedOnChain'
    BY <1>2, <1>3, <1>4, <1>8 DEF LedgerInv, TypeOK, ConfirmedOnChain, Confirmed
  <1>10. QED
    BY <1>4, <1>6, <1>7, <1>8, <1>9
       DEF LedgerInv, Chain!EntriesNeedAccount, LedgerOnDisk, LandedIsAnchored

LEMMA LedgerStep == LedgerInv /\ [Next]_vars => LedgerInv'
  <1> SUFFICES ASSUME LedgerInv, [Next]_vars PROVE LedgerInv'
    OBVIOUS
  <1> USE DEF LedgerInv
  <1>1. ASSUME NEW ready \in BOOLEAN, SetAnchorConfig(ready) PROVE LedgerInv'
    BY <1>1 DEF SetAnchorConfig, ConfigSaved, TypeOK, Chain!TypeOK, Chain!EntriesNeedAccount,
                Chain!AnchoredCids, ConfirmedOnChain, Confirmed, LedgerOnDisk,
                LandedIsAnchored, chainVars, ledgerVars, callVars
  <1>2. ASSUME NEW r \in Request, AnchorBatch(r) PROVE LedgerInv'
    BY <1>2 DEF AnchorBatch, TypeOK, Phases, Chain!TypeOK, Chain!EntriesNeedAccount,
                Chain!AnchoredCids, ConfirmedOnChain, Confirmed, LedgerOnDisk,
                LandedIsAnchored, chainVars, ledgerVars, configVars
  <1>3. CASE RunSpel
    BY <1>3 DEF RunSpel, TypeOK, Phases, Chain!TypeOK, Chain!EntriesNeedAccount,
                Chain!AnchoredCids, ConfirmedOnChain, Confirmed, LedgerOnDisk,
                LandedIsAnchored, chainVars, ledgerVars, configVars
  <1>4. CASE Land
    <2>1. asked \in Request /\ Self \in Anchorers
      BY <1>4 DEF Land, TypeOK
    <2>2. /\ Chain!TypeOK' /\ Chain!EntriesNeedAccount'
          /\ ConfirmedOnChain' /\ LedgerOnDisk' /\ LandedIsAnchored'
      <3>1. Chain!IndexBatch(Row(asked), Self) /\ UNCHANGED <<ledgerVars, asked>>
        BY <1>4 DEF Land
      <3>2. QED
        BY <2>1, <3>1, ChainGrows
    <2>3. QED
      BY <1>4, <2>2 DEF Land, TypeOK, Phases, ledgerVars, configVars
  <1>5. CASE AnchorConfirmed
    <2>1. phase = "landed" /\ asked.cid \in Chain!AnchoredCids
      BY <1>5 DEF AnchorConfirmed, SpelSucceeds, LandedIsAnchored
    <2>2. QED
      BY <1>5, <2>1, RecordKeeps DEF AnchorConfirmed
  <1>6. CASE AnchorFailed
    <2>1. phase # "idle"
      BY <1>6 DEF AnchorFailed, SpelFails
    <2>2. QED
      BY <1>6, <2>1, RecordKeeps DEF AnchorFailed
  <1>7. CASE ClearAnchors
    BY <1>7 DEF ClearAnchors, TypeOK, Chain!TypeOK, Chain!EntriesNeedAccount,
                Chain!AnchoredCids, ConfirmedOnChain, Confirmed, LedgerOnDisk,
                LandedIsAnchored, chainVars, configVars, callVars
  <1>8. CASE Restart
    <2>1. /\ anchors' = anchorFile'
          /\ anchorFile' = anchorFile \/ anchorFile' = [c \in Cids |-> None]
      BY <1>8 DEF Restart, LoadAnchorLedger
    <2>2. phase' = "idle" /\ asked' = None /\ strays' \subseteq Request
      BY <1>8 DEF Restart, CallReturns, TypeOK, Phases
    <2>3. TypeOK'
      BY <1>8, <2>1, <2>2
         DEF Restart, ConfigLoaded, TypeOK, Chain!TypeOK, Phases, chainVars
    <2>4. Chain!AnchoredCids' = Chain!AnchoredCids /\ opened' = opened
      BY <1>8 DEF Restart, chainVars, Chain!AnchoredCids
    <2>5. ConfirmedOnChain'
      BY <2>1, <2>4 DEF ConfirmedOnChain, Confirmed, LedgerOnDisk
    <2>6. QED
      BY <2>1, <2>2, <2>3, <2>4, <2>5
         DEF Chain!EntriesNeedAccount, LedgerOnDisk, LandedIsAnchored
  <1>9. CASE OpenRegistry
    <2>1. Chain!AnchoredCids = {} /\ opened' = TRUE /\ entries' = [c \in Cids |-> NoRecord]
      BY <1>9 DEF OpenRegistry, Chain!InitRegistry, Chain!EntriesNeedAccount, TypeOK, Chain!TypeOK
    <2>2. Chain!AnchoredCids' = {}
      BY <2>1 DEF Chain!AnchoredCids
    <2>3. QED
      BY <1>9, <2>1, <2>2
         DEF OpenRegistry, TypeOK, Chain!TypeOK, Chain!EntriesNeedAccount, ConfirmedOnChain,
             Confirmed, LedgerOnDisk, LandedIsAnchored, ledgerVars, configVars, callVars
  <1>10. ASSUME NEW r \in strays, LandStray(r) PROVE LedgerInv'
    <2>1. r \in Request /\ Self \in Anchorers
      BY DEF TypeOK
    <2>2. /\ Chain!TypeOK' /\ Chain!EntriesNeedAccount'
          /\ ConfirmedOnChain' /\ LedgerOnDisk' /\ LandedIsAnchored'
      <3>1. /\ Chain!IndexBatch(Row(r), Self)
            /\ UNCHANGED <<ledgerVars, asked, phase>>
        BY <1>10 DEF LandStray
      <3>2. QED
        BY <2>1, <3>1, ChainGrows
    <2>3. QED
      BY <1>10, <2>2 DEF LandStray, TypeOK, Phases, ledgerVars, configVars
  <1>11. ASSUME NEW r \in strays, DropStray(r) PROVE LedgerInv'
    BY <1>11 DEF DropStray, TypeOK, Chain!TypeOK, Chain!EntriesNeedAccount,
                 Chain!AnchoredCids, ConfirmedOnChain, Confirmed, LedgerOnDisk,
                 LandedIsAnchored, chainVars, ledgerVars, configVars
  <1>12. ASSUME NEW r \in Request, NEW by \in Anchorers, OtherAnchors(r, by)
         PROVE  LedgerInv'
    <2>1. /\ Chain!TypeOK' /\ Chain!EntriesNeedAccount'
          /\ ConfirmedOnChain' /\ LedgerOnDisk' /\ LandedIsAnchored'
      <3>1. /\ Chain!IndexBatch(Row(r), by)
            /\ UNCHANGED <<ledgerVars, asked, phase>>
        BY <1>12 DEF OtherAnchors, callVars
      <3>2. QED
        BY <3>1, ChainGrows
    <2>2. QED
      BY <1>12, <2>1 DEF OtherAnchors, TypeOK, Phases, ledgerVars, configVars, callVars
  <1>13. CASE UNCHANGED vars
    BY <1>13 DEF vars, TypeOK, Chain!TypeOK, Chain!EntriesNeedAccount,
                 Chain!AnchoredCids, ConfirmedOnChain, Confirmed, LedgerOnDisk,
                 LandedIsAnchored, chainVars, ledgerVars, configVars, callVars
  <1>14. QED
    BY <1>1, <1>2, <1>3, <1>4, <1>5, <1>6, <1>7, <1>8, <1>9, <1>10, <1>11, <1>12, <1>13 DEF Next

LEMMA LedgerInvariant == Spec => []LedgerInv
  BY LedgerInit, LedgerStep, PTL DEF Spec

-----------------------------------------------------------------------------
(* Every variable has its type, and a request is held exactly while it runs. *)
THEOREM AnchorTypeCorrect == Spec => []TypeOK
  <1>1. LedgerInv => TypeOK
    BY DEF LedgerInv
  <1>2. QED
    BY <1>1, LedgerInvariant, PTL

(***************************************************************************)
(* What anchorStatusJson calls confirmed is on chain, whatever transactions *)
(* come late, whoever else anchors and whenever the plugin goes down.      *)
(***************************************************************************)
THEOREM ConfirmedIsOnChain == Spec => []ConfirmedOnChain
  <1>1. LedgerInv => ConfirmedOnChain
    BY DEF LedgerInv
  <1>2. QED
    BY <1>1, LedgerInvariant, PTL

-----------------------------------------------------------------------------
(* The registry behind the plugin stays a log. *)

(* Putting a row in leaves the record of every CID that has one. *)
LEMMA RowIsAppended ==
  ASSUME Chain!TypeOK, NEW r \in Request, NEW by \in Anchorers,
         Chain!IndexBatch(Row(r), by)
  PROVE  Chain!Log!Next \/ entries' = entries
  <1>1. /\ r.cid \in Cids
        /\ entries' = [c \in Cids |-> IF entries[c] = NoRecord /\ c = r.cid
                                      THEN Chain!RecordOf(Row(r), r.cid, by) ELSE entries[c]]
    BY RowIsOne DEF Chain!IndexBatch, Chain!Inserted, Request
  <1>2. \A c \in Cids \ {r.cid} : entries'[c] = entries[c]
    BY <1>1
  <1>3. entries' \in [Cids -> Chain!Records \cup {NoRecord}]
    BY RowAnchors DEF Chain!TypeOK
  <1>4. entries'[r.cid] # NoRecord
    BY <1>1, RowAnchors DEF Chain!AnchoredCids
  <1>5. CASE entries[r.cid] = NoRecord
    <2>1. Chain!Log!Anchor({r.cid})
      BY <1>2, <1>3, <1>4, <1>5 DEF Chain!Log!Anchor
    <2>2. QED
      BY <1>1, <2>1 DEF Chain!Log!Next
  <1>6. CASE entries[r.cid] # NoRecord
    BY <1>1, <1>6 DEF Chain!TypeOK
  <1>7. QED
    BY <1>5, <1>6

(***************************************************************************)
(* Transactions of this plugin that come late or twice, and those of other *)
(* anchorers, leave each CID with the first record it was given.           *)
(***************************************************************************)
THEOREM AnchorersKeepLog == Spec => Chain!IsLog
  <1>1. Init => Chain!Log!Init
    BY DEF Init, Chain!Init, Chain!Log!Init
  <1>2. LedgerInv /\ [Next]_vars => [Chain!Log!Next]_entries
    <2> SUFFICES ASSUME LedgerInv, [Next]_vars
                 PROVE  Chain!Log!Next \/ entries' = entries
      OBVIOUS
    <2> USE DEF LedgerInv, TypeOK
    <2>1. CASE Land
      BY <2>1, RowIsAppended DEF Land, Phases
    <2>2. ASSUME NEW r \in strays, LandStray(r) PROVE Chain!Log!Next \/ entries' = entries
      BY <2>2, RowIsAppended DEF LandStray
    <2>3. ASSUME NEW r \in Request, NEW by \in Anchorers, OtherAnchors(r, by)
          PROVE  Chain!Log!Next \/ entries' = entries
      BY <2>3, RowIsAppended DEF OtherAnchors
    <2>4. CASE OpenRegistry
      <3>1. \A c \in Cids : entries[c] = NoRecord
        BY <2>4 DEF OpenRegistry, Chain!InitRegistry, Chain!EntriesNeedAccount, Chain!AnchoredCids
      <3>2. QED
        BY <2>4, <3>1 DEF OpenRegistry, Chain!InitRegistry, Chain!TypeOK
    <2>5. CASE \/ \E ready \in BOOLEAN : SetAnchorConfig(ready)
               \/ \E r \in Request : AnchorBatch(r)
               \/ RunSpel \/ AnchorConfirmed \/ AnchorFailed \/ ClearAnchors \/ Restart
               \/ \E r \in strays : DropStray(r)
      BY <2>5 DEF SetAnchorConfig, AnchorBatch, RunSpel, AnchorConfirmed, AnchorFailed,
                  ClearAnchors, Restart, DropStray, chainVars
    <2>6. CASE UNCHANGED vars
      BY <2>6 DEF vars, chainVars
    <2>7. QED
      BY <2>1, <2>2, <2>3, <2>4, <2>5, <2>6 DEF Next
  <1>3. QED
    BY <1>1, <1>2, LedgerInvariant, PTL DEF Spec, Chain!IsLog, Chain!Log!Spec
=============================================================================
