---------------------------- MODULE AnchorLedger ----------------------------
(***************************************************************************)
(* Anchoring from the chronicle plugin: anchorBatchJson, the anchor ledger *)
(* in memory and on disk, the anchor configuration, and the registry FFI   *)
(* behind them (ffi/src/lib.rs), which runs the spel program.              *)
(*                                                                         *)
(* The FFI call blocks the thread of the plugin, so anchorBatchJson is     *)
(* split at the call: nothing else of the plugin runs until it returns,    *)
(* but the chain, other anchorers and transactions given up earlier move.  *)
(* The library is the one of ffi/, or another one that CHRONICLE_FFI_PATH  *)
(* names and that reads what the plugin writes (OwnLibrary FALSE).         *)
(***************************************************************************)
EXTENDS Naturals, Sequences, FiniteSets

CONSTANTS
  Cids, EmptyCid,
  Hashes, ZeroHash,
  Anchorers,   \* signers
  Self,        \* the one of this plugin's configuration
  NoRecord, None,
  MaxBatch, Capacity,
  OwnLibrary,  \* is the loaded library that of ffi/?
  Faulty       \* may spel fail, or a transaction come late or never?

ASSUME AnchorLedgerAssumption ==
  /\ EmptyCid \notin Cids
  /\ IsFiniteSet(Cids)
  /\ ZeroHash \in Hashes
  /\ Self \in Anchorers
  /\ MaxBatch \in Nat /\ Capacity \in Nat
  /\ OwnLibrary \in BOOLEAN /\ Faulty \in BOOLEAN

VARIABLES
  entries, opened,  \* the registry account
  anchors,          \* m_anchors: AnchorRecord.state and metaHash of a CID
  anchorFile,       \* anchor-ledger.json
  configured,       \* m_anchorCfg.isReady()
  configFile,       \* anchor.json holds a configuration that is ready
  phase,            \* how far the blocking index_batch call got
  asked,            \* the request it is for
  strays            \* transactions given up that may still be included

chainVars == <<entries, opened>>
callVars == <<phase, asked, strays>>
ledgerVars == <<anchors, anchorFile>>
configVars == <<configured, configFile>>
vars == <<chainVars, ledgerVars, configVars, callVars>>

Request == [cid : Cids, hash : Hashes]
AnchorRecord == [state : {"confirmed", "failed"}, hash : Hashes]
Phases == {"idle", "called", "sent", "landed"}

(* The one row index_batch of the guest is given.  Its timestamp is the plugin's    *)
(* own clock (chronicle_plugin.cpp:861, 870), one value here: anchorBatchJson       *)
(* ignores a "timestamp" of the request, though scripts/logoscore-anchor-smoke.sh:  *)
(* 174 asserts that the chain holds the one it sent.                                *)
Submissions == [cids : Seq(Cids \cup {EmptyCid}), hashes : Seq(Hashes), stamps : Seq({1})]
Row(r) == [cids |-> <<r.cid>>, hashes |-> <<r.hash>>, stamps |-> <<1>>]

Chain == INSTANCE Registry WITH Stamps <- {1}, Batches <- Submissions

ASSUME NoneAssumption == None \notin AnchorRecord \cup Request
ASSUME AbsentAssumption == NoRecord \notin Chain!Records

-----------------------------------------------------------------------------
(* The argument object: its members, and those index_batch_impl insists on. *)
ArgsMembers == {"program_id_hex", "sequencer_url", "wallet_home", "signer_account_id",
                "cids", "metadata_hashes", "anchor_timestamps"}
IndexBatchReads == {"anchorer", "entries", "idl_path", "program_id_hex"}
Understood == ~ OwnLibrary \/ IndexBatchReads \subseteq ArgsMembers

Init ==
  /\ Chain!Init
  /\ anchors = [c \in Cids |-> None]
  /\ anchorFile = [c \in Cids |-> None]
  /\ configured = FALSE
  /\ configFile = FALSE
  /\ phase = "idle"
  /\ asked = None
  /\ strays = {}

(* AnchorStore::save may fail to open the file; AnchorStore::load. *)
ConfigSaved(ready) == configFile' \in {ready, configFile}
ConfigLoaded == configured' = configFile

(* setAnchorConfigJson: memory has the new configuration even if saving fails. *)
SetAnchorConfig(ready) ==
  /\ phase = "idle"
  /\ configured' = ready
  /\ ConfigSaved(ready)
  /\ UNCHANGED <<chainVars, ledgerVars, callVars>>

(* anchorBatchJson up to the FFI call; it is refused before if not configured. *)
AnchorBatch(r) ==
  /\ phase = "idle"
  /\ configured
  /\ phase' = "called"
  /\ asked' = r
  /\ UNCHANGED <<chainVars, ledgerVars, configVars, strays>>

(* index_batch_impl accepts the arguments and spel sends the transaction. *)
RunSpel ==
  /\ phase = "called"
  /\ Understood
  /\ phase' = "sent"
  /\ UNCHANGED <<chainVars, ledgerVars, configVars, asked, strays>>

(* The transaction is included while spel waits for it. *)
Land ==
  /\ phase = "sent"
  /\ Chain!IndexBatch(Row(asked), Self)
  /\ phase' = "landed"
  /\ UNCHANGED <<ledgerVars, configVars, asked, strays>>

(* saveAnchor: the file is read, the record put in, and all written back. *)
SaveAnchor(c, rec) == anchorFile' = [anchorFile EXCEPT ![c] = rec]
LoadAnchorLedger == anchors' = anchorFile'

(* The record replaces whatever the ledger said of the CID, and is saved. *)
Recorded(c, state) ==
  LET rec == [state |-> state, hash |-> asked.hash]
  IN  /\ anchors' = [anchors EXCEPT ![c] = rec]
      /\ SaveAnchor(c, rec)

(* Mutant: the exit status of spel is not looked at. *)
SpelSucceedsAnyway == phase \in {"sent", "landed"}

(* spel exits 0: it saw the transaction in a block. *)
SpelSucceeds == phase = "landed"

(* FfiClient cannot load the library, or the arguments or spel are no good. *)
CallRefused == ~ Understood \/ Faulty

(* It ends otherwise: nothing was sent, the guest rejects the batch, or the *)
(* transaction was not seen in a block in time.                             *)
SpelFails ==
  \/ phase = "called" /\ CallRefused
  \/ phase = "sent" /\ (~ Chain!Accepted(Row(asked)) \/ Faulty)
  \/ phase = "landed" /\ Faulty

(* Mutant: the request is not let go. *)
CallReturnsAsking ==
  /\ phase' = "idle"
  /\ strays' = IF phase = "sent" THEN strays \cup {asked} ELSE strays
  /\ UNCHANGED asked

(* What spel sent without seeing it included may be included later. *)
CallReturns ==
  /\ phase' = "idle"
  /\ asked' = None
  /\ strays' = IF phase = "sent" THEN strays \cup {asked} ELSE strays

AnchorConfirmed ==
  /\ SpelSucceeds
  /\ Recorded(asked.cid, "confirmed")
  /\ CallReturns
  /\ UNCHANGED <<chainVars, configVars>>

AnchorFailed ==
  /\ SpelFails
  /\ Recorded(asked.cid, "failed")
  /\ CallReturns
  /\ UNCHANGED <<chainVars, configVars>>

(* clearAnchorsJson. *)
ClearAnchors ==
  /\ phase = "idle"
  /\ anchors' = [c \in Cids |-> None]
  /\ anchorFile' = [c \in Cids |-> None]
  /\ UNCHANGED <<chainVars, configVars, callVars>>

(***************************************************************************)
(* The module goes down and comes up: initLogos loads configuration and    *)
(* ledger.  Going down inside saveAnchor empties the file; spel's          *)
(* transaction goes on without it.                                         *)
(***************************************************************************)
Restart ==
  /\ \/ UNCHANGED anchorFile
     \/ (SpelSucceeds \/ SpelFails) /\ anchorFile' = [c \in Cids |-> None]
  /\ LoadAnchorLedger
  /\ ConfigLoaded
  /\ CallReturns
  /\ UNCHANGED <<chainVars, configFile>>

-----------------------------------------------------------------------------
(* The chain, besides this plugin. *)

(* init_registry of anybody: initRegistryJson, or batch-anchor init. *)
OpenRegistry ==
  /\ Chain!InitRegistry
  /\ UNCHANGED <<ledgerVars, configVars, callVars>>

LandStray(r) ==
  /\ r \in strays
  /\ Chain!IndexBatch(Row(r), Self)
  /\ strays' = strays \ {r}
  /\ UNCHANGED <<ledgerVars, configVars, phase, asked>>

DropStray(r) ==
  /\ strays' = strays \ {r}
  /\ UNCHANGED <<chainVars, ledgerVars, configVars, phase, asked>>

(* Another anchorer, such as a batch-anchor watcher, gets there first. *)
OtherAnchors(r, by) ==
  /\ Chain!IndexBatch(Row(r), by)
  /\ UNCHANGED <<ledgerVars, configVars, callVars>>

Next ==
  \/ \E ready \in BOOLEAN : SetAnchorConfig(ready)
  \/ \E r \in Request : AnchorBatch(r)
  \/ RunSpel \/ Land \/ AnchorConfirmed \/ AnchorFailed
  \/ ClearAnchors \/ Restart
  \/ OpenRegistry
  \/ \E r \in strays : LandStray(r) \/ DropStray(r)
  \/ \E r \in Request, by \in Anchorers \ {Self} : OtherAnchors(r, by)

Spec == Init /\ [][Next]_vars

-----------------------------------------------------------------------------
TypeOK ==
  /\ Chain!TypeOK
  /\ anchors \in [Cids -> AnchorRecord \cup {None}]
  /\ anchorFile \in [Cids -> AnchorRecord \cup {None}]
  /\ configured \in BOOLEAN /\ configFile \in BOOLEAN
  /\ phase \in Phases
  /\ asked \in Request \cup {None}
  /\ strays \subseteq Request
  /\ phase = "idle" <=> asked = None

Confirmed(c) == anchors[c] # None /\ anchors[c].state = "confirmed"

(* What the ledger shows as confirmed is on chain, through failed calls,   *)
(* late transactions, restarts, clearing and the other anchorers.          *)
ConfirmedOnChain == \A c \in Cids : Confirmed(c) => c \in Chain!AnchoredCids

(* Disk and memory hold the same ledger: what a restart loads is confirmed. *)
LedgerOnDisk == anchorFile = anchors

(* With a healthy chain and toolchain, a request with a good hash and room *)
(* for its CID is confirmed: logoscore-anchor-smoke.sh asserts it.         *)
GoodRequestsConfirmed ==
  \A c \in Cids :
    anchors[c] # None /\ anchors[c].hash # ZeroHash => anchors[c].state = "confirmed"
=============================================================================
