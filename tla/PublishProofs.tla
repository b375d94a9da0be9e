---------------------------- MODULE PublishProofs ----------------------------
(* Theorems about Publish, for any documents, any retry budget, with or      *)
(* without restarts and a nested event loop.                                 *)
EXTENDS Publish, UploadQueueProofs

-----------------------------------------------------------------------------
(* Type correctness. *)

LEMMA QueueKeepsType ==
  ASSUME TypeOK, Next \/ UNCHANGED vars
  PROVE  TypeOK'
  BY TypeStep

LEMMA QueueStepIsNext == QueueStep => Next
  BY DEF QueueStep, Next

LEMMA UploadFileIsNext == ASSUME NEW u \in Uploads, UploadFile(u) PROVE Next
  BY DEF Next

(* An upload that becomes uploaded gets the CID of some file. *)
LEMMA FailRetryableNotUploaded ==
  ASSUME TypeOK, NEW u \in Uploads, NEW a, NEW keys, NEW due, FailRetryable(u, a, keys, due),
         NEW v \in Uploads, status'[v] = "uploaded"
  PROVE  status[v] = "uploaded"
  BY FailRetryableFails DEF TypeOK, Failed

LEMMA FailForGoodNotUploaded ==
  ASSUME TypeOK, NEW u \in Uploads, NEW keys, FailForGood(u, keys),
         NEW v \in Uploads, status'[v] = "uploaded"
  PROVE  status[v] = "uploaded"
  BY FailForGoodFails DEF TypeOK, Failed

LEMMA UploadedHasCid ==
  ASSUME TypeOK, QueueStep, NEW v \in Uploads, Ends(v), status'[v] = "uploaded"
  PROVE  cid'[v] \in Uploads
  <1> SUFFICES ASSUME cid'[v] \notin Uploads PROVE status[v] = "uploaded"
    BY DEF Ends, Terminal
  <1>1. CASE Subscribe
    BY <1>1 DEF Subscribe, jobVars
  <1>2. ASSUME NEW u \in Uploads, DeadlinePasses(u) PROVE status[v] = "uploaded"
    BY <1>2 DEF DeadlinePasses
  <1>3. ASSUME NEW u \in Uploads, StartUpload(u) PROVE status[v] = "uploaded"
    <2>1. CASE StartIgnored(u)
      BY <2>1 DEF StartIgnored, jobVars
    <2>2. CASE StartUnsubscribed(u)
      BY <2>2, FailRetryableNotUploaded DEF StartUnsubscribed
    <2>3. CASE StartCall(u)
      BY <2>3 DEF TypeOK, StartCall
    <2>4. QED
      BY <1>3, <2>1, <2>2, <2>3 DEF StartUpload
  <1>4. ASSUME NEW u \in Uploads, AttemptTimeout(u) PROVE status[v] = "uploaded"
    BY <1>4, FailRetryableNotUploaded DEF AttemptTimeout
  <1>5. ASSUME NEW i \in DOMAIN calls, StorageAccepts(i) PROVE status[v] = "uploaded"
    BY <1>5 DEF StorageAccepts, jobVars
  <1>6. CASE UploadUrlReturns
    <2>1. CASE UploadUrlSession
      BY <2>1 DEF UploadUrlSession
    <2>2. CASE UploadUrlTransient
      BY <2>2, FailRetryableNotUploaded, WaiterType DEF UploadUrlTransient
    <2>3. CASE UploadUrlRejected
      BY <2>3, FailForGoodNotUploaded, WaiterType DEF UploadUrlRejected
    <2>4. QED
      BY <1>6, <2>1, <2>2, <2>3 DEF UploadUrlReturns
  <1>7. ASSUME NEW s \in inflight, OnUploadDone(s) PROVE status[v] = "uploaded"
    <2>1. s[1] \in Uploads
      BY DEF TypeOK, Session
    <2>2. CASE DoneDropped(s)
      BY <2>2 DEF DoneDropped, jobVars
    <2>3. ASSUME NEW u \in Uploads, DoneTransient(s, u) PROVE status[v] = "uploaded"
      BY <2>3, FailRetryableNotUploaded DEF DoneTransient
    <2>4. ASSUME NEW u \in Uploads, DoneRejected(s, u) PROVE status[v] = "uploaded"
      BY <2>4, FailForGoodNotUploaded DEF DoneRejected
    <2>5. ASSUME NEW u \in Uploads, DoneOversize(s, u) PROVE status[v] = "uploaded"
      BY <2>5, FailForGoodNotUploaded DEF DoneOversize
    <2>6. ASSUME NEW u \in Uploads, DoneUploaded(s, u) PROVE status[v] = "uploaded"
      BY <2>1, <2>6 DEF TypeOK, DoneUploaded
    <2>7. QED
      BY <1>7, <2>2, <2>3, <2>4, <2>5, <2>6 DEF OnUploadDone
  <1>8. QED
    BY <1>1, <1>2, <1>3, <1>4, <1>5, <1>6, <1>7 DEF QueueStep

LEMMA UploadKeyType ==
  ASSUME TypeOK, QueueStep, NEW u \in Uploads, Ends(u), status'[u] = "uploaded"
  PROVE  UploadKey(u) \in Keys
  BY UploadedHasCid DEF UploadKey, Keys

(* The variables of Publish itself. *)
OwnTypeOK ==
  /\ pub \in [Uploads -> PubStatus]
  /\ want \subseteq Uploads
  /\ pubKey \in [Uploads -> Keys \cup {None}]
  /\ linked \subseteq Uploads
  /\ broadcasts \in Seq(Broadcast)
  /\ deliveryUp \in BOOLEAN
  /\ ledger \in [Uploads -> Row \cup {None}]
  /\ handed \subseteq Keys
  /\ spent \subseteq Uploads

LEMMA SavedType ==
  ASSUME OwnTypeOK, NEW u \in Uploads, NEW s \in PubStatus, NEW k \in Keys \cup {None}
  PROVE  Saved(u, s, k) \in [Uploads -> Row \cup {None}]
  BY DEF OwnTypeOK, Saved, Row

LEMMA QueueBroadcastType ==
  ASSUME OwnTypeOK, NEW k \in Keys, NEW owner \in Uploads \cup {None},
         QueueBroadcast(k, owner)
  PROVE  broadcasts' \in Seq(Broadcast)
  <1>1. ASSUME NEW i \in Duplicates(k), broadcasts' = [broadcasts EXCEPT ![i].owner = owner]
        PROVE  broadcasts' \in Seq(Broadcast)
    <2>1. i \in DOMAIN broadcasts /\ broadcasts[i] \in Broadcast
      BY DEF Duplicates, OwnTypeOK
    <2>2. [broadcasts[i] EXCEPT !.owner = owner] \in Broadcast
      BY <2>1 DEF Broadcast
    <2>3. QED
      BY <1>1, <2>1, <2>2 DEF OwnTypeOK
  <1>2. ASSUME broadcasts' = Append(broadcasts, [key |-> k, status |-> "queued", owner |-> owner])
        PROVE  broadcasts' \in Seq(Broadcast)
    <2>1. [key |-> k, status |-> "queued", owner |-> owner] \in Broadcast
      BY DEF Broadcast
    <2>2. QED
      BY <1>2, <2>1 DEF OwnTypeOK
  <1>3. QED
    BY <1>1, <1>2 DEF QueueBroadcast, OwnTypeOK

LEMMA AfterUploadType ==
  ASSUME TypeOK, OwnTypeOK, QueueStep
  PROVE  OwnTypeOK'
  <1>1. CASE UNCHANGED publishVars
    BY <1>1 DEF OwnTypeOK, publishVars, pubVars, sendVars
  <1>2. ASSUME NEW u \in Uploads, UploadFailed(u) PROVE OwnTypeOK'
    <2>1. pubKey[u] \in Keys \cup {None} /\ "error" \in PubStatus
      BY DEF OwnTypeOK, PubStatus
    <2>2. ledger' \in [Uploads -> Row \cup {None}]
      BY <1>2, <2>1, SavedType DEF UploadFailed
    <2>3. QED
      BY <1>2, <2>1, <2>2 DEF OwnTypeOK, UploadFailed, sendVars
  <1>3. ASSUME NEW u \in Uploads, UploadedOnly(u) PROVE OwnTypeOK'
    <2>1. UploadKey(u) \in Keys \cup {None} /\ "done" \in PubStatus
      BY <1>3, UploadKeyType DEF UploadedOnly, PubStatus
    <2>2. ledger' \in [Uploads -> Row \cup {None}]
      BY <1>3, <2>1, SavedType DEF UploadedOnly
    <2>3. QED
      BY <1>3, <2>1, <2>2 DEF OwnTypeOK, UploadedOnly, sendVars
  <1>4. ASSUME NEW u \in Uploads, UploadedToBroadcast(u) PROVE OwnTypeOK'
    <2>1. UploadKey(u) \in Keys /\ "broadcasting" \in PubStatus
      BY <1>4, UploadKeyType DEF UploadedToBroadcast, PubStatus
    <2>2. broadcasts' \in Seq(Broadcast)
      BY <1>4, <2>1, QueueBroadcastType DEF UploadedToBroadcast
    <2>3. QED
      BY <1>4, <2>1, <2>2 DEF OwnTypeOK, UploadedToBroadcast
  <1>5. QED
    BY <1>1, <1>2, <1>3, <1>4 DEF QueueStep, AfterUpload, UploadEndsUnpublished

LEMMA SendType ==
  ASSUME OwnTypeOK, NEW i \in DOMAIN broadcasts, SendBroadcast(i)
  PROVE  OwnTypeOK'
  <1>1. broadcasts[i] \in Broadcast
    BY DEF OwnTypeOK
  <1>2. ASSUME NEW verdict \in {"done", "error"}, AfterBroadcast(i, verdict)
        PROVE  /\ pub' \in [Uploads -> PubStatus]
               /\ ledger' \in [Uploads -> Row \cup {None}]
    <2>1. CASE UNCHANGED <<pub, ledger>>
      BY <2>1 DEF OwnTypeOK
    <2>2. CASE /\ broadcasts[i].owner # None
               /\ pub' = [pub EXCEPT ![broadcasts[i].owner] = verdict]
               /\ ledger' = Saved(broadcasts[i].owner, verdict, pubKey[broadcasts[i].owner])
      <3>1. broadcasts[i].owner \in Uploads /\ verdict \in PubStatus
        BY <1>1, <2>2 DEF Broadcast, PubStatus
      <3>2. pubKey[broadcasts[i].owner] \in Keys \cup {None}
        BY <3>1 DEF OwnTypeOK
      <3>3. QED
        BY <2>2, <3>1, <3>2, SavedType DEF OwnTypeOK
    <2>3. QED
      BY <1>2, <2>1, <2>2 DEF AfterBroadcast
  <1>3. CASE SendSent(i)
    <2>1. [broadcasts[i] EXCEPT !.status = "sent"] \in Broadcast
      BY <1>1 DEF Broadcast
    <2>2. broadcasts' \in Seq(Broadcast)
      BY <1>3, <2>1 DEF OwnTypeOK, SendSent
    <2>3. broadcasts[i].key \in Keys
      BY <1>1 DEF Broadcast
    <2>4. QED
      BY <1>2, <1>3, <2>2, <2>3 DEF OwnTypeOK, SendSent
  <1>4. CASE SendUnavailable(i)
    <2>1. [broadcasts[i] EXCEPT !.status = "error"] \in Broadcast
      BY <1>1 DEF Broadcast
    <2>2. broadcasts' \in Seq(Broadcast)
      BY <1>4, <2>1 DEF OwnTypeOK, SendUnavailable
    <2>3. QED
      BY <1>2, <1>4, <2>2 DEF OwnTypeOK, SendUnavailable
  <1>5. QED
    BY <1>3, <1>4 DEF SendBroadcast

LEMMA LoadLedgerType ==
  ASSUME ledger' \in [Uploads -> Row \cup {None}], LoadLedger
  PROVE  /\ pub' \in [Uploads -> PubStatus]
         /\ pubKey' \in [Uploads -> Keys \cup {None}]
  <1>1. ASSUME NEW u \in Uploads, ledger'[u] # None
        PROVE  ledger'[u].status \in PubStatus /\ ledger'[u].key \in Keys \cup {None}
    BY <1>1 DEF Row
  <1>2. QED
    BY <1>1 DEF LoadLedger, PubStatus

LEMMA RestartType ==
  ASSUME TypeOK, OwnTypeOK, Restart
  PROVE  TypeOK' /\ OwnTypeOK'
  <1>1. /\ status' \in [Uploads -> Status]
        /\ active' \in Uploads \cup {None}
        /\ sessionId' \in [Uploads -> Session \cup {None}]
        /\ cid' \in [Uploads -> Uploads \cup {None}]
    BY DEF Restart, Status
  <1>2. attempt' \in [Uploads -> Nat] /\ timers' \in [Uploads -> Nat]
    BY DEF Restart
  <1>3. TypeOK'
    <2>1. calls' \in Seq(Call)
      BY DEF Restart
    <2>2. QED
      BY <1>1, <1>2, <2>1 DEF TypeOK, Restart
  <1>4. ledger' \in [Uploads -> Row \cup {None}]
    BY DEF Restart, OwnTypeOK
  <1>5. /\ pub' \in [Uploads -> PubStatus]
        /\ pubKey' \in [Uploads -> Keys \cup {None}]
    BY <1>4, LoadLedgerType DEF Restart
  <1>6. broadcasts' \in Seq(Broadcast)
    BY DEF Restart
  <1>7. OwnTypeOK'
    BY <1>4, <1>5, <1>6 DEF OwnTypeOK, Restart
  <1>8. QED
    BY <1>3, <1>7

LEMMA PublishTypeStep ==
  TypeOK /\ OwnTypeOK /\ [PublishNext]_allVars => TypeOK' /\ OwnTypeOK'
  <1> SUFFICES ASSUME TypeOK, OwnTypeOK, [PublishNext]_allVars PROVE TypeOK' /\ OwnTypeOK'
    OBVIOUS
  <1>1. ASSUME NEW u \in Uploads, NEW bcast \in BOOLEAN, PublishFile(u, bcast)
        PROVE  TypeOK' /\ OwnTypeOK'
    <2>1. TypeOK'
      BY <1>1, UploadFileIsNext, QueueKeepsType DEF PublishFile
    <2>2. QED
      BY <1>1, <2>1 DEF OwnTypeOK, PublishFile, sendVars, PubStatus
  <1>2. ASSUME NEW u \in Uploads, PlainUpload(u) PROVE TypeOK' /\ OwnTypeOK'
    <2>1. TypeOK'
      BY <1>2, UploadFileIsNext, QueueKeepsType DEF PlainUpload
    <2>2. QED
      BY <1>2, <2>1 DEF OwnTypeOK, PlainUpload, publishVars, pubVars, sendVars
  <1>3. CASE QueueStep
    BY <1>3, QueueStepIsNext, QueueKeepsType, AfterUploadType
  <1>4. ASSUME NEW k \in Posted, PostEnvelope(k) PROVE TypeOK' /\ OwnTypeOK'
    <2>1. TypeOK'
      BY <1>4, QueueKeepsType DEF PostEnvelope
    <2>2. broadcasts' \in Seq(Broadcast)
      BY <1>4, QueueBroadcastType DEF PostEnvelope, Keys
    <2>3. QED
      BY <1>4, <2>1, <2>2 DEF OwnTypeOK, PostEnvelope, pubVars
  <1>5. ASSUME NEW i \in DOMAIN broadcasts, SendBroadcast(i) PROVE TypeOK' /\ OwnTypeOK'
    <2>1. TypeOK'
      BY <1>5, QueueKeepsType DEF SendBroadcast, SendSent, SendUnavailable
    <2>2. QED
      BY <1>5, <2>1, SendType
  <1>6. CASE ClearPublished
    <2>1. TypeOK'
      BY <1>6, QueueKeepsType DEF ClearPublished
    <2>2. QED
      BY <1>6, <2>1 DEF OwnTypeOK, ClearPublished, LedgerRemoved, sendVars, PubStatus
  <1>7. CASE Restart
    BY <1>7, RestartType
  <1>8. CASE UNCHANGED allVars
    <2>1. TypeOK'
      BY <1>8, QueueKeepsType DEF allVars
    <2>2. QED
      BY <1>8, <2>1 DEF OwnTypeOK, allVars, publishVars, pubVars, sendVars
  <1>9. QED
    BY <1>1, <1>2, <1>3, <1>4, <1>5, <1>6, <1>7, <1>8 DEF PublishNext

LEMMA PublishTypeInit == PublishInit => TypeOK /\ OwnTypeOK
  <1> SUFFICES ASSUME PublishInit PROVE TypeOK /\ OwnTypeOK
    OBVIOUS
  <1>1. TypeOK
    BY QueueTypeInit DEF PublishInit
  <1>2. /\ pub \in [Uploads -> PubStatus]
        /\ pubKey \in [Uploads -> Keys \cup {None}]
        /\ ledger \in [Uploads -> Row \cup {None}]
    BY DEF PublishInit, PubStatus
  <1>3. broadcasts \in Seq(Broadcast)
    BY DEF PublishInit
  <1>4. QED
    BY <1>1, <1>2, <1>3 DEF PublishInit, OwnTypeOK

(* Queue and publishes keep their types, through restarts and torn writes. *)
THEOREM PublishTypeCorrect == PublishSpec => []PublishTypeOK
  <1>1. TypeOK /\ OwnTypeOK => PublishTypeOK
    BY DEF PublishTypeOK, OwnTypeOK
  <1>2. QED
    BY <1>1, PublishTypeInit, PublishTypeStep, PTL DEF PublishSpec

-----------------------------------------------------------------------------
(* Disk and memory agree. *)

(* LedgerAgrees alone is not inductive: what a restart makes of a row must   *)
(* be a publish that is over, so every row has to say so.                    *)
LedgerInv ==
  /\ LedgerAgrees
  /\ \A u \in Uploads : ledger[u] # None => ledger[u].status \in {"done", "error"}

(* What is saved is what memory says, so saving keeps the invariant. *)
LEMMA SaveKeepsLedgerInv ==
  ASSUME OwnTypeOK, LedgerInv, NEW u \in Uploads, NEW s \in {"done", "error"}, NEW k,
         pub' = [pub EXCEPT ![u] = s],
         pubKey' = [pubKey EXCEPT ![u] = k],
         ledger' = Saved(u, s, k)
  PROVE  LedgerInv'
  <1>1. /\ pub'[u] = s /\ pubKey'[u] = k
        /\ ledger'[u] = [status |-> s, key |-> k]
    BY DEF OwnTypeOK, Saved
  <1>2. ASSUME NEW v \in Uploads, v # u
        PROVE  pub'[v] = pub[v] /\ pubKey'[v] = pubKey[v] /\ ledger'[v] = ledger[v]
    BY <1>2 DEF OwnTypeOK, Saved
  <1>3. QED
    BY <1>1, <1>2 DEF LedgerInv, LedgerAgrees

(* A publish that is under way may do anything but write the ledger. *)
LEMMA UnderWayKeepsLedgerInv ==
  ASSUME OwnTypeOK, LedgerInv, NEW u \in Uploads, NEW s \in {"uploading", "broadcasting"},
         pub' = [pub EXCEPT ![u] = s],
         \A v \in Uploads \ {u} : pubKey'[v] = pubKey[v],
         ledger' = ledger
  PROVE  LedgerInv'
  BY DEF OwnTypeOK, LedgerInv, LedgerAgrees

LEMMA AfterBroadcastKeepsLedgerInv ==
  ASSUME OwnTypeOK, LedgerInv, NEW i \in DOMAIN broadcasts,
         NEW verdict \in {"done", "error"}, AfterBroadcast(i, verdict), UNCHANGED pubKey
  PROVE  LedgerInv'
  <1>1. CASE UNCHANGED <<pub, ledger>>
    BY <1>1 DEF LedgerInv, LedgerAgrees
  <1>2. ASSUME NEW u, u = broadcasts[i].owner, u # None,
               pub' = [pub EXCEPT ![u] = verdict],
               ledger' = Saved(u, verdict, pubKey[u])
        PROVE  LedgerInv'
    <2>1. u \in Uploads
      <3>1. broadcasts[i] \in Broadcast
        BY DEF OwnTypeOK
      <3>2. QED
        BY <1>2, <3>1 DEF Broadcast
    <2>2. pubKey' = [pubKey EXCEPT ![u] = pubKey[u]]
      BY <2>1 DEF OwnTypeOK
    <2>3. QED
      BY <1>2, <2>1, <2>2, SaveKeepsLedgerInv
  <1>3. QED
    BY <1>1, <1>2 DEF AfterBroadcast

LEMMA LedgerStep ==
  OwnTypeOK /\ LedgerInv /\ [PublishNext]_allVars => LedgerInv'
  <1> SUFFICES ASSUME OwnTypeOK, LedgerInv, [PublishNext]_allVars PROVE LedgerInv'
    OBVIOUS
  <1>1. ASSUME UNCHANGED <<pub, pubKey, ledger>> PROVE LedgerInv'
    BY <1>1 DEF LedgerInv, LedgerAgrees
  <1>2. ASSUME NEW u \in Uploads, NEW bcast \in BOOLEAN, PublishFile(u, bcast) PROVE LedgerInv'
    BY <1>2, UnderWayKeepsLedgerInv DEF PublishFile
  <1>3. ASSUME NEW u \in Uploads, PlainUpload(u) PROVE LedgerInv'
    BY <1>1, <1>3 DEF PlainUpload, publishVars, pubVars
  <1>4. CASE QueueStep
    <2>1. CASE UNCHANGED publishVars
      BY <1>1, <2>1 DEF publishVars, pubVars
    <2>2. ASSUME NEW u \in Uploads, UploadFailed(u) PROVE LedgerInv'
      <3>1. pubKey' = [pubKey EXCEPT ![u] = pubKey[u]]
        BY <2>2 DEF UploadFailed, OwnTypeOK
      <3>2. QED
        BY <2>2, <3>1, SaveKeepsLedgerInv DEF UploadFailed
    <2>3. ASSUME NEW u \in Uploads, UploadedOnly(u) PROVE LedgerInv'
      BY <2>3, SaveKeepsLedgerInv DEF UploadedOnly
    <2>4. ASSUME NEW u \in Uploads, UploadedToBroadcast(u) PROVE LedgerInv'
      <3>1. \A v \in Uploads \ {u} : pubKey'[v] = pubKey[v]
        BY <2>4 DEF UploadedToBroadcast, OwnTypeOK
      <3>2. QED
        BY <2>4, <3>1, UnderWayKeepsLedgerInv DEF UploadedToBroadcast
    <2>5. QED
      BY <1>4, <2>1, <2>2, <2>3, <2>4 DEF QueueStep, AfterUpload, UploadEndsUnpublished
  <1>5. ASSUME NEW k \in Posted, PostEnvelope(k) PROVE LedgerInv'
    BY <1>1, <1>5 DEF PostEnvelope, pubVars
  <1>6. ASSUME NEW i \in DOMAIN broadcasts, SendBroadcast(i) PROVE LedgerInv'
    BY <1>6, AfterBroadcastKeepsLedgerInv DEF SendBroadcast, SendSent, SendUnavailable
  <1>7. CASE ClearPublished
    BY <1>7 DEF ClearPublished, LedgerRemoved, LedgerInv, LedgerAgrees
  <1>8. CASE Restart
    <2>1. ASSUME NEW u \in Uploads, ledger'[u] # None
          PROVE  /\ ledger[u] # None
                 /\ ledger'[u] = ledger[u]
                 /\ ledger[u].status \in {"done", "error"}
                 /\ ledger[u] \in Row
      BY <1>8, <2>1 DEF Restart, LedgerInv, OwnTypeOK
    <2>2. ASSUME NEW u \in Uploads
          PROVE  /\ pub'[u] = IF ledger'[u] = None THEN "absent" ELSE ledger'[u].status
                 /\ pubKey'[u] = IF ledger'[u] = None THEN None ELSE ledger'[u].key
      BY <1>8 DEF Restart, LoadLedger
    <2>3. ASSUME NEW u \in Uploads, pub'[u] \in {"done", "error"}
          PROVE  ledger'[u] = [status |-> pub'[u], key |-> pubKey'[u]]
      BY <2>1, <2>2, <2>3 DEF Row
    <2>4. QED
      BY <2>1, <2>2, <2>3 DEF LedgerInv, LedgerAgrees
  <1>9. CASE UNCHANGED allVars
    BY <1>1, <1>9 DEF allVars, publishVars, pubVars
  <1>10. QED
    BY <1>2, <1>3, <1>4, <1>5, <1>6, <1>7, <1>8, <1>9 DEF PublishNext

(* The ledger says of every publish that is over what memory says of it, and *)
(* knows none that memory does not.                                          *)
THEOREM LedgerAlwaysAgrees == PublishSpec => []LedgerAgrees
  <1>1. PublishInit => LedgerInv
    BY DEF PublishInit, LedgerInv, LedgerAgrees
  <1>2. LedgerInv => LedgerAgrees
    BY DEF LedgerInv
  <1>3. QED
    BY <1>1, <1>2, LedgerStep, PublishTypeInit, PublishTypeStep, PTL DEF PublishSpec

-----------------------------------------------------------------------------
(* One broadcast for each envelope. *)

LEMMA QueueBroadcastKeepsOne ==
  ASSUME OwnTypeOK, OneBroadcastPerKey, NEW k \in Keys, NEW owner \in Uploads \cup {None},
         QueueBroadcast(k, owner)
  PROVE  OneBroadcastPerKey'
  <1>1. ASSUME NEW i \in Duplicates(k), broadcasts' = [broadcasts EXCEPT ![i].owner = owner]
        PROVE  OneBroadcastPerKey'
    <2>1. DOMAIN broadcasts' = DOMAIN broadcasts
      BY <1>1 DEF OwnTypeOK
    <2>2. ASSUME NEW j \in DOMAIN broadcasts
          PROVE  /\ broadcasts'[j].key = broadcasts[j].key
                 /\ broadcasts'[j].status = broadcasts[j].status
      <3>1. broadcasts[j] \in Broadcast
        BY DEF OwnTypeOK
      <3>2. QED
        BY <1>1, <3>1 DEF OwnTypeOK, Broadcast
    <2>3. QED
      BY <2>1, <2>2 DEF OneBroadcastPerKey
  <1>2. ASSUME Duplicates(k) = {},
               broadcasts' = Append(broadcasts, [key |-> k, status |-> "queued", owner |-> owner])
        PROVE  OneBroadcastPerKey'
    <2>1. /\ DOMAIN broadcasts = 1 .. Len(broadcasts)
          /\ DOMAIN broadcasts' = 1 .. Len(broadcasts) + 1
          /\ Len(broadcasts) \in Nat
          /\ \A j \in DOMAIN broadcasts : broadcasts'[j] = broadcasts[j]
          /\ broadcasts'[Len(broadcasts) + 1].key = k
      BY <1>2 DEF OwnTypeOK
    <2>2. \A j \in DOMAIN broadcasts : broadcasts[j].key = k => broadcasts[j].status = "error"
      BY <1>2 DEF Duplicates
    <2>3. QED
      BY <2>1, <2>2 DEF OneBroadcastPerKey
  <1>3. QED
    BY <1>1, <1>2 DEF QueueBroadcast, OneBroadcastPerKey

LEMMA OneBroadcastStep ==
  TypeOK /\ OwnTypeOK /\ OneBroadcastPerKey /\ [PublishNext]_allVars => OneBroadcastPerKey'
  <1> SUFFICES ASSUME TypeOK, OwnTypeOK, OneBroadcastPerKey, [PublishNext]_allVars
               PROVE  OneBroadcastPerKey'
    OBVIOUS
  <1>1. ASSUME UNCHANGED broadcasts PROVE OneBroadcastPerKey'
    BY <1>1 DEF OneBroadcastPerKey
  <1>2. ASSUME NEW u \in Uploads, NEW bcast \in BOOLEAN, PublishFile(u, bcast)
        PROVE  OneBroadcastPerKey'
    BY <1>1, <1>2 DEF PublishFile, sendVars
  <1>3. ASSUME NEW u \in Uploads, PlainUpload(u) PROVE OneBroadcastPerKey'
    BY <1>1, <1>3 DEF PlainUpload, publishVars, sendVars
  <1>4. CASE QueueStep
    <2>1. ASSUME NEW u \in Uploads, UploadedToBroadcast(u) PROVE OneBroadcastPerKey'
      <3>1. UploadKey(u) \in Keys /\ QueueBroadcast(UploadKey(u), u)
        BY <1>4, <2>1, UploadKeyType DEF UploadedToBroadcast
      <3>2. QED
        BY <3>1, QueueBroadcastKeepsOne
    <2>2. QED
      BY <1>1, <1>4, <2>1
         DEF QueueStep, AfterUpload, UploadEndsUnpublished, UploadFailed, UploadedOnly,
             publishVars, sendVars
  <1>5. ASSUME NEW k \in Posted, PostEnvelope(k) PROVE OneBroadcastPerKey'
    BY <1>5, QueueBroadcastKeepsOne DEF PostEnvelope, Keys
  <1>6. ASSUME NEW i \in DOMAIN broadcasts, SendBroadcast(i) PROVE OneBroadcastPerKey'
    <2>1. PICK s \in {"sent", "error"} : broadcasts' = [broadcasts EXCEPT ![i].status = s]
      BY <1>6 DEF SendBroadcast, SendSent, SendUnavailable
    <2>2. broadcasts[i].status = "queued"
      BY <1>6 DEF SendBroadcast, SendSent, SendUnavailable
    <2>3. ASSUME NEW j \in DOMAIN broadcasts
          PROVE  /\ broadcasts'[j].key = broadcasts[j].key
                 /\ broadcasts'[j].status # "error" => broadcasts[j].status # "error"
      <3>1. broadcasts[j] \in Broadcast
        BY DEF OwnTypeOK
      <3>2. QED
        BY <2>1, <2>2, <3>1 DEF OwnTypeOK, Broadcast
    <2>4. DOMAIN broadcasts' = DOMAIN broadcasts
      BY <2>1 DEF OwnTypeOK
    <2>5. QED
      BY <2>3, <2>4 DEF OneBroadcastPerKey
  <1>7. CASE ClearPublished
    BY <1>1, <1>7 DEF ClearPublished, sendVars
  <1>8. CASE Restart
    BY <1>8 DEF Restart, OneBroadcastPerKey
  <1>9. CASE UNCHANGED allVars
    BY <1>1, <1>9 DEF allVars, publishVars, sendVars
  <1>10. QED
    BY <1>2, <1>3, <1>4, <1>5, <1>6, <1>7, <1>8, <1>9 DEF PublishNext

(* The duplicate check works: one CID and metadata hash never has two        *)
(* broadcasts that are queued or sent, whoever asks for them.                *)
THEOREM NoDuplicateBroadcast == PublishSpec => []OneBroadcastPerKey
  <1>1. PublishInit => OneBroadcastPerKey
    BY DEF PublishInit, OneBroadcastPerKey
  <1>2. QED
    BY <1>1, OneBroadcastStep, PublishTypeInit, PublishTypeStep, PTL DEF PublishSpec

-----------------------------------------------------------------------------
(* What afterUpload may rely on when uploadUrl's wait serves no other event. *)

QueueInv == ActiveIsUploading /\ SerialInv /\ SourceInv

(* The invariants of the queue alone outlive a restart, which empties it. *)
LEMMA QueueInvStep ==
  ASSUME ~ Reentrant, TypeOK, QueueInv, Next \/ UNCHANGED vars
  PROVE  QueueInv'
  BY LocalStep, SerialStep, SourceStep DEF QueueInv, LocalKept

LEMMA RestartKeepsQueueInv ==
  ASSUME Restart
  PROVE  QueueInv'
  <1>1. ActiveIsUploading'
    BY DEF Restart, ActiveIsUploading
  <1>2. SerialInv'
    BY DEF Restart, SerialInv, OneInFlight, CallIsActive, SessionMapLive
  <1>3. SourceInv'
    BY DEF Restart, SourceInv
  <1>4. QED
    BY <1>1, <1>2, <1>3 DEF QueueInv

(***************************************************************************)
(* A step of the queue ends only uploads that it leaves without a staged   *)
(* copy, and lets none succeed that had no such copy before.               *)
(***************************************************************************)
EndsCleanly ==
  /\ staged' \subseteq staged
  /\ \A u \in Uploads :
       /\ status'[u] = "absent" <=> status[u] = "absent"
       /\ Ends(u) => u \notin staged'
       /\ Ends(u) /\ status'[u] = "uploaded" => u \in staged

LEMMA FailedEndsCleanly ==
  ASSUME TypeOK, NEW u \in Uploads, status[u] # "absent", NEW keys, Failed(u, keys)
  PROVE  EndsCleanly
  BY DEF TypeOK, Failed, EndsCleanly, Ends, Terminal

LEMMA WaiterUploads ==
  ASSUME TypeOK, QueueInv, CallOver
  PROVE  Waiter \in Uploads /\ status[Waiter] = "uploading"
  <1>1. Waiter = active /\ Waiter \in Uploads
    BY WaiterType, OnlyCall DEF QueueInv
  <1>2. QED
    BY <1>1, UploadQueueAssumption DEF QueueInv, ActiveIsUploading

LEMMA CreditedUploads ==
  ASSUME QueueInv, NEW s, NEW u \in Credited(s)
  PROVE  status[u] = "uploading"
  BY DEF Credited, QueueInv, SerialInv, SessionMapLive

LEMMA QueueStepEndsCleanly ==
  ASSUME ~ Reentrant, TypeOK, QueueInv, QueueStep
  PROVE  EndsCleanly
  <1>1. CASE UNCHANGED <<status, staged>>
    BY <1>1 DEF EndsCleanly, Ends
  <1>2. CASE Subscribe
    BY <1>1, <1>2 DEF Subscribe, jobVars
  <1>3. ASSUME NEW u \in Uploads, DeadlinePasses(u) PROVE EndsCleanly
    BY <1>1, <1>3 DEF DeadlinePasses
  <1>4. ASSUME NEW u \in Uploads, StartUpload(u) PROVE EndsCleanly
    <2>1. CASE StartIgnored(u)
      BY <1>1, <2>1 DEF StartIgnored, jobVars
    <2>2. ASSUME TimerDue(u) PROVE status[u] # "absent"
      BY <2>2 DEF TimerDue, QueueInv, SourceInv
    <2>3. CASE StartUnsubscribed(u)
      BY <2>2, <2>3, FailRetryableFails, FailedEndsCleanly DEF StartUnsubscribed
    <2>4. CASE StartCall(u)
      BY <2>2, <2>4 DEF StartCall, TypeOK, EndsCleanly, Ends, Terminal
    <2>5. QED
      BY <1>4, <2>1, <2>3, <2>4 DEF StartUpload
  <1>5. ASSUME NEW u \in Uploads, AttemptTimeout(u) PROVE EndsCleanly
    BY <1>5, FailRetryableFails, FailedEndsCleanly DEF AttemptTimeout, AttemptRuns
  <1>6. ASSUME NEW i \in DOMAIN calls, StorageAccepts(i) PROVE EndsCleanly
    BY <1>1, <1>6 DEF StorageAccepts, jobVars
  <1>7. CASE UploadUrlReturns
    <2>1. CASE UploadUrlSession
      BY <1>1, <2>1 DEF UploadUrlSession
    <2>2. CASE UploadUrlTransient
      BY <2>2, WaiterUploads, FailRetryableFails, FailedEndsCleanly DEF UploadUrlTransient
    <2>3. CASE UploadUrlRejected
      BY <2>3, WaiterUploads, FailForGoodFails, FailedEndsCleanly DEF UploadUrlRejected
    <2>4. QED
      BY <1>7, <2>1, <2>2, <2>3 DEF UploadUrlReturns
  <1>8. ASSUME NEW s \in inflight, OnUploadDone(s) PROVE EndsCleanly
    <2>1. CASE DoneDropped(s)
      BY <1>1, <2>1 DEF DoneDropped, jobVars
    <2>2. ASSUME NEW u \in Uploads, DoneTransient(s, u) PROVE EndsCleanly
      BY <2>2, CreditedUploads, FailRetryableFails, FailedEndsCleanly DEF DoneTransient
    <2>3. ASSUME NEW u \in Uploads, DoneRejected(s, u) \/ DoneOversize(s, u)
          PROVE  EndsCleanly
      BY <2>3, CreditedUploads, FailForGoodFails, FailedEndsCleanly
         DEF DoneRejected, DoneOversize
    <2>4. ASSUME NEW u \in Uploads, DoneUploaded(s, u) PROVE EndsCleanly
      <3>1. status[u] = "uploading" /\ calls = <<>>
        BY <2>4, CreditedUploads DEF DoneUploaded, DoneEvent, Idle
      <3>2. u \in staged
        BY <3>1 DEF QueueInv, SourceInv
      <3>3. QED
        BY <2>4, <3>1, <3>2 DEF DoneUploaded, Unstaged, TypeOK, EndsCleanly, Ends, Terminal
    <2>5. QED
      BY <1>8, <2>1, <2>2, <2>3, <2>4 DEF OnUploadDone
  <1>9. QED
    BY <1>2, <1>3, <1>4, <1>5, <1>6, <1>7, <1>8 DEF QueueStep

-----------------------------------------------------------------------------
(* "done" means handed to the network. *)

(* Every publish has an id that was handed out. *)
IdsInv == \A u \in Uploads : pub[u] # "absent" => status[u] # "absent" \/ u \in spent

(* Every row of the file is of a publish that is over in memory too. *)
RowsInv == \A u \in Uploads : ledger[u] # None => pub[u] \in {"done", "error"}

(* As long as the staged copy is there the publish waits for its upload. *)
LinkedInv ==
  \A u \in linked : /\ status[u] # "absent"
                    /\ u \in staged => pub[u] \in {"absent", "uploading"}

(***************************************************************************)
(* A publish gets a broadcast when its upload is over and has the CID and  *)
(* hash of that broadcast from then on, as no upload is over twice.        *)
(***************************************************************************)
OwnerInv ==
  \A i \in DOMAIN broadcasts, u \in Uploads :
    broadcasts[i].owner = u => /\ status[u] # "absent" /\ u \notin staged
                               /\ pub[u] # "absent" => pubKey[u] = broadcasts[i].key

(* A publish has one broadcast at most, and is not done before that is sent. *)
OnceInv ==
  \A i \in DOMAIN broadcasts, u \in Uploads :
    broadcasts[i].owner = u =>
      /\ broadcasts[i].status = "queued" => pub[u] # "done"
      /\ \A j \in DOMAIN broadcasts : broadcasts[j].owner = u => i = j

PipelineInv ==
  IdsInv /\ RowsInv /\ LinkedInv /\ OwnerInv /\ OnceInv /\ DoneWasHanded

LEMMA NewUploadKeepsPipeline ==
  ASSUME TypeOK, OwnTypeOK, PipelineInv, NEW u \in Uploads, UploadFile(u), u \notin spent,
         UNCHANGED <<pubKey, broadcasts, handed, ledger, spent>>,
         \/ UNCHANGED <<pub, want, linked>>
         \/ /\ pub' = [pub EXCEPT ![u] = "uploading"]
            /\ want' \subseteq want \cup {u}
            /\ linked' = linked \cup {u}
  PROVE  PipelineInv'
  <1>1. /\ status[u] = "absent" /\ pub[u] = "absent" /\ ledger[u] = None /\ u \notin linked
        /\ \A i \in DOMAIN broadcasts : broadcasts[i].owner # u
    <2>1. status[u] = "absent"
      BY DEF UploadFile
    <2>2. pub[u] = "absent"
      BY <2>1 DEF PipelineInv, IdsInv
    <2>3. ledger[u] = None
      BY <2>2 DEF PipelineInv, RowsInv
    <2>4. u \notin linked
      BY <2>1 DEF PipelineInv, LinkedInv
    <2>5. \A i \in DOMAIN broadcasts : broadcasts[i].owner # u
      BY <2>1 DEF PipelineInv, OwnerInv
    <2>6. QED
      BY <2>1, <2>2, <2>3, <2>4, <2>5
  <1>2. /\ status' = [status EXCEPT ![u] = "queued"]
        /\ staged' = staged \cup {u}
    BY DEF UploadFile
  <1>3. /\ \A v \in Uploads \ {u} : pub'[v] = pub[v] /\ (v \in want' => v \in want)
        /\ pub'[u] \in {"absent", "uploading"}
        /\ linked' \subseteq linked \cup {u}
    BY <1>1 DEF OwnTypeOK
  <1>4. IdsInv'
    BY <1>2, <1>3 DEF TypeOK, PipelineInv, IdsInv
  <1>5. RowsInv'
    BY <1>1, <1>3 DEF PipelineInv, RowsInv
  <1>6. LinkedInv'
    BY <1>2, <1>3 DEF TypeOK, OwnTypeOK, PipelineInv, LinkedInv
  <1>7. OwnerInv'
    BY <1>1, <1>2, <1>3 DEF TypeOK, PipelineInv, OwnerInv
  <1>8. DoneWasHanded'
    BY <1>3 DEF OwnTypeOK, PipelineInv, DoneWasHanded
  <1>9. OnceInv'
    BY <1>1, <1>3 DEF PipelineInv, OnceInv
  <1>10. QED
    BY <1>4, <1>5, <1>6, <1>7, <1>8, <1>9 DEF PipelineInv

(* The envelope of a publish is queued, or found in the queue. *)
LEMMA QueueBroadcastOwners ==
  ASSUME OwnTypeOK, NEW k \in Keys, NEW owner \in Uploads \cup {None},
         QueueBroadcast(k, owner), NEW i \in DOMAIN broadcasts'
  PROVE  \/ broadcasts'[i].owner = owner /\ broadcasts'[i].key = k
         \/ i \in DOMAIN broadcasts /\ broadcasts'[i] = broadcasts[i]
  <1>1. CASE broadcasts' = broadcasts
    BY <1>1
  <1>2. ASSUME NEW d \in Duplicates(k), broadcasts' = [broadcasts EXCEPT ![d].owner = owner]
        PROVE  \/ broadcasts'[i].owner = owner /\ broadcasts'[i].key = k
               \/ i \in DOMAIN broadcasts /\ broadcasts'[i] = broadcasts[i]
    <2>1. d \in DOMAIN broadcasts /\ broadcasts[d].key = k /\ broadcasts[d] \in Broadcast
      BY DEF Duplicates, OwnTypeOK
    <2>2. broadcasts' = [broadcasts EXCEPT ![d] = [broadcasts[d] EXCEPT !.owner = owner]]
      BY <1>2
    <2>3. /\ [broadcasts[d] EXCEPT !.owner = owner].owner = owner
          /\ [broadcasts[d] EXCEPT !.owner = owner].key = k
      BY <2>1 DEF Broadcast
    <2>4. QED
      BY <2>1, <2>2, <2>3
  <1>3. CASE broadcasts' = Append(broadcasts, [key |-> k, status |-> "queued", owner |-> owner])
    BY <1>3 DEF OwnTypeOK
  <1>4. QED
    BY <1>1, <1>2, <1>3 DEF QueueBroadcast

(* It touches one broadcast at most. *)
LEMMA QueueBroadcastTouchesOne ==
  ASSUME OwnTypeOK, NEW k, NEW owner, QueueBroadcast(k, owner)
  PROVE  \E d : \A i \in DOMAIN broadcasts' :
           i # d => i \in DOMAIN broadcasts /\ broadcasts'[i] = broadcasts[i]
  <1>1. CASE broadcasts' = broadcasts
    BY <1>1
  <1>2. ASSUME NEW d \in Duplicates(k), broadcasts' = [broadcasts EXCEPT ![d].owner = owner]
        PROVE  \A i \in DOMAIN broadcasts' :
                 i # d => i \in DOMAIN broadcasts /\ broadcasts'[i] = broadcasts[i]
    BY <1>2 DEF OwnTypeOK
  <1>3. ASSUME NEW b, broadcasts' = Append(broadcasts, b)
        PROVE  \A i \in DOMAIN broadcasts' :
                 i # Len(broadcasts) + 1 =>
                   i \in DOMAIN broadcasts /\ broadcasts'[i] = broadcasts[i]
    BY <1>3 DEF OwnTypeOK
  <1>4. QED
    BY <1>1, <1>2, <1>3 DEF QueueBroadcast

LEMMA AfterUploadKeepsPipeline ==
  ASSUME ~ Reentrant, TypeOK, OwnTypeOK, QueueInv, PipelineInv, QueueStep
  PROVE  PipelineInv'
  <1>1. EndsCleanly
    BY QueueStepEndsCleanly
  <1>2. CASE UNCHANGED publishVars
    BY <1>1, <1>2 DEF EndsCleanly, OwnTypeOK, PipelineInv, IdsInv, RowsInv, LinkedInv,
         OwnerInv, OnceInv, DoneWasHanded, publishVars, pubVars, sendVars
  <1>3. ASSUME NEW u \in Uploads, UploadFailed(u) PROVE PipelineInv'
    <2>1. /\ u \notin staged' /\ pub[u] # "absent"
          /\ pub' = [pub EXCEPT ![u] = "error"]
          /\ \A v \in Uploads \ {u} : ledger'[v] = ledger[v]
          /\ UNCHANGED <<want, pubKey, linked, broadcasts, handed, spent>>
      BY <1>1, <1>3 DEF UploadFailed, Saved, EndsCleanly, sendVars, OwnTypeOK
    <2>2. pub'[u] = "error" /\ \A v \in Uploads \ {u} : pub'[v] = pub[v]
      BY <2>1 DEF OwnTypeOK
    <2>3. IdsInv'
      BY <1>1, <2>1, <2>2 DEF EndsCleanly, PipelineInv, IdsInv
    <2>4. RowsInv'
      BY <2>1, <2>2 DEF PipelineInv, RowsInv
    <2>5. LinkedInv'
      BY <1>1, <2>1, <2>2 DEF EndsCleanly, OwnTypeOK, PipelineInv, LinkedInv
    <2>6. OwnerInv'
      BY <1>1, <2>1, <2>2 DEF EndsCleanly, PipelineInv, OwnerInv
    <2>7. DoneWasHanded'
      BY <2>1, <2>2 DEF OwnTypeOK, PipelineInv, DoneWasHanded
    <2>8. OnceInv'
      BY <2>1, <2>2 DEF PipelineInv, OnceInv
    <2>9. QED
      BY <2>3, <2>4, <2>5, <2>6, <2>7, <2>8 DEF PipelineInv
  <1>4. ASSUME NEW u \in Uploads, UploadedOnly(u) \/ UploadedToBroadcast(u)
        PROVE  /\ u \in staged /\ u \notin staged'
               /\ pub[u] = "uploading" /\ ledger[u] = None
               /\ \A i \in DOMAIN broadcasts : broadcasts[i].owner # u
    <2>1. u \in staged /\ u \notin staged' /\ pub[u] = "uploading"
      BY <1>1, <1>4 DEF UploadedOnly, UploadedToBroadcast, EndsCleanly, PipelineInv, LinkedInv
    <2>2. QED
      BY <2>1 DEF PipelineInv, RowsInv, OwnerInv
  <1>5. ASSUME NEW u \in Uploads, UploadedOnly(u) PROVE PipelineInv'
    <2>1. /\ pub' = [pub EXCEPT ![u] = "done"]
          /\ pubKey' = [pubKey EXCEPT ![u] = UploadKey(u)]
          /\ \A v \in Uploads \ {u} : ledger'[v] = ledger[v]
          /\ UNCHANGED <<want, linked, broadcasts, handed, spent>>
          /\ u \notin want
      BY <1>5 DEF UploadedOnly, WantsBroadcast, Saved, sendVars, OwnTypeOK
    <2>2. /\ pub'[u] = "done"
          /\ \A v \in Uploads \ {u} : pub'[v] = pub[v] /\ pubKey'[v] = pubKey[v]
      BY <2>1 DEF OwnTypeOK
    <2>3. pub[u] # "absent"
      BY <1>4, <1>5
    <2>4. IdsInv'
      BY <1>1, <2>1, <2>2, <2>3 DEF EndsCleanly, PipelineInv, IdsInv
    <2>5. RowsInv'
      BY <2>1, <2>2 DEF PipelineInv, RowsInv
    <2>6. LinkedInv'
      BY <1>1, <1>4, <1>5, <2>1, <2>2 DEF EndsCleanly, OwnTypeOK, PipelineInv, LinkedInv
    <2>7. OwnerInv'
      BY <1>1, <1>4, <1>5, <2>1, <2>2 DEF EndsCleanly, PipelineInv, OwnerInv
    <2>8. DoneWasHanded'
      BY <2>1, <2>2 DEF OwnTypeOK, PipelineInv, DoneWasHanded
    <2>9. OnceInv'
      BY <1>4, <1>5, <2>1, <2>2 DEF PipelineInv, OnceInv
    <2>10. QED
      BY <2>4, <2>5, <2>6, <2>7, <2>8, <2>9 DEF PipelineInv
  <1>6. ASSUME NEW u \in Uploads, UploadedToBroadcast(u) PROVE PipelineInv'
    <2>1. /\ pub' = [pub EXCEPT ![u] = "broadcasting"]
          /\ pubKey' = [pubKey EXCEPT ![u] = UploadKey(u)]
          /\ QueueBroadcast(UploadKey(u), u)
          /\ UNCHANGED <<want, linked, handed, ledger, spent>>
      BY <1>6 DEF UploadedToBroadcast
    <2>2. /\ pub'[u] = "broadcasting"
          /\ \A v \in Uploads \ {u} : pub'[v] = pub[v] /\ pubKey'[v] = pubKey[v]
      BY <2>1 DEF OwnTypeOK
    <2>3. pubKey'[u] = UploadKey(u) /\ pub[u] # "absent"
      BY <1>4, <1>6, <2>1 DEF OwnTypeOK
    <2>4. IdsInv'
      BY <1>1, <2>1, <2>2, <2>3 DEF EndsCleanly, PipelineInv, IdsInv
    <2>5. RowsInv'
      BY <1>4, <1>6, <2>1, <2>2 DEF PipelineInv, RowsInv
    <2>6. LinkedInv'
      BY <1>1, <1>4, <1>6, <2>1, <2>2 DEF EndsCleanly, OwnTypeOK, PipelineInv, LinkedInv
    <2>7. OwnerInv'
      <3> SUFFICES ASSUME NEW i \in DOMAIN broadcasts', NEW v \in Uploads,
                          broadcasts'[i].owner = v
                   PROVE  /\ status'[v] # "absent" /\ v \notin staged'
                          /\ pub'[v] # "absent" => pubKey'[v] = broadcasts'[i].key
        BY DEF OwnerInv
      <3>1. UploadKey(u) \in Keys
        BY <1>6, UploadKeyType DEF UploadedToBroadcast
      <3>2. CASE broadcasts'[i].owner = u /\ broadcasts'[i].key = UploadKey(u)
        <4>1. v = u /\ status[u] # "absent"
          BY <1>6, <3>2 DEF UploadedToBroadcast, PipelineInv, LinkedInv
        <4>2. QED
          BY <1>1, <1>4, <1>6, <2>3, <3>2, <4>1 DEF EndsCleanly
      <3>3. CASE i \in DOMAIN broadcasts /\ broadcasts'[i] = broadcasts[i]
        <4>1. v # u
          BY <1>4, <1>6, <3>3
        <4>2. QED
          BY <1>1, <2>2, <3>3, <4>1 DEF EndsCleanly, PipelineInv, OwnerInv
      <3>4. QED
        BY <2>1, <3>1, <3>2, <3>3, QueueBroadcastOwners
    <2>8. DoneWasHanded'
      BY <2>1, <2>2 DEF OwnTypeOK, PipelineInv, DoneWasHanded
    <2>9. OnceInv'
      <3> SUFFICES ASSUME NEW i \in DOMAIN broadcasts', NEW v \in Uploads,
                          broadcasts'[i].owner = v
                   PROVE  /\ broadcasts'[i].status = "queued" => pub'[v] # "done"
                          /\ \A j \in DOMAIN broadcasts' : broadcasts'[j].owner = v => i = j
        BY DEF OnceInv
      <3>1. \A j \in DOMAIN broadcasts' :
              \/ broadcasts'[j].owner = u
              \/ j \in DOMAIN broadcasts /\ broadcasts'[j] = broadcasts[j]
        BY <1>6, <2>1, UploadKeyType, QueueBroadcastOwners DEF UploadedToBroadcast
      <3>2. CASE v = u
        <4>1. PICK d : \A j \in DOMAIN broadcasts' :
                j # d => j \in DOMAIN broadcasts /\ broadcasts'[j] = broadcasts[j]
          BY <2>1, QueueBroadcastTouchesOne
        <4>2. \A j \in DOMAIN broadcasts' : broadcasts'[j].owner = u => j = d
          BY <1>4, <1>6, <4>1
        <4>3. QED
          BY <2>2, <3>2, <4>2
      <3>3. CASE v # u
        <4>1. \A j \in DOMAIN broadcasts' : broadcasts'[j].owner = v =>
                j \in DOMAIN broadcasts /\ broadcasts'[j] = broadcasts[j]
          BY <3>1, <3>3
        <4>2. QED
          BY <2>2, <3>3, <4>1 DEF PipelineInv, OnceInv
      <3>4. QED
        BY <3>2, <3>3
    <2>10. QED
      BY <2>4, <2>5, <2>6, <2>7, <2>8, <2>9 DEF PipelineInv
  <1>7. QED
    BY <1>2, <1>3, <1>5, <1>6 DEF QueueStep, AfterUpload, UploadEndsUnpublished

LEMMA SendKeepsPipeline ==
  ASSUME TypeOK, OwnTypeOK, PipelineInv, NEW i \in DOMAIN broadcasts, SendBroadcast(i)
  PROVE  PipelineInv'
  <1>1. PICK verdict \in {"done", "error"} :
          /\ AfterBroadcast(i, verdict)
          /\ verdict = "done" => handed' = handed \cup {broadcasts[i].key}
          /\ handed \subseteq handed'
          /\ \E st \in {"sent", "error"} : broadcasts' = [broadcasts EXCEPT ![i].status = st]
    BY DEF SendBroadcast, SendSent, SendUnavailable
  <1>2. UNCHANGED <<status, staged, want, pubKey, linked, spent>>
    BY DEF SendBroadcast, SendSent, SendUnavailable, vars
  <1>3. /\ DOMAIN broadcasts' = DOMAIN broadcasts
        /\ \A j \in DOMAIN broadcasts : /\ broadcasts'[j].owner = broadcasts[j].owner
                                        /\ broadcasts'[j].key = broadcasts[j].key
                                        /\ broadcasts'[j].status = "queued" =>
                                             j # i /\ broadcasts[j].status = "queued"
    <2>1. PICK st \in {"sent", "error"} :
            broadcasts' = [broadcasts EXCEPT ![i] = [broadcasts[i] EXCEPT !.status = st]]
      BY <1>1
    <2>2. broadcasts[i] \in Broadcast
      BY DEF OwnTypeOK
    <2>3. /\ [broadcasts[i] EXCEPT !.status = st].owner = broadcasts[i].owner
          /\ [broadcasts[i] EXCEPT !.status = st].key = broadcasts[i].key
          /\ [broadcasts[i] EXCEPT !.status = st].status = st
      BY <2>2 DEF Broadcast
    <2>4. QED
      BY <2>1, <2>3 DEF OwnTypeOK
  <1>4. CASE UNCHANGED <<pub, ledger>>
    <2>1. IdsInv' /\ RowsInv' /\ LinkedInv'
      BY <1>2, <1>4 DEF PipelineInv, IdsInv, RowsInv, LinkedInv
    <2>2. OwnerInv' /\ OnceInv'
      BY <1>2, <1>3, <1>4 DEF PipelineInv, OwnerInv, OnceInv
    <2>3. DoneWasHanded'
      BY <1>1, <1>2, <1>4 DEF OwnTypeOK, PipelineInv, DoneWasHanded
    <2>4. QED
      BY <2>1, <2>2, <2>3 DEF PipelineInv
  <1>5. ASSUME NEW u, u = broadcasts[i].owner, u # None, pub[u] # "absent",
               pub' = [pub EXCEPT ![u] = verdict],
               ledger' = Saved(u, verdict, pubKey[u])
        PROVE  PipelineInv'
    <2>1. u \in Uploads
      <3>1. broadcasts[i] \in Broadcast
        BY DEF OwnTypeOK
      <3>2. QED
        BY <1>5, <3>1 DEF Broadcast
    <2>2. /\ pub'[u] = verdict /\ verdict # "absent"
          /\ \A v \in Uploads \ {u} : pub'[v] = pub[v] /\ ledger'[v] = ledger[v]
      BY <1>5, <2>1 DEF OwnTypeOK, Saved
    <2>3. u \notin staged /\ pubKey[u] = broadcasts[i].key
      BY <1>5, <2>1 DEF PipelineInv, OwnerInv
    <2>4. IdsInv'
      BY <1>2, <1>5, <2>2 DEF PipelineInv, IdsInv
    <2>5. RowsInv'
      BY <2>2 DEF PipelineInv, RowsInv
    <2>6. LinkedInv'
      BY <1>2, <2>2, <2>3 DEF OwnTypeOK, PipelineInv, LinkedInv
    <2>7. OwnerInv'
      BY <1>2, <1>3, <1>5, <2>2 DEF PipelineInv, OwnerInv
    <2>8. DoneWasHanded'
      BY <1>1, <1>2, <2>2, <2>3 DEF OwnTypeOK, PipelineInv, DoneWasHanded
    <2>9. OnceInv'
      BY <1>3, <1>5, <2>1, <2>2 DEF PipelineInv, OnceInv
    <2>10. QED
      BY <2>4, <2>5, <2>6, <2>7, <2>8, <2>9 DEF PipelineInv
  <1>6. QED
    BY <1>1, <1>4, <1>5 DEF AfterBroadcast

LEMMA PostKeepsPipeline ==
  ASSUME OwnTypeOK, PipelineInv, NEW k \in Posted, PostEnvelope(k)
  PROVE  PipelineInv'
  <1>1. UNCHANGED <<status, staged, pub, want, pubKey, linked, handed, ledger, spent>>
    BY DEF PostEnvelope, pubVars, vars
  <1>2. OwnerInv'
    <2> SUFFICES ASSUME NEW i \in DOMAIN broadcasts', NEW v \in Uploads,
                        broadcasts'[i].owner = v
                 PROVE  /\ status'[v] # "absent" /\ v \notin staged'
                        /\ pub'[v] # "absent" => pubKey'[v] = broadcasts'[i].key
      BY DEF OwnerInv
    <2>1. k \in Keys /\ QueueBroadcast(k, None) /\ v # None
      BY UploadQueueAssumption DEF PostEnvelope, Keys
    <2>2. i \in DOMAIN broadcasts /\ broadcasts'[i] = broadcasts[i]
      BY <2>1, QueueBroadcastOwners
    <2>3. QED
      BY <1>1, <2>2 DEF PipelineInv, OwnerInv
  <1>3. IdsInv' /\ RowsInv' /\ LinkedInv' /\ DoneWasHanded'
    BY <1>1 DEF PipelineInv, IdsInv, RowsInv, LinkedInv, DoneWasHanded
  <1>4. OnceInv'
    <2>1. k \in Keys /\ QueueBroadcast(k, None) /\ None \notin Uploads
      BY UploadQueueAssumption DEF PostEnvelope, Keys
    <2>2. \A i \in DOMAIN broadcasts' : broadcasts'[i].owner \in Uploads =>
            i \in DOMAIN broadcasts /\ broadcasts'[i] = broadcasts[i]
      BY <2>1, QueueBroadcastOwners
    <2>3. QED
      BY <1>1, <2>2 DEF PipelineInv, OnceInv
  <1>5. QED
    BY <1>2, <1>3, <1>4 DEF PipelineInv

(* A publish that a restart reads from the file was over before. *)
LEMMA RestartReads ==
  ASSUME OwnTypeOK, LedgerInv, Restart, NEW u \in Uploads
  PROVE  \/ pub'[u] = "absent" /\ ledger'[u] = None
         \/ /\ ledger' = ledger /\ ledger[u] # None
            /\ pub'[u] = ledger[u].status /\ ledger[u].status \in {"done", "error"}
            /\ pub[u] # "absent"
  <1>1. pub'[u] = IF ledger'[u] = None THEN "absent" ELSE ledger'[u].status
    BY DEF Restart, LoadLedger
  <1>2. ledger' = ledger \/ ledger'[u] = None
    BY DEF Restart
  <1>3. QED
    BY <1>1, <1>2 DEF LedgerInv, LedgerAgrees

LEMMA RestartKeepsPipeline ==
  ASSUME OwnTypeOK, LedgerInv, PipelineInv, Restart
  PROVE  PipelineInv'
  <1>1. IdsInv'
    <2> SUFFICES ASSUME NEW u \in Uploads, pub'[u] # "absent" PROVE u \in spent'
      BY DEF IdsInv
    <2>1. pub[u] # "absent"
      BY RestartReads
    <2>2. QED
      BY <2>1 DEF Restart, PipelineInv, IdsInv
  <1>2. RowsInv'
    BY RestartReads DEF RowsInv
  <1>3. LinkedInv' /\ OwnerInv' /\ OnceInv' /\ DoneWasHanded'
    BY DEF Restart, LinkedInv, OwnerInv, OnceInv, DoneWasHanded
  <1>4. QED
    BY <1>1, <1>2, <1>3 DEF PipelineInv

LEMMA PipelineStep ==
  ASSUME ~ Reentrant, TypeOK, OwnTypeOK, LedgerInv, QueueInv, PipelineInv,
         [PublishNext]_allVars
  PROVE  QueueInv' /\ PipelineInv'
  <1>1. ASSUME NEW u \in Uploads, NEW bcast \in BOOLEAN, PublishFile(u, bcast)
        PROVE  QueueInv' /\ PipelineInv'
    <2>1. UploadFile(u)
      BY <1>1 DEF PublishFile
    <2>2. want' \subseteq want \cup {u}
      BY <1>1 DEF PublishFile
    <2>3. QED
      BY <1>1, <2>1, <2>2, UploadFileIsNext, QueueInvStep, NewUploadKeepsPipeline
         DEF PublishFile, sendVars
  <1>2. ASSUME NEW u \in Uploads, PlainUpload(u) PROVE QueueInv' /\ PipelineInv'
    BY <1>2, UploadFileIsNext, QueueInvStep, NewUploadKeepsPipeline
       DEF PlainUpload, publishVars, pubVars, sendVars
  <1>3. CASE QueueStep
    BY <1>3, QueueStepIsNext, QueueInvStep, AfterUploadKeepsPipeline
  <1>4. ASSUME NEW k \in Posted, PostEnvelope(k) PROVE QueueInv' /\ PipelineInv'
    BY <1>4, QueueInvStep, PostKeepsPipeline DEF PostEnvelope
  <1>5. ASSUME NEW i \in DOMAIN broadcasts, SendBroadcast(i) PROVE QueueInv' /\ PipelineInv'
    <2>1. UNCHANGED vars
      BY <1>5 DEF SendBroadcast, SendSent, SendUnavailable
    <2>2. QED
      BY <1>5, <2>1, QueueInvStep, SendKeepsPipeline
  <1>6. CASE ClearPublished
    <2>1. QueueInv'
      BY <1>6, QueueInvStep DEF ClearPublished
    <2>2. UNCHANGED <<status, staged, linked, broadcasts, handed>>
      BY <1>6 DEF ClearPublished, sendVars, vars
    <2>3. IdsInv' /\ RowsInv' /\ LinkedInv'
      BY <1>6, <2>2 DEF ClearPublished, LedgerRemoved, OwnTypeOK, PipelineInv,
           IdsInv, RowsInv, LinkedInv
    <2>4. OwnerInv' /\ OnceInv' /\ DoneWasHanded'
      BY <1>6, <2>2 DEF ClearPublished, PipelineInv, OwnerInv, OnceInv, DoneWasHanded
    <2>5. QED
      BY <2>1, <2>3, <2>4 DEF PipelineInv
  <1>7. CASE Restart
    BY <1>7, RestartKeepsQueueInv, RestartKeepsPipeline
  <1>8. CASE UNCHANGED allVars
    <2>1. QueueInv'
      BY <1>8, QueueInvStep DEF allVars
    <2>2. PipelineInv'
      BY <1>8 DEF allVars, publishVars, pubVars, sendVars, vars, PipelineInv, IdsInv,
           RowsInv, LinkedInv, OwnerInv, OnceInv, DoneWasHanded
    <2>3. QED
      BY <2>1, <2>2
  <1>9. QED
    BY <1>1, <1>2, <1>3, <1>4, <1>5, <1>6, <1>7, <1>8 DEF PublishNext

LEMMA PipelineInvariant ==
  ASSUME ~ Reentrant
  PROVE  PublishSpec => [](TypeOK /\ OwnTypeOK /\ LedgerInv /\ QueueInv /\ PipelineInv)
  <1> DEFINE Inv == TypeOK /\ OwnTypeOK /\ LedgerInv /\ QueueInv /\ PipelineInv
  <1>1. ASSUME PublishInit PROVE Inv
    <2>1. LedgerInv
      BY <1>1 DEF PublishInit, LedgerInv, LedgerAgrees
    <2>2. QueueInv
      BY <1>1 DEF PublishInit, Init, QueueInv, ActiveIsUploading, SerialInv, OneInFlight,
           CallIsActive, SessionMapLive, SourceInv
    <2>3. PipelineInv
      BY <1>1 DEF PublishInit, Init, PipelineInv, IdsInv, RowsInv, LinkedInv, OwnerInv,
           OnceInv, DoneWasHanded
    <2>4. QED
      BY <1>1, <2>1, <2>2, <2>3, PublishTypeInit
  <1>2. ASSUME Inv, [PublishNext]_allVars PROVE Inv'
    BY <1>2, PublishTypeStep, LedgerStep, PipelineStep
  <1> HIDE DEF Inv
  <1>3. PublishSpec => []Inv
    BY <1>1, <1>2, PTL DEF PublishSpec
  <1>4. QED
    BY <1>3 DEF Inv

(***************************************************************************)
(* publishStatusJson: a publish that was to be broadcast is "done" only    *)
(* after its envelope went to the network, for any number of documents,    *)
(* retries and restarts.  The wait for uploadUrl must serve no events: the *)
(* run PublishStuck is about what happens if it does.                      *)
(***************************************************************************)
THEOREM DoneIsHanded ==
  ASSUME ~ Reentrant
  PROVE  PublishSpec => []DoneWasHanded
  <1>1. PipelineInv => DoneWasHanded
    BY DEF PipelineInv
  <1>2. QED
    BY <1>1, PipelineInvariant, PTL

-----------------------------------------------------------------------------
(* Publish implements PublishJobs. *)

(* A step as KeepsJobs has it. *)
JobStep == Jobs!JobsNext \/ (ClearPublished /\ Jobs!HistoryCleared) \/ Departs

LEMMA QueueStepUses ==
  ASSUME EndsCleanly, UNCHANGED spent
  PROVE  Used' = Used
  BY DEF EndsCleanly, Used

LEMMA UploadFileUses ==
  ASSUME TypeOK, NEW u \in Uploads, UploadFile(u), UNCHANGED spent
  PROVE  Used' = Used \cup {u}
  BY DEF TypeOK, Used, UploadFile

(* A publish that is under way gets on or ends. *)
LEMMA OneJobMoves ==
  ASSUME OwnTypeOK, NEW u \in Uploads, NEW s \in {"broadcasting", "done", "error"},
         pub[u] \in {"uploading", "broadcasting"}, s = "broadcasting" => pub[u] = "uploading",
         pub' = [pub EXCEPT ![u] = s], Used' = Used
  PROVE  JobStep
  <1>1. <<pub[u], s>> \in Jobs!Moves
    BY DEF Jobs!Moves
  <1>2. s \in Jobs!JobStatus
    BY DEF Jobs!JobStatus, Jobs!Running, Jobs!Over
  <1>3. Jobs!JobMoves(u, s)
    BY <1>1 DEF Jobs!JobMoves
  <1>4. QED
    BY <1>2, <1>3 DEF Jobs!JobsNext, JobStep

(* An upload that succeeds has a publish that waits for it; one that fails *)
(* has another only if it was started again, without its file.             *)
LEMMA AfterUploadMovesJob ==
  ASSUME ~ Reentrant, TypeOK, OwnTypeOK, QueueInv, PipelineInv, QueueStep
  PROVE  JobStep \/ UNCHANGED <<pub, Used>>
  <1>1. EndsCleanly
    BY QueueStepEndsCleanly
  <1>2. UNCHANGED spent
    BY DEF QueueStep, AfterUpload, UploadEndsUnpublished, UploadFailed, UploadedOnly,
       UploadedToBroadcast, publishVars
  <1>3. Used' = Used
    BY <1>1, <1>2, QueueStepUses
  <1>4. CASE UNCHANGED publishVars
    BY <1>3, <1>4 DEF publishVars, pubVars
  <1>5. ASSUME NEW u \in Uploads, UploadFailed(u) PROVE JobStep \/ pub' = pub
    <2>1. pub' = [pub EXCEPT ![u] = "error"] /\ u \in linked
      BY <1>5 DEF UploadFailed
    <2>2. CASE pub[u] \in {"uploading", "broadcasting"}
      BY <1>3, <2>1, <2>2, OneJobMoves
    <2>3. CASE pub[u] = "error"
      BY <2>1, <2>3 DEF OwnTypeOK
    <2>4. CASE pub[u] = "done"
      <3>1. u \notin staged
        BY <2>1, <2>4 DEF PipelineInv, LinkedInv
      <3>2. StartedAgain(u)
        BY <1>5, <2>4, <3>1 DEF StartedAgain, UploadFailed
      <3>3. QED
        BY <1>3, <3>2 DEF Departs, JobStep
    <2>5. pub[u] \in {"uploading", "broadcasting", "done", "error"}
      BY <1>5 DEF UploadFailed, OwnTypeOK, PubStatus
    <2>6. QED
      BY <2>2, <2>3, <2>4, <2>5
  <1>6. ASSUME NEW u \in Uploads, UploadedOnly(u) \/ UploadedToBroadcast(u) PROVE JobStep
    <2>1. pub[u] = "uploading"
      BY <1>1, <1>6 DEF UploadedOnly, UploadedToBroadcast, EndsCleanly, PipelineInv, LinkedInv
    <2>2. QED
      BY <1>3, <1>6, <2>1, OneJobMoves DEF UploadedOnly, UploadedToBroadcast
  <1>7. QED
    BY <1>3, <1>4, <1>5, <1>6 DEF QueueStep, AfterUpload, UploadEndsUnpublished

(* The broadcast of a publish finds it broadcasting, or failed in between. *)
LEMMA SendMovesJob ==
  ASSUME OwnTypeOK, PipelineInv, NEW i \in DOMAIN broadcasts, SendBroadcast(i)
  PROVE  JobStep \/ UNCHANGED <<pub, Used>>
  <1>1. PICK verdict \in {"done", "error"} :
          AfterBroadcast(i, verdict) /\ (verdict = "done" => SendSent(i))
    BY DEF SendBroadcast, SendSent, SendUnavailable
  <1>2. Used' = Used /\ broadcasts[i].status = "queued"
    BY DEF SendBroadcast, SendSent, SendUnavailable, vars, Used
  <1>3. CASE UNCHANGED pub
    BY <1>2, <1>3
  <1>4. ASSUME NEW u, u = broadcasts[i].owner, u # None, pub[u] # "absent",
               pub' = [pub EXCEPT ![u] = verdict]
        PROVE  JobStep \/ pub' = pub
    <2>1. u \in Uploads
      <3>1. broadcasts[i] \in Broadcast
        BY DEF OwnTypeOK
      <3>2. QED
        BY <1>4, <3>1 DEF Broadcast
    <2>2. pub[u] # "done"
      BY <1>2, <1>4, <2>1 DEF PipelineInv, OnceInv
    <2>3. CASE pub[u] \in {"uploading", "broadcasting"}
      BY <1>2, <1>4, <2>1, <2>3, OneJobMoves
    <2>4. CASE pub[u] = verdict
      BY <1>4, <2>4 DEF OwnTypeOK
    <2>5. CASE pub[u] = "error" /\ verdict = "done"
      <3>1. SentAfterError(i)
        BY <1>1, <1>4, <2>5 DEF SentAfterError
      <3>2. QED
        BY <1>2, <1>4, <3>1 DEF Departs, JobStep
    <2>6. pub[u] \in {"uploading", "broadcasting", "done", "error"}
      BY <1>4, <2>1 DEF OwnTypeOK, PubStatus
    <2>7. QED
      BY <2>2, <2>3, <2>4, <2>5, <2>6
  <1>5. QED
    BY <1>1, <1>2, <1>3, <1>4 DEF AfterBroadcast

(* The file as it is makes the publishes that are over. *)
LEMMA RestartReloads ==
  ASSUME OwnTypeOK, LedgerInv, PipelineInv, Restart
  PROVE  JobStep
  <1>1. Used' = Used
    BY DEF Restart, Used
  <1>2. pub' = [u \in Uploads |-> pub'[u]]
    BY DEF Restart, LoadLedger
  <1>3. CASE ledger' = ledger
    <2>1. ASSUME NEW u \in Uploads
          PROVE  pub'[u] = IF pub[u] \in Jobs!Over THEN pub[u] ELSE "absent"
      <3>1. pub'[u] = IF ledger[u] = None THEN "absent" ELSE ledger[u].status
        BY <1>3 DEF Restart, LoadLedger
      <3>2. CASE pub[u] \in {"done", "error"}
        <4>1. ledger[u] = [status |-> pub[u], key |-> pubKey[u]]
          BY <3>2 DEF LedgerInv, LedgerAgrees
        <4>2. ledger[u].status = pub[u]
          BY <4>1
        <4>3. ledger[u] # None
          BY <4>1, RowAssumption DEF Row, OwnTypeOK
        <4>4. QED
          BY <3>1, <3>2, <4>2, <4>3 DEF Jobs!Over
      <3>3. CASE pub[u] \notin {"done", "error"}
        BY <3>1, <3>3 DEF PipelineInv, RowsInv, Jobs!Over
      <3>4. QED
        BY <3>2, <3>3
    <2>2. Jobs!LedgerReloaded
      BY <1>1, <1>2, <2>1 DEF Jobs!LedgerReloaded, Used
    <2>3. QED
      BY <2>2 DEF Jobs!JobsNext, JobStep
  <1>4. CASE SavePending /\ ledger' = [u \in Uploads |-> None]
    BY <1>1, <1>4 DEF LedgerTorn, Departs, JobStep
  <1>5. QED
    BY <1>3, <1>4 DEF Restart

LEMMA PublishMovesJobs ==
  ASSUME ~ Reentrant, TypeOK, OwnTypeOK, LedgerInv, QueueInv, PipelineInv,
         [PublishNext]_allVars
  PROVE  JobStep \/ UNCHANGED <<pub, Used>>
  <1>1. ASSUME NEW u \in Uploads, NEW bcast \in BOOLEAN, PublishFile(u, bcast)
        PROVE  JobStep
    <2>1. Used' = Used \cup {u}
      BY <1>1, UploadFileUses DEF PublishFile
    <2>2. u \notin Used
      BY <1>1 DEF PublishFile, UploadFile, Used
    <2>3. Jobs!Accepts(u)
      BY <1>1, <2>1, <2>2 DEF PublishFile, Jobs!Accepts, Used
    <2>4. QED
      BY <2>3 DEF Jobs!JobsNext, JobStep
  <1>2. ASSUME NEW u \in Uploads, PlainUpload(u) PROVE JobStep
    <2>1. Used' = Used \cup {u} /\ pub' = pub
      BY <1>2, UploadFileUses DEF PlainUpload, publishVars, pubVars
    <2>2. Jobs!IdTaken(u)
      BY <2>1 DEF Jobs!IdTaken, Used
    <2>3. QED
      BY <2>2 DEF Jobs!JobsNext, JobStep
  <1>3. CASE QueueStep
    BY <1>3, AfterUploadMovesJob
  <1>4. ASSUME NEW k \in Posted, PostEnvelope(k) PROVE UNCHANGED <<pub, Used>>
    BY <1>4 DEF PostEnvelope, pubVars, vars, Used
  <1>5. ASSUME NEW i \in DOMAIN broadcasts, SendBroadcast(i)
        PROVE  JobStep \/ UNCHANGED <<pub, Used>>
    BY <1>5, SendMovesJob
  <1>6. CASE ClearPublished
    <2>1. Used' = Used
      BY <1>6 DEF ClearPublished, vars, Used
    <2>2. Jobs!HistoryCleared
      BY <1>6, <2>1 DEF ClearPublished, Jobs!HistoryCleared, Used
    <2>3. QED
      BY <1>6, <2>2 DEF JobStep
  <1>7. CASE Restart
    BY <1>7, RestartReloads
  <1>8. CASE UNCHANGED allVars
    BY <1>8 DEF allVars, publishVars, pubVars, vars, Used
  <1>9. QED
    BY <1>1, <1>2, <1>3, <1>4, <1>5, <1>6, <1>7, <1>8 DEF PublishNext

(***************************************************************************)
(* The pipeline shows clients what PublishJobs says, but for clearing and  *)
(* three named departures: no id comes twice; a publish that is under way  *)
(* gets on or ends; one that is over stays so, across restarts too, unless *)
(* it is started again without its file, or failed that way and its        *)
(* broadcast is sent all the same, or the ledger file is torn.             *)
(***************************************************************************)
THEOREM ImplementsJobs ==
  ASSUME ~ Reentrant
  PROVE  PublishSpec => KeepsJobs
  <1>1. PublishInit => Jobs!JobsInit
    BY DEF PublishInit, Init, Used, Jobs!JobsInit
  <1>2. TypeOK /\ OwnTypeOK /\ LedgerInv /\ QueueInv /\ PipelineInv /\ [PublishNext]_allVars
        => [JobStep]_Jobs!jobsVars
    BY PublishMovesJobs DEF Jobs!jobsVars
  <1>3. QED
    BY <1>1, <1>2, PipelineInvariant, PTL DEF PublishSpec, KeepsJobs, JobStep
=============================================================================
