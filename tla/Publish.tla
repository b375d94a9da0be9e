------------------------------- MODULE Publish -------------------------------
(***************************************************************************)
(* The publish pipeline of the chronicle plugin on top of its upload       *)
(* queue: publishFileJson, afterUpload, broadcastEnvelopeJson,             *)
(* sendBroadcast, afterBroadcast, and the publish ledger on disk with what *)
(* a restart makes of it.                                                  *)
(*                                                                         *)
(* afterUpload is called by the handler that ends the upload, so it is     *)
(* part of that step of module UploadQueue.  A publish has one upload for  *)
(* ever and is named by it.  m_api is set and the envelope is one that     *)
(* buildEnvelope made, so broadcastEnvelopeJson does not refuse it.        *)
(***************************************************************************)
EXTENDS UploadQueue

CONSTANTS
  Content,      \* what is in the file of an upload: it decides the CID
  Meta,         \* its content type, size and title: the metadata hash
  Posted,       \* keys of the envelopes broadcast without a publish
  MaxPosted,    \* bound: broadcasts there may be for one to be posted
  Restarts      \* may the module go down and come up again?

ASSUME PublishAssumption ==
  /\ DOMAIN Content = Uploads
  /\ DOMAIN Meta = Uploads
  /\ MaxPosted \in Nat
  /\ Restarts \in BOOLEAN

VARIABLES
  pub,          \* PublishJob.status; "absent" if m_publishes has no such job
  want,         \* PublishJob.wantBroadcast
  pubKey,       \* PublishJob.cid and metaHash
  linked,       \* the uploads that have a publishId
  broadcasts,   \* m_broadcasts in the order of their ids, and m_bcastToPublish
  deliveryUp,   \* m_deliveryStarted
  ledger,       \* publish-ledger.json
  handed,       \* keys of the envelopes given to delivery_module.send
  spent         \* upload ids used before the last restart

pubVars == <<pub, want, pubKey, linked>>
sendVars == <<broadcasts, deliveryUp, handed>>
publishVars == <<pubVars, sendVars, ledger, spent>>
allVars == <<vars, publishVars>>

PubStatus == {"absent", "uploading", "broadcasting", "done", "error"}

(* The dedupeKey: cid and metadata hash. *)
Keys == {<<Content[u], Meta[v]>> : u, v \in Uploads} \cup Posted
Row == [status : PubStatus, key : Keys \cup {None}]
ASSUME RowAssumption == None \notin Row
Broadcast == [key : Keys, status : {"queued", "sent", "error"},
              owner : Uploads \cup {None}]

PublishInit ==
  /\ Init
  /\ pub = [u \in Uploads |-> "absent"]
  /\ want = {}
  /\ pubKey = [u \in Uploads |-> None]
  /\ linked = {}
  /\ broadcasts = <<>>
  /\ deliveryUp = FALSE
  /\ ledger = [u \in Uploads |-> None]
  /\ handed = {}
  /\ spent = {}

-----------------------------------------------------------------------------
(* savePublish: read the file, put the row in, write the file. *)
Saved(u, s, k) == [ledger EXCEPT ![u] = [status |-> s, key |-> k]]

(* Mutant: a queued broadcast is no duplicate. *)
DuplicatesSent(k) ==
  {i \in DOMAIN broadcasts : broadcasts[i].key = k /\ broadcasts[i].status = "sent"}

Duplicates(k) ==
  {i \in DOMAIN broadcasts : broadcasts[i].key = k /\ broadcasts[i].status # "error"}

(***************************************************************************)
(* broadcastEnvelopeJson for a publish, or for None.  A duplicate gets no  *)
(* broadcast of its own, and m_bcastToPublish then holds the last caller.  *)
(***************************************************************************)
QueueBroadcast(k, owner) ==
  \/ \E i \in Duplicates(k) :
       broadcasts' = IF owner = None THEN broadcasts
                                     ELSE [broadcasts EXCEPT ![i].owner = owner]
  \/ /\ Duplicates(k) = {}
     /\ broadcasts' = Append(broadcasts, [key |-> k, status |-> "queued", owner |-> owner])

(* publishFileJson. *)
PublishFile(u, bcast) ==
  /\ u \notin spent
  /\ UploadFile(u)
  /\ pub' = [pub EXCEPT ![u] = "uploading"]
  /\ want' = IF bcast THEN want \cup {u} ELSE want
  /\ linked' = linked \cup {u}
  /\ UNCHANGED <<pubKey, sendVars, ledger, spent>>

(* uploadFileJson of a client that does not publish. *)
PlainUpload(u) ==
  /\ u \notin spent
  /\ UploadFile(u)
  /\ UNCHANGED publishVars

-----------------------------------------------------------------------------
(* afterUpload, in the step in which upload u ends. *)

Terminal == {"uploaded", "error"}
Ends(u) == status[u] \notin Terminal /\ status'[u] \in Terminal

UploadEndsUnpublished(u) ==
  /\ Ends(u)
  /\ u \notin linked \/ pub[u] = "absent"
  /\ UNCHANGED publishVars

UploadFailed(u) ==
  /\ Ends(u)
  /\ status'[u] = "error"
  /\ u \in linked /\ pub[u] # "absent"
  /\ pub' = [pub EXCEPT ![u] = "error"]
  /\ ledger' = Saved(u, "error", pubKey[u])
  /\ UNCHANGED <<want, pubKey, linked, sendVars, spent>>

UploadKey(u) == <<Content[cid'[u]], Meta[u]>>

(* Mutant: an envelope that was queued before is not waited for. *)
WantsNewBroadcast(u) == u \in want /\ Duplicates(UploadKey(u)) = {}

WantsBroadcast(u) == u \in want

UploadedOnly(u) ==
  /\ Ends(u)
  /\ status'[u] = "uploaded"
  /\ u \in linked /\ pub[u] # "absent"
  /\ ~ WantsBroadcast(u)
  /\ pub' = [pub EXCEPT ![u] = "done"]
  /\ pubKey' = [pubKey EXCEPT ![u] = UploadKey(u)]
  /\ ledger' = Saved(u, "done", UploadKey(u))
  /\ UNCHANGED <<want, linked, sendVars, spent>>

(* Nothing is saved until the broadcast is over. *)
UploadedToBroadcast(u) ==
  /\ Ends(u)
  /\ status'[u] = "uploaded"
  /\ u \in linked /\ pub[u] # "absent"
  /\ WantsBroadcast(u)
  /\ pub' = [pub EXCEPT ![u] = "broadcasting"]
  /\ pubKey' = [pubKey EXCEPT ![u] = UploadKey(u)]
  /\ QueueBroadcast(UploadKey(u), u)
  /\ UNCHANGED <<want, linked, deliveryUp, handed, ledger, spent>>

AfterUpload ==
  \/ (\A u \in Uploads : ~ Ends(u)) /\ UNCHANGED publishVars
  \/ \E u \in Uploads : \/ UploadEndsUnpublished(u)
                        \/ UploadFailed(u)
                        \/ UploadedOnly(u)
                        \/ UploadedToBroadcast(u)

(* A step of the upload queue that is not a call of uploadFileJson. *)
QueueStep ==
  /\ \/ Subscribe
     \/ \E u \in Uploads : DeadlinePasses(u) \/ StartUpload(u) \/ AttemptTimeout(u)
     \/ \E i \in DOMAIN calls : StorageAccepts(i)
     \/ UploadUrlReturns
     \/ \E s \in inflight : OnUploadDone(s)
  /\ AfterUpload

-----------------------------------------------------------------------------
(* broadcastEnvelopeJson called from outside. *)
PostEnvelope(k) ==
  /\ Idle
  /\ Len(broadcasts) < MaxPosted
  /\ QueueBroadcast(k, None)
  /\ UNCHANGED <<vars, pubVars, deliveryUp, handed, ledger, spent>>

(* afterBroadcast. *)
AfterBroadcast(i, verdict) ==
  LET u == broadcasts[i].owner
  IN  IF u # None /\ pub[u] # "absent"
      THEN /\ pub' = [pub EXCEPT ![u] = verdict]
           /\ ledger' = Saved(u, verdict, pubKey[u])
      ELSE UNCHANGED <<pub, ledger>>

(* sendBroadcast when deliveryReady says yes: "sent" before send is called. *)
SendSent(i) ==
  /\ Idle
  /\ broadcasts[i].status = "queued"
  /\ deliveryUp' = TRUE
  /\ broadcasts' = [broadcasts EXCEPT ![i].status = "sent"]
  /\ handed' = handed \cup {broadcasts[i].key}
  /\ AfterBroadcast(i, "done")
  /\ UNCHANGED <<vars, want, pubKey, linked, spent>>

SendUnavailable(i) ==
  /\ Idle
  /\ broadcasts[i].status = "queued"
  /\ ~ deliveryUp
  /\ broadcasts' = [broadcasts EXCEPT ![i].status = "error"]
  /\ AfterBroadcast(i, "error")
  /\ UNCHANGED <<vars, want, pubKey, linked, deliveryUp, handed, spent>>

SendBroadcast(i) == SendSent(i) \/ SendUnavailable(i)

(* Mutant: the file is left on disk. *)
LedgerKept == ledger

LedgerRemoved == [u \in Uploads |-> None]

(* clearPublishedJson: jobs under way are forgotten too, not their uploads. *)
ClearPublished ==
  /\ Idle
  /\ pub' = [u \in Uploads |-> "absent"]
  /\ want' = {}
  /\ pubKey' = [u \in Uploads |-> None]
  /\ ledger' = LedgerRemoved
  /\ UNCHANGED <<vars, linked, sendVars, spent>>

-----------------------------------------------------------------------------
(***************************************************************************)
(* The module goes down and comes up.  What was in memory is gone, staged  *)
(* copies are not, and storage works on.  Going down inside savePublish,   *)
(* after the file was truncated and before it was written, empties it.     *)
(***************************************************************************)
SavePending ==
  \/ \E u \in linked : /\ pub[u] # "absent"
                       /\ status[u] = "uploading" \/ (~ subscribed /\ timers[u] > 0)
  \/ \E i \in DOMAIN broadcasts : broadcasts[i].status = "queued" /\ broadcasts[i].owner # None

(* Mutant: the status of a row is not read. *)
LoadLedgerUnread ==
  /\ pub' = [u \in Uploads |-> IF ledger'[u] = None THEN "absent" ELSE "uploading"]
  /\ pubKey' = [u \in Uploads |-> IF ledger'[u] = None THEN None ELSE ledger'[u].key]

LoadLedger ==
  /\ pub' = [u \in Uploads |-> IF ledger'[u] = None THEN "absent" ELSE ledger'[u].status]
  /\ pubKey' = [u \in Uploads |-> IF ledger'[u] = None THEN None ELSE ledger'[u].key]

Restart ==
  /\ Restarts
  /\ \/ UNCHANGED ledger
     \/ SavePending /\ ledger' = [u \in Uploads |-> None]
  /\ LoadLedger
  /\ spent' = spent \cup {u \in Uploads : status[u] # "absent"}
  /\ status' = [u \in Uploads |-> "absent"]
  /\ active' = None
  /\ attempt' = [u \in Uploads |-> 0]
  /\ overdue' = {}
  /\ sessionId' = [u \in Uploads |-> None]
  /\ mapped' = {}
  /\ cid' = [u \in Uploads |-> None]
  /\ timers' = [u \in Uploads |-> 0]
  /\ calls' = <<>>
  /\ subscribed' = FALSE
  /\ subscribeDue' = TRUE
  /\ broadcasts' = <<>>
  /\ deliveryUp' = FALSE
  /\ want' = {}
  /\ linked' = {}
  /\ UNCHANGED <<staged, inflight, handed>>

PublishNext ==
  \/ \E u \in Uploads, bcast \in BOOLEAN : PublishFile(u, bcast)
  \/ \E u \in Uploads : PlainUpload(u)
  \/ QueueStep
  \/ \E k \in Posted : PostEnvelope(k)
  \/ \E i \in DOMAIN broadcasts : SendBroadcast(i)
  \/ ClearPublished
  \/ Restart

(* The ids that were handed out, before the last restart or after it. *)
Used == spent \cup {u \in Uploads : status[u] # "absent"}
Jobs == INSTANCE PublishJobs WITH Jobs <- Uploads, jobs <- pub, spent <- Used

(***************************************************************************)
(* Where chronicle breaks the promise.  A left-over timer starts the       *)
(* upload of a publish that is done once more, and it fails for want of    *)
(* its file.  The broadcast of a publish that failed that way is sent all  *)
(* the same.  Going down while the file is written loses the history.      *)
(***************************************************************************)
StartedAgain(u) ==
  /\ pub[u] = "done" /\ u \notin staged
  /\ Ends(u) /\ status'[u] = "error"
  /\ pub' = [pub EXCEPT ![u] = "error"]
SentAfterError(i) ==
  /\ SendSent(i)
  /\ pub[broadcasts[i].owner] = "error"
  /\ pub' = [pub EXCEPT ![broadcasts[i].owner] = "done"]
LedgerTorn == Restart /\ SavePending /\ \A u \in Uploads : ledger'[u] = None
Departs ==
  /\ UNCHANGED Used
  /\ \/ \E u \in Uploads : StartedAgain(u)
     \/ \E i \in DOMAIN broadcasts : broadcasts[i].owner # None /\ SentAfterError(i)
     \/ LedgerTorn

(***************************************************************************)
(* What a client sees of its publishes is what PublishJobs says, but for   *)
(* clearing and the three departures: through late events, shared          *)
(* broadcasts, clearing in mid-job and restarts no publish goes back, ends *)
(* twice, or comes up under an id of another, and one that is over is      *)
(* still there after a restart (logos-chronicle/README.md:88 says so of    *)
(* every restart, and LedgerTorn is the one it is not true of).            *)
(***************************************************************************)
KeepsJobs ==
  /\ Jobs!JobsInit
  /\ [][Jobs!JobsNext \/ (ClearPublished /\ Jobs!HistoryCleared) \/ Departs]_Jobs!jobsVars

(* The 0 ms timer of a queued broadcast fires. *)
SendQueued == \E i \in DOMAIN broadcasts : SendBroadcast(i)

PublishSpec == PublishInit /\ [][PublishNext]_allVars
PublishFairSpec == PublishSpec /\ WF_allVars(SendQueued)
                               /\ WF_allVars(UploadUrlReturns /\ AfterUpload)

-----------------------------------------------------------------------------
(* Every variable has its type; those of the queue are in TypeOK. *)
PublishTypeOK ==
  /\ TypeOK
  /\ pub \in [Uploads -> PubStatus]
  /\ want \subseteq Uploads
  /\ pubKey \in [Uploads -> Keys \cup {None}]
  /\ linked \subseteq Uploads
  /\ broadcasts \in Seq(Broadcast)
  /\ deliveryUp \in BOOLEAN
  /\ ledger \in [Uploads -> Row \cup {None}]
  /\ handed \subseteq Keys
  /\ spent \subseteq Uploads

(***************************************************************************)
(* The ledger on disk says of every publish that is over what memory says, *)
(* and knows no publish that memory does not: through clearing in the      *)
(* middle of jobs, restarts, and a crash while the file is written.        *)
(***************************************************************************)
LedgerAgrees ==
  \A u \in Uploads :
    /\ pub[u] \in {"done", "error"} => ledger[u] = [status |-> pub[u], key |-> pubKey[u]]
    /\ ledger[u] # None => pub[u] # "absent"

(* A publish that was to be broadcast is "done" only after the envelope of *)
(* its CID and hash, whichever publish queued it, went to the network.     *)
DoneWasHanded ==
  \A u \in want : pub[u] = "done" => pubKey[u] \in handed

(* The duplicate check: one CID and hash has one broadcast that is not an error. *)
OneBroadcastPerKey ==
  \A i, j \in DOMAIN broadcasts :
    /\ broadcasts[i].key = broadcasts[j].key
    /\ broadcasts[i].status # "error" /\ broadcasts[j].status # "error"
    => i = j

(* A publish that is being broadcast ends (publishStatusJson, and the      *)
(* publish smoke test, which waits for "done").                            *)
BroadcastingEnds ==
  \A u \in Uploads : pub[u] = "broadcasting" ~> pub[u] # "broadcasting"
=============================================================================
