------------------------------ MODULE Delivery ------------------------------
(***************************************************************************)
(* One document on its way to the subscribers of the topic: through        *)
(* publishFileJson, or through a client that builds the envelope itself,   *)
(* and what both need: storageReady and deliveryReady, which bring the     *)
(* storage and delivery modules up one remote call after the other.        *)
(*                                                                         *)
(* A handler waits for each of its calls, and no other handler of          *)
(* chronicle runs meanwhile.  The other two modules may restart at any     *)
(* time, and chronicle too; a call or its answer may be lost.  Each of     *)
(* these is counted as a fault.                                            *)
(***************************************************************************)
EXTENDS Metadata

CONSTANTS
  Documents,   \* what publishers say of their documents
  None,
  Stamps,      \* timestamps a client may give, 0 among them; the clock is not 0
  MaxPosts,    \* bound: broadcasts queued between two restarts of chronicle
  MaxFaults    \* bound: faults in a behaviour

ASSUME DeliveryAssumption ==
  /\ \A d \in Documents :
       d \in [content_type : Text, size_bytes : Nat, title : Text, description : Text,
              tags : Seq(Text)]
  /\ Stamps \subseteq Nat
  /\ MaxPosts \in Nat /\ MaxFaults \in Nat

VARIABLES
  doc,           \* the document, as its publisher describes it
  job,           \* its UploadJob
  made,          \* the envelopes made of it, and by whom
  posts,         \* m_broadcasts in the order of their ids
  storageReady,  \* m_storageReady
  stage,         \* m_deliveryObjReady, m_deliveryNodeUp and m_deliveryStarted, in turn
  storage,       \* storage_module: 0, initialised 1, started 2
  delivery,      \* delivery_module: 0, node created 1, node started 2
  calling,       \* the remote call chronicle waits for, or "idle"
  posting,       \* the broadcast that sendBroadcast is about, or 0
  faults

documentVars == <<doc, job, made>>
chronicleVars == <<storageReady, stage, calling, posting>>
remoteVars == <<storage, delivery>>
vars == <<documentVars, posts, chronicleVars, remoteVars, faults>>

Idle == calling = "idle"

(* The call deliveryReady goes on with when it is at a stage. *)
DeliveryCall(s) == <<"requestObject", "createNode", "startNode", "idle">>[s + 1]

Init ==
  /\ doc \in Documents
  /\ job = None /\ made = {} /\ posts = <<>>
  /\ storageReady = FALSE /\ stage = 0 /\ calling = "idle" /\ posting = 0
  /\ storage = 0 /\ delivery = 0
  /\ faults = 0

-----------------------------------------------------------------------------
(* Mutant: uploadFileJson keeps the title it was given. *)
StoredRaw(d) ==
  [content_type |-> CoerceContentType(d.content_type), size_bytes |-> d.size_bytes,
   title |-> d.title, description |-> <<>>, tags |-> <<>>]

(* uploadFileJson keeps a clean title, and no description or tags. *)
Stored(d) ==
  [content_type |-> CoerceContentType(d.content_type), size_bytes |-> d.size_bytes,
   title |-> CleanTitle(d.title), description |-> <<>>, tags |-> <<>>]

PublishFile ==
  /\ Idle
  /\ job = None
  /\ CleanTitle(doc.title) # <<>>
  /\ job' = Stored(doc)
  /\ UNCHANGED <<doc, made, posts, chronicleVars, remoteVars, faults>>

(* Mutant: every envelope is queued. *)
QueuedAnyway(e) == posts' = Append(posts, [hash |-> e.metadata_hash, status |-> "queued"])

(* broadcastEnvelopeJson: nothing happens to what is queued or sent already. *)
Queued(e) ==
  \/ \E p \in DOMAIN posts : /\ posts[p].hash = e.metadata_hash
                             /\ posts[p].status # "error"
                             /\ UNCHANGED posts
  \/ /\ \A p \in DOMAIN posts : posts[p].hash = e.metadata_hash => posts[p].status = "error"
     /\ posts' = Append(posts, [hash |-> e.metadata_hash, status |-> "queued"])

(* onUploadDone with the envelope, and afterUpload; ENVELOPE_TOO_LARGE ends it. *)
UploadDone ==
  LET e == BuildEnvelope(job, 1, MetadataHash(job))
  IN  /\ Idle
      /\ job # None
      /\ Len(posts) < MaxPosts
      /\ job' = None
      /\ IF FitsInCap(e)
         THEN made' = made \cup {[by |-> "upload", env |-> e]} /\ Queued(e)
         ELSE UNCHANGED <<made, posts>>
      /\ UNCHANGED <<doc, chronicleVars, remoteVars, faults>>

(* parseTags sees nothing of tags that are a JSON array, only of their text. *)
Given(d, form) == IF form = "array" THEN [d EXCEPT !.tags = <<>>] ELSE d

(* buildMetadataEnvelopeJson. *)
BuildMetadataEnvelope(timestamp, form) ==
  LET d == Given(doc, form)
      e == BuildEnvelope(d, timestamp, MetadataHash(d))
  IN  /\ Idle
      /\ CleanTitle(d.title) # <<>>
      /\ FitsInCap(e)
      /\ made' = made \cup {[by |-> "client", env |-> e]}
      /\ UNCHANGED <<doc, job, posts, chronicleVars, remoteVars, faults>>

BroadcastEnvelope(m) ==
  /\ Idle
  /\ Len(posts) < MaxPosts
  /\ Queued(m.env)
  /\ UNCHANGED <<documentVars, chronicleVars, remoteVars, faults>>

-----------------------------------------------------------------------------
(* startBroadcasterJson, unless all is up. *)
StartBroadcaster ==
  /\ Idle
  /\ calling' = IF storageReady THEN DeliveryCall(stage) ELSE "init"
  /\ UNCHANGED <<documentVars, posts, storageReady, stage, posting, remoteVars, faults>>

Decided(i, verdict) ==
  posts' = IF i = 0 THEN posts ELSE [posts EXCEPT ![i].status = verdict]

(* The 0 ms timer of sendBroadcast. *)
SendBroadcast(i) ==
  /\ Idle
  /\ posts[i].status = "queued"
  /\ calling' = DeliveryCall(stage)
  /\ IF stage = 3 THEN Decided(i, "sent") /\ UNCHANGED posting
                  ELSE posting' = i /\ UNCHANGED posts
  /\ UNCHANGED <<documentVars, storageReady, stage, remoteVars, faults>>

(* The handler goes on to what deliveryReady is to do next, or has come to its end. *)
GoesOn(s) ==
  /\ calling' = DeliveryCall(s)
  /\ IF s = 3 THEN Decided(posting, "sent") /\ posting' = 0 ELSE UNCHANGED <<posts, posting>>

(* Mutant: what was to be sent is not forgotten. *)
GivesUpPosting == calling' = "idle" /\ Decided(posting, "error") /\ UNCHANGED posting

GivesUp == calling' = "idle" /\ Decided(posting, "error") /\ posting' = 0

(* Mutant: that the storage module has done it already is an error. *)
AlreadyRefused == FALSE

(* isAlready: storage's refusal to do something twice is taken for success. *)
AlreadyTaken == TRUE

StorageInit ==
  /\ calling = "init"
  /\ storage = 0 \/ AlreadyTaken
  /\ storage' = IF storage = 0 THEN 1 ELSE storage
  /\ calling' = "start"
  /\ UNCHANGED <<documentVars, posts, storageReady, stage, posting, delivery, faults>>

StorageStart ==
  /\ calling = "start"
  /\ storage = 1 \/ (storage = 2 /\ AlreadyTaken)
  /\ storage' = 2
  /\ storageReady' = TRUE
  /\ GoesOn(stage)
  /\ UNCHANGED <<documentVars, stage, delivery, faults>>

RequestObject ==
  /\ calling = "requestObject"
  /\ stage' = 1
  /\ GoesOn(1)
  /\ UNCHANGED <<documentVars, storageReady, remoteVars, faults>>

(* Mutant: the flag is set whatever the answer. *)
NodeMadeOrNot == delivery

NodeMade == IF delivery = 0 THEN 1 ELSE delivery

(* A delivery module that has a node may make do with it or refuse another. *)
CreateNode ==
  /\ calling = "createNode"
  /\ delivery' = NodeMade
  /\ stage' = 2
  /\ GoesOn(2)
  /\ UNCHANGED <<documentVars, storageReady, storage, faults>>

StartNode ==
  /\ calling = "startNode"
  /\ delivery # 0
  /\ delivery' = 2
  /\ stage' = 3
  /\ GoesOn(3)
  /\ UNCHANGED <<documentVars, storageReady, storage, faults>>

CallRefused ==
  /\ \/ calling = "init" /\ storage > 0 /\ ~ AlreadyTaken
     \/ calling = "start" /\ (storage = 0 \/ (storage = 2 /\ ~ AlreadyTaken))
     \/ calling = "createNode" /\ delivery > 0
     \/ calling = "startNode" /\ delivery # 1
  /\ GivesUp
  /\ UNCHANGED <<documentVars, storageReady, stage, remoteVars, faults>>

CallReturns ==
  StorageInit \/ StorageStart \/ RequestObject \/ CreateNode \/ StartNode \/ CallRefused

-----------------------------------------------------------------------------
Fault == faults < MaxFaults /\ faults' = faults + 1

(* No answer in time, whether or not the call was carried out. *)
CallLost ==
  /\ Fault
  /\ ~ Idle
  /\ storage' \in {storage} \cup (IF calling = "init" /\ storage = 0 THEN {1} ELSE {})
                            \cup (IF calling = "start" /\ storage = 1 THEN {2} ELSE {})
  /\ delivery' \in {delivery} \cup (IF calling = "createNode" /\ delivery = 0 THEN {1} ELSE {})
                              \cup (IF calling = "startNode" /\ delivery = 1 THEN {2} ELSE {})
  /\ GivesUp
  /\ UNCHANGED <<documentVars, storageReady, stage>>

ModuleRestarts ==
  /\ Fault
  /\ \/ storage' = 0 /\ UNCHANGED delivery
     \/ delivery' = 0 /\ UNCHANGED storage
  /\ UNCHANGED <<documentVars, posts, chronicleVars>>

(* Clients keep the envelopes they have. *)
ChronicleRestarts ==
  /\ Fault
  /\ job' = None /\ posts' = <<>>
  /\ storageReady' = FALSE /\ stage' = 0 /\ calling' = "idle" /\ posting' = 0
  /\ UNCHANGED <<doc, made, remoteVars>>

Next ==
  \/ PublishFile \/ UploadDone
  \/ \E t \in Stamps, form \in {"array", "text"} : BuildMetadataEnvelope(t, form)
  \/ \E m \in made : BroadcastEnvelope(m)
  \/ StartBroadcaster
  \/ \E i \in DOMAIN posts : SendBroadcast(i)
  \/ CallReturns
  \/ CallLost \/ ModuleRestarts \/ ChronicleRestarts

Spec == Init /\ [][Next]_vars

(* A call returns at last, and somebody who is not answered "started" asks again: *)
(* Whistleblower by its retry timer, then the user by its Reconnect button.       *)
FairSpec == Spec /\ WF_vars(StartBroadcaster) /\ WF_vars(CallReturns)

-----------------------------------------------------------------------------
DeliveryTypeOK ==
  /\ doc \in Documents
  /\ job # None => job.title # <<>>
  /\ \A m \in made : m.by \in {"upload", "client"} /\ FitsInCap(m.env)
  /\ \A i \in DOMAIN posts : posts[i].status \in {"queued", "sent", "error"}
  /\ Len(posts) <= MaxPosts
  /\ storageReady \in BOOLEAN /\ stage \in 0 .. 3
  /\ storage \in 0 .. 2 /\ delivery \in 0 .. 2
  /\ calling \in {"idle", "init", "start", "requestObject", "createNode", "startNode"}
  /\ posting \in 0 .. Len(posts)
  /\ posting > 0 => ~ Idle /\ posts[posting].status = "queued"

(***************************************************************************)
(* logos-chronicle/README.md:126: "metadata_hash lets any subscriber       *)
(* verify document integrity": the envelope of every publish verifies from *)
(* its own fields, and so does one a client had built, unless a field was  *)
(* cut at its limit, where the cut may leave a blank that is trimmed next  *)
(* time.  batch-anchor lets it through, but for a timestamp of 0.          *)
(***************************************************************************)
Verifiable ==
  \A m \in made :
    /\ Verifies(m.env) \/ (m.by = "client" /\ ~ Uncut(doc))
    /\ FromPayload(m.env) \/ (m.by = "client" /\ m.env.timestamp = 0)

(***************************************************************************)
(* A document that is published and that a client announces too goes out   *)
(* once: the two ways to its hash agree, unless there is a description or  *)
(* tags, which publishFileJson drops, or a field was cut.                  *)
(***************************************************************************)
SameDocumentOnce ==
  Uncut(doc) /\ doc.description = <<>> /\ doc.tags = <<>>
  => \A i, j \in DOMAIN posts : posts[i].status # "error" /\ posts[j].status # "error" => i = j

(***************************************************************************)
(* What chronicle takes the other two modules to have done, which it never *)
(* does again, is what they have done, until a fault parts it from one of  *)
(* them: a restart, or for delivery, where there is no isAlready, also an  *)
(* answer that is lost.                                                    *)
(***************************************************************************)
StorageApart == storageReady /\ storage # 2
DeliveryApart == delivery # IF stage < 2 THEN 0 ELSE stage - 1
Parts ==
  \/ StorageApart' /\ ~ StorageApart
  \/ DeliveryApart' /\ ~ DeliveryApart
PartedByFault == [][Parts => faults' # faults]_vars

(***************************************************************************)
(* startBroadcasterJson, repeated, brings both modules up, however often   *)
(* a storage call was lost or storage restarted on the way, but for two    *)
(* states it does not leave by itself: chronicle and delivery are apart,   *)
(* and delivery may refuse for ever; or storage restarted once it was      *)
(* started, and m_storageReady (chronicle_plugin.cpp:208) keeps chronicle  *)
(* from starting it again.                                                 *)
(***************************************************************************)
Up == storageReady /\ storage = 2 /\ stage = 3 /\ delivery = 2
ComesUp == []<>(Up \/ StorageApart \/ DeliveryApart)
=============================================================================
