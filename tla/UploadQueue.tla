----------------------------- MODULE UploadQueue -----------------------------
(***************************************************************************)
(* The upload queue of the chronicle plugin: uploadFileJson, startUpload,  *)
(* onUploadDone and failUpload of chronicle_plugin.cpp, with the Qt timers *)
(* that drive them and the storage module they talk to.                    *)
(*                                                                         *)
(* One Qt thread runs every handler, so a handler is one step, except      *)
(* startUpload: it waits for the reply of storage_module.uploadUrl, and    *)
(* the remote-objects client waits in a nested event loop.  Reentrant says *)
(* whether timers, requests and storage events are served in that loop.    *)
(*                                                                         *)
(* Time is abstract: a pending single-shot timer may fire at any moment,   *)
(* and DeadlinePasses(u) is the moment from which a retry of u would end   *)
(* after its deadlineMs.                                                   *)
(***************************************************************************)
EXTENDS Naturals, Sequences

CONSTANTS
  Uploads,      \* the upload ids (UUIDs) handed out
  None,         \* the empty QString
  MaxAttempts,  \* no budget leaves room for more attempts than this
  Oversize,     \* uploads whose envelope would exceed kMaxEnvelopeBytes
  Reentrant     \* whether uploadUrl's wait serves other events

ASSUME UploadQueueAssumption ==
  /\ None \notin Uploads
  /\ MaxAttempts \in Nat \ {0}
  /\ Oversize \subseteq Uploads
  /\ Reentrant \in BOOLEAN

VARIABLES
  status,       \* UploadJob.status; "absent" before uploadFileJson
  active,       \* m_activeUploadId
  attempt,      \* UploadJob.attempt
  overdue,      \* the uploads whose deadlineMs leaves no room for a retry
  staged,       \* the uploads whose staging directory exists
  sessionId,    \* UploadJob.sessionId
  mapped,       \* the keys of m_sessionToUpload
  cid,          \* UploadJob.cid, as the upload whose file the CID names
  timers,       \* pending single-shot timers that call startUpload(u)
  calls,        \* uploadUrl calls being waited for, innermost last
  inflight,     \* sessions storage works on: storageUploadDone is to come
  subscribed,   \* m_storageSubscribed
  subscribeDue  \* the 0 ms timer of initLogos that subscribes is pending

jobVars == <<status, attempt, overdue, staged, sessionId, cid>>
vars == <<status, active, attempt, overdue, staged, sessionId, mapped, cid,
          timers, calls, inflight, subscribed, subscribeDue>>

Status == {"absent", "queued", "uploading", "uploaded", "retrying", "error"}

(***************************************************************************)
(* Storage gives every accepted uploadUrl call a session of its own; it is *)
(* named here by the upload and the attempt that asked for it.  A session  *)
(* is only ever entered in m_sessionToUpload with the upload that asked    *)
(* for it, so the map is the set of its keys.                              *)
(***************************************************************************)
Session == Uploads \X Nat
Call == [session : Session, accepted : BOOLEAN]

(* A handler runs when the thread is back in an event loop. *)
Idle == Reentrant \/ calls = <<>>

Unsubscribed == subscribed = FALSE

(* Mutants, used by no definition: the map entry survives the attempt, the *)
(* failed upload stays the active one, its staged copy stays, its retry is  *)
(* not armed.                                                               *)
UnmappedNever(u, keys) == keys
ReleasedNever(u) == active
UnstagedNever(u) == staged
ArmedFirst(u, due) == IF attempt[u] = 0 THEN [due EXCEPT ![u] = @ + 1] ELSE due

Unmapped(u, keys) == keys \ {sessionId[u]}
Released(u) == IF active = u THEN None ELSE active
Unstaged(u) == staged \ {u}
Armed(u, due) == [due EXCEPT ![u] = @ + 1]

-----------------------------------------------------------------------------
Init ==
  /\ status = [u \in Uploads |-> "absent"]
  /\ active = None
  /\ attempt = [u \in Uploads |-> 0]
  /\ overdue = {}
  /\ staged = {}
  /\ sessionId = [u \in Uploads |-> None]
  /\ mapped = {}
  /\ cid = [u \in Uploads |-> None]
  /\ timers = [u \in Uploads |-> 0]
  /\ calls = <<>>
  /\ inflight = {}
  /\ subscribed = FALSE
  /\ subscribeDue = TRUE

(* The one attempt to subscribe to storageUploadDone; requestObject may fail. *)
Subscribe ==
  /\ Idle
  /\ subscribeDue
  /\ subscribeDue' = FALSE
  /\ subscribed' \in BOOLEAN
  /\ UNCHANGED <<jobVars, active, mapped, timers, calls, inflight>>

Settled(u) == status[u] \in {"uploaded", "error"}

(* The clock reaches the point where the next back-off would pass deadlineMs; *)
(* of a job that has ended nobody asks.                                       *)
DeadlinePasses(u) ==
  /\ status[u] # "absent" /\ ~ Settled(u)
  /\ u \notin overdue
  /\ overdue' = overdue \cup {u}
  /\ UNCHANGED <<status, attempt, staged, sessionId, cid, active, mapped,
                 timers, calls, inflight, subscribed, subscribeDue>>

(***************************************************************************)
(* uploadFileJson, for a file that passes the checks and is staged.  Only  *)
(* an upload that finds no active one gets a timer of its own.             *)
(***************************************************************************)
UploadFile(u) ==
  /\ Idle
  /\ status[u] = "absent"
  /\ status' = [status EXCEPT ![u] = "queued"]
  /\ staged' = staged \cup {u}
  /\ timers' = IF active = None THEN Armed(u, timers) ELSE timers
  /\ UNCHANGED <<active, attempt, overdue, sessionId, mapped, cid, calls,
                 inflight, subscribed, subscribeDue>>

-----------------------------------------------------------------------------
(***************************************************************************)
(* failUpload.  Attempt number a of u failed in a way that may pass: try   *)
(* again after the back-off, or give up when that is past the deadline.    *)
(* keys and due are m_sessionToUpload and the timers as the caller leaves  *)
(* them.  Neither branch looks for a queued upload to start.               *)
(***************************************************************************)
FailRetryable(u, a, keys, due) ==
  /\ mapped' = Unmapped(u, keys)
  /\ active' = Released(u)
  /\ \/ /\ u \in overdue \/ a >= MaxAttempts
        /\ status' = [status EXCEPT ![u] = "error"]
        /\ staged' = Unstaged(u)
        /\ timers' = due
     \/ /\ u \notin overdue /\ a < MaxAttempts
        /\ status' = [status EXCEPT ![u] = "retrying"]
        /\ timers' = Armed(u, due)
        /\ UNCHANGED staged

(* Mutant: nothing is started. *)
StartNone == UNCHANGED timers

(* "Start next queued upload": some queued one, the hash has no order. *)
StartNextQueued ==
  LET waiting == {n \in Uploads : status'[n] = "queued"}
  IN  \/ waiting = {} /\ UNCHANGED timers
      \/ \E n \in waiting : timers' = Armed(n, timers)

(* failUpload for a failure that will not pass. *)
FailForGood(u, keys) ==
  /\ mapped' = Unmapped(u, keys)
  /\ active' = Released(u)
  /\ status' = [status EXCEPT ![u] = "error"]
  /\ staged' = Unstaged(u)
  /\ StartNextQueued

-----------------------------------------------------------------------------
(* Mutants: a single-shot timer that repeats; the active upload is not looked at. *)
TimerDueAlways(u) == Idle /\ status[u] # "absent"
MayStartAnyway(u) == status[u] # "uploading"

(* startUpload(u): a timer fires, and its early returns. *)
TimerDue(u) == Idle /\ timers[u] > 0
MayStart(u) == active \in {None, u} /\ status[u] # "uploading"
Fired(u) == [timers EXCEPT ![u] = @ - 1]

StartIgnored(u) ==
  /\ TimerDue(u)
  /\ ~ MayStart(u)
  /\ timers' = Fired(u)
  /\ UNCHANGED <<jobVars, active, mapped, calls, inflight, subscribed, subscribeDue>>

StartUnsubscribed(u) ==
  /\ TimerDue(u)
  /\ MayStart(u)
  /\ Unsubscribed
  /\ attempt' = [attempt EXCEPT ![u] = @ + 1]
  /\ FailRetryable(u, attempt[u] + 1, mapped, Fired(u))
  /\ UNCHANGED <<overdue, sessionId, cid, calls, inflight, subscribed, subscribeDue>>

StartCall(u) ==
  /\ TimerDue(u)
  /\ MayStart(u)
  /\ subscribed
  /\ active' = u
  /\ status' = [status EXCEPT ![u] = "uploading"]
  /\ attempt' = [attempt EXCEPT ![u] = @ + 1]
  /\ timers' = Fired(u)
  /\ calls' = Append(calls, [session |-> <<u, attempt[u] + 1>>, accepted |-> FALSE])
  /\ UNCHANGED <<overdue, staged, sessionId, mapped, cid, inflight,
                 subscribed, subscribeDue>>

StartUpload(u) == StartIgnored(u) \/ StartUnsubscribed(u) \/ StartCall(u)

-----------------------------------------------------------------------------
(* Storage opens a session for a call, if the staged file is still there. *)
StorageAccepts(i) ==
  /\ ~ calls[i].accepted
  /\ calls[i].session[1] \in staged
  /\ calls' = [calls EXCEPT ![i].accepted = TRUE]
  /\ inflight' = inflight \cup {calls[i].session}
  /\ UNCHANGED <<jobVars, active, mapped, timers, subscribed, subscribeDue>>

(* The rest of startUpload, when the wait for the innermost call ends. *)
LastCall == calls[Len(calls)]
Waiter == LastCall.session[1]
CallOver ==
  /\ calls # <<>>
  /\ calls' = SubSeq(calls, 1, Len(calls) - 1)

UploadUrlSession ==
  /\ CallOver
  /\ LastCall.accepted
  /\ sessionId' = [sessionId EXCEPT ![Waiter] = LastCall.session]
  /\ mapped' = mapped \cup {LastCall.session}
  /\ UNCHANGED <<status, attempt, overdue, staged, cid, active, timers,
                 inflight, subscribed, subscribeDue>>

(* No reply in time, or an error isTransient accepts. *)
UploadUrlTransient ==
  /\ CallOver
  /\ FailRetryable(Waiter, attempt[Waiter], mapped, timers)
  /\ UNCHANGED <<attempt, overdue, sessionId, cid, inflight, subscribed, subscribeDue>>

(* A permanent error, or an empty session id. *)
UploadUrlRejected ==
  /\ CallOver
  /\ ~ LastCall.accepted
  /\ FailForGood(Waiter, mapped)
  /\ UNCHANGED <<attempt, overdue, sessionId, cid, inflight, subscribed, subscribeDue>>

UploadUrlReturns == UploadUrlSession \/ UploadUrlTransient \/ UploadUrlRejected

(* Mutant: the closure compares with the first attempt's number. *)
FirstAttemptRuns(u) == status[u] = "uploading" /\ attempt[u] = 1

AttemptRuns(u) == status[u] = "uploading"

(* The timer armed for the running attempt: an older attempt's does nothing. *)
AttemptTimeout(u) ==
  /\ Idle
  /\ AttemptRuns(u)
  /\ FailRetryable(u, attempt[u], mapped, timers)
  /\ UNCHANGED <<attempt, overdue, sessionId, cid, calls, inflight,
                 subscribed, subscribeDue>>

-----------------------------------------------------------------------------
(***************************************************************************)
(* onUploadDone.  The event of session s is credited to the upload the map *)
(* gives, or else to any upload that is uploading.                         *)
(***************************************************************************)
Credited(s) ==
  IF s \in mapped THEN {s[1]} ELSE {u \in Uploads : status[u] = "uploading"}

DoneEvent(s) ==
  /\ Idle
  /\ s \in inflight
  /\ inflight' = inflight \ {s}

DoneDropped(s) ==
  /\ DoneEvent(s)
  /\ Credited(s) = {}
  /\ UNCHANGED <<jobVars, active, mapped, timers, calls, subscribed, subscribeDue>>

DoneTransient(s, u) ==
  /\ DoneEvent(s)
  /\ u \in Credited(s)
  /\ FailRetryable(u, attempt[u], mapped \ {s}, timers)
  /\ UNCHANGED <<attempt, overdue, sessionId, cid, calls, subscribed, subscribeDue>>

DoneRejected(s, u) ==
  /\ DoneEvent(s)
  /\ u \in Credited(s)
  /\ FailForGood(u, mapped \ {s})
  /\ UNCHANGED <<attempt, overdue, sessionId, cid, calls, subscribed, subscribeDue>>

(* The CID is stored before the envelope is measured. *)
DoneOversize(s, u) ==
  /\ DoneEvent(s)
  /\ u \in Credited(s) \cap Oversize
  /\ cid' = [cid EXCEPT ![u] = s[1]]
  /\ FailForGood(u, mapped \ {s})
  /\ UNCHANGED <<attempt, overdue, sessionId, calls, subscribed, subscribeDue>>

DoneUploaded(s, u) ==
  /\ DoneEvent(s)
  /\ u \in Credited(s) \ Oversize
  /\ mapped' = Unmapped(u, mapped \ {s})
  /\ status' = [status EXCEPT ![u] = "uploaded"]
  /\ cid' = [cid EXCEPT ![u] = s[1]]
  /\ staged' = Unstaged(u)
  /\ active' = None
  /\ StartNextQueued
  /\ UNCHANGED <<attempt, overdue, sessionId, calls, subscribed, subscribeDue>>

OnUploadDone(s) ==
  \/ DoneDropped(s)
  \/ \E u \in Uploads : \/ DoneTransient(s, u)
                        \/ DoneRejected(s, u)
                        \/ DoneOversize(s, u)
                        \/ DoneUploaded(s, u)

-----------------------------------------------------------------------------
Next ==
  \/ Subscribe
  \/ \E u \in Uploads : \/ DeadlinePasses(u)
                        \/ UploadFile(u)
                        \/ StartUpload(u)
                        \/ AttemptTimeout(u)
  \/ \E i \in DOMAIN calls : StorageAccepts(i)
  \/ UploadUrlReturns
  \/ \E s \in inflight : OnUploadDone(s)

(***************************************************************************)
(* Timers fire, a call returns within its Timeout and the clock moves on;  *)
(* nothing is assumed of the storage module.                               *)
(***************************************************************************)
Fairness ==
  /\ WF_vars(UploadUrlReturns)
  /\ \A u \in Uploads : /\ WF_vars(StartUpload(u))
                        /\ WF_vars(AttemptTimeout(u))
                        /\ WF_vars(DeadlinePasses(u))

Spec == Init /\ [][Next]_vars
FairSpec == Spec /\ Fairness

-----------------------------------------------------------------------------
(* Every variable has its type. *)
TypeOK ==
  /\ status \in [Uploads -> Status]
  /\ active \in Uploads \cup {None}
  /\ attempt \in [Uploads -> Nat]
  /\ overdue \subseteq Uploads
  /\ staged \subseteq Uploads
  /\ sessionId \in [Uploads -> Session \cup {None}]
  /\ mapped \subseteq Session
  /\ cid \in [Uploads -> Uploads \cup {None}]
  /\ timers \in [Uploads -> Nat]
  /\ calls \in Seq(Call)
  /\ inflight \subseteq Session
  /\ subscribed \in BOOLEAN
  /\ subscribeDue \in BOOLEAN

(***************************************************************************)
(* m_activeUploadId names an upload that is uploading: no path leaves it   *)
(* on a job that has failed, finished or waits for a retry, which would    *)
(* keep every other upload from starting.                                  *)
(***************************************************************************)
ActiveIsUploading == active # None => status[active] = "uploading"

(***************************************************************************)
(* One upload at a time: whatever is uploading is the active upload.  It   *)
(* is what the test of m_activeUploadId in startUpload is for; it holds    *)
(* when uploadUrl's wait serves no other event.                            *)
(***************************************************************************)
OneInFlight == \A u \in Uploads : status[u] = "uploading" => active = u

(***************************************************************************)
(* m_sessionToUpload holds no stale session: each key is the session of    *)
(* the attempt that is running, so that a late storageUploadDone of an     *)
(* abandoned attempt never finds its upload through the map.               *)
(***************************************************************************)
SessionMapLive ==
  \A s \in mapped : /\ status[s[1]] = "uploading"
                    /\ sessionId[s[1]] = s
                    /\ attempt[s[1]] = s[2]

(* The staged copy of the document does not outlive the job's terminal state. *)
TerminalUnstaged ==
  \A u \in staged : status[u] \notin {"absent", "uploaded", "error"}

(***************************************************************************)
(* The CID of an upload is that of its own file ("upload a document, have  *)
(* its content-identifier (CID) broadcast", README.md).                    *)
(***************************************************************************)
CidNamesOwnFile == \A u \in Uploads : cid[u] \in {None, u}

(* An attempt ends, whatever storage does: its timeout fails it at the latest. *)
AttemptEnds ==
  \A u \in Uploads : status[u] = "uploading" ~> status[u] # "uploading"

(***************************************************************************)
(* The queue moves on: every finished upload, and every rejected one,      *)
(* starts another, until one fails in a retryable way, which frees the     *)
(* slot without looking for a queued upload.                               *)
(***************************************************************************)
FailedRetryably(u) ==
  \/ status[u] = "retrying"
  \/ status[u] = "error" /\ (u \in overdue \/ attempt[u] >= MaxAttempts)
QueueDrains ==
  \A u \in Uploads :
    status[u] = "queued" ~> Settled(u) \/ \E v \in Uploads : FailedRetryably(v)

(***************************************************************************)
(* An upload that is retried ends uploaded or, at its deadline, in         *)
(* RETRIES_EXHAUSTED (logos-chronicle/README.md, uploadFileJson), unless   *)
(* its retry timer is gone; and the one way to lose that is that it fires  *)
(* while another upload is active (startUpload's second return).           *)
(***************************************************************************)
Stranded(u) == status[u] = "retrying" /\ timers[u] = 0
RetryingSettles ==
  /\ \A u \in Uploads : status[u] = "retrying" ~> Settled(u) \/ Stranded(u)
  /\ [][\A u \in Uploads : Stranded(u)' => Stranded(u) \/ active \notin {u, None}]_vars
=============================================================================
