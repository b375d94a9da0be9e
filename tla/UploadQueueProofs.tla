-------------------------- MODULE UploadQueueProofs --------------------------
(* Theorems about UploadQueue, for any uploads, any retry budget, and with *)
(* or without a nested event loop unless the theorem says so.              *)
EXTENDS UploadQueue, SequenceTheorems, TLAPS

USE DEF Status

-----------------------------------------------------------------------------
(* Type correctness. *)

LEMMA FailRetryableType ==
  ASSUME TypeOK, NEW u \in Uploads, NEW a \in Nat, NEW keys \in SUBSET Session,
         NEW due \in [Uploads -> Nat], FailRetryable(u, a, keys, due)
  PROVE  /\ status' \in [Uploads -> Status]
         /\ active' \in Uploads \cup {None}
         /\ staged' \subseteq Uploads
         /\ mapped' \subseteq Session
         /\ timers' \in [Uploads -> Nat]
  <1>1. /\ active' \in Uploads \cup {None}
        /\ mapped' \subseteq Session
    BY DEF TypeOK, FailRetryable, Unmapped, Released
  <1>2. CASE u \in overdue \/ a >= MaxAttempts
    <2>1. /\ status' = [status EXCEPT ![u] = "error"]
          /\ staged' = staged \ {u}
          /\ timers' = due
      BY <1>2, UploadQueueAssumption DEF FailRetryable, Unstaged
    <2>2. QED
      BY <1>1, <2>1 DEF TypeOK
  <1>3. CASE ~(u \in overdue \/ a >= MaxAttempts)
    <2>1. /\ status' = [status EXCEPT ![u] = "retrying"]
          /\ staged' = staged
          /\ timers' = [due EXCEPT ![u] = @ + 1]
      BY <1>3, UploadQueueAssumption DEF FailRetryable, Armed
    <2>2. timers' \in [Uploads -> Nat]
      BY <2>1
    <2>3. QED
      BY <1>1, <2>1, <2>2 DEF TypeOK
  <1>4. QED
    BY <1>2, <1>3

LEMMA StartNextQueuedType ==
  ASSUME TypeOK, StartNextQueued
  PROVE  timers' \in [Uploads -> Nat]
  <1>1. timers' = timers \/ \E n \in Uploads : timers' = [timers EXCEPT ![n] = @ + 1]
    BY DEF StartNextQueued, Armed
  <1>2. timers \in [Uploads -> Nat]
    BY DEF TypeOK
  <1>3. ASSUME NEW n \in Uploads, timers' = [timers EXCEPT ![n] = @ + 1]
        PROVE  timers' \in [Uploads -> Nat]
    BY <1>2, <1>3
  <1>4. QED
    BY <1>1, <1>2, <1>3

LEMMA FailForGoodType ==
  ASSUME TypeOK, NEW u \in Uploads, NEW keys \in SUBSET Session, FailForGood(u, keys)
  PROVE  /\ status' \in [Uploads -> Status]
         /\ active' \in Uploads \cup {None}
         /\ staged' \subseteq Uploads
         /\ mapped' \subseteq Session
         /\ timers' \in [Uploads -> Nat]
  BY StartNextQueuedType DEF TypeOK, FailForGood, Unmapped, Released, Unstaged

LEMMA FiredType ==
  ASSUME TypeOK, NEW u \in Uploads, TimerDue(u)
  PROVE  Fired(u) \in [Uploads -> Nat]
  BY DEF TypeOK, TimerDue, Fired

LEMMA WaiterType ==
  ASSUME TypeOK, CallOver
  PROVE  /\ LastCall \in Call
         /\ Waiter \in Uploads
         /\ calls' \in Seq(Call)
  <1>1. Len(calls) \in 1 .. Len(calls)
    BY DEF TypeOK, CallOver
  <1>2. LastCall \in Call
    BY <1>1 DEF TypeOK, LastCall
  <1>3. calls' \in Seq(Call)
    BY <1>1 DEF TypeOK, CallOver
  <1>4. QED
    BY <1>2, <1>3 DEF Waiter, Call, Session

LEMMA CreditedType ==
  ASSUME TypeOK, NEW s \in inflight
  PROVE  Credited(s) \subseteq Uploads
  BY DEF TypeOK, Credited, Session

LEMMA TypeStep == TypeOK /\ [Next]_vars => TypeOK'
  <1> SUFFICES ASSUME TypeOK, [Next]_vars PROVE TypeOK'
    OBVIOUS
  <1>1. CASE Subscribe
    BY <1>1 DEF TypeOK, Subscribe, jobVars
  <1>2. ASSUME NEW u \in Uploads, DeadlinePasses(u) PROVE TypeOK'
    BY <1>2 DEF TypeOK, DeadlinePasses
  <1>3. ASSUME NEW u \in Uploads, UploadFile(u) PROVE TypeOK'
    BY <1>3 DEF TypeOK, UploadFile, Armed
  <1>4. ASSUME NEW u \in Uploads, StartIgnored(u) PROVE TypeOK'
    BY <1>4, FiredType DEF TypeOK, StartIgnored, jobVars
  <1>5. ASSUME NEW u \in Uploads, StartUnsubscribed(u) PROVE TypeOK'
    <2>1. attempt[u] + 1 \in Nat /\ mapped \in SUBSET Session
      BY DEF TypeOK
    <2>2. Fired(u) \in [Uploads -> Nat]
      BY <1>5, FiredType DEF StartUnsubscribed
    <2>3. FailRetryable(u, attempt[u] + 1, mapped, Fired(u))
      BY <1>5 DEF StartUnsubscribed
    <2>4. /\ status' \in [Uploads -> Status]
          /\ active' \in Uploads \cup {None}
          /\ staged' \subseteq Uploads
          /\ mapped' \subseteq Session
          /\ timers' \in [Uploads -> Nat]
      BY <2>1, <2>2, <2>3, FailRetryableType
    <2>5. attempt' \in [Uploads -> Nat]
      BY <1>5 DEF TypeOK, StartUnsubscribed
    <2>6. UNCHANGED <<overdue, sessionId, cid, calls, inflight, subscribed, subscribeDue>>
      BY <1>5 DEF StartUnsubscribed
    <2>7. QED
      BY <2>4, <2>5, <2>6 DEF TypeOK
  <1>6. ASSUME NEW u \in Uploads, StartCall(u) PROVE TypeOK'
    <2>1. [session |-> <<u, attempt[u] + 1>>, accepted |-> FALSE] \in Call
      BY DEF TypeOK, Call, Session
    <2>2. calls' \in Seq(Call)
      BY <1>6, <2>1 DEF TypeOK, StartCall
    <2>3. QED
      BY <1>6, <2>2, FiredType DEF TypeOK, StartCall
  <1>7. ASSUME NEW u \in Uploads, AttemptTimeout(u) PROVE TypeOK'
    <2>1. /\ attempt[u] \in Nat /\ mapped \in SUBSET Session
          /\ timers \in [Uploads -> Nat]
      BY DEF TypeOK
    <2>2. FailRetryable(u, attempt[u], mapped, timers)
      BY <1>7 DEF AttemptTimeout
    <2>3. QED
      BY <1>7, <2>1, <2>2, FailRetryableType DEF TypeOK, AttemptTimeout
  <1>8. ASSUME NEW i \in DOMAIN calls, StorageAccepts(i) PROVE TypeOK'
    <2>1. calls[i] \in Call
      BY <1>8 DEF TypeOK
    <2>2. [calls[i] EXCEPT !.accepted = TRUE] \in Call
      BY <2>1 DEF Call
    <2>3. calls' \in Seq(Call)
      BY <1>8, <2>2 DEF TypeOK, StorageAccepts
    <2>4. QED
      BY <1>8, <2>1, <2>3 DEF TypeOK, StorageAccepts, jobVars, Call
  <1>9. CASE UploadUrlSession
    <2>1. LastCall.session \in Session /\ Waiter \in Uploads /\ calls' \in Seq(Call)
      BY <1>9, WaiterType DEF UploadUrlSession, Call
    <2>2. QED
      BY <1>9, <2>1 DEF TypeOK, UploadUrlSession
  <1>10. CASE UploadUrlTransient
    <2>1. Waiter \in Uploads /\ calls' \in Seq(Call)
      BY <1>10, WaiterType DEF UploadUrlTransient
    <2>2. /\ attempt[Waiter] \in Nat /\ mapped \in SUBSET Session
          /\ timers \in [Uploads -> Nat]
      BY <2>1 DEF TypeOK
    <2>3. FailRetryable(Waiter, attempt[Waiter], mapped, timers)
      BY <1>10 DEF UploadUrlTransient
    <2>4. QED
      BY <1>10, <2>1, <2>2, <2>3, FailRetryableType DEF TypeOK, UploadUrlTransient
  <1>11. CASE UploadUrlRejected
    <2>1. Waiter \in Uploads /\ calls' \in Seq(Call)
      BY <1>11, WaiterType DEF UploadUrlRejected
    <2>2. mapped \in SUBSET Session /\ FailForGood(Waiter, mapped)
      BY <1>11 DEF TypeOK, UploadUrlRejected
    <2>3. QED
      BY <1>11, <2>1, <2>2, FailForGoodType DEF TypeOK, UploadUrlRejected
  <1>12. ASSUME NEW s \in inflight, OnUploadDone(s) PROVE TypeOK'
    <2>1. s \in Session /\ s[1] \in Uploads /\ inflight \ {s} \subseteq Session
      BY DEF TypeOK, Session
    <2>2. /\ mapped \ {s} \in SUBSET Session
          /\ timers \in [Uploads -> Nat]
      BY DEF TypeOK
    <2>3. CASE DoneDropped(s)
      BY <2>1, <2>3 DEF TypeOK, DoneDropped, DoneEvent, jobVars
    <2>4. ASSUME NEW u \in Uploads, DoneTransient(s, u) PROVE TypeOK'
      <3>1. attempt[u] \in Nat /\ FailRetryable(u, attempt[u], mapped \ {s}, timers)
        BY <2>4 DEF TypeOK, DoneTransient
      <3>2. QED
        BY <2>1, <2>2, <2>4, <3>1, FailRetryableType DEF TypeOK, DoneTransient, DoneEvent
    <2>5. ASSUME NEW u \in Uploads, DoneRejected(s, u) PROVE TypeOK'
      <3>1. FailForGood(u, mapped \ {s})
        BY <2>5 DEF DoneRejected
      <3>2. QED
        BY <2>1, <2>2, <2>5, <3>1, FailForGoodType DEF TypeOK, DoneRejected, DoneEvent
    <2>6. ASSUME NEW u \in Uploads, DoneOversize(s, u) PROVE TypeOK'
      <3>1. FailForGood(u, mapped \ {s})
        BY <2>6 DEF DoneOversize
      <3>2. QED
        BY <2>1, <2>2, <2>6, <3>1, FailForGoodType DEF TypeOK, DoneOversize, DoneEvent
    <2>7. ASSUME NEW u \in Uploads, DoneUploaded(s, u) PROVE TypeOK'
      <3>1. timers' \in [Uploads -> Nat]
        BY <2>7, StartNextQueuedType DEF DoneUploaded
      <3>2. QED
        BY <2>1, <2>7, <3>1 DEF TypeOK, DoneUploaded, DoneEvent, Unmapped, Unstaged
    <2>8. QED
      BY <1>12, <2>3, <2>4, <2>5, <2>6, <2>7 DEF OnUploadDone
  <1>13. CASE UNCHANGED vars
    BY <1>13 DEF TypeOK, vars
  <1>14. QED
    BY <1>1, <1>2, <1>3, <1>4, <1>5, <1>6, <1>7, <1>8, <1>9, <1>10, <1>11, <1>12, <1>13
       DEF Next, StartUpload, UploadUrlReturns

LEMMA QueueTypeInit == Init => TypeOK
  <1>1. <<>> \in Seq(Call)
    OBVIOUS
  <1>2. ASSUME Init
        PROVE  /\ status \in [Uploads -> Status]
               /\ active \in Uploads \cup {None}
               /\ sessionId \in [Uploads -> Session \cup {None}]
               /\ cid \in [Uploads -> Uploads \cup {None}]
    BY <1>2 DEF Init
  <1>3. ASSUME Init
        PROVE  attempt \in [Uploads -> Nat] /\ timers \in [Uploads -> Nat]
    BY <1>3 DEF Init
  <1>4. QED
    BY <1>1, <1>2, <1>3 DEF Init, TypeOK

(* Every variable keeps its type, whatever storage and the clock do. *)
THEOREM TypeCorrect == Spec => []TypeOK
  BY QueueTypeInit, TypeStep, PTL DEF Spec

-----------------------------------------------------------------------------
(* Invariants that hold with or without the nested event loop. *)

(* What failUpload does to the job, whichever of its branches runs. *)
Failed(u, keys) ==
  /\ status'[u] \in {"error", "retrying"}
  /\ \A v \in Uploads \ {u} : status'[v] = status[v]
  /\ active' = Released(u)
  /\ mapped' = keys \ {sessionId[u]}
  /\ staged' \subseteq staged
  /\ status'[u] = "error" => u \notin staged'

LEMMA FailRetryableFails ==
  ASSUME TypeOK, NEW u \in Uploads, NEW a, NEW keys, NEW due,
         FailRetryable(u, a, keys, due)
  PROVE  Failed(u, keys)
  BY DEF TypeOK, FailRetryable, Failed, Unmapped, Unstaged

LEMMA FailForGoodFails ==
  ASSUME TypeOK, NEW u \in Uploads, NEW keys, FailForGood(u, keys)
  PROVE  Failed(u, keys)
  BY DEF TypeOK, FailForGood, Failed, Unmapped, Unstaged

(* Neither invariant needs the other. *)
LocalKept ==
  /\ ActiveIsUploading => ActiveIsUploading'
  /\ TerminalUnstaged => TerminalUnstaged'

LEMMA FailedKeepsLocal ==
  ASSUME TypeOK, NEW u \in Uploads, NEW keys, Failed(u, keys)
  PROVE  LocalKept
  BY UploadQueueAssumption
     DEF TypeOK, LocalKept, Failed, Released, ActiveIsUploading, TerminalUnstaged

LEMMA LocalStep == TypeOK /\ [Next]_vars => LocalKept
  <1> SUFFICES ASSUME TypeOK, [Next]_vars PROVE LocalKept
    OBVIOUS
  <1> USE UploadQueueAssumption
  <1>1. CASE UNCHANGED <<status, active, staged>>
    BY <1>1 DEF LocalKept, ActiveIsUploading, TerminalUnstaged
  <1>2. ASSUME NEW u \in Uploads, UploadFile(u) PROVE LocalKept
    BY <1>2 DEF UploadFile, TypeOK, LocalKept, ActiveIsUploading, TerminalUnstaged
  <1>3. ASSUME NEW u \in Uploads, StartUpload(u) PROVE LocalKept
    <2>1. CASE StartIgnored(u)
      BY <1>1, <2>1 DEF StartIgnored, jobVars
    <2>2. CASE StartUnsubscribed(u)
      BY <2>2, FailRetryableFails, FailedKeepsLocal DEF StartUnsubscribed
    <2>3. CASE StartCall(u)
      BY <2>3 DEF StartCall, TypeOK, LocalKept, ActiveIsUploading, TerminalUnstaged
    <2>4. QED
      BY <1>3, <2>1, <2>2, <2>3 DEF StartUpload
  <1>4. ASSUME NEW u \in Uploads, AttemptTimeout(u) PROVE LocalKept
    BY <1>4, FailRetryableFails, FailedKeepsLocal DEF AttemptTimeout
  <1>5. CASE UploadUrlTransient
    BY <1>5, WaiterType, FailRetryableFails, FailedKeepsLocal DEF UploadUrlTransient
  <1>6. CASE UploadUrlRejected
    BY <1>6, WaiterType, FailForGoodFails, FailedKeepsLocal DEF UploadUrlRejected
  <1>7. ASSUME NEW s \in inflight, OnUploadDone(s) PROVE LocalKept
    <2>1. CASE DoneDropped(s)
      BY <1>1, <2>1 DEF DoneDropped, jobVars
    <2>2. ASSUME NEW u \in Uploads, DoneTransient(s, u) PROVE LocalKept
      BY <2>2, FailRetryableFails, FailedKeepsLocal DEF DoneTransient
    <2>3. ASSUME NEW u \in Uploads, DoneRejected(s, u) PROVE LocalKept
      BY <2>3, FailForGoodFails, FailedKeepsLocal DEF DoneRejected
    <2>4. ASSUME NEW u \in Uploads, DoneOversize(s, u) PROVE LocalKept
      BY <2>4, FailForGoodFails, FailedKeepsLocal DEF DoneOversize
    <2>5. ASSUME NEW u \in Uploads, DoneUploaded(s, u) PROVE LocalKept
      BY <2>5 DEF DoneUploaded, TypeOK, LocalKept, ActiveIsUploading,
             TerminalUnstaged, Unstaged
    <2>6. QED
      BY <1>7, <2>1, <2>2, <2>3, <2>4, <2>5 DEF OnUploadDone
  <1>8. CASE Subscribe
    BY <1>1, <1>8 DEF Subscribe, jobVars
  <1>9. ASSUME NEW u \in Uploads, DeadlinePasses(u) PROVE LocalKept
    BY <1>1, <1>9 DEF DeadlinePasses
  <1>10. ASSUME NEW i \in DOMAIN calls, StorageAccepts(i) PROVE LocalKept
    BY <1>1, <1>10 DEF StorageAccepts, jobVars
  <1>11. CASE UploadUrlSession
    BY <1>1, <1>11 DEF UploadUrlSession
  <1>12. CASE UNCHANGED vars
    BY <1>1, <1>12 DEF vars
  <1>13. QED
    BY <1>2, <1>3, <1>4, <1>5, <1>6, <1>7, <1>8, <1>9, <1>10, <1>11, <1>12
       DEF Next, UploadUrlReturns

LEMMA LocalInvariant == Spec => []ActiveIsUploading /\ []TerminalUnstaged
  <1>1. Init => ActiveIsUploading /\ TerminalUnstaged
    BY DEF Init, ActiveIsUploading, TerminalUnstaged
  <1>2. TypeOK /\ ActiveIsUploading /\ [Next]_vars => ActiveIsUploading'
    BY LocalStep DEF LocalKept
  <1>3. TypeOK /\ TerminalUnstaged /\ [Next]_vars => TerminalUnstaged'
    BY LocalStep DEF LocalKept
  <1>4. QED
    BY <1>1, <1>2, <1>3, TypeCorrect, PTL DEF Spec

(* No failed, finished or waiting job stays the active one and blocks the queue. *)
THEOREM ActiveIsAlwaysUploading == Spec => []ActiveIsUploading
  BY LocalInvariant, PTL

(* No staged copy of a document outlives its upload. *)
THEOREM StagedNeverOutlives == Spec => []TerminalUnstaged
  BY LocalInvariant, PTL

-----------------------------------------------------------------------------
(* What holds when uploadUrl's wait serves no other event. *)

(***************************************************************************)
(* startUpload goes on after uploadUrl as if the call it waited for were   *)
(* the active upload's, of the attempt that is running.  It is, as nothing *)
(* else runs in the wait.                                                  *)
(***************************************************************************)
CallIsActive ==
  \A i \in DOMAIN calls :
    /\ active # None
    /\ calls[i].session = <<active, attempt[active]>>
    /\ i = 1

SerialInv == OneInFlight /\ CallIsActive /\ SessionMapLive

LEMMA QuietKeepsSerialInv ==
  ASSUME SerialInv,
         UNCHANGED <<status, active, attempt, sessionId, mapped>>,
         calls' = calls \/ calls' = <<>>
  PROVE  SerialInv'
  BY DEF SerialInv, OneInFlight, CallIsActive, SessionMapLive

LEMMA FailedKeepsSerialInv ==
  ASSUME TypeOK, SerialInv, NEW u \in Uploads, NEW keys \in SUBSET mapped,
         Failed(u, keys), calls' = <<>>, sessionId' = sessionId,
         \A v \in Uploads \ {u} : attempt'[v] = attempt[v]
  PROVE  SerialInv'
  <1>1. OneInFlight'
    BY DEF Failed, SerialInv, OneInFlight, Released
  <1>2. CallIsActive'
    BY DEF CallIsActive
  <1>3. SessionMapLive'
    <2> SUFFICES ASSUME NEW s \in mapped'
                 PROVE  /\ status'[s[1]] = "uploading"
                        /\ sessionId'[s[1]] = s
                        /\ attempt'[s[1]] = s[2]
      BY DEF SessionMapLive
    <2>1. s \in mapped /\ s # sessionId[u] /\ s[1] \in Uploads
      BY DEF Failed, TypeOK, Session
    <2>2. /\ status[s[1]] = "uploading"
          /\ sessionId[s[1]] = s
          /\ attempt[s[1]] = s[2]
      BY <2>1 DEF SerialInv, SessionMapLive
    <2>3. s[1] # u
      BY <2>1, <2>2
    <2>4. QED
      BY <2>1, <2>2, <2>3 DEF Failed
  <1>4. QED
    BY <1>1, <1>2, <1>3 DEF SerialInv

(* With one call at most, its end leaves none. *)
LEMMA OnlyCall ==
  ASSUME TypeOK, SerialInv, CallOver
  PROVE  /\ calls' = <<>>
         /\ LastCall.session = <<active, attempt[active]>>
         /\ Waiter = active
  <1>1. Len(calls) \in DOMAIN calls /\ Len(calls) \in Nat
    BY DEF TypeOK, CallOver
  <1>2. /\ calls[Len(calls)].session = <<active, attempt[active]>>
        /\ Len(calls) = 1
    BY <1>1 DEF SerialInv, CallIsActive
  <1>3. calls' = <<>>
    BY <1>2 DEF CallOver, TypeOK
  <1>4. QED
    BY <1>2, <1>3 DEF LastCall, Waiter

(* A call that is made while there is no other. *)
LEMMA FirstCall ==
  ASSUME NEW u, StartCall(u), calls = <<>>
  PROVE  calls' = <<[session |-> <<u, attempt[u] + 1>>, accepted |-> FALSE]>>
  <1> DEFINE call == [session |-> <<u, attempt[u] + 1>>, accepted |-> FALSE]
  <1>1. calls' = Append(<<>>, call)
    BY DEF StartCall
  <1>2. call \in {call}
    OBVIOUS
  <1> HIDE DEF call
  <1>3. Append(<<>>, call) = <<call>>
    BY <1>2
  <1>4. calls' = <<call>>
    BY <1>1, <1>3
  <1>5. QED
    BY <1>4 DEF call

LEMMA SerialStep ==
  ASSUME ~ Reentrant, TypeOK, ActiveIsUploading, SerialInv, [Next]_vars
  PROVE  SerialInv'
  <1> USE UploadQueueAssumption
  <1>0. Idle => calls = <<>>
    BY DEF Idle
  <1>1. CASE UNCHANGED vars
    BY <1>1, QuietKeepsSerialInv DEF vars
  <1>2. CASE Subscribe
    BY <1>2, QuietKeepsSerialInv DEF Subscribe, jobVars
  <1>3. ASSUME NEW u \in Uploads, DeadlinePasses(u) PROVE SerialInv'
    BY <1>3, QuietKeepsSerialInv DEF DeadlinePasses
  <1>4. ASSUME NEW u \in Uploads, UploadFile(u) PROVE SerialInv'
    <2>1. status'[u] = "queued" /\ \A v \in Uploads \ {u} : status'[v] = status[v]
      BY <1>4 DEF UploadFile, TypeOK
    <2>2. \A s \in mapped : s[1] \in Uploads /\ s[1] # u
      BY <1>4 DEF UploadFile, SerialInv, SessionMapLive, TypeOK, Session
    <2>3. UNCHANGED <<active, attempt, sessionId, mapped, calls>>
      BY <1>4 DEF UploadFile
    <2>4. QED
      BY <2>1, <2>2, <2>3 DEF SerialInv, OneInFlight, CallIsActive, SessionMapLive
  <1>5. ASSUME NEW u \in Uploads, StartIgnored(u) PROVE SerialInv'
    BY <1>5, QuietKeepsSerialInv DEF StartIgnored, jobVars
  <1>6. ASSUME NEW u \in Uploads, StartUnsubscribed(u) PROVE SerialInv'
    <2>1. Failed(u, mapped)
      BY <1>6, FailRetryableFails DEF StartUnsubscribed
    <2>2. /\ calls' = <<>> /\ sessionId' = sessionId
          /\ \A v \in Uploads \ {u} : attempt'[v] = attempt[v]
      BY <1>0, <1>6 DEF StartUnsubscribed, TimerDue, TypeOK
    <2>3. QED
      BY <2>1, <2>2, FailedKeepsSerialInv
  <1>7. ASSUME NEW u \in Uploads, StartCall(u) PROVE SerialInv'
    <2>1. \A v \in Uploads : status[v] # "uploading"
      BY <1>7 DEF StartCall, MayStart, SerialInv, OneInFlight
    <2>2. mapped = {}
      BY <2>1 DEF SerialInv, SessionMapLive, TypeOK, Session
    <2> DEFINE call == [session |-> <<u, attempt[u] + 1>>, accepted |-> FALSE]
    <2>3. calls' = <<call>> /\ attempt'[u] = attempt[u] + 1
      BY <1>0, <1>7, FirstCall DEF StartCall, TimerDue, TypeOK
    <2>4. OneInFlight' /\ SessionMapLive'
      BY <1>7, <2>1, <2>2 DEF StartCall, OneInFlight, SessionMapLive, TypeOK
    <2>5. CallIsActive'
      BY <1>7, <2>3 DEF StartCall, CallIsActive
    <2>6. QED
      BY <2>4, <2>5 DEF SerialInv
  <1>8. ASSUME NEW u \in Uploads, AttemptTimeout(u) PROVE SerialInv'
    <2>1. Failed(u, mapped)
      BY <1>8, FailRetryableFails DEF AttemptTimeout
    <2>2. calls' = <<>> /\ sessionId' = sessionId /\ attempt' = attempt
      BY <1>0, <1>8 DEF AttemptTimeout
    <2>3. QED
      BY <2>1, <2>2, FailedKeepsSerialInv
  <1>9. ASSUME NEW i \in DOMAIN calls, StorageAccepts(i) PROVE SerialInv'
    <2>1. /\ DOMAIN calls' = DOMAIN calls
          /\ \A j \in DOMAIN calls : calls'[j].session = calls[j].session
      <3>1. calls \in Seq(Call)
        BY DEF TypeOK
      <3>2. \A j \in DOMAIN calls : calls[j] \in Call
        BY <3>1
      <3>3. calls' = [calls EXCEPT ![i] = [calls[i] EXCEPT !.accepted = TRUE]]
        BY <1>9 DEF StorageAccepts
      <3>4. [calls[i] EXCEPT !.accepted = TRUE].session = calls[i].session
        BY <3>2 DEF Call
      <3>5. QED
        BY <3>3, <3>4
    <2>2. UNCHANGED <<status, active, attempt, sessionId, mapped>>
      BY <1>9 DEF StorageAccepts, jobVars
    <2>3. QED
      BY <2>1, <2>2 DEF SerialInv, OneInFlight, CallIsActive, SessionMapLive
  <1>10. CASE UploadUrlSession
    <2>1. /\ calls' = <<>>
          /\ LastCall.session = <<active, attempt[active]>>
          /\ Waiter = active
      BY <1>10, OnlyCall DEF UploadUrlSession
    <2>2. Waiter \in Uploads
      BY <1>10, WaiterType DEF UploadUrlSession
    <2>3. status[active] = "uploading"
      BY <2>1, <2>2 DEF ActiveIsUploading
    <2>4. /\ UNCHANGED <<status, active, attempt>>
          /\ sessionId' = [sessionId EXCEPT ![active] = <<active, attempt[active]>>]
          /\ mapped' = mapped \cup {<<active, attempt[active]>>}
      BY <1>10, <2>1 DEF UploadUrlSession
    <2>5. \A s \in mapped : s = <<active, attempt[active]>>
      <3>1. ASSUME NEW s \in mapped PROVE s[1] = active /\ s[2] = attempt[active]
        BY <3>1 DEF SerialInv, SessionMapLive, OneInFlight, TypeOK, Session
      <3>2. \A s \in mapped : s = <<s[1], s[2]>>
        BY DEF TypeOK, Session
      <3>3. QED
        BY <3>1, <3>2
    <2>6. SessionMapLive'
      BY <2>1, <2>2, <2>3, <2>4, <2>5 DEF SessionMapLive, TypeOK
    <2>7. QED
      BY <2>1, <2>4, <2>6 DEF SerialInv, OneInFlight, CallIsActive
  <1>11. CASE UploadUrlTransient
    <2>1. Waiter \in Uploads /\ calls' = <<>>
      BY <1>11, WaiterType, OnlyCall DEF UploadUrlTransient
    <2>2. Failed(Waiter, mapped)
      BY <1>11, <2>1, FailRetryableFails DEF UploadUrlTransient
    <2>3. sessionId' = sessionId /\ attempt' = attempt
      BY <1>11 DEF UploadUrlTransient
    <2>4. QED
      BY <2>1, <2>2, <2>3, FailedKeepsSerialInv
  <1>12. CASE UploadUrlRejected
    <2>1. Waiter \in Uploads /\ calls' = <<>>
      BY <1>12, WaiterType, OnlyCall DEF UploadUrlRejected
    <2>2. Failed(Waiter, mapped)
      BY <1>12, <2>1, FailForGoodFails DEF UploadUrlRejected
    <2>3. sessionId' = sessionId /\ attempt' = attempt
      BY <1>12 DEF UploadUrlRejected
    <2>4. QED
      BY <2>1, <2>2, <2>3, FailedKeepsSerialInv
  <1>13. ASSUME NEW s \in inflight, OnUploadDone(s) PROVE SerialInv'
    <2>1. CASE DoneDropped(s)
      BY <2>1, QuietKeepsSerialInv DEF DoneDropped, jobVars
    <2>2. ASSUME NEW u \in Uploads, DoneTransient(s, u) PROVE SerialInv'
      <3>1. Failed(u, mapped \ {s})
        BY <2>2, FailRetryableFails DEF DoneTransient
      <3>2. calls' = <<>> /\ sessionId' = sessionId /\ attempt' = attempt
        BY <1>0, <2>2 DEF DoneTransient, DoneEvent
      <3>3. QED
        BY <3>1, <3>2, FailedKeepsSerialInv
    <2>3. ASSUME NEW u \in Uploads, DoneRejected(s, u) PROVE SerialInv'
      <3>1. Failed(u, mapped \ {s})
        BY <2>3, FailForGoodFails DEF DoneRejected
      <3>2. calls' = <<>> /\ sessionId' = sessionId /\ attempt' = attempt
        BY <1>0, <2>3 DEF DoneRejected, DoneEvent
      <3>3. QED
        BY <3>1, <3>2, FailedKeepsSerialInv
    <2>4. ASSUME NEW u \in Uploads, DoneOversize(s, u) PROVE SerialInv'
      <3>1. Failed(u, mapped \ {s})
        BY <2>4, FailForGoodFails DEF DoneOversize
      <3>2. calls' = <<>> /\ sessionId' = sessionId /\ attempt' = attempt
        BY <1>0, <2>4 DEF DoneOversize, DoneEvent
      <3>3. QED
        BY <3>1, <3>2, FailedKeepsSerialInv
    <2>5. ASSUME NEW u \in Uploads, DoneUploaded(s, u) PROVE SerialInv'
      <3>1. /\ calls' = <<>> /\ active' = None
            /\ sessionId' = sessionId /\ attempt' = attempt
            /\ mapped' = (mapped \ {s}) \ {sessionId[u]}
            /\ status' = [status EXCEPT ![u] = "uploaded"]
        BY <1>0, <2>5 DEF DoneUploaded, DoneEvent, Unmapped
      <3>2. status[u] = "uploading"
        BY <2>5 DEF DoneUploaded, Credited, SerialInv, SessionMapLive
      <3>3. \A v \in Uploads : status[v] = "uploading" => v = u
        BY <3>2 DEF SerialInv, OneInFlight
      <3>4. \A v \in Uploads : status'[v] # "uploading"
        BY <3>1, <3>3 DEF TypeOK
      <3>5. mapped' = {}
        BY <3>1, <3>3 DEF SerialInv, SessionMapLive, TypeOK, Session
      <3>6. QED
        BY <3>1, <3>4, <3>5 DEF SerialInv, OneInFlight, CallIsActive, SessionMapLive
    <2>6. QED
      BY <1>13, <2>1, <2>2, <2>3, <2>4, <2>5 DEF OnUploadDone
  <1>14. QED
    BY <1>1, <1>2, <1>3, <1>4, <1>5, <1>6, <1>7, <1>8, <1>9, <1>10, <1>11, <1>12, <1>13
       DEF Next, StartUpload, UploadUrlReturns

LEMMA SerialInvariant ==
  ASSUME ~ Reentrant
  PROVE  Spec => []SerialInv
  <1>1. Init => SerialInv
    BY DEF Init, SerialInv, OneInFlight, CallIsActive, SessionMapLive
  <1>2. TypeOK /\ ActiveIsUploading /\ SerialInv /\ [Next]_vars => SerialInv'
    BY SerialStep
  <1>3. QED
    BY <1>1, <1>2, TypeCorrect, LocalInvariant, PTL DEF Spec

(* One upload at a time, if uploadUrl's wait serves no other event. *)
THEOREM UploadsAreSerial ==
  ASSUME ~ Reentrant
  PROVE  Spec => []OneInFlight
  <1>1. SerialInv => OneInFlight
    BY DEF SerialInv
  <1>2. QED
    BY <1>1, SerialInvariant, PTL

(* Then no session of an abandoned attempt is left in m_sessionToUpload. *)
THEOREM SessionMapIsLive ==
  ASSUME ~ Reentrant
  PROVE  Spec => []SessionMapLive
  <1>1. SerialInv => SessionMapLive
    BY DEF SerialInv
  <1>2. QED
    BY <1>1, SerialInvariant, PTL

-----------------------------------------------------------------------------
(* What becomes of an upload that has ended. *)

(***************************************************************************)
(* A left-over timer may start an upload again whose staged copy is gone.  *)
(* Storage cannot open a session for it, so it is uploading only while     *)
(* uploadUrl's wait lasts, which serves no other event.                    *)
(***************************************************************************)
SourceInv ==
  /\ \A u \in Uploads : status[u] = "absent" => timers[u] = 0
  /\ \A u \in Uploads : status[u] = "uploading" /\ u \notin staged
       => \E i \in DOMAIN calls : calls[i].session[1] = u /\ ~ calls[i].accepted

(* Only a timer that is pending before is pending for an upload that is none. *)
LEMMA FailRetryableArms ==
  ASSUME TypeOK, NEW u \in Uploads, NEW a, NEW keys, NEW due \in [Uploads -> Nat],
         FailRetryable(u, a, keys, due)
  PROVE  \A v \in Uploads : status'[v] = "absent" => timers'[v] = due[v]
  BY DEF TypeOK, FailRetryable, Armed

LEMMA StartNextQueuedArms ==
  ASSUME TypeOK, StartNextQueued
  PROVE  \A v \in Uploads : status'[v] = "absent" => timers'[v] = timers[v]
  BY DEF TypeOK, StartNextQueued, Armed

LEMMA FiredArms ==
  ASSUME TypeOK, NEW u \in Uploads, TimerDue(u), NEW v \in Uploads, timers[v] = 0
  PROVE  Fired(u)[v] = 0
  BY DEF TypeOK, TimerDue, Fired

LEMMA FailRetryableUnstages ==
  ASSUME NEW u, NEW a, NEW keys, NEW due, FailRetryable(u, a, keys, due)
  PROVE  staged \ {u} \subseteq staged'
  BY DEF FailRetryable, Unstaged

LEMMA FailForGoodUnstages ==
  ASSUME NEW u, NEW keys, FailForGood(u, keys)
  PROVE  staged \ {u} \subseteq staged'
  BY DEF FailForGood, Unstaged

(***************************************************************************)
(* A failure keeps SourceInv: no call is under way, or the one that is was *)
(* of the upload that fails, so every other one has its staged copy.       *)
(***************************************************************************)
LEMMA FailedKeepsSource ==
  ASSUME TypeOK, SerialInv, SourceInv, NEW u \in Uploads, NEW keys, Failed(u, keys),
         calls = <<>> \/ u = active,
         staged \ {u} \subseteq staged',
         \A v \in Uploads : status'[v] = "absent" /\ timers[v] = 0 => timers'[v] = 0
  PROVE  SourceInv'
  <1>1. ASSUME NEW v \in Uploads, status'[v] = "absent" PROVE timers'[v] = 0
    <2>1. status[v] = "absent"
      BY <1>1 DEF Failed
    <2>2. QED
      BY <1>1, <2>1 DEF SourceInv
  <1>2. ASSUME NEW v \in Uploads, status'[v] = "uploading" PROVE v \in staged'
    <2>1. v # u /\ status[v] = "uploading" /\ active = v
      BY <1>2 DEF Failed, SerialInv, OneInFlight
    <2>2. v \in staged
      BY <2>1 DEF SourceInv
    <2>3. QED
      BY <2>1, <2>2
  <1>3. QED
    BY <1>1, <1>2 DEF SourceInv

LEMMA SourceStep ==
  ASSUME ~ Reentrant, TypeOK, SerialInv, SourceInv, [Next]_vars
  PROVE  SourceInv'
  <1>0. Idle => calls = <<>>
    BY DEF Idle
  <1>1. ASSUME UNCHANGED <<status, staged, calls>>,
               \A v \in Uploads : timers[v] = 0 => timers'[v] = 0
        PROVE  SourceInv'
    BY <1>1 DEF SourceInv
  <1>2. CASE UNCHANGED vars \/ Subscribe
    BY <1>1, <1>2 DEF vars, Subscribe, jobVars
  <1>3. ASSUME NEW u \in Uploads, DeadlinePasses(u) PROVE SourceInv'
    BY <1>1, <1>3 DEF DeadlinePasses
  <1>4. ASSUME NEW u \in Uploads, UploadFile(u) PROVE SourceInv'
    BY <1>4 DEF UploadFile, Armed, TypeOK, SourceInv
  <1>5. ASSUME NEW u \in Uploads, StartIgnored(u) PROVE SourceInv'
    BY <1>1, <1>5, FiredArms DEF StartIgnored, jobVars
  <1>6. ASSUME NEW u \in Uploads, StartUnsubscribed(u) PROVE SourceInv'
    <2>1. FailRetryable(u, attempt[u] + 1, mapped, Fired(u)) /\ TimerDue(u) /\ calls = <<>>
      BY <1>0, <1>6 DEF StartUnsubscribed, TimerDue
    <2>2. \A v \in Uploads : status'[v] = "absent" /\ timers[v] = 0 => timers'[v] = 0
      BY <2>1, FiredType, FiredArms, FailRetryableArms
    <2>3. QED
      BY <2>1, <2>2, FailRetryableFails, FailRetryableUnstages, FailedKeepsSource
  <1>7. ASSUME NEW u \in Uploads, StartCall(u) PROVE SourceInv'
    <2> DEFINE call == [session |-> <<u, attempt[u] + 1>>, accepted |-> FALSE]
    <2>1. calls' = <<call>>
      BY <1>0, <1>7, FirstCall DEF StartCall, TimerDue
    <2>2. 1 \in DOMAIN calls' /\ calls'[1].session[1] = u /\ ~ calls'[1].accepted
      BY <2>1
    <2>3. \A v \in Uploads : status'[v] = "uploading" => v = u
      BY <1>7, UploadQueueAssumption DEF StartCall, MayStart, TypeOK, SerialInv, OneInFlight
    <2>4. \A v \in Uploads : status'[v] = "absent" => timers'[v] = 0
      BY <1>7, FiredArms DEF StartCall, TypeOK, SourceInv
    <2>5. QED
      BY <2>2, <2>3, <2>4 DEF SourceInv
  <1>8. ASSUME NEW u \in Uploads, AttemptTimeout(u) PROVE SourceInv'
    <2>1. FailRetryable(u, attempt[u], mapped, timers) /\ calls = <<>>
      BY <1>0, <1>8 DEF AttemptTimeout
    <2>2. \A v \in Uploads : status'[v] = "absent" => timers'[v] = timers[v]
      BY <2>1, FailRetryableArms DEF TypeOK
    <2>3. QED
      BY <2>1, <2>2, FailRetryableFails, FailRetryableUnstages, FailedKeepsSource
  <1>9. ASSUME NEW i \in DOMAIN calls, StorageAccepts(i) PROVE SourceInv'
    <2>1. UNCHANGED <<status, staged, timers>> /\ calls[i].session[1] \in staged
      BY <1>9 DEF StorageAccepts, jobVars
    <2>2. /\ DOMAIN calls' = DOMAIN calls
          /\ \A j \in DOMAIN calls : j # i => calls'[j] = calls[j]
      BY <1>9 DEF StorageAccepts, TypeOK
    <2>3. QED
      BY <2>1, <2>2 DEF SourceInv
  <1>10. CASE UploadUrlSession
    <2>1. \A i \in DOMAIN calls : calls[i].accepted
      <3>1. LastCall.accepted
        BY <1>10 DEF UploadUrlSession
      <3>2. Len(calls) \in DOMAIN calls
        BY <1>10 DEF UploadUrlSession, CallOver, TypeOK
      <3>3. \A i \in DOMAIN calls : i = 1
        BY DEF SerialInv, CallIsActive
      <3>4. QED
        BY <3>1, <3>2, <3>3 DEF LastCall
    <2>2. \A u \in Uploads : status[u] = "uploading" => u \in staged
      BY <2>1 DEF SourceInv
    <2>3. UNCHANGED <<status, staged, timers>>
      BY <1>10 DEF UploadUrlSession
    <2>4. QED
      BY <2>2, <2>3 DEF SourceInv
  <1>11. CASE UploadUrlTransient
    <2>1. Waiter \in Uploads /\ Waiter = active
      BY <1>11, WaiterType, OnlyCall DEF UploadUrlTransient
    <2>2. FailRetryable(Waiter, attempt[Waiter], mapped, timers)
      BY <1>11 DEF UploadUrlTransient
    <2>3. \A v \in Uploads : status'[v] = "absent" => timers'[v] = timers[v]
      BY <2>1, <2>2, FailRetryableArms DEF TypeOK
    <2>4. QED
      BY <2>1, <2>2, <2>3, FailRetryableFails, FailRetryableUnstages, FailedKeepsSource
  <1>12. CASE UploadUrlRejected
    <2>1. Waiter \in Uploads /\ Waiter = active
      BY <1>12, WaiterType, OnlyCall DEF UploadUrlRejected
    <2>2. FailForGood(Waiter, mapped)
      BY <1>12 DEF UploadUrlRejected
    <2>3. \A v \in Uploads : status'[v] = "absent" => timers'[v] = timers[v]
      BY <2>2, StartNextQueuedArms DEF FailForGood
    <2>4. QED
      BY <2>1, <2>2, <2>3, FailForGoodFails, FailForGoodUnstages, FailedKeepsSource
  <1>13. ASSUME NEW s \in inflight, OnUploadDone(s) PROVE SourceInv'
    <2>1. CASE DoneDropped(s)
      BY <1>1, <2>1 DEF DoneDropped, jobVars
    <2>2. ASSUME NEW u \in Uploads, DoneTransient(s, u) PROVE SourceInv'
      <3>1. FailRetryable(u, attempt[u], mapped \ {s}, timers) /\ calls = <<>>
        BY <1>0, <2>2 DEF DoneTransient, DoneEvent
      <3>2. \A v \in Uploads : status'[v] = "absent" => timers'[v] = timers[v]
        BY <3>1, FailRetryableArms DEF TypeOK
      <3>3. QED
        BY <3>1, <3>2, FailRetryableFails, FailRetryableUnstages, FailedKeepsSource
    <2>3. ASSUME NEW u \in Uploads, DoneRejected(s, u) \/ DoneOversize(s, u)
          PROVE  SourceInv'
      <3>1. FailForGood(u, mapped \ {s}) /\ calls = <<>>
        BY <1>0, <2>3 DEF DoneRejected, DoneOversize, DoneEvent
      <3>2. \A v \in Uploads : status'[v] = "absent" => timers'[v] = timers[v]
        BY <3>1, StartNextQueuedArms DEF FailForGood
      <3>3. QED
        BY <3>1, <3>2, FailForGoodFails, FailForGoodUnstages, FailedKeepsSource
    <2>4. ASSUME NEW u \in Uploads, DoneUploaded(s, u) PROVE SourceInv'
      <3>1. /\ calls = <<>> /\ staged' = staged \ {u}
            /\ status' = [status EXCEPT ![u] = "uploaded"]
            /\ \A v \in Uploads : status'[v] = "absent" => timers'[v] = timers[v]
        BY <1>0, <2>4, StartNextQueuedArms DEF DoneUploaded, DoneEvent, Unstaged
      <3>2. \A v \in Uploads : status[v] = "uploading" => v \in staged
        BY <3>1 DEF SourceInv
      <3>3. QED
        BY <3>1, <3>2 DEF SourceInv, TypeOK
    <2>5. QED
      BY <1>13, <2>1, <2>2, <2>3, <2>4 DEF OnUploadDone
  <1>14. QED
    BY <1>2, <1>3, <1>4, <1>5, <1>6, <1>7, <1>8, <1>9, <1>10, <1>11, <1>12, <1>13
       DEF Next, StartUpload, UploadUrlReturns
=============================================================================
