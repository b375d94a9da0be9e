------------------------ MODULE WhistleblowerProofs ------------------------
(* What holds in the Whistleblower client for any publishes and tries. *)
EXTENDS Whistleblower, TLAPS

USE WhistleblowerAssumption

-----------------------------------------------------------------------------
(* Chronicle's moves lead from a running or finished publish to a finished *)
(* one, or from an upload to its broadcast.                                *)
LEMMA MovesOnwards ==
  ASSUME NEW old, NEW new, <<old, new>> \in Moves
  PROVE  /\ new \in Running \cup Over
         /\ old \in Running \cup Over
         /\ old \in Over => new \in Over
BY DEF Moves, Running, Over

(* What the variables of the client and of chronicle can hold. *)
THEOREM TypeCorrect == Spec => []TypeOK
<1>1. Init => TypeOK
  <2> SUFFICES ASSUME Init PROVE TypeOK
    OBVIOUS
  <2> QED
    BY DEF Init, JobsInit, TypeOK, Phases, JobStatus, Running, Over, StartUp, Calls
<1>2. TypeOK /\ [Next]_vars => TypeOK'
  <2> SUFFICES ASSUME TypeOK, [Next]_vars PROVE TypeOK'
    OBVIOUS
  <2> USE DEF TypeOK, jobsVars
  <2>1. ASSUME NEW call \in StartUp, StartUpTimer(call) PROVE TypeOK'
    BY <2>1 DEF StartUpTimer, Idle, StartUp, Calls, jobVars, deliveryVars, chronicleVars
  <2>2. CASE Relaunch
    <3> QED
      BY <2>2 DEF Relaunch, Phases, JobStatus, StartUp, Calls, chronicleVars
  <2>3. CASE SubmitDocument
    BY <2>3 DEF SubmitDocument, Idle, Phases, Calls, deliveryVars, chronicleVars
  <2>4. CASE ConnectDelivery
    BY <2>4 DEF ConnectDelivery, Idle, Calls, jobVars, deliveryVars, chronicleVars
  <2>5. CASE DeliveryRetry
    BY <2>5 DEF DeliveryRetry, Idle, Calls, jobVars, chronicleVars
  <2>6. CASE TickJobPoll
    BY <2>6 DEF TickJobPoll, Idle, Calls, deliveryVars, chronicleVars
  <2>7. CASE ReloadHistory
    BY <2>7 DEF ReloadHistory, Idle, Calls, jobVars, deliveryVars, chronicleVars
  <2>8. CASE DiscardHistory
    BY <2>8 DEF DiscardHistory, Idle, Calls, jobVars, deliveryVars, chronicleVars
  <2>9. ASSUME NEW j \in Jobs, AnchorJob(j) PROVE TypeOK'
    BY <2>9 DEF AnchorJob, Idle, Calls, jobVars, deliveryVars, chronicleVars
  <2>10. CASE PublishFile
    <3>1. /\ jobs' \in [Jobs -> JobStatus]
          /\ spent' \subseteq Jobs
          /\ anchored' \subseteq Jobs /\ wasDone' \subseteq Jobs
      BY <2>10 DEF PublishFile, Accepts, JobStatus, Running, chronicleVars
    <3>2. /\ phase' \in Phases
          /\ working' \in BOOLEAN
          /\ polling' \in BOOLEAN
          /\ activeJob' \in Jobs \cup {None}
      BY <2>10 DEF PublishFile, JobQueued, Failed, Phases, Over
    <3> QED
      BY <2>10, <3>1, <3>2 DEF PublishFile, Returns, deliveryVars, Calls
  <2>11. CASE DeliveryConnected
    BY <2>11 DEF DeliveryConnected, TriesReset, Returns, Calls, jobVars, chronicleVars
  <2>12. CASE DeliveryUnavailable
    <3>1. tries' \in Nat
      BY <2>12 DEF DeliveryUnavailable
    <3>2. retryDue' \in BOOLEAN
      BY <2>12 DEF DeliveryUnavailable, RetryArmed
    <3> QED
      BY <2>12, <3>1, <3>2 DEF DeliveryUnavailable, Returns, Calls, jobVars, chronicleVars
  <2>13. CASE StatusRunning
    BY <2>13 DEF StatusRunning, Returns, Calls, Phases, JobStatus, Terminal, Over,
                 deliveryVars, chronicleVars
  <2>14. CASE StatusOver
    BY <2>14 DEF StatusOver, Returns, Calls, Terminal, Phases, Over, deliveryVars,
                 chronicleVars
  <2>15. CASE StatusEmpty
    BY <2>15 DEF StatusEmpty, Returns, Calls, jobVars, deliveryVars, chronicleVars
  <2>16. CASE ListPublished
    BY <2>16 DEF ListPublished, Listed, Returns, Calls, jobVars, deliveryVars, chronicleVars
  <2>17. CASE DiscardAnswered
    BY <2>17 DEF DiscardAnswered, Returns, HistoryCleared, ForgetJob, Calls, Phases,
                 JobStatus, deliveryVars
  <2>18. CASE DiscardUnanswered
    BY <2>18 DEF DiscardUnanswered, Returns, Calls, HistoryCleared, JobStatus, jobVars,
                 deliveryVars, chronicleVars
  <2>19. CASE ClearAnchors
    BY <2>19 DEF ClearAnchors, Returns, Calls, jobVars, deliveryVars
  <2>20. CASE AnchorBatch
    BY <2>20 DEF AnchorBatch, Returns, Calls, jobVars, deliveryVars
  <2>21. CASE ChronicleMoves
    <3>1. jobs' \in [Jobs -> JobStatus] /\ UNCHANGED spent
      BY <2>21 DEF ChronicleMoves, JobMoves, JobDeparts, LedgerReloaded, HistoryCleared,
                   JobStatus
    <3>2. wasDone' \subseteq Jobs
      BY <2>21 DEF ChronicleMoves
    <3> QED
      BY <2>21, <3>1, <3>2 DEF ChronicleMoves, jobVars, deliveryVars
  <2>22. CASE UNCHANGED vars
    BY <2>22 DEF vars, jobVars, deliveryVars, chronicleVars
  <2> QED
    BY <2>1, <2>2, <2>3, <2>4, <2>5, <2>6, <2>7, <2>8, <2>9, <2>10, <2>11, <2>12,
       <2>13, <2>14, <2>15, <2>16, <2>17, <2>18, <2>19, <2>20, <2>21, <2>22
       DEF Next, CallReturns
<1> QED
  BY <1>1, <1>2, PTL DEF Spec

-----------------------------------------------------------------------------
(***************************************************************************)
(* Between two handlers and during all but one: only submitDocument is     *)
(* working without a job, while its call is out.                           *)
(***************************************************************************)
Settles ==
  /\ working = polling
  /\ working => activeJob # None
  /\ ~ working => phase \in {"idle"} \cup Over
  /\ phase = "idle" => activeJob = None

Submitting == working /\ ~ polling /\ phase = "queued" /\ activeJob = None

Inv ==
  /\ calling = "publishFile" => Submitting
  /\ calling # "publishFile" => Settles
  /\ calling = "clearPublished" => ~ working
  /\ calling = "publishStatus" => working

LEMMA InvHolds == Spec => []Inv
<1>1. Init => Inv
  BY DEF Init, Inv, Settles, Calls
<1>2. TypeOK /\ Inv /\ [Next]_vars => Inv'
  <2> SUFFICES ASSUME TypeOK, Inv, [Next]_vars PROVE Inv'
    OBVIOUS
  <2> USE DEF Inv, Settles, Submitting
  <2>1. ASSUME NEW call \in StartUp, StartUpTimer(call) PROVE Inv'
    BY <2>1 DEF StartUpTimer, Idle, StartUp, Calls, jobVars
  <2>2. CASE Relaunch
    BY <2>2 DEF Relaunch, Calls
  <2>3. CASE SubmitDocument
    BY <2>3 DEF SubmitDocument
  <2>4. CASE ConnectDelivery \/ DeliveryRetry \/ ReloadHistory \/ DiscardHistory
             \/ \E j \in Jobs : AnchorJob(j)
    BY <2>4 DEF ConnectDelivery, DeliveryRetry, ReloadHistory, DiscardHistory, AnchorJob,
                Idle, Calls, jobVars
  <2>5. CASE TickJobPoll
    BY <2>5 DEF TickJobPoll, Idle, Calls
  <2>6. CASE PublishFile
    <3>1. calling = "publishFile" /\ calling' = None
      BY <2>6 DEF PublishFile, Returns
    <3>2. ASSUME NEW j \in Jobs, JobQueued(j) PROVE Settles'
      BY <3>1, <3>2 DEF JobQueued, TypeOK
    <3>3. ASSUME Failed PROVE Settles'
      BY <3>1, <3>3 DEF Failed, Over, TypeOK
    <3>4. Settles'
      BY <2>6, <3>2, <3>3 DEF PublishFile
    <3> QED
      BY <3>1, <3>4 DEF Calls
  <2>7. CASE DeliveryConnected \/ DeliveryUnavailable \/ StatusEmpty \/ ListPublished
             \/ DiscardUnanswered \/ ClearAnchors \/ AnchorBatch
    BY <2>7 DEF DeliveryConnected, DeliveryUnavailable, StatusEmpty, ListPublished,
                DiscardUnanswered, ClearAnchors, AnchorBatch, Returns, Calls, jobVars
  <2>8. CASE StatusRunning
    <3>1. activeJob \in Jobs
      BY <2>8 DEF StatusRunning, Returns, TypeOK
    <3>2. phase' \in Running
      BY <2>8, <3>1 DEF StatusRunning, TypeOK, JobStatus, Terminal, Over
    <3>3. working
      BY <2>8 DEF StatusRunning, Returns
    <3> QED
      BY <2>8, <3>2, <3>3 DEF StatusRunning, Returns, Running, Calls, TypeOK
  <2>9. CASE StatusOver
    BY <2>9 DEF StatusOver, Returns, Terminal, Over, Calls
  <2>10. CASE DiscardAnswered
    BY <2>10 DEF DiscardAnswered, Returns, ForgetJob, Calls
  <2>11. CASE ChronicleMoves \/ UNCHANGED vars
    <3>1. UNCHANGED <<jobVars, calling>>
      BY <2>11 DEF ChronicleMoves, vars
    <3> QED
      BY <3>1 DEF jobVars
  <2> QED
    BY <2>1, <2>2, <2>3, <2>4, <2>5, <2>6, <2>7, <2>8, <2>9, <2>10, <2>11
       DEF Next, CallReturns
<1> QED
  BY <1>1, <1>2, TypeCorrect, PTL DEF Spec

(* While the application works its poll timer runs for a job. *)
THEOREM WorkIsPolled == Spec => []PollsWhileWorking
<1>1. Inv => PollsWhileWorking
  BY DEF Inv, Settles, PollsWhileWorking, Idle, Calls
<1> QED
  BY <1>1, InvHolds, PTL

(* An application that is not working shows no publish under way. *)
THEOREM PhaseIsAlwaysCurrent == Spec => []PhaseIsCurrent
<1>1. Inv => PhaseIsCurrent
  BY DEF Inv, Settles, PhaseIsCurrent, Idle, Calls
<1> QED
  BY <1>1, InvHolds, PTL

-----------------------------------------------------------------------------
(* Tries for the network: a failed one arms the retry timer or was the last. *)

TryInv ==
  ~ networkReady =>
    \/ retryDue \/ tries >= MaxTries
    \/ "startBroadcaster" \in due \/ calling = "startBroadcaster"

(* Clicks on Reconnect never stop the automatic tries before all are used up. *)
THEOREM NetworkIsTriedFor == Spec => []KeepsTrying
<1>1. Init => TryInv
  BY DEF Init, TryInv, StartUp
<1>2. TypeOK /\ TryInv /\ [Next]_vars => TryInv'
  <2> SUFFICES ASSUME TypeOK, TryInv, [Next]_vars PROVE TryInv'
    OBVIOUS
  <2> USE DEF TryInv
  <2>1. ASSUME NEW call \in StartUp, StartUpTimer(call) PROVE TryInv'
    BY <2>1 DEF StartUpTimer, Idle, StartUp, Calls, deliveryVars
  <2>2. CASE Relaunch
    BY <2>2 DEF Relaunch, StartUp
  <2>3. CASE ConnectDelivery \/ DeliveryRetry
    BY <2>3 DEF ConnectDelivery, DeliveryRetry
  <2>4. CASE DeliveryConnected
    BY <2>4 DEF DeliveryConnected
  <2>5. CASE DeliveryUnavailable
    <3>1. tries' = tries + 1 /\ (tries + 1 < MaxTries => retryDue')
      BY <2>5 DEF DeliveryUnavailable, RetryArmed
    <3>2. tries' >= MaxTries \/ retryDue'
      BY <3>1 DEF TypeOK
    <3> QED
      BY <3>2
  <2>6. CASE \/ SubmitDocument \/ TickJobPoll \/ ReloadHistory \/ DiscardHistory
             \/ (\E j \in Jobs : AnchorJob(j)) \/ ChronicleMoves \/ UNCHANGED vars
             \/ PublishFile \/ StatusRunning \/ StatusOver \/ StatusEmpty
             \/ ListPublished \/ DiscardAnswered \/ DiscardUnanswered
             \/ ClearAnchors \/ AnchorBatch
    <3>1. UNCHANGED <<deliveryVars, due>> /\ (UNCHANGED calling \/ calling # "startBroadcaster")
      BY <2>6 DEF SubmitDocument, TickJobPoll, ReloadHistory, DiscardHistory, AnchorJob,
             ChronicleMoves, vars, PublishFile, StatusRunning, StatusOver, StatusEmpty,
             ListPublished, DiscardAnswered, DiscardUnanswered, ClearAnchors, AnchorBatch,
             Returns, Idle, Calls
    <3> QED
      BY <3>1 DEF deliveryVars
  <2> QED
    BY <2>1, <2>2, <2>3, <2>4, <2>5, <2>6 DEF Next, CallReturns
<1>3. TryInv => KeepsTrying
  BY DEF TryInv, KeepsTrying, Idle, Calls
<1> QED
  BY <1>1, <1>2, <1>3, TypeCorrect, PTL DEF Spec

-----------------------------------------------------------------------------
(***************************************************************************)
(* A publish that chronicle has shown as done and that is not under way    *)
(* will not be again: an id is handed out once.  That is so of every       *)
(* publish the history shows as done, so it still is when a late click     *)
(* gets through.                                                           *)
(***************************************************************************)
Finished(j) == j \in spent /\ j \in wasDone /\ jobs[j] \notin Running

AnchorInv ==
  /\ \A j \in Jobs : jobs[j] # "absent" => j \in spent
  /\ \A j \in Jobs : jobs[j] = "done" => j \in wasDone
  /\ \A j \in Jobs : history[j] = "done" => Finished(j)
  /\ anchoring # None => Finished(anchoring)
  /\ \A j \in anchored : Finished(j)

(* What a step can do to the publishes chronicle has. *)
LEMMA ChronicleSteps ==
  ASSUME [Next]_vars
  PROVE  /\ \/ UNCHANGED <<jobs, spent>>
            \/ \E j \in Jobs : Accepts(j)
            \/ HistoryCleared
            \/ \E j \in Jobs, s \in JobStatus : JobMoves(j, s)
            \/ LedgerReloaded
            \/ \E j \in Jobs, s \in Over :
                 jobs[j] \in Over /\ jobs' = [jobs EXCEPT ![j] = s] /\ UNCHANGED spent
         /\ wasDone \subseteq wasDone'
BY DEF Next, CallReturns, StartUpTimer, Relaunch, SubmitDocument, ConnectDelivery,
       DeliveryRetry, TickJobPoll, ReloadHistory, DiscardHistory, AnchorJob, PublishFile,
       DeliveryConnected, DeliveryUnavailable, StatusRunning, StatusOver, StatusEmpty,
       ListPublished, DiscardAnswered, DiscardUnanswered, ClearAnchors, AnchorBatch,
       ChronicleMoves, JobDeparts, vars, chronicleVars, jobsVars

(* Only chronicle by itself makes a publish done. *)
LEMMA DoneIsNoted ==
  ASSUME TypeOK, AnchorInv, [Next]_vars, NEW j \in Jobs, jobs'[j] = "done"
  PROVE  j \in wasDone'
<1>1. CASE ChronicleMoves
  BY <1>1 DEF ChronicleMoves
<1>2. CASE ~ ChronicleMoves
  <2>1. \/ UNCHANGED jobs
        \/ \E k \in Jobs : jobs' = [jobs EXCEPT ![k] = "uploading"]
        \/ HistoryCleared
    BY <1>2 DEF Next, CallReturns, StartUpTimer, Relaunch, SubmitDocument, ConnectDelivery,
       DeliveryRetry, TickJobPoll, ReloadHistory, DiscardHistory, AnchorJob, PublishFile,
       DeliveryConnected, DeliveryUnavailable, StatusRunning, StatusOver, StatusEmpty,
       ListPublished, DiscardAnswered, DiscardUnanswered, ClearAnchors, AnchorBatch,
       Accepts, vars, chronicleVars, jobsVars
  <2>2. jobs[j] = "done"
    BY <2>1 DEF HistoryCleared, TypeOK
  <2> QED
    BY <2>2, ChronicleSteps DEF AnchorInv
<1> QED
  BY <1>1, <1>2

(* What it can do to what the client shows and asks of them. *)
LEMMA ClientSteps ==
  ASSUME [Next]_vars
  PROVE  /\ \/ UNCHANGED history
            \/ history' = Listed /\ UNCHANGED <<jobs, spent, wasDone>>
            \/ history' = [j \in Jobs |-> "absent"]
         /\ \/ UNCHANGED anchoring
            \/ anchoring' = None
            \/ \E j \in Jobs : anchoring' = j /\ history[j] = "done"
         /\ \/ anchored' \subseteq anchored
            \/ anchored' \subseteq anchored \cup {anchoring} /\ calling = "anchorBatch"
BY DEF Next, CallReturns, StartUpTimer, Relaunch, SubmitDocument, ConnectDelivery,
       DeliveryRetry, TickJobPoll, ReloadHistory, DiscardHistory, AnchorJob, Anchorable,
       PublishFile, DeliveryConnected, DeliveryUnavailable, StatusRunning,
       StatusOver, StatusEmpty, ListPublished, DiscardAnswered, DiscardUnanswered,
       ClearAnchors, AnchorBatch, Returns, ChronicleMoves, vars, chronicleVars, jobsVars

(* No step undoes that. *)
LEMMA FinishedIsStable ==
  ASSUME TypeOK, [Next]_vars, NEW j \in Jobs, Finished(j)
  PROVE  Finished(j)'
<1> USE DEF Finished, TypeOK
<1>1. CASE UNCHANGED <<jobs, spent>>
  BY <1>1, ChronicleSteps
<1>2. ASSUME NEW k \in Jobs, Accepts(k) PROVE Finished(j)'
  BY <1>2, ChronicleSteps DEF Accepts
<1>3. CASE HistoryCleared
  BY <1>3, ChronicleSteps DEF HistoryCleared, Running
<1>4. ASSUME NEW k \in Jobs, NEW s \in JobStatus, JobMoves(k, s) PROVE Finished(j)'
  <2>1. k = j => s \in Over
    BY <1>4, MovesOnwards DEF JobMoves
  <2> QED
    BY <1>4, <2>1, ChronicleSteps DEF JobMoves, Over, Running
<1>5. CASE LedgerReloaded
  BY <1>5, ChronicleSteps DEF LedgerReloaded, Running, Over
<1>6. ASSUME NEW k \in Jobs, NEW s \in Over,
             jobs' = [jobs EXCEPT ![k] = s], UNCHANGED spent
      PROVE  Finished(j)'
  BY <1>6, ChronicleSteps DEF Running, Over
<1> QED
  BY <1>1, <1>2, <1>3, <1>4, <1>5, <1>6, ChronicleSteps

(* A publish chronicle has was handed out. *)
LEMMA KnownIsSpent ==
  ASSUME TypeOK, [Next]_vars, \A j \in Jobs : jobs[j] # "absent" => j \in spent
  PROVE  \A j \in Jobs : jobs'[j] # "absent" => j \in spent'
<1> SUFFICES ASSUME NEW j \in Jobs, jobs'[j] # "absent" PROVE j \in spent'
  OBVIOUS
<1> USE DEF TypeOK
<1>1. CASE UNCHANGED <<jobs, spent>>
  BY <1>1
<1>2. ASSUME NEW k \in Jobs, Accepts(k) PROVE j \in spent'
  BY <1>2 DEF Accepts
<1>3. CASE HistoryCleared
  BY <1>3 DEF HistoryCleared
<1>4. ASSUME NEW k \in Jobs, NEW s \in JobStatus, JobMoves(k, s) PROVE j \in spent'
  <2>1. jobs[k] # "absent"
    BY <1>4, MovesOnwards DEF JobMoves, Running, Over
  <2> QED
    BY <1>4, <2>1 DEF JobMoves
<1>5. CASE LedgerReloaded
  BY <1>5 DEF LedgerReloaded
<1>6. ASSUME NEW k \in Jobs, NEW s \in Over, jobs[k] \in Over,
             jobs' = [jobs EXCEPT ![k] = s], UNCHANGED spent
      PROVE  j \in spent'
  BY <1>6 DEF Over
<1> QED
  BY <1>1, <1>2, <1>3, <1>4, <1>5, <1>6, ChronicleSteps

(* An anchor record is of a publish that was done, never of one that only   *)
(* failed or is under way, however old the history is the user clicks in.   *)
THEOREM OnlyDoneIsAnchored == Spec => []AnchoredWasDone
<1>1. Init => AnchorInv
  BY DEF Init, JobsInit, AnchorInv
<1>2. TypeOK /\ AnchorInv /\ [Next]_vars => AnchorInv'
  <2> SUFFICES ASSUME TypeOK, AnchorInv, [Next]_vars PROVE AnchorInv'
    OBVIOUS
  <2>1. \A j \in Jobs : jobs'[j] # "absent" => j \in spent'
    BY KnownIsSpent DEF AnchorInv
  <2>2. ASSUME NEW j \in Jobs, history'[j] = "done" PROVE Finished(j)'
    <3>1. CASE history[j] = "done"
      BY <3>1, FinishedIsStable DEF AnchorInv
    <3>2. CASE history' = Listed /\ UNCHANGED <<jobs, spent, wasDone>>
      <4>1. jobs[j] = "done"
        BY <2>2, <3>2 DEF Listed
      <4> QED
        BY <3>2, <4>1 DEF AnchorInv, Finished, Running
    <3> QED
      BY <2>2, <3>1, <3>2, ClientSteps
  <2>3. anchoring' # None => Finished(anchoring)'
    <3>1. ASSUME NEW j \in Jobs, Finished(j), anchoring' = j PROVE Finished(anchoring)'
      <4>1. Finished(j)'
        BY <3>1, FinishedIsStable
      <4> QED
        BY <3>1, <4>1 DEF Finished
    <3> QED
      BY <3>1, ClientSteps DEF AnchorInv, TypeOK
  <2>4. ASSUME NEW j \in anchored' PROVE Finished(j)'
    <3>1. j \in anchored \/ (j = anchoring /\ anchoring # None)
      BY <2>4, ClientSteps DEF TypeOK
    <3>2. j \in Jobs /\ Finished(j)
      BY <3>1 DEF AnchorInv, TypeOK
    <3> QED
      BY <3>2, FinishedIsStable
  <2>5. \A j \in Jobs : jobs'[j] = "done" => j \in wasDone'
    BY DoneIsNoted
  <2> QED
    BY <2>1, <2>2, <2>3, <2>4, <2>5 DEF AnchorInv
<1>3. AnchorInv => AnchoredWasDone
  BY DEF AnchorInv, AnchoredWasDone, Finished
<1> QED
  BY <1>1, <1>2, <1>3, TypeCorrect, PTL DEF Spec
=============================================================================
