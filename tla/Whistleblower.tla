---------------------------- MODULE Whistleblower ----------------------------
(***************************************************************************)
(* The Whistleblower plugin (whistleblower_plugin.cpp) with the buttons of *)
(* Main.qml, and of chronicle as much as it sees: publishes (PublishJobs,  *)
(* with the departures Publish has from it), anchors and whether delivery  *)
(* is up.                                                                  *)
(*                                                                         *)
(* A handler runs alone in its thread and makes its calls of chronicle one *)
(* after the other: calling is the one it waits for, and takes effect in   *)
(* chronicle when the wait ends.  Chronicle goes on meanwhile and may      *)
(* restart.  A call may be lost, or its reply: either way the handler goes *)
(* on with an empty answer.  Documents differ, so a publish stands for its *)
(* CID.                                                                    *)
(***************************************************************************)
EXTENDS Naturals, PublishJobs

CONSTANTS
  None,      \* the empty QString
  MaxTries,  \* kMaxDeliveryTries
  MaxCount   \* the failed tries after which no model user asks again

Calls == {"startBroadcaster", "publishFile", "publishStatus", "listPublished",
          "clearPublished", "clearAnchors", "anchorBatch"}

ASSUME WhistleblowerAssumption ==
  None \notin Jobs \cup Calls /\ MaxTries \in Nat \ {0} /\ MaxCount \in Nat

VARIABLES
  phase, working, activeJob,
  networkReady,
  tries,        \* m_deliveryTries
  retryDue,     \* m_deliveryRetry is active
  polling,      \* m_pollTimer is active
  history,      \* historyJson: what is shown of each publish
  due,          \* the 0 ms timers of initLogos that have not fired
  calling,      \* the call of chronicle the running handler waits for
  anchoring,    \* the publish anchorJob was called with
  anchored,     \* chronicle: the publishes in its anchor ledger
  wasDone       \* for the properties: the publishes it has ever shown as done

jobVars == <<phase, working, activeJob, polling>>
deliveryVars == <<networkReady, tries, retryDue>>
chronicleVars == <<jobsVars, anchored, wasDone>>
vars == <<jobVars, deliveryVars, chronicleVars, history, due, calling, anchoring>>

Phases == Running \cup Over \cup {"idle", "queued"}
StartUp == {"listPublished", "startBroadcaster"}

Idle == calling = None

-----------------------------------------------------------------------------
(* The constructor and initLogos; chronicle has done nothing yet. *)
Init ==
  /\ phase = "idle" /\ working = FALSE /\ activeJob = None /\ polling = FALSE
  /\ networkReady = FALSE /\ tries = 0 /\ retryDue = FALSE
  /\ history = [j \in Jobs |-> "absent"]
  /\ due = StartUp
  /\ calling = None
  /\ anchoring = None
  /\ JobsInit
  /\ anchored = {} /\ wasDone = {}

(* The application is closed, anywhere, and opened again. *)
Relaunch ==
  /\ phase' = "idle" /\ working' = FALSE /\ activeJob' = None /\ polling' = FALSE
  /\ networkReady' = FALSE /\ tries' = 0 /\ retryDue' = FALSE
  /\ history' = [j \in Jobs |-> "absent"]
  /\ due' = StartUp
  /\ calling' = None
  /\ anchoring' = None
  /\ UNCHANGED chronicleVars

StartUpTimer(call) ==
  /\ Idle
  /\ call \in due
  /\ due' = due \ {call}
  /\ calling' = call
  /\ UNCHANGED <<jobVars, deliveryVars, chronicleVars, history, anchoring>>

-----------------------------------------------------------------------------
(* What the user and the timers ask for. *)

(* submitDocument, up to its call; the button is off while working, too. *)
SubmitDocument ==
  /\ Idle
  /\ ~ working
  /\ activeJob' = None
  /\ working' = TRUE
  /\ phase' = "queued"
  /\ calling' = "publishFile"
  /\ UNCHANGED <<polling, deliveryVars, chronicleVars, history, due, anchoring>>

(* The Reconnect button, shown while the network is not ready. *)
ConnectDelivery ==
  /\ Idle
  /\ ~ networkReady /\ ~ working
  /\ tries < MaxCount
  /\ calling' = "startBroadcaster"
  /\ UNCHANGED <<jobVars, deliveryVars, chronicleVars, history, due, anchoring>>

DeliveryRetry ==
  /\ Idle
  /\ retryDue
  /\ retryDue' = FALSE
  /\ calling' = "startBroadcaster"
  /\ UNCHANGED <<jobVars, networkReady, tries, chronicleVars, history, due, anchoring>>

(* tickJobPoll; without a job it stops the timer. *)
TickJobPoll ==
  /\ Idle
  /\ polling
  /\ IF activeJob = None
     THEN polling' = FALSE /\ UNCHANGED calling
     ELSE calling' = "publishStatus" /\ UNCHANGED polling
  /\ UNCHANGED <<phase, working, activeJob, deliveryVars, chronicleVars, history,
                 due, anchoring>>

(* The Refresh button. *)
ReloadHistory ==
  /\ Idle
  /\ calling' = "listPublished"
  /\ UNCHANGED <<jobVars, deliveryVars, chronicleVars, history, due, anchoring>>

(* discardHistory, up to its first call. *)
DiscardHistory ==
  /\ Idle
  /\ ~ working
  /\ calling' = "clearPublished"
  /\ UNCHANGED <<jobVars, deliveryVars, chronicleVars, history, due, anchoring>>

(* Mutant: the button is shown on every row. *)
AnchorableAny(j) == history[j] # "absent"

(* The Anchor button of a row, and anchorJob's look-up in the same history. *)
Anchorable(j) == history[j] = "done"

AnchorJob(j) ==
  /\ Idle
  /\ Anchorable(j)
  /\ calling' = "anchorBatch"
  /\ anchoring' = j
  /\ UNCHANGED <<jobVars, deliveryVars, chronicleVars, history, due>>

-----------------------------------------------------------------------------
(* The calls, as they return, and what the handler goes on with. *)
Returns(call, next) == calling = call /\ calling' = next

(* Mutant: the phase is not set. *)
FailedQuietly == working' = FALSE /\ UNCHANGED <<phase, activeJob, polling>>

(* No answer, or not the one hoped for: chronicle may have done it or not. *)
Failed ==
  /\ working' = FALSE
  /\ phase' = "error"
  /\ UNCHANGED <<activeJob, polling>>

(* Mutant: the poll timer is started by the next refresh only. *)
JobQueuedUnpolled(j) ==
  /\ activeJob' = j
  /\ UNCHANGED <<phase, working, polling>>

(* handleJobResponse, when the publish was accepted. *)
JobQueued(j) ==
  /\ activeJob' = j
  /\ polling' = TRUE
  /\ UNCHANGED <<phase, working>>

PublishFile ==
  /\ Returns("publishFile", None)
  /\ \/ \E j \in Jobs : Accepts(j) /\ UNCHANGED <<anchored, wasDone>> /\ (JobQueued(j) \/ Failed)
     \/ Failed /\ UNCHANGED chronicleVars
  /\ UNCHANGED <<deliveryVars, history, due, anchoring>>

(* Mutant: the tries are not counted from here. *)
TriesKept == UNCHANGED tries

TriesReset == tries' = 0

(* connectDelivery: chronicle's storage and delivery are up. *)
DeliveryConnected ==
  /\ Returns("startBroadcaster", "listPublished")
  /\ networkReady' = TRUE
  /\ TriesReset
  /\ UNCHANGED <<retryDue, jobVars, chronicleVars, history, due, anchoring>>

(* Mutant: the try that follows is taken for the last one too early. *)
RetryArmedBut == retryDue' = (retryDue \/ tries + 2 < MaxTries)

(* The last try, and any that the user asks for after it, arms no other. *)
RetryArmed == retryDue' = (retryDue \/ tries + 1 < MaxTries)

(* They are not, or there was no answer. *)
DeliveryUnavailable ==
  /\ Returns("startBroadcaster", None)
  /\ networkReady' = FALSE
  /\ tries' = tries + 1
  /\ RetryArmed
  /\ UNCHANGED <<jobVars, chronicleVars, history, due, anchoring>>

(* Mutant: an error does not end the job. *)
TerminalDone == {"done"}

(* The phases that stop polling. *)
Terminal == {"done", "error"}

StatusRunning ==
  /\ Returns("publishStatus", None)
  /\ jobs[activeJob] \notin Terminal \cup {"absent"}
  /\ phase' = jobs[activeJob]
  /\ UNCHANGED <<working, activeJob, polling, deliveryVars, chronicleVars, history,
                 due, anchoring>>

StatusOver ==
  /\ Returns("publishStatus", "listPublished")
  /\ jobs[activeJob] \in Terminal
  /\ phase' = jobs[activeJob]
  /\ polling' = FALSE
  /\ working' = FALSE
  /\ UNCHANGED <<activeJob, deliveryVars, chronicleVars, history, due, anchoring>>

(* UNKNOWN_PUBLISH carries no status, as does no answer at all. *)
StatusEmpty ==
  /\ Returns("publishStatus", None)
  /\ UNCHANGED <<jobVars, deliveryVars, chronicleVars, history, due, anchoring>>

(* reloadHistory: every publish chronicle has, those that run or failed too. *)
Listed == [j \in Jobs |-> IF jobs[j] \in {"absent", "done"} THEN jobs[j] ELSE "other"]

ListPublished ==
  /\ Returns("listPublished", None)
  /\ history' \in {Listed, history}
  /\ UNCHANGED <<jobVars, deliveryVars, chronicleVars, due, anchoring>>

ForgetJob == phase' = "idle" /\ activeJob' = None

DiscardAnswered ==
  /\ Returns("clearPublished", "clearAnchors")
  /\ HistoryCleared
  /\ ForgetJob
  /\ UNCHANGED <<anchored, wasDone, working, polling, deliveryVars, history, due, anchoring>>

DiscardUnanswered ==
  /\ Returns("clearPublished", None)
  /\ HistoryCleared \/ UNCHANGED jobsVars
  /\ UNCHANGED <<anchored, wasDone, jobVars, deliveryVars, history, due, anchoring>>

ClearAnchors ==
  /\ Returns("clearAnchors", "listPublished")
  /\ anchored' \in {{}, anchored}
  /\ UNCHANGED <<jobVars, deliveryVars, jobsVars, wasDone, history, due, anchoring>>

(* anchorBatchJson leaves a record, confirmed or failed, unless not configured. *)
AnchorBatch ==
  /\ Returns("anchorBatch", None)
  /\ anchored' \in {anchored, anchored \cup {anchoring}}
  /\ anchoring' = None
  /\ UNCHANGED <<jobVars, deliveryVars, jobsVars, wasDone, history, due>>

-----------------------------------------------------------------------------
(* Where chronicle departs from PublishJobs (Publish: StartedAgain,        *)
(* SentAfterError, LedgerTorn): an end that turns into the other, and a    *)
(* restart without the ledger.                                             *)
JobDeparts ==
  \/ \E j \in Jobs, s \in Over : /\ jobs[j] \in Over
                                /\ jobs' = [jobs EXCEPT ![j] = s]
                                /\ UNCHANGED spent
  \/ HistoryCleared

(* Chronicle by itself: its publishes go on, or it restarts. *)
ChronicleMoves ==
  /\ \/ \E j \in Jobs, s \in JobStatus : JobMoves(j, s)
     \/ LedgerReloaded
     \/ JobDeparts
  /\ wasDone' = wasDone \cup {j \in Jobs : jobs'[j] = "done"}
  /\ UNCHANGED <<anchored, jobVars, deliveryVars, history, due, calling, anchoring>>

CallReturns ==
  \/ PublishFile \/ DeliveryConnected \/ DeliveryUnavailable
  \/ StatusRunning \/ StatusOver \/ StatusEmpty \/ ListPublished
  \/ DiscardAnswered \/ DiscardUnanswered \/ ClearAnchors \/ AnchorBatch

Next ==
  \/ \E call \in StartUp : StartUpTimer(call)
  \/ Relaunch
  \/ SubmitDocument \/ ConnectDelivery \/ DeliveryRetry \/ TickJobPoll
  \/ ReloadHistory \/ DiscardHistory
  \/ \E j \in Jobs : AnchorJob(j)
  \/ CallReturns
  \/ ChronicleMoves

Spec == Init /\ [][Next]_vars

(* Calls time out, the poll timer ticks, and some poll is answered. *)
FairSpec == Spec /\ WF_vars(CallReturns) /\ SF_vars(TickJobPoll) /\ SF_vars(StatusOver)

-----------------------------------------------------------------------------
TypeOK ==
  /\ phase \in Phases
  /\ working \in BOOLEAN /\ polling \in BOOLEAN
  /\ activeJob \in Jobs \cup {None}
  /\ networkReady \in BOOLEAN /\ retryDue \in BOOLEAN
  /\ tries \in Nat /\ (networkReady => tries = 0)
  /\ history \in [Jobs -> {"absent", "other", "done"}]
  /\ due \subseteq StartUp
  /\ calling \in Calls \cup {None}
  /\ anchoring \in Jobs \cup {None}
  /\ calling = "publishStatus" => activeJob # None
  /\ (calling = "anchorBatch") = (anchoring # None)
  /\ jobs \in [Jobs -> JobStatus]
  /\ spent \subseteq Jobs
  /\ anchored \subseteq Jobs
  /\ wasDone \subseteq Jobs

(***************************************************************************)
(* While the application shows it is working somebody will find out when   *)
(* that is over: the poll timer runs, for a job.  Nothing else clears      *)
(* "working", which blocks publishing and clearing.                        *)
(***************************************************************************)
PollsWhileWorking == Idle /\ working => polling /\ activeJob # None

(***************************************************************************)
(* An application that is not working shows no publish under way, and when *)
(* it shows nothing it names no job (whistleblower.rep: "empty when idle") *)
(***************************************************************************)
PhaseIsCurrent ==
  Idle => /\ ~ working => phase \in {"idle"} \cup Over
          /\ phase = "idle" => activeJob = None

(***************************************************************************)
(* Only a published document gets an anchor record, not one that failed or *)
(* is under way: chronicle has shown it done once, though it may have      *)
(* changed its mind or forgotten it since, and does not start it again.    *)
(* The history the Anchor button goes by lists publishes that run or       *)
(* failed as well, and may be out of date.                                 *)
(***************************************************************************)
AnchoredWasDone == \A j \in anchored : j \in wasDone /\ jobs[j] \notin Running

(***************************************************************************)
(* A network that is not ready is still being tried for, or all tries have *)
(* been used up: clicks on Reconnect count as tries and share the timer    *)
(* with the automatic ones, and must not stop them before that.            *)
(***************************************************************************)
KeepsTrying ==
  Idle /\ ~ networkReady /\ "startBroadcaster" \notin due => retryDue \/ tries >= MaxTries

(* A publish that has ended is seen to have, unless chronicle forgets it. *)
EndIsSeen ==
  \A j \in Jobs :
    (working /\ activeJob = j /\ jobs[j] \in Over)
      ~> (~ working \/ jobs[j] = "absent")
=============================================================================
