----------------------------- MODULE PublishJobs -----------------------------
(***************************************************************************)
(* What a client that polls its publishes may expect of chronicle: an id   *)
(* is handed out once; a publish under way goes on or ends; one that is    *)
(* over stays as it is, across restarts, until the client clears the       *)
(* history.  Publish is shown to do no more than this, but for departures  *)
(* that it names; Whistleblower is built on both.                          *)
(***************************************************************************)
CONSTANT Jobs  \* publish ids

VARIABLES
  jobs,        \* PublishJob.status, "absent" if chronicle has no such job
  spent        \* the ids handed out

jobsVars == <<jobs, spent>>

Running == {"uploading", "broadcasting"}
Over == {"done", "error"}
JobStatus == Running \cup Over \cup {"absent"}

JobsInit == jobs = [j \in Jobs |-> "absent"] /\ spent = {}

(* publishFileJson takes a document on under a new id. *)
Accepts(j) ==
  /\ j \notin spent
  /\ spent' = spent \cup {j}
  /\ jobs' = [jobs EXCEPT ![j] = "uploading"]

(* An id is used for something else. *)
IdTaken(j) == spent' = spent \cup {j} /\ UNCHANGED jobs

(* A publish gets on, or ends; that is final. *)
Moves == ({"uploading"} \X {"broadcasting", "done", "error"})
         \cup ({"broadcasting"} \X {"done", "error"})

JobMoves(j, s) ==
  /\ <<jobs[j], s>> \in Moves
  /\ jobs' = [jobs EXCEPT ![j] = s]
  /\ UNCHANGED spent

(* A restart forgets what is under way; what is over comes back. *)
LedgerReloaded ==
  jobs' = [j \in Jobs |-> IF jobs[j] \in Over THEN jobs[j] ELSE "absent"] /\ UNCHANGED spent

JobsNext ==
  \/ \E j \in Jobs : Accepts(j) \/ IdTaken(j)
  \/ \E j \in Jobs, s \in JobStatus : JobMoves(j, s)
  \/ LedgerReloaded

(* Nobody but a client makes chronicle forget what is over: clearPublishedJson. *)
HistoryCleared == jobs' = [j \in Jobs |-> "absent"] /\ UNCHANGED spent
=============================================================================
