---------------------------- MODULE UploadTiming ----------------------------
(***************************************************************************)
(* The clock of one upload of the chronicle plugin: the time-out of an     *)
(* attempt, the back-off between attempts and the deadline, which module   *)
(* UploadQueue leaves open.  Time is counted from uploadFileJson in        *)
(* quarters of a second, so that the jitter of 0.75 to 1.25 is 3 .. 5 of   *)
(* them for a second.  Timers fire late when the plugin's one thread is    *)
(* blocked, in the uploadUrl wait of another upload or in the call of      *)
(* anchorBatchJson; a retry timer that is swallowed is UploadQueue's.      *)
(***************************************************************************)
EXTENDS Integers

CONSTANTS
  Sizes,   \* sizes of files in MiB, rounded up
  Delays   \* how late a handler may run, as the thread is blocked

ASSUME TimingAssumption == Sizes \subseteq Nat /\ Delays \subseteq Nat

VARIABLES
  mib,       \* UploadJob.sizeBytes
  status,    \* UploadJob.status, or "adrift" when the back-off overflowed
  attempt,
  now,
  due,       \* when the retry timer is to fire
  late       \* how long the running attempt was kept waiting for the thread

vars == <<mib, status, attempt, now, due, late>>

Clamp(x, lo, hi) == IF x < lo THEN lo ELSE IF hi < x THEN hi ELSE x

(* uploadTimeoutMs: 45 s and 2 s a MiB, to 5 min; uploadBudgetMs: 90 s to 15 min. *)
Timeout == Clamp(180 + 8 * mib, 180, 1200)
Budget == Clamp(3 * Timeout, 360, 3600)

(* The last attempt whose back-off the shift of an int can hold. *)
LastShift == 31

(* Mutants: the back-off is not limited, or does not grow. *)
BackoffUncapped(a) == {2 ^ (a - 1) * q : q \in 3 .. 5}
BackoffSame(a) == 3 .. 5

(* backoffFor. *)
BackoffFor(a) == {(IF a <= 5 THEN 2 ^ (a - 1) ELSE 30) * q : q \in 3 .. 5}

Init ==
  /\ mib \in Sizes
  /\ status = "queued" /\ attempt = 0 /\ now = 0 /\ due = 0 /\ late = 0

(* An upload may be kept waiting in the queue past its deadline. *)
StartFirst ==
  /\ status = "queued"
  /\ now' \in {0, Budget + 1}
  /\ status' = "uploading"
  /\ attempt' = 1
  /\ UNCHANGED <<mib, due, late>>

(* The single-shot timer fires when it is due, or later. *)
StartRetry ==
  /\ status = "retrying"
  /\ late' \in Delays
  /\ now' = due + late'
  /\ status' = "uploading"
  /\ attempt' = attempt + 1
  /\ UNCHANGED <<mib, due>>

(* Mutant: only the time that has passed counts. *)
RetryableNow(t, delay) == t <= Budget

(* The deadline check of failUpload. *)
Retryable(t, delay) == t + delay <= Budget

(* failUpload at time t: the attempt failed at once, or timed out. *)
Retry(t) ==
  /\ attempt <= LastShift
  /\ \E delay \in BackoffFor(attempt) :
       IF Retryable(t, delay) THEN status' = "retrying" /\ due' = t + delay
                              ELSE status' = "error" /\ UNCHANGED due

(* 1 << 31 is negative: the deadline is no limit and the timer set to nonsense. *)
RetryOverflows == attempt > LastShift /\ status' = "adrift" /\ UNCHANGED due

(* An attempt ends at once or times out, and is handled then or later. *)
Ends(delay) == {now + delay, now + Timeout + delay}

AttemptFails ==
  /\ status = "uploading"
  /\ \E delay \in Delays : \E t \in Ends(delay) :
       /\ now' = t /\ late' = late + delay
       /\ Retry(t) \/ RetryOverflows
  /\ UNCHANGED <<mib, attempt>>

(* Success, or a failure that is final. *)
AttemptSettles ==
  /\ status = "uploading"
  /\ \E delay \in Delays : now' \in Ends(delay) /\ late' = late + delay
  /\ status' \in {"uploaded", "error"}
  /\ UNCHANGED <<mib, attempt, due>>

Next == StartFirst \/ StartRetry \/ AttemptFails \/ AttemptSettles

Spec == Init /\ [][Next]_vars

(* Timers fire, those of attempts too. *)
FairSpec == Spec /\ WF_vars(Next)

-----------------------------------------------------------------------------
TypeOK ==
  /\ mib \in Sizes
  /\ status \in {"queued", "uploading", "retrying", "uploaded", "error", "adrift"}
  /\ attempt \in Nat /\ (attempt = 0) = (status = "queued")
  /\ now \in Nat /\ late \in Nat /\ due \in 0 .. Budget

(***************************************************************************)
(* An upload that got a second attempt is over one time-out after the      *)
(* deadline at the latest, but for the time its last attempt was kept      *)
(* waiting for the thread: delays of earlier attempts do not add up.       *)
(* Between attempts there are 0.75 to 37.5 s (logos-chronicle/README.md:62 *)
(* says 1 to 30 s).  The deadline of a file of less than 79 MiB comes      *)
(* before the attempt whose back-off overflows, however late timers are.   *)
(***************************************************************************)
OverInTime ==
  /\ status = "retrying" => due - now \in 3 .. 150
  /\ attempt > 1 => now <= Budget + Timeout + late
  /\ mib < 79 => status # "adrift"

(* Every upload ends; only a file of 79 MiB or more, whose budget has room for *)
(* so many attempts that fail at once, can get to the back-off that overflows. *)
SmallEnds == (mib < 79 /\ status # "queued") ~> status \in {"uploaded", "error"}
=============================================================================
