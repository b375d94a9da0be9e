-------------------------- MODULE UploadTimingProofs --------------------------
(* Theorems about UploadTiming, for files of any sizes and any delays. *)
EXTENDS UploadTiming, TLAPS

(* The time-out is 45 s to 5 min, the budget 135 s to 15 min; the factor of *)
(* three keeps the budget above its own lower limit.                        *)
LEMMA TimeoutAndBudget ==
  ASSUME mib \in Nat
  PROVE  /\ Timeout \in 180 .. 1200
         /\ Budget = 3 * Timeout
         /\ Budget \in Nat
         /\ mib < 79 => Budget < 2433
  <1>1. Timeout \in 180 .. 1200 /\ (mib < 79 => Timeout <= 804)
    BY DEF Timeout, Clamp
  <1>2. Budget = 3 * Timeout
    BY <1>1 DEF Budget, Clamp
  <1>3. QED
    BY <1>1, <1>2

(* What the attempts before number a have waited for at the least. *)
Waited(a) ==
  IF a <= 6 THEN <<0, 3, 9, 21, 45, 93>>[a] ELSE 93 + 90 * (a - 6)

LEMMA BackoffBounds ==
  ASSUME NEW a \in Nat \ {0}, NEW delay \in BackoffFor(a)
  PROVE  /\ delay \in 3 .. 150
         /\ Waited(a) + delay >= Waited(a + 1)
         /\ Waited(a) \in Nat /\ Waited(a + 1) \in Nat
  <1>1. CASE a = 1
    BY <1>1 DEF BackoffFor, Waited
  <1>2. CASE a = 2
    BY <1>2 DEF BackoffFor, Waited
  <1>3. CASE a = 3
    BY <1>3 DEF BackoffFor, Waited
  <1>4. CASE a = 4
    BY <1>4 DEF BackoffFor, Waited
  <1>5. CASE a = 5
    BY <1>5 DEF BackoffFor, Waited
  <1>6. CASE a > 5
    <2>1. PICK q \in 3 .. 5 : delay = 30 * q
      BY <1>6 DEF BackoffFor
    <2>2. Waited(a) = 93 + 90 * (a - 6) /\ Waited(a + 1) = 93 + 90 * (a - 5)
      BY <1>6 DEF Waited
    <2>3. QED
      BY <1>6, <2>1, <2>2
  <1>7. QED
    BY <1>1, <1>2, <1>3, <1>4, <1>5, <1>6

-----------------------------------------------------------------------------
(* Type correctness. *)

LEMMA TypeStep == TypeOK /\ [Next]_vars => TypeOK'
  <1> SUFFICES ASSUME TypeOK, [Next]_vars PROVE TypeOK'
    OBVIOUS
  <1>1. mib \in Nat
    BY TimingAssumption DEF TypeOK
  <1>2. Timeout \in Nat /\ Budget \in Nat
    BY <1>1, TimeoutAndBudget
  <1>3. Budget' = Budget
    BY DEF Next, StartFirst, StartRetry, AttemptFails, AttemptSettles, vars, Budget, Timeout
  <1>4. CASE StartFirst
    BY <1>2, <1>3, <1>4 DEF TypeOK, StartFirst
  <1>5. CASE StartRetry
    <2>0. due \in Nat
      BY <1>2 DEF TypeOK
    <2>1. PICK wait \in Nat : late' = wait /\ now' = due + wait
      BY <1>5, TimingAssumption DEF StartRetry
    <2>2. attempt' \in Nat /\ attempt' # 0 /\ status' = "uploading"
      BY <1>5 DEF TypeOK, StartRetry
    <2>3. now' \in Nat
      BY <2>0, <2>1
    <2>4. QED
      BY <1>3, <1>5, <2>1, <2>2, <2>3 DEF TypeOK, StartRetry
  <1>6. CASE AttemptFails
    <2>0. PICK wait \in Nat : \E t \in Ends(wait) :
            now' = t /\ late' = late + wait /\ (Retry(t) \/ RetryOverflows)
      BY <1>6, TimingAssumption DEF AttemptFails
    <2>1. PICK t \in Ends(wait) :
            now' = t /\ late' = late + wait /\ (Retry(t) \/ RetryOverflows)
      BY <2>0
    <2>2. t \in Nat /\ now' \in Nat /\ late' \in Nat
      BY <1>2, <2>1 DEF TypeOK, Ends
    <2>3. CASE RetryOverflows
      BY <1>3, <1>6, <2>2, <2>3 DEF TypeOK, AttemptFails, RetryOverflows
    <2>4. CASE Retry(t)
      <3>1. PICK delay \in BackoffFor(attempt) :
              IF Retryable(t, delay) THEN status' = "retrying" /\ due' = t + delay
                                     ELSE status' = "error" /\ UNCHANGED due
        BY <2>4 DEF Retry
      <3>2. delay \in 3 .. 150
        BY <1>6, BackoffBounds DEF TypeOK, AttemptFails
      <3>3. due' \in 0 .. Budget /\ status' \in {"retrying", "error"}
        BY <1>2, <2>2, <3>1, <3>2 DEF TypeOK, Retryable
      <3>4. QED
        BY <1>3, <1>6, <2>2, <3>3 DEF TypeOK, AttemptFails
    <2>5. QED
      BY <2>1, <2>3, <2>4
  <1>7. CASE AttemptSettles
    BY <1>2, <1>3, <1>7, TimingAssumption DEF TypeOK, AttemptSettles, Ends
  <1>8. CASE UNCHANGED vars
    BY <1>3, <1>8 DEF TypeOK, vars
  <1>9. QED
    BY <1>4, <1>5, <1>6, <1>7, <1>8 DEF Next

(* Every variable keeps its type; a retry is never due after the deadline. *)
THEOREM TypeCorrect == Spec => []TypeOK
  <1>1. Init => TypeOK
    <2> SUFFICES ASSUME Init PROVE TypeOK
      OBVIOUS
    <2>1. Budget \in Nat
      BY TimingAssumption, TimeoutAndBudget DEF Init
    <2>2. QED
      BY <2>1 DEF Init, TypeOK
  <1>2. QED
    BY <1>1, TypeStep, PTL DEF Spec

-----------------------------------------------------------------------------
(* The deadline and the overflow. *)

(***************************************************************************)
(* Where the clock is: no attempt but the first is due after the deadline, *)
(* and a late start or a late time-out moves it by no more than late; none *)
(* is due before the back-offs that came before it are over, so only a     *)
(* budget with room for all of these lets an upload go adrift.             *)
(***************************************************************************)
ClockInv ==
  /\ status = "retrying" => due - now \in 3 .. 150 /\ due >= Waited(attempt + 1)
  /\ status = "uploading" => now >= Waited(attempt)
  /\ status = "uploading" /\ attempt > 1 =>
       now <= Budget + late /\ Waited(attempt) <= due
  /\ attempt > 1 => now <= Budget + Timeout + late
  /\ status = "adrift" => Waited(LastShift + 1) <= Budget

LEMMA ClockStep == TypeOK /\ ClockInv /\ [Next]_vars => ClockInv'
  <1> SUFFICES ASSUME TypeOK, ClockInv, [Next]_vars PROVE ClockInv'
    OBVIOUS
  <1>1. /\ Timeout \in 180 .. 1200 /\ Budget \in Nat
        /\ attempt \in Nat /\ now \in Nat /\ late \in Nat /\ due \in 0 .. Budget
        /\ (attempt = 0) = (status = "queued")
    BY TimingAssumption, TimeoutAndBudget DEF TypeOK
  <1>2. Budget' = Budget /\ Timeout' = Timeout
    BY DEF Next, StartFirst, StartRetry, AttemptFails, AttemptSettles, vars, Budget, Timeout
  <1>3. CASE StartFirst
    BY <1>1, <1>2, <1>3 DEF StartFirst, ClockInv, Waited
  <1>4. CASE StartRetry
    <2>1. PICK wait \in Nat : late' = wait /\ now' = due + wait /\ due' = due
      BY <1>4, TimingAssumption DEF StartRetry
    <2>2. due >= Waited(attempt + 1) /\ Waited(attempt + 1) \in Nat
      BY <1>1, <1>4 DEF StartRetry, ClockInv, Waited
    <2>3. attempt' = attempt + 1 /\ status' = "uploading"
      BY <1>4 DEF StartRetry
    <2>4. /\ now' >= Waited(attempt') /\ Waited(attempt') <= due'
          /\ now' <= Budget' + late' /\ now' <= Budget' + Timeout' + late'
      <3>1. now' >= Waited(attempt + 1) /\ now' <= Budget + wait
        BY <1>1, <2>1, <2>2
      <3>2. now' <= Budget + Timeout + wait
        BY <1>1, <2>1, <3>1
      <3>3. QED
        BY <1>2, <2>1, <2>2, <2>3, <3>1, <3>2
    <2>5. QED
      BY <2>3, <2>4 DEF ClockInv
  <1>5. CASE AttemptFails
    <2>0. PICK wait \in Nat : \E t \in {now + wait, now + Timeout + wait} :
            now' = t /\ late' = late + wait /\ (Retry(t) \/ RetryOverflows)
      BY <1>5, TimingAssumption DEF AttemptFails, Ends
    <2>1. PICK t \in {now + wait, now + Timeout + wait} :
            now' = t /\ late' = late + wait /\ (Retry(t) \/ RetryOverflows)
      BY <2>0
    <2>2. attempt' = attempt /\ attempt # 0 /\ now >= Waited(attempt)
      BY <1>1, <1>5 DEF AttemptFails, ClockInv
    <2>3. attempt > 1 => now <= Budget + late /\ Waited(attempt) <= due
      BY <1>5 DEF AttemptFails, ClockInv
    <2>4. now' \in Nat /\ now' >= now
      BY <1>1, <2>1
    <2>5. attempt' > 1 => now' <= Budget' + Timeout' + late'
      BY <1>1, <1>2, <2>1, <2>2, <2>3
    <2>6. CASE RetryOverflows
      <3>1. attempt > LastShift /\ status' = "adrift"
        BY <2>6 DEF RetryOverflows
      <3>2. Waited(attempt) >= Waited(LastShift + 1) /\ Waited(attempt) \in Nat
        BY <1>1, <3>1 DEF LastShift, Waited
      <3>3. Waited(LastShift + 1) \in Nat
        BY DEF LastShift, Waited
      <3>4. Waited(LastShift + 1) <= Budget
        BY <1>1, <2>3, <3>1, <3>2, <3>3 DEF LastShift
      <3>5. QED
        BY <1>2, <2>5, <3>1, <3>4 DEF ClockInv
    <2>7. CASE Retry(t)
      <3>1. PICK delay \in BackoffFor(attempt) :
              IF Retryable(t, delay) THEN status' = "retrying" /\ due' = t + delay
                                     ELSE status' = "error" /\ UNCHANGED due
        BY <2>7 DEF Retry
      <3>2. /\ delay \in 3 .. 150
            /\ Waited(attempt) + delay >= Waited(attempt + 1)
            /\ Waited(attempt) \in Nat /\ Waited(attempt + 1) \in Nat
        BY <1>1, <2>2, <3>1, BackoffBounds
      <3>3. status' = "retrying" => due' - now' \in 3 .. 150 /\ due' >= Waited(attempt + 1)
        BY <1>1, <2>1, <2>2, <2>4, <3>1, <3>2
      <3>4. status' \in {"retrying", "error"}
        BY <3>1
      <3>5. QED
        BY <2>2, <2>5, <3>3, <3>4 DEF ClockInv
    <2>8. QED
      BY <2>1, <2>6, <2>7
  <1>6. CASE AttemptSettles
    <2>1. attempt' = attempt /\ status' \in {"uploaded", "error"}
      BY <1>6 DEF AttemptSettles
    <2>2. attempt > 1 => now <= Budget + late
      BY <1>6 DEF AttemptSettles, ClockInv
    <2>3. PICK wait \in Nat :
            late' = late + wait /\ now' \in {now + wait, now + Timeout + wait}
      BY <1>6, TimingAssumption DEF AttemptSettles, Ends
    <2>4. attempt' > 1 => now' <= Budget' + Timeout' + late'
      BY <1>1, <1>2, <2>1, <2>2, <2>3
    <2>5. QED
      BY <2>1, <2>4 DEF ClockInv
  <1>7. CASE UNCHANGED vars
    BY <1>2, <1>7 DEF vars, ClockInv
  <1>8. QED
    BY <1>3, <1>4, <1>5, <1>6, <1>7 DEF Next

(***************************************************************************)
(* Retries are set 0.75 to 37.5 s ahead and before the deadline; however   *)
(* late timers fire, an upload that was tried again is over one time-out   *)
(* after the deadline and what its last attempt was kept waiting, and no   *)
(* file of less than 79 MiB gets to the back-off that overflows.           *)
(***************************************************************************)
THEOREM RetriesEndInTime == Spec => []OverInTime
  <1>1. Init => ClockInv
    BY DEF Init, ClockInv
  <1>2. TypeOK /\ ClockInv => OverInTime
    <2> SUFFICES ASSUME TypeOK, ClockInv PROVE OverInTime
      OBVIOUS
    <2>1. mib < 79 => Budget < 2433
      BY TimingAssumption, TimeoutAndBudget DEF TypeOK
    <2>2. Waited(LastShift + 1) = 2433
      BY DEF Waited, LastShift
    <2>3. Budget \in Nat
      BY TimingAssumption, TimeoutAndBudget DEF TypeOK
    <2>4. mib < 79 => status # "adrift"
      BY <2>1, <2>2, <2>3 DEF ClockInv
    <2>5. QED
      BY <2>4 DEF ClockInv, OverInTime
  <1>3. QED
    BY <1>1, <1>2, ClockStep, TypeCorrect, PTL DEF Spec
=============================================================================
