------------------------- MODULE JobThread_proofs -------------------------
(***************************************************************************)
(* The job thread.                                                         *)
(*                                                                         *)
(* No signal of g_job_cond is lost, for any number of signalling threads.  *)
(* The invariant IInv adds to NoLostSignal who owns g_job_mutex: a thread  *)
(* can only become unserved behind the job thread's back while job_update  *)
(* runs, when it cannot have the mutex, so its signal is still to come.    *)
(*                                                                         *)
(* The difficulties it gives the miners before it broadcasts jobs to them  *)
(* are those their shares are measured at, for any configured limits.      *)
(***************************************************************************)
EXTENDS JobSignal, Vardiff, TLAPS

-----------------------------------------------------------------------------

(* The initial state: nobody owns the mutex and nothing is unserved.       *)
LEMMA InvInit == Init => IInv
  BY NotifiersAssumption DEF Init, IInv, TypeOK, MutexOwned, NoLostSignal, Signallers,
     JobPoints, SignallerPoints, Main, JobThread, Nobody

(* Every step of every thread preserves the invariant.                     *)
LEMMA InvStep == IInv /\ [Next]_vars => IInv'
  <1> SUFFICES ASSUME IInv, [Next]_vars
               PROVE  IInv'
    OBVIOUS
  <1> USE NotifiersAssumption
  <1> USE DEF IInv, TypeOK, MutexOwned, NoLostSignal, Signallers, JobPoints,
              SignallerPoints, Main, JobThread, Nobody, Goto
  <1>1. CASE job_thread
    BY <1>1 DEF job_thread, job_loop
  <1>2. CASE job_update
    BY <1>2 DEF job_update
  <1>3. CASE spurious_wakeup
    BY <1>3 DEF spurious_wakeup
  <1>4. ASSUME NEW t \in Signallers,
               coind_create_job(t) \/ leave_loop(t) \/ job_signal_lock(t) \/ job_signal(t)
        PROVE  IInv'
    <2>1. CASE coind_create_job(t)
      BY <2>1 DEF coind_create_job
    <2>2. CASE leave_loop(t)
      BY <2>2 DEF leave_loop
    <2>3. CASE job_signal_lock(t)
      BY <2>3 DEF job_signal_lock
    <2>4. CASE job_signal(t)
      BY <2>4 DEF job_signal
    <2> QED BY <1>4, <2>1, <2>2, <2>3, <2>4
  <1>5. CASE close_database
    BY <1>5 DEF close_database
  <1>6. CASE join_stratum_thread
    BY <1>6 DEF join_stratum_thread
  <1>7. CASE stratum_thread
    BY <1>7 DEF stratum_thread
  <1>8. CASE UNCHANGED vars
    BY <1>8 DEF vars
  <1> QED BY <1>1, <1>2, <1>3, <1>4, <1>5, <1>6, <1>7, <1>8 DEF Next

(* The threads' program points and the mutex that goes with them are an    *)
(* invariant of job_thread and job_signal (job.cpp:233-257).               *)
THEOREM Inductive == Spec => []IInv
  <1> QED BY InvInit, InvStep, PTL DEF Spec

(* The threads of job_thread, job_signal and the shutdown are always at    *)
(* one of their program points (job.cpp:228-257, stratum.cpp:348-394).     *)
THEOREM TypeCorrect == Spec => []TypeOK
  <1>1. IInv => TypeOK
    BY DEF IInv
  <1> QED BY Inductive, <1>1, PTL

(* A signaller whose jobs the sleeping job thread has not seen has yet to  *)
(* signal (job.cpp:252-257), however many connections announce blocks.     *)
THEOREM SignalsKept == Spec => []NoLostSignal
  <1>1. IInv => NoLostSignal
    BY DEF IInv
  <1> QED BY Inductive, <1>1, PTL

-----------------------------------------------------------------------------
(* What client_normalize_difficulty returns.                               *)
LEMMA Normalized ==
  ASSUME NEW d \in Nat
  PROVE  client_normalize_difficulty(d) \in 0..g_stratum_max_diff
<1> DEFINE even == CASE d < g_stratum_min_diff -> g_stratum_min_diff
                     [] d >= g_stratum_min_diff /\ d < One -> (d \div 8) * 8
                     [] d >= g_stratum_min_diff /\ d > One -> (d \div (2 * One)) * (2 * One)
                     [] OTHER -> d
<1>1. g_stratum_min_diff \in Nat /\ g_stratum_max_diff \in Nat /\ One = 4000
  BY DifficultiesAssumption DEF One
<1>2. even \in Nat
  <2>1. (d \div 8) * 8 \in Nat /\ (d \div 8000) * 8000 \in Nat
    OBVIOUS
  <2>2. 2 * One = 8000
    BY <1>1
  <2>3. CASE d < g_stratum_min_diff
    BY <1>1, <2>3
  <2>4. CASE d >= g_stratum_min_diff /\ d < One
    BY <1>1, <2>1, <2>4
  <2>5. CASE d >= g_stratum_min_diff /\ d > One
    BY <1>1, <2>1, <2>2, <2>5
  <2>6. CASE d >= g_stratum_min_diff /\ d = One
    BY <1>1, <2>6
  <2> QED
    BY <1>1, <2>3, <2>4, <2>5, <2>6
<1>3. client_normalize_difficulty(d) = IF even > g_stratum_max_diff THEN g_stratum_max_diff ELSE even
  BY DEF client_normalize_difficulty
<1> QED
  BY <1>1, <1>2, <1>3

(* The average is at one of its representatives, and so is the next one.   *)
LEMMA LevelIs ==
  ASSUME NEW r \in Nat, NEW m \in Nat
  PROVE  Level(r, m) \in 1..5
  BY DEF Level

(* A difficulty that is sent is the one that shares are measured at.       *)
LEMMA Changed ==
  ASSUME DifficultyTypeOK, NEW d \in Nat, client_change_difficulty(d)
  PROVE  /\ Given(difficulty_actual') /\ told' = difficulty_actual'
         /\ shares_per_minute' = 10 /\ unannounced' = FALSE
<1>1. client_normalize_difficulty(d) \in 1..g_stratum_max_diff
  BY Normalized, DifficultiesAssumption DEF client_change_difficulty
<1> QED
  BY <1>1 DEF client_change_difficulty, Send, YAAMP_SHAREPERSEC, Given

(* What clients ask for is a difficulty up to the maximum.                 *)
LEMMA AskableGiven ==
  \A d \in Askable \cup Subscribed : Given(d) /\ d \in Nat
<1>1. ASSUME NEW d \in Suggestions, client_normalize_difficulty(d) # 0
      PROVE  Given(client_normalize_difficulty(d)) /\ client_normalize_difficulty(d) \in Nat
  <2>1. client_normalize_difficulty(d) \in 0..g_stratum_max_diff /\ g_stratum_max_diff \in Nat
    BY Normalized, DifficultiesAssumption
  <2>2. client_normalize_difficulty(d) \in 1..g_stratum_max_diff
    BY <1>1, <2>1
  <2> QED
    BY <2>2 DEF Given
<1>2. Given(g_stratum_difficulty) /\ g_stratum_difficulty \in Nat
  BY DifficultiesAssumption DEF Given
<1> QED
  BY <1>1, <1>2 DEF Askable, Subscribed

LEMMA DifficultyInitTyped == DifficultyInit => DifficultyTypeOK /\ MeasuredAsTold
<1> SUFFICES ASSUME DifficultyInit PROVE DifficultyTypeOK /\ MeasuredAsTold
  OBVIOUS
<1>1. Given(difficulty_actual) /\ difficulty_fixed \in BOOLEAN
  BY AskableGiven DEF DifficultyInit
<1>2. shares_per_minute = Levels[2]
  BY DEF DifficultyInit, Levels, YAAMP_SHAREPERSEC
<1>3. \E i \in 1..5 : shares_per_minute = Levels[i]
  BY <1>2
<1>4. hashrate \in Hashrates /\ told = 0 /\ listed = FALSE /\ requests = 0 /\ unannounced = FALSE
  BY DEF DifficultyInit
<1>5. 0 \in 0..MaxRequests
  BY DifficultiesAssumption
<1> QED
  BY <1>1, <1>3, <1>4, <1>5 DEF DifficultyTypeOK, MeasuredAsTold

LEMMA DifficultyStep ==
  DifficultyTypeOK /\ MeasuredAsTold /\ [DifficultyNext]_difficulty_vars
    => DifficultyTypeOK' /\ MeasuredAsTold'
<1> SUFFICES ASSUME DifficultyTypeOK, MeasuredAsTold, [DifficultyNext]_difficulty_vars
             PROVE  DifficultyTypeOK' /\ MeasuredAsTold'
  OBVIOUS
<1>0. /\ difficulty_actual \in Nat /\ told \in Nat /\ hashrate \in Nat
      /\ g_stratum_max_diff \in Nat /\ \E i \in 1..5 : 10 = Levels[i]
  <2>1. 10 = Levels[2] /\ 2 \in 1..5
    BY DEF Levels
  <2> QED
    BY <2>1, DifficultiesAssumption DEF DifficultyTypeOK, Given
<1>1. CASE client_authorize
  <2>1. PICK d \in {difficulty_actual} \cup Askable, fixed \in BOOLEAN :
           difficulty_actual' = d /\ difficulty_fixed' = fixed /\ Send(d)
    BY <1>1 DEF client_authorize
  <2>2. /\ shares_per_minute' = 10 /\ told' = difficulty_actual' /\ unannounced' = FALSE
        /\ difficulty_fixed' \in BOOLEAN
    BY <2>1 DEF Send, YAAMP_SHAREPERSEC
  <2>3. Given(difficulty_actual')
    BY <2>1, AskableGiven DEF DifficultyTypeOK
  <2>4. listed' = TRUE /\ UNCHANGED <<hashrate, requests>>
    BY <1>1 DEF client_authorize
  <2> QED
    BY <1>0, <2>2, <2>3, <2>4 DEF DifficultyTypeOK, MeasuredAsTold
<1>2. ASSUME NEW d \in Suggestions, client_suggest_difficulty(d)
      PROVE  DifficultyTypeOK' /\ MeasuredAsTold'
  <2>1. client_normalize_difficulty(d) \in 0..g_stratum_max_diff
    BY Normalized, DifficultiesAssumption
  <2>2. Given(difficulty_actual') /\ unannounced' \in BOOLEAN
        /\ \/ unannounced'
           \/ difficulty_actual' = difficulty_actual /\ unannounced' = unannounced
    <3>1. CASE client_normalize_difficulty(d) = 0
      BY <1>2, <3>1 DEF client_suggest_difficulty, DifficultyTypeOK
    <3>2. CASE client_normalize_difficulty(d) # 0
      <4>1. difficulty_actual' = client_normalize_difficulty(d) /\ unannounced' = TRUE
        BY <1>2, <3>2 DEF client_suggest_difficulty
      <4>2. client_normalize_difficulty(d) \in 1..g_stratum_max_diff
        BY <1>0, <2>1, <3>2
      <4> QED
        BY <4>1, <4>2 DEF Given
    <3> QED
      BY <3>1, <3>2
  <2>3. requests' \in 0..MaxRequests
    BY <1>2, DifficultiesAssumption DEF client_suggest_difficulty, DifficultyTypeOK
  <2> QED
    BY <1>2, <2>2, <2>3 DEF client_suggest_difficulty, DifficultyTypeOK, MeasuredAsTold
<1>3. CASE client_record_difficulty
  <2>1. PICK i \in 1..5 : shares_per_minute = Levels[i]
    BY DEF DifficultyTypeOK
  <2>2. shares_per_minute \in Nat
    BY <2>1 DEF Levels
  <2>3. Rate \in 1..5 /\ Level(shares_per_minute, 1) \in 1..5
    BY <1>0, <2>2, LevelIs DEF Rate
  <2>4. \E k \in 1..5 : shares_per_minute' = Levels[k]
    BY <1>3, <2>3 DEF client_record_difficulty
  <2> QED
    BY <1>3, <2>4 DEF client_record_difficulty, DifficultyTypeOK, MeasuredAsTold
<1>4. CASE client_adjust_difficulty
  <2>1. /\ difficulty_actual * 4 \in Nat /\ difficulty_actual * 2 \in Nat
        /\ (difficulty_actual * 3) \div 2 \in Nat /\ difficulty_actual \div 2 \in Nat
    BY <1>0
  <2>2. \E d \in Nat : client_change_difficulty(d)
    BY <1>4, <2>1 DEF client_adjust_difficulty
  <2>3. /\ Given(difficulty_actual') /\ told' = difficulty_actual'
        /\ shares_per_minute' = 10 /\ unannounced' = FALSE
    BY <2>2, Changed
  <2> QED
    <3>1. UNCHANGED <<hashrate, difficulty_fixed, listed, requests>>
      BY <1>4 DEF client_adjust_difficulty
    <3> QED
      BY <1>0, <2>3, <3>1 DEF DifficultyTypeOK, MeasuredAsTold
<1>5. CASE UNCHANGED difficulty_vars
  BY <1>5 DEF difficulty_vars, DifficultyTypeOK, MeasuredAsTold
<1>6. CASE client_subscribe
  <2>1. difficulty_actual' \in Subscribed /\ unannounced' = TRUE
        /\ UNCHANGED <<hashrate, difficulty_fixed, shares_per_minute, listed, told>>
    BY <1>6 DEF client_subscribe
  <2>2. Given(difficulty_actual')
    BY <2>1, AskableGiven
  <2>3. requests' \in 0..MaxRequests
    BY <1>6, DifficultiesAssumption DEF client_subscribe, DifficultyTypeOK
  <2> QED
    BY <2>1, <2>2, <2>3 DEF DifficultyTypeOK, MeasuredAsTold
<1> QED
  BY <1>1, <1>2, <1>3, <1>4, <1>5, <1>6 DEF DifficultyNext

-----------------------------------------------------------------------------
(* Whatever miners ask for, a difficulty is never 0, and above the maximum *)
(* only if the configured default is (client_difficulty.cpp:4-11, 31-47).  *)
THEOREM DifficultyTyped == DifficultySpec => []DifficultyTypeOK
<1>1. DifficultyInit => DifficultyTypeOK /\ MeasuredAsTold
  BY DifficultyInitTyped
<1>2. DifficultyTypeOK /\ MeasuredAsTold /\ [DifficultyNext]_difficulty_vars
        => (DifficultyTypeOK /\ MeasuredAsTold)'
  BY DifficultyStep
<1> QED
  BY <1>1, <1>2, PTL DEF DifficultySpec

(* A miner's shares are measured at the difficulty it was told, but after  *)
(* a suggestion or another subscription (client.cpp:12 and 31), and then   *)
(* only until the next change (client_difficulty.cpp:31-47).               *)
THEOREM SharesMeasured == DifficultySpec => []MeasuredAsTold
<1>1. DifficultyInit => DifficultyTypeOK /\ MeasuredAsTold
  BY DifficultyInitTyped
<1>2. DifficultyTypeOK /\ MeasuredAsTold /\ [DifficultyNext]_difficulty_vars
        => (DifficultyTypeOK /\ MeasuredAsTold)'
  BY DifficultyStep
<1> QED
  BY <1>1, <1>2, PTL DEF DifficultySpec
=============================================================================
