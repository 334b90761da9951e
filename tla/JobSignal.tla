----------------------------- MODULE JobSignal -----------------------------
(***************************************************************************)
(* How a new block reaches the job thread: g_job_mutex and g_job_cond of   *)
(* job.cpp, the threads that call job_signal (client_update_block in the   *)
(* thread of a blocknotify connection, the main loop), and what happens to *)
(* them when stratum_thread sets g_exiting.                                *)
(*                                                                         *)
(* job_thread owns g_job_mutex for the whole of job_update and gives it up *)
(* only inside pthread_cond_wait; a condition variable remembers nothing,  *)
(* so a signal sent while nobody waits is gone.                            *)
(***************************************************************************)
EXTENDS Integers, FiniteSets

CONSTANT Notifiers      \* the connections that send mining.update_block

Main == "main"
JobThread == "job"
Nobody == "nobody"
Signallers == Notifiers \cup {Main}

ASSUME NotifiersAssumption ==
    IsFiniteSet(Notifiers) /\ {Main, JobThread, Nobody} \cap Notifiers = {}

VARIABLES
    job_mutex,      \* the owner of g_job_mutex
    waiting,        \* job_thread is in the wait set of g_job_cond
    job_pc,         \* program point of job_thread
    pc,             \* signaller -> program point
    stratum_pc,     \* program point of stratum_thread
    g_exiting,
    unserved        \* history: signallers whose new jobs no job_update has seen

vars == <<job_mutex, waiting, job_pc, pc, stratum_pc, g_exiting, unserved>>

JobPoints == {"lock", "job_update", "wait", "relock", "ended"}
SignallerPoints == {"work", "lock", "signal", "close", "join", "ended"}

Init ==
    /\ job_mutex = Nobody
    /\ waiting = FALSE
    /\ job_pc = "lock"
    /\ pc = [t \in Signallers |-> "work"]
    /\ stratum_pc = "accept"
    /\ g_exiting = FALSE
    /\ unserved = {}

-----------------------------------------------------------------------------
(* job_thread.                                                             *)

(* while(!g_exiting): job_update reads the lists from here on, so it sees  *)
(* every job linked before.  When g_exiting is set the function returns    *)
(* and nobody unlocks the mutex.                                           *)
job_loop ==
    IF g_exiting
    THEN job_pc' = "ended" /\ UNCHANGED unserved
    ELSE job_pc' = "job_update" /\ unserved' = {}

job_thread ==
    /\ job_pc \in {"lock", "relock"}
    /\ job_mutex = Nobody
    /\ ~waiting
    /\ job_mutex' = JobThread
    /\ job_loop
    /\ UNCHANGED <<waiting, pc, stratum_pc, g_exiting>>

(* The end of job_update, and pthread_cond_wait: unlocks and waits, in one *)
(* step.                                                                   *)
job_update ==
    /\ job_pc = "job_update"
    /\ job_pc' = "relock"
    /\ waiting' = TRUE
    /\ job_mutex' = Nobody
    /\ UNCHANGED <<pc, stratum_pc, g_exiting, unserved>>

(* POSIX lets pthread_cond_wait return without a signal.                   *)
spurious_wakeup ==
    /\ waiting
    /\ waiting' = FALSE
    /\ UNCHANGED <<job_mutex, job_pc, pc, stratum_pc, g_exiting, unserved>>

-----------------------------------------------------------------------------
(* The threads that signal.                                                *)

Goto(t, point) == pc' = [pc EXCEPT ![t] = point]

(* A turn that links new jobs (coind_create_job in client_update_block or  *)
(* db_update_coinds) and comes to job_signal.  A connection does so        *)
(* whenever its daemon has a new block, the main loop until g_exiting.     *)
coind_create_job(t) ==
    /\ pc[t] = "work"
    /\ ~g_exiting
    /\ Goto(t, "lock")
    /\ unserved' = unserved \cup {t}
    /\ UNCHANGED <<job_mutex, waiting, job_pc, stratum_pc, g_exiting>>

(* A connection's thread leaves its loop on g_exiting, the main thread     *)
(* goes on to close its database connection.                               *)
leave_loop(t) ==
    /\ pc[t] = "work"
    /\ g_exiting
    /\ Goto(t, IF t = Main THEN "close" ELSE "ended")
    /\ UNCHANGED <<job_mutex, waiting, job_pc, stratum_pc, g_exiting, unserved>>

(* Mutant: job_signal without the mutex.                                   *)
job_signal_lock_dropped(t) ==
    /\ pc[t] = "lock"
    /\ Goto(t, "signal")
    /\ UNCHANGED <<job_mutex, waiting, job_pc, stratum_pc, g_exiting, unserved>>

(* job_signal: the lock ...                                                *)
job_signal_lock(t) ==
    /\ pc[t] = "lock"
    /\ job_mutex = Nobody
    /\ job_mutex' = t
    /\ Goto(t, "signal")
    /\ UNCHANGED <<waiting, job_pc, stratum_pc, g_exiting, unserved>>

(* Mutant: the mutex is not given back.                                    *)
job_signal_no_unlock(t) ==
    /\ pc[t] = "signal"
    /\ waiting' = FALSE
    /\ Goto(t, "work")
    /\ UNCHANGED <<job_mutex, job_pc, stratum_pc, g_exiting, unserved>>

(* ... the signal, which moves the waiting thread, if there is one, to the *)
(* queue for the mutex, and the unlock.                                    *)
job_signal(t) ==
    /\ pc[t] = "signal"
    /\ waiting' = FALSE
    /\ job_mutex' = Nobody
    /\ Goto(t, "work")
    /\ UNCHANGED <<job_pc, stratum_pc, g_exiting, unserved>>

(* db_close(db), then pthread_join(thread2) and the rest of main.          *)
close_database ==
    /\ pc[Main] = "close"
    /\ Goto(Main, "join")
    /\ UNCHANGED <<job_mutex, waiting, job_pc, stratum_pc, g_exiting, unserved>>

join_stratum_thread ==
    /\ pc[Main] = "join"
    /\ stratum_pc = "ended"
    /\ Goto(Main, "ended")
    /\ UNCHANGED <<job_mutex, waiting, job_pc, stratum_pc, g_exiting, unserved>>

-----------------------------------------------------------------------------
(* stratum_thread: an accepted connection whose pthread_create fails sets  *)
(* g_exiting, in which case the loop ends.  (accept failing with EMFILE    *)
(* ends the process: exit.)                                                *)
stratum_thread ==
    /\ stratum_pc = "accept"
    /\ stratum_pc' = "ended"
    /\ g_exiting' = TRUE
    /\ UNCHANGED <<job_mutex, waiting, job_pc, pc, unserved>>

-----------------------------------------------------------------------------
Next ==
    \/ job_thread
    \/ job_update
    \/ spurious_wakeup
    \/ \E t \in Signallers :
          \/ coind_create_job(t)
          \/ leave_loop(t)
          \/ job_signal_lock(t)
          \/ job_signal(t)
    \/ close_database
    \/ join_stratum_thread
    \/ stratum_thread

Spec == Init /\ [][Next]_vars

(* A thread that runs goes on running, and the mutex is eventually given   *)
(* to a thread that keeps asking for it (strong fairness: others may take  *)
(* it in between).  Nothing is assumed of new blocks, of the next turn of  *)
(* the main loop (20 seconds away, it would hide a lost signal), of        *)
(* spurious wake-ups or of pthread_create failing.                         *)
Fairness ==
    /\ SF_vars(job_thread)
    /\ WF_vars(job_update)
    /\ WF_vars(leave_loop(Main)) /\ WF_vars(close_database)
    /\ \A t \in Signallers :
          SF_vars(job_signal_lock(t)) /\ WF_vars(job_signal(t))

FairSpec == Spec /\ Fairness

-----------------------------------------------------------------------------
TypeOK ==
    /\ job_mutex \in Signallers \cup {JobThread, Nobody}
    /\ waiting \in BOOLEAN
    /\ job_pc \in JobPoints
    /\ pc \in [Signallers -> SignallerPoints]
    /\ \A t \in Notifiers : pc[t] \notin {"close", "join"}
    /\ stratum_pc \in {"accept", "ended"}
    /\ g_exiting \in BOOLEAN
    /\ unserved \subseteq Signallers

(* Who is between a lock and an unlock owns g_job_mutex, and only he.      *)
MutexOwned ==
    /\ \A t \in Signallers : pc[t] = "signal" <=> job_mutex = t
    /\ job_pc \in {"job_update", "ended"} <=> job_mutex = JobThread

(* No signal is lost (job.cpp:233-257): when the job thread sleeps on      *)
(* g_job_cond, every thread whose new jobs it has not looked at is still   *)
(* on its way to job_signal.                                               *)
NoLostSignal == waiting => \A t \in unserved : pc[t] \in {"lock", "signal"}

(* A thread that linked new jobs gets a job_update that starts afterwards  *)
(* (job.cpp:238-239), except when the server is going down.                *)
ChangesServed == \A t \in Signallers : t \in unserved ~> (t \notin unserved \/ g_exiting)

(* Once g_exiting is set main closes its database (stratum.cpp:386-387),   *)
(* unless job_thread has left its loop first (job.cpp:236-241): then it    *)
(* keeps g_job_mutex, and a job_signal that comes after never returns.     *)
ClosesUnlessOrphaned ==
    g_exiting ~> (pc[Main] \in {"join", "ended"} \/ job_pc = "ended")

(* What NoLostSignal rests on: during job_update a new signaller stops at  *)
(* the lock.                                                               *)
IInv ==
    /\ TypeOK
    /\ MutexOwned
    /\ NoLostSignal
    /\ waiting => job_pc = "relock"
    /\ job_pc = "job_update" => \A t \in unserved : pc[t] = "lock"
=============================================================================
