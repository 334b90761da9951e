----------------------------- MODULE LockOrder -----------------------------
(***************************************************************************)
(* The order in which this server's threads may lock its mutexes:          *)
(*                                                                         *)
(*   g_job_mutex > g_list_coind > g_list_client > coind->mutex             *)
(*               > g_list_job > the others,                                *)
(*                                                                         *)
(* where only the job thread has g_list_client and another one at a time.  *)
(* It breaks the order: with g_list_job it locks g_list_client             *)
(* (job_assign_clients, job_broadcast).  Nobody else locks anything while  *)
(* it has g_list_job, and nobody while it has one of the others.           *)
(***************************************************************************)
EXTENDS Mutexes

CONSTANTS
    Threads,
    Job         \* the job thread

None == <<"none">>

Leaves == RpcMutexes \cup Others

VARIABLES
    held,   \* thread -> the mutexes it owns
    wants   \* thread -> the one it waits for, or None

vars == <<held, wants>>

Init ==
    /\ held = [t \in Threads |-> {}]
    /\ wants \in [Threads -> {None} \cup Mutexes]

(* Thread t, which owns H, may lock l, which it does not own.              *)
MayLock(t, l, H) ==
    /\ l \notin H
    /\ H \cap Leaves = {}
    /\ l = g_job_mutex => H = {}
    /\ l = g_list_coind => H \subseteq {g_job_mutex}
    /\ l = g_list_client =>
          H = {} \/ (t = Job /\ H \subseteq {g_job_mutex, g_list_coind, g_list_job})
    /\ l \in CoindMutexes => H \subseteq {g_job_mutex, g_list_coind, g_list_client}
    /\ g_list_client \in H => t = Job
    /\ g_list_job \in H => t = Job /\ l = g_list_client

(* Thread t locks what it waits for, ...                                   *)
Take(t) ==
    /\ wants[t] # None
    /\ \A u \in Threads \ {t} : wants[t] \notin held[u]
    /\ held' = [held EXCEPT ![t] = @ \cup {wants[t]}]

(* ... or mutexes are unlocked or destroyed, or it runs on.                *)
Lose ==
    /\ held' \in [Threads -> SUBSET Mutexes]
    /\ \A u \in Threads : held'[u] \subseteq held[u]

(* Then it waits for another one, or for none.                             *)
Wait(t) ==
    /\ wants' = [wants EXCEPT ![t] = wants'[t]]
    /\ \/ wants'[t] = None
       \/ wants'[t] \in Mutexes /\ MayLock(t, wants'[t], held'[t])

Step(t) == (Take(t) \/ Lose) /\ Wait(t)

Next == \E t \in Threads : Step(t)

Spec == Init /\ [][Next]_vars

(* No set of threads has everyone waiting for a mutex of another of it.    *)
Waits(t, u) == wants[t] # None /\ wants[t] \in held[u]
NoCircularWait ==
    \A S \in SUBSET Threads :
        S # {} => \E t \in S : \A u \in S : ~Waits(t, u)
=============================================================================
