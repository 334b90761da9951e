------------------------------ MODULE JobRefs ------------------------------
(***************************************************************************)
(* Jobs, the shares submitted for them, and the reference counts that keep *)
(* a job's memory alive: object.cpp, share.cpp, the submit handlers of     *)
(* client_submit.cpp, coind_create_job and the pruning part of the main    *)
(* loop.                                                                   *)
(*                                                                         *)
(* Threads: one per client connection, one creator per coin daemon (the    *)
(* calls of coind_create_job for one daemon exclude each other by          *)
(* coind->mutex) and the main thread.  A job is its id: job_get_jobid      *)
(* never returns the same id twice.                                        *)
(*                                                                         *)
(* object_lock and object_unlock are plain ++ and -- on an int.  The       *)
(* increment runs under the mutex of g_list_job, the decrement under no    *)
(* lock at all, so each is a load and a store that other threads may       *)
(* separate.  The history variable lost records that a store overwrote an  *)
(* update made since its load.                                             *)
(***************************************************************************)
EXTENDS Integers, FiniteSets

CONSTANTS
    Clients,    \* client connections, each with its own extranonce1
    Coinds,     \* coin daemons
    Nonces,     \* the nonces a miner tries (with its ntime and extranonce2)
    MaxJob      \* bound: how many jobs job_get_jobid hands out

Main == "main"
Nobody == "nobody"
NoJob == 0
JobIds == 1..MaxJob

(* A connection is not one of the two other values of the list mutex.      *)
ASSUME ClientsAssumption == IsFiniteSet(Clients) /\ {Main, Nobody} \cap Clients = {}
ASSUME MaxJobAssumption == MaxJob \in Nat

(* Program points of a client thread.  In HoldPoints the thread uses the   *)
(* job it has counted itself in for.                                       *)
HoldPoints == {"check", "dup", "verify", "submit", "credit", "unlock", "store_dec"}
ClientPoints == HoldPoints \cup {"idle", "store_inc"}
MainPoints == {"share_prune", "prune_coind", "prune_job", "pruning_job"}

Share == [jobid : JobIds, nonce1 : Clients, nonce : Nonces]

VARIABLES
    g_list_job,     \* the jobs linked in g_list_job: their memory is live
    list_mutex,     \* the owner of g_list_job.mutex
    deleted,        \* job -> its deleted flag
    lock_count,     \* job -> its lock_count
    lastid,         \* the static counter of job_get_jobid
    coind_job,      \* daemon -> coind->job, NoJob before the first
    building,       \* daemons between object_delete(coind->job) and AddTail
    live_coind,     \* daemons not yet freed by coind_delete
    g_list_share,   \* the shares of g_list_share that are not deleted
    pc,             \* client -> program point
    mine,           \* client -> job and nonce of the submission in progress
    reg,            \* client -> the lock_count it has loaded
    main_pc,        \* program point of the main thread
    to_visit,       \* jobs the walk of object_prune has not reached
    credits,        \* history: share -> times credited as valid
    lost            \* history: a store to some lock_count lost an update

jobVars == <<g_list_job, list_mutex, deleted, lock_count, lastid>>
coindVars == <<coind_job, building, live_coind>>
clientVars == <<pc, mine, reg>>
mainVars == <<main_pc, to_visit>>
shareVars == <<g_list_share, credits>>
vars == <<jobVars, coindVars, clientVars, mainVars, shareVars, lost>>

Init ==
    /\ g_list_job = {}
    /\ list_mutex = Nobody
    /\ deleted = [j \in JobIds |-> FALSE]
    /\ lock_count = [j \in JobIds |-> 0]
    /\ lastid = 0
    /\ coind_job = [d \in Coinds |-> NoJob]
    /\ building = {}
    /\ live_coind = Coinds
    /\ g_list_share = {}
    /\ pc = [c \in Clients |-> "idle"]
    /\ \E n \in Nonces : mine = [c \in Clients |-> [job |-> NoJob, nonce |-> n]]
    /\ reg = [c \in Clients |-> 0]
    /\ main_pc = "share_prune"
    /\ to_visit = {}
    /\ credits = [s \in Share |-> 0]
    /\ lost = FALSE

-----------------------------------------------------------------------------
(* The creator of jobs.                                                    *)

(* object_delete: only sets a flag, on NULL it does nothing.               *)
object_delete(j) == deleted' = IF j = NoJob THEN deleted ELSE [deleted EXCEPT ![j] = TRUE]

(* coind_create_job, up to the new job's allocation: the new template is   *)
(* different from the last one (else nothing changes) and the job of the   *)
(* last one is flagged.                                                    *)
coind_create_job(d) ==
    /\ d \in live_coind \ building
    /\ lastid + Cardinality(building) < MaxJob
    /\ object_delete(coind_job[d])
    /\ building' = building \cup {d}
    /\ UNCHANGED <<g_list_job, list_mutex, lock_count, lastid, coind_job, live_coind,
                   clientVars, mainVars, shareVars, lost>>

(* Mutant: the counter of job_get_jobid wraps early and reuses an id.      *)
coind_link_job_id_reused(d) ==
    /\ d \in building
    /\ list_mutex = Nobody
    /\ lastid' = 1
    /\ coind_job' = [coind_job EXCEPT ![d] = 1]
    /\ g_list_job' = g_list_job \cup {1}
    /\ building' = building \ {d}
    /\ UNCHANGED <<list_mutex, deleted, lock_count, live_coind,
                   clientVars, mainVars, shareVars, lost>>

(* The rest of it: the new job gets its id and is linked under the list's  *)
(* mutex.                                                                  *)
coind_link_job(d) ==
    /\ d \in building
    /\ list_mutex = Nobody
    /\ lastid < MaxJob
    /\ lastid' = lastid + 1
    /\ coind_job' = [coind_job EXCEPT ![d] = lastid + 1]
    /\ g_list_job' = g_list_job \cup {lastid + 1}
    /\ building' = building \ {d}
    /\ UNCHANGED <<list_mutex, deleted, lock_count, live_coind,
                   clientVars, mainVars, shareVars, lost>>

-----------------------------------------------------------------------------
(* A client thread in client_submit_equi.                                  *)

Goto(c, point) == pc' = [pc EXCEPT ![c] = point]

MyShare(c) == [jobid |-> mine[c].job, nonce1 |-> c, nonce |-> mine[c].nonce]

(* object_find(&g_list_job, jobid, true), up to the load of object_lock.   *)
(* An id that is not in the list ends the submission ("Invalid job id");   *)
(* the share this records has jobid 0, which share_find never asks for.    *)
(* Bound: once an update is lost the counts drift without limit and no     *)
(* property below speaks of them, so only submissions under way go on.     *)
object_find(c) ==
    /\ pc[c] = "idle"
    /\ ~lost
    /\ list_mutex = Nobody
    /\ \E j \in g_list_job, n \in Nonces :
        /\ mine' = [mine EXCEPT ![c] = [job |-> j, nonce |-> n]]
        /\ reg' = [reg EXCEPT ![c] = lock_count[j]]
    /\ list_mutex' = c
    /\ Goto(c, "store_inc")
    /\ UNCHANGED <<g_list_job, deleted, lock_count, lastid, coindVars, mainVars, shareVars, lost>>

(* The store to lock_count of the thread's job, and whether it overwrites  *)
(* an update made since the load.  The loaded value is dead after it.      *)
StoreCount(c, delta) ==
    /\ lock_count' = [lock_count EXCEPT ![mine[c].job] = reg[c] + delta]
    /\ reg' = [reg EXCEPT ![c] = 0]
    /\ lost' = (lost \/ lock_count[mine[c].job] # reg[c])

(* The store of object_lock, and list->Leave().                            *)
object_lock(c) ==
    /\ pc[c] = "store_inc"
    /\ StoreCount(c, 1)
    /\ list_mutex' = Nobody
    /\ Goto(c, "check")
    /\ UNCHANGED <<g_list_job, deleted, lastid, coindVars, mine, mainVars, shareVars>>

(* job_send_jobid: the job is serialised and unlocked, nothing recorded.   *)
job_send_jobid(c) ==
    /\ pc[c] = "check"
    /\ Goto(c, "unlock")
    /\ UNCHANGED <<jobVars, coindVars, mine, reg, mainVars, shareVars, lost>>

(* share_add of an invalid share, unless the job is deleted by now: the    *)
(* miner is then told "true".                                              *)
client_submit_error(c) ==
    /\ g_list_share' = IF deleted[mine[c].job] THEN g_list_share
                       ELSE g_list_share \cup {MyShare(c)}
    /\ Goto(c, "unlock")
    /\ UNCHANGED <<jobVars, coindVars, mine, reg, mainVars, credits, lost>>

(* Mutant: the early return for a deleted job forgets object_unlock.       *)
client_submit_check_no_unlock(c) ==
    /\ pc[c] = "check"
    /\ IF deleted[mine[c].job]
       THEN /\ Goto(c, "idle")
            /\ UNCHANGED <<jobVars, coindVars, mine, reg, mainVars, shareVars, lost>>
       ELSE \/ client_submit_error(c)
            \/ /\ Goto(c, "dup")
               /\ UNCHANGED <<jobVars, coindVars, mine, reg, mainVars, shareVars, lost>>

(* The deleted test, then the tests of nonce and ntime: any of them may    *)
(* reject the submission.                                                  *)
client_submit_check(c) ==
    /\ pc[c] = "check"
    /\ IF deleted[mine[c].job]
       THEN /\ Goto(c, "unlock")
            /\ UNCHANGED <<jobVars, coindVars, mine, reg, mainVars, shareVars, lost>>
       ELSE \/ client_submit_error(c)
            \/ /\ Goto(c, "dup")
               /\ UNCHANGED <<jobVars, coindVars, mine, reg, mainVars, shareVars, lost>>

(* share_find, under the mutex of g_list_share.                            *)
share_find(s) == s \in g_list_share

client_submit_dup(c) ==
    /\ pc[c] = "dup"
    /\ IF share_find(MyShare(c))
       THEN client_submit_error(c)
       ELSE /\ Goto(c, "verify")
            /\ UNCHANGED <<jobVars, coindVars, mine, reg, mainVars, shareVars, lost>>

(* The equihash solution and the share's difficulty: bad or good.          *)
client_submit_verify(c) ==
    /\ pc[c] = "verify"
    /\ \/ client_submit_error(c)
       \/ /\ Goto(c, "submit")
          /\ UNCHANGED <<jobVars, coindVars, mine, reg, mainVars, shareVars, lost>>

(* client_do_submit: an RPC during which the job stays in use.             *)
client_do_submit(c) ==
    /\ pc[c] = "submit"
    /\ Goto(c, "credit")
    /\ UNCHANGED <<jobVars, coindVars, mine, reg, mainVars, shareVars, lost>>

(* share_add of a valid share: the worker is credited, the share linked.   *)
share_add(c) ==
    /\ pc[c] = "credit"
    /\ g_list_share' = g_list_share \cup {MyShare(c)}
    /\ credits' = [credits EXCEPT ![MyShare(c)] = @ + 1]
    /\ Goto(c, "unlock")
    /\ UNCHANGED <<jobVars, coindVars, mine, reg, mainVars, lost>>

(* object_unlock: a load, and later a store, under no lock.                *)
object_unlock(c) ==
    /\ pc[c] = "unlock"
    /\ reg' = [reg EXCEPT ![c] = lock_count[mine[c].job]]
    /\ Goto(c, "store_dec")
    /\ UNCHANGED <<jobVars, coindVars, mine, mainVars, shareVars, lost>>

object_unlock_store(c) ==
    /\ pc[c] = "store_dec"
    /\ StoreCount(c, -1)
    /\ mine' = [mine EXCEPT ![c] = [job |-> NoJob, nonce |-> @.nonce]]
    /\ Goto(c, "idle")
    /\ UNCHANGED <<g_list_job, list_mutex, deleted, lastid, coindVars, mainVars, shareVars>>

client_thread(c) ==
    \/ object_find(c) \/ object_lock(c) \/ job_send_jobid(c)
    \/ client_submit_check(c) \/ client_submit_dup(c) \/ client_submit_verify(c)
    \/ client_do_submit(c) \/ share_add(c)
    \/ object_unlock(c) \/ object_unlock_store(c)

-----------------------------------------------------------------------------
(* The main loop.                                                          *)

(* Mutant: shares are dropped as soon as their job is flagged.             *)
share_prune_deleted_jobs ==
    /\ main_pc = "share_prune"
    /\ g_list_share' = {s \in g_list_share : s.jobid \in g_list_job /\ ~deleted[s.jobid]}
    /\ main_pc' = "prune_coind"
    /\ UNCHANGED <<jobVars, coindVars, clientVars, to_visit, credits, lost>>

(* share_prune: under the mutex of g_list_share, flags every share whose   *)
(* job is no longer linked.  A flagged share is never found again; when    *)
(* its memory goes makes no difference.                                    *)
share_prune ==
    /\ main_pc = "share_prune"
    /\ g_list_share' = {s \in g_list_share : s.jobid \in g_list_job}
    /\ main_pc' = "prune_coind"
    /\ UNCHANGED <<jobVars, coindVars, clientVars, to_visit, credits, lost>>

(* object_prune(&g_list_coind, coind_delete): coind_delete flags the       *)
(* daemon's job.                                                           *)
prune_coind ==
    /\ main_pc = "prune_coind"
    /\ \E D \in SUBSET (live_coind \ building) :
        /\ live_coind' = live_coind \ D
        /\ deleted' = [j \in JobIds |-> deleted[j] \/ \E d \in D : coind_job[d] = j]
    /\ main_pc' = "prune_job"
    /\ UNCHANGED <<g_list_job, list_mutex, lock_count, lastid, coind_job, building,
                   clientVars, to_visit, shareVars, lost>>

(* object_prune(&g_list_job, job_delete): list->Enter() ...                *)
prune_enter ==
    /\ main_pc = "prune_job"
    /\ list_mutex = Nobody
    /\ list_mutex' = Main
    /\ to_visit' = g_list_job
    /\ main_pc' = "pruning_job"
    /\ UNCHANGED <<g_list_job, deleted, lock_count, lastid, coindVars, clientVars, shareVars, lost>>

(* Mutant: lock_count is not looked at.                                    *)
prune_visit_locked_too ==
    /\ main_pc = "pruning_job"
    /\ \E j \in to_visit :
        /\ to_visit' = to_visit \ {j}
        /\ g_list_job' = IF deleted[j] THEN g_list_job \ {j} ELSE g_list_job
    /\ UNCHANGED <<list_mutex, deleted, lock_count, lastid, coindVars, clientVars, main_pc, shareVars, lost>>

(* ... one object of the walk, freed if flagged and not counted.  No job   *)
(* has its unlock flag set, so the other branch never applies ...          *)
prune_visit ==
    /\ main_pc = "pruning_job"
    /\ \E j \in to_visit :
        /\ to_visit' = to_visit \ {j}
        /\ g_list_job' = IF deleted[j] /\ lock_count[j] = 0 THEN g_list_job \ {j} ELSE g_list_job
    /\ UNCHANGED <<list_mutex, deleted, lock_count, lastid, coindVars, clientVars, main_pc, shareVars, lost>>

(* ... list->Leave(), and round the loop.                                  *)
prune_leave ==
    /\ main_pc = "pruning_job"
    /\ to_visit = {}
    /\ list_mutex' = Nobody
    /\ main_pc' = "share_prune"
    /\ UNCHANGED <<g_list_job, deleted, lock_count, lastid, coindVars, clientVars, to_visit, shareVars, lost>>

main_thread == share_prune \/ prune_coind \/ prune_enter \/ prune_visit \/ prune_leave

creator(d) == coind_create_job(d) \/ coind_link_job(d)

Next ==
    \/ \E c \in Clients : client_thread(c)
    \/ \E d \in Coinds : creator(d)
    \/ main_thread

Spec == Init /\ [][Next]_vars

(* Every thread that can take a step takes one: the scheduler is fair, the *)
(* mutexes are held for a bounded time, an RPC ends (with an answer or by  *)
(* its timeout).  Main also gets the list's mutex if it is free again and  *)
(* again: its holders hold it for a few instructions per message received. *)
(* Nothing makes a miner submit, or a daemon find a block.                 *)
FairSpec ==
    /\ Spec
    /\ WF_vars(main_thread)
    /\ SF_vars(prune_enter)
    /\ \A c \in Clients : WF_vars(pc[c] # "idle" /\ client_thread(c))
    /\ \A d \in Coinds : WF_vars(coind_link_job(d))

-----------------------------------------------------------------------------
TypeOK ==
    /\ g_list_job \in SUBSET JobIds
    /\ list_mutex \in Clients \cup {Main, Nobody}
    /\ deleted \in [JobIds -> BOOLEAN]
    /\ lock_count \in [JobIds -> Int]
    /\ lastid \in 0..MaxJob
    /\ coind_job \in [Coinds -> 0..MaxJob]
    /\ building \in SUBSET Coinds
    /\ live_coind \in SUBSET Coinds
    /\ g_list_share \in SUBSET Share
    /\ pc \in [Clients -> ClientPoints]
    /\ mine \in [Clients -> [job : 0..MaxJob, nonce : Nonces]]
    /\ \A c \in Clients : pc[c] # "idle" => mine[c].job # NoJob
    /\ reg \in [Clients -> Int]
    /\ main_pc \in MainPoints
    /\ to_visit \in SUBSET JobIds
    /\ credits \in [Share -> Nat]
    /\ lost \in BOOLEAN

Holders(j) == {c \in Clients : pc[c] \in HoldPoints /\ mine[c].job = j}

(* As long as no store has lost an update, every lock_count is exactly the *)
(* number of threads between object_find and object_unlock on the job.     *)
RefsExact == ~lost => \A j \in JobIds : lock_count[j] = Cardinality(Holders(j))

(* No client thread uses a job that object_prune has freed, unless a store *)
(* to lock_count has lost an update: the only way to a use after free of a *)
(* locked job is two overlapping ++ or --.                                 *)
NoUseAfterFree ==
    ~lost => \A c \in Clients : pc[c] \in HoldPoints \cup {"store_inc"} => mine[c].job \in g_list_job

(* A share is credited at most once, although share_find and share_add are *)
(* apart, and share_prune removes shares between them: removal happens     *)
(* only once the job can no longer be found.                               *)
NoDoubleCredit == ~lost => \A s \in Share : credits[s] <= 1

(* Main holds the list's mutex for its whole walk, a client thread for the *)
(* load and the store of object_find: nobody else is in between.           *)
MutexHeld ==
    /\ \A c \in Clients : pc[c] = "store_inc" <=> list_mutex = c
    /\ main_pc = "pruning_job" <=> list_mutex = Main

(* Only ids handed out are linked, worked on or credited.                  *)
IdsHandedOut ==
    /\ g_list_job \subseteq 1..lastid
    /\ \A c \in Clients : mine[c].job <= lastid
    /\ \A s \in Share : credits[s] > 0 => s.jobid <= lastid

(* As long as a credited share's job can be found, so can the share; past  *)
(* share_find the share has not been credited.                             *)
CreditRecorded ==
    ~lost =>
        /\ \A s \in Share : credits[s] > 0 /\ s.jobid \in g_list_job => s \in g_list_share
        /\ \A c \in Clients : pc[c] \in {"verify", "submit", "credit"} => credits[MyShare(c)] = 0

(* The inductive invariant of the proofs: reference counts tell who uses a *)
(* job, hence what may be freed, hence which shares may be forgotten.      *)
IInv ==
    /\ TypeOK
    /\ MutexHeld
    /\ IdsHandedOut
    /\ RefsExact
    /\ NoUseAfterFree
    /\ CreditRecorded
    /\ NoDoubleCredit

(* A flagged job stays linked for ever only if lock_count is corrupt or    *)
(* client threads keep holding it, again and again.                        *)
DeletedJobFreed ==
    \A j \in JobIds :
        <>[](deleted[j] /\ j \in g_list_job /\ ~lost) => []<>(Holders(j) # {})

(* A job that object_prune has freed is never linked again, and only main  *)
(* unlinks: the id a miner holds never denotes another job.                *)
FreedForGood ==
    [][ /\ \A j \in 1..lastid : j \notin g_list_job => j \notin g_list_job'
        /\ \A j \in g_list_job \ g_list_job' : list_mutex = Main /\ deleted[j] ]_vars
=============================================================================
