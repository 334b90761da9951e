------------------------------- MODULE Coinds -------------------------------
(***************************************************************************)
(* The object of one coin's daemon, from db_update_coinds (db.cpp) that    *)
(* creates it, over the RPC errors that flag it (coind.cpp, rpc.cpp,       *)
(* coind_template.cpp), to the pruning that frees it, and the jobs that    *)
(* point to it meanwhile.                                                  *)
(*                                                                         *)
(* Threads: main; callers, each a connection that announces a block        *)
(* (client_update_block) and counts itself in on the object, or the end of *)
(* job_update, which does not; and a thread that submits blocks, which     *)
(* comes by job->coind.  The counts are exact here: JobRefs says when.     *)
(*                                                                         *)
(* There is one coin, so it is not an auxiliary one.  A thread that        *)
(* touches a freed object puts itself into undefined, and nothing is said  *)
(* of what happens then.                                                   *)
(***************************************************************************)
EXTENDS Integers, FiniteSets

CONSTANTS
    Callers,        \* threads that announce blocks, or serve clients without a job
    Objs,           \* memory for objects of class YAAMP_COIND
    Jobs            \* memory for jobs

Main == "main"
Submitter == "submitter"
Creators == {Main} \cup Callers             \* they call coind_create_job
Nobody == "nobody"
Destroyed == "destroyed"
None == 0

ASSUME PoolsAssumption ==
    /\ IsFiniteSet(Callers) /\ Callers \cap {Main, Submitter} = {}
    /\ Objs \subseteq Nat \ {None} /\ IsFiniteSet(Objs) /\ Objs # {}
    /\ Jobs \subseteq Nat \ {None} /\ IsFiniteSet(Jobs)

VARIABLES
    daemon,         \* the coin daemon: "up", "busy" or "down"
    selected,       \* the coin's row has enable and auto_ready set
    allocated,      \* the objects whose memory is live
    g_list_coind, deleted, auto_ready, touch,   \* objects in the list, with that flag
    sock,           \* object -> "open", "stale" (the daemon has closed it) or "closed"
    mutex,          \* object -> the owner of coind->mutex
    coind_job,      \* object -> coind->job
    g_list_job, job_deleted,    \* jobs in the list, with that flag
    job_coind,      \* job -> job->coind
    main_pc,
    create_pc, object,  \* thread -> its point in coind_create_job, and of what
    counted,        \* the callers that count themselves in on their object
    submit_job,     \* the job the submitter counts itself in on
    undefined       \* history: threads that have touched a freed object

envVars == <<daemon, selected>>
objVars == <<allocated, g_list_coind, deleted, auto_ready, touch, sock, coind_job>>
jobVars == <<g_list_job, job_deleted, job_coind>>
createVars == <<mutex, create_pc, object, counted>>
vars == <<envVars, objVars, jobVars, createVars, submit_job, main_pc, undefined>>

Init ==
    /\ daemon \in {"up", "down"}
    /\ selected = TRUE
    /\ allocated = {} /\ g_list_coind = {} /\ deleted = {} /\ auto_ready = {} /\ touch = {}
    /\ sock = [o \in Objs |-> "closed"]
    /\ mutex = [o \in Objs |-> Nobody]
    /\ coind_job = [o \in Objs |-> None]
    /\ g_list_job = {} /\ job_deleted = {}
    /\ job_coind = [j \in Jobs |-> None]
    /\ main_pc = "update"
    /\ create_pc = [t \in Creators |-> "out"]
    /\ object = [t \in Creators |-> None]
    /\ counted = {}
    /\ submit_job = None
    /\ undefined = {}

(* Memory nobody knows an address of, the lowest first.                    *)
Lowest(S) == {x \in S : \A y \in S : x <= y}
FreeJobs == Jobs \ (g_list_job \cup {coind_job[o] : o \in allocated} \cup {submit_job})
FreeObjs == Objs \ (allocated \cup {job_coind[j] : j \in g_list_job}
                              \cup {object[t] : t \in Creators})

(* What main holds g_list_coind's mutex for.                               *)
g_list_coind_free == main_pc \notin {"create", "terminate"}

-----------------------------------------------------------------------------
(* The daemon, which may answer with errors and refuse connections while   *)
(* it is busy, and whoever edits the row.                                  *)
daemon_changes ==
    /\ daemon' \in {"up", "busy", "down"} \ {daemon}
    /\ sock' = [o \in Objs |-> IF daemon' = "down" /\ sock[o] = "open" THEN "stale" ELSE sock[o]]
    /\ UNCHANGED <<selected, allocated, g_list_coind, deleted, auto_ready, touch, coind_job,
                   jobVars, createVars, submit_job, main_pc, undefined>>

row_edited ==
    /\ selected' = ~selected
    /\ UNCHANGED <<daemon, objVars, jobVars, createVars, submit_job, main_pc, undefined>>

(* rpc_call on an object's connection: whether it is answered, and the     *)
(* state of the socket after it.  It is closed if rpc_do_call reconnects   *)
(* (after an answer with "Connection: close", or one that broke off) and   *)
(* rpc_connect fails.                                                      *)
rpc_call(o) ==
    CASE sock[o] = "closed" -> {<<FALSE, "closed">>}
      [] sock[o] = "open" /\ daemon = "up" -> {<<TRUE, "open">>}
      [] sock[o] = "open" /\ daemon # "up" -> BOOLEAN \X {"open", "closed"}
      [] sock[o] = "stale" -> {FALSE} \X {"stale", IF daemon = "down" THEN "closed" ELSE "open"}

-----------------------------------------------------------------------------
(* coind_create_job, by any thread of Creators.                            *)

At(t, point) == create_pc[t] = point /\ object[t] \in allocated
Goto(t, point) == create_pc' = [create_pc EXCEPT ![t] = point]
Unlock(o) == mutex' = [mutex EXCEPT ![o] = IF @ = Destroyed THEN @ ELSE Nobody]

(* A step on an object that has been freed.                                *)
create_freed(t) ==
    /\ create_pc[t] # "out"
    /\ object[t] \notin allocated
    /\ undefined' = undefined \cup {t}
    /\ UNCHANGED <<envVars, objVars, jobVars, createVars, submit_job, main_pc>>

(* rpc_connected: a connection lost for good ends it here, without error.  *)
create_connected(t) ==
    /\ At(t, "connected")
    /\ Goto(t, IF sock[object[t]] = "closed" THEN "return" ELSE "lock")
    /\ UNCHANGED <<envVars, objVars, jobVars, mutex, object, counted, submit_job, main_pc,
                   undefined>>

(* A destroyed mutex lets everyone pass.                                   *)
create_lock(t) ==
    /\ At(t, "lock")
    /\ mutex[object[t]] \in {Nobody, Destroyed}
    /\ mutex' = [mutex EXCEPT ![object[t]] = IF @ = Nobody THEN t ELSE @]
    /\ Goto(t, "template")
    /\ UNCHANGED <<envVars, objVars, jobVars, object, counted, submit_job, main_pc, undefined>>

(* getblocktemplate: no answer, or a bad one, goes to coind_error (with    *)
(* equihash; some formats of others return without it).                    *)
coind_create_template(t) ==
    LET o == object[t]
    IN  /\ At(t, "template")
        /\ \E answer \in rpc_call(o) :
              /\ sock' = [sock EXCEPT ![o] = answer[2]]
              /\ Goto(t, IF answer[1] THEN "compare" ELSE "error")
        /\ UNCHANGED <<envVars, allocated, g_list_coind, deleted, auto_ready, touch, coind_job,
                       jobVars, mutex, object, counted, submit_job, main_pc, undefined>>

(* coind_error: auto_ready first ...                                       *)
error_auto_ready(t) ==
    /\ At(t, "error")
    /\ auto_ready' = auto_ready \ {object[t]}
    /\ Goto(t, "delete")
    /\ UNCHANGED <<envVars, allocated, g_list_coind, deleted, touch, sock, coind_job,
                   jobVars, mutex, object, counted, submit_job, main_pc, undefined>>

(* Mutant: the path of a missing template returns with the mutex.          *)
coind_error_keeps_mutex(t) ==
    /\ At(t, "delete")
    /\ deleted' = deleted \cup {object[t]}
    /\ Goto(t, "return")
    /\ UNCHANGED <<envVars, allocated, g_list_coind, auto_ready, touch, sock, coind_job,
                   jobVars, mutex, object, counted, submit_job, main_pc, undefined>>

(* ... then the flag that gets the object freed, and the unlock.           *)
coind_error(t) ==
    /\ At(t, "delete")
    /\ deleted' = deleted \cup {object[t]}
    /\ Unlock(object[t])
    /\ Goto(t, "return")
    /\ UNCHANGED <<envVars, allocated, g_list_coind, auto_ready, touch, sock, coind_job,
                   jobVars, object, counted, submit_job, main_pc, undefined>>

(* The template is the last one (unless forced), or a job of its own       *)
(* replaces coind->job and goes to the list.  Bound: the job stays if      *)
(* there is no memory for another.                                         *)
create_compare(t) ==
    LET o == object[t]
    IN  /\ At(t, "compare")
        /\ Unlock(o)
        /\ Goto(t, "return")
        /\ \/ /\ coind_job[o] # None /\ (t \in {Main} \cup counted \/ FreeJobs = {})
              /\ UNCHANGED <<coind_job, jobVars>>
           \/ \E j \in Lowest(FreeJobs) :
              /\ job_deleted' = job_deleted \cup ({coind_job[o]} \ {None})
              /\ coind_job' = [coind_job EXCEPT ![o] = j]
              /\ job_coind' = [job_coind EXCEPT ![j] = o]
              /\ g_list_job' = g_list_job \cup {j}
        /\ UNCHANGED <<envVars, allocated, g_list_coind, deleted, auto_ready, touch, sock,
                       object, counted, submit_job, main_pc, undefined>>

create_return(t) ==
    /\ create_pc[t] = "return"
    /\ Goto(t, "out")
    /\ object' = [object EXCEPT ![t] = None]
    /\ counted' = counted \ {t}
    /\ main_pc' = IF t = Main THEN "terminate" ELSE main_pc
    /\ UNCHANGED <<envVars, objVars, jobVars, mutex, submit_job, undefined>>

coind_create_job(t) ==
    \/ create_freed(t) \/ create_connected(t) \/ create_lock(t) \/ coind_create_template(t)
    \/ error_auto_ready(t) \/ coind_error(t) \/ create_compare(t) \/ create_return(t)

Begin(t, o) ==
    /\ create_pc' = [create_pc EXCEPT ![t] = "connected"]
    /\ object' = [object EXCEPT ![t] = o]

-----------------------------------------------------------------------------
(* The other threads that get hold of the object.                          *)

(* client_update_block: found and counted under the list's mutex.          *)
client_update_block(t) ==
    /\ create_pc[t] = "out"
    /\ g_list_coind_free
    /\ \E o \in g_list_coind : Begin(t, o)
    /\ counted' = counted \cup {t}
    /\ UNCHANGED <<envVars, objVars, jobVars, mutex, submit_job, main_pc, undefined>>

(* The end of job_update, when clients have no job: the first object of    *)
(* the list, whatever its flags, under no mutex, and not counted.          *)
job_update(t) ==
    /\ create_pc[t] = "out"
    /\ \E o \in g_list_coind : Begin(t, o)
    /\ UNCHANGED <<envVars, objVars, jobVars, mutex, counted, submit_job, main_pc, undefined>>

Touch(t, o) == undefined' = IF o \in allocated THEN undefined ELSE undefined \cup {t}

(* A submission counts itself in on a job, passes job->deleted ...         *)
client_submit ==
    /\ submit_job = None
    /\ submit_job' \in g_list_job \ job_deleted
    /\ UNCHANGED <<envVars, objVars, jobVars, createVars, main_pc, undefined>>

(* ... and sends a block to job->coind, an error of which is ignored.      *)
coind_submit ==
    LET o == job_coind[submit_job]
    IN  /\ submit_job # None
        /\ submit_job' = None
        /\ Touch(Submitter, o)
        /\ \E answer \in rpc_call(o) :
              sock' = IF o \in allocated THEN [sock EXCEPT ![o] = answer[2]] ELSE sock
        /\ UNCHANGED <<envVars, allocated, g_list_coind, deleted, auto_ready, touch, coind_job,
                       jobVars, createVars, main_pc>>

-----------------------------------------------------------------------------
(* Main.                                                                   *)

(* db_update_coinds: an object that is not ready any more, nor flagged,    *)
(* has its row disabled.                                                   *)
update_auto_ready ==
    /\ main_pc = "auto_ready"
    /\ selected' = (selected /\ g_list_coind \subseteq deleted \cup auto_ready)
    /\ main_pc' = "update"
    /\ UNCHANGED <<daemon, objVars, jobVars, createVars, submit_job, undefined>>

Known(o) ==
    /\ o \in g_list_coind
    /\ UNCHANGED <<allocated, g_list_coind, deleted, sock, coind_job>>

(* A new object that could not connect is left in memory; the address is   *)
(* not used again.                                                         *)
New(o) ==
    /\ g_list_coind = {}
    /\ daemon # "down"
    /\ o \in Lowest(FreeObjs)
    /\ allocated' = allocated \cup {o}
    /\ g_list_coind' = {o}
    /\ deleted' = deleted \ {o}
    /\ sock' = [sock EXCEPT ![o] = "open"]
    /\ coind_job' = [coind_job EXCEPT ![o] = None]

(* The rows: the object of the coin is found, flagged or not, or a new one *)
(* connects; then coind_create_job.  The list's mutex is held till the end *)
(* of terminate.                                                           *)
update_coind ==
    /\ main_pc = "update"
    /\ \/ /\ selected
          /\ \E o \in Objs :
                /\ Known(o) \/ New(o)
                /\ auto_ready' = auto_ready \cup {o}
                /\ touch' = touch \cup {o}
                /\ Begin(Main, o)
          /\ main_pc' = "create"
       \/ /\ ~selected \/ (g_list_coind = {} /\ daemon = "down")
          /\ main_pc' = "terminate"
          /\ UNCHANGED <<objVars, create_pc, object>>
    /\ UNCHANGED <<envVars, jobVars, mutex, counted, submit_job, undefined>>

(* An object without a row: coind_terminate closes the connection, unlocks *)
(* and destroys the mutex, whoever owns it, and flags the object.  What a  *)
(* flagged object keeps in touch, nobody asks.                             *)
coind_terminate ==
    /\ main_pc = "terminate"
    /\ LET gone == g_list_coind \ (deleted \cup touch)
       IN  /\ deleted' = deleted \cup gone
           /\ sock' = [o \in Objs |-> IF o \in gone THEN "closed" ELSE sock[o]]
           /\ mutex' = [o \in Objs |-> IF o \in gone THEN Destroyed ELSE mutex[o]]
    /\ touch' = {}
    /\ main_pc' = "prune_coind"
    /\ UNCHANGED <<envVars, allocated, g_list_coind, auto_ready, coind_job, jobVars, create_pc,
                   object, counted, submit_job, undefined>>

lock_count(o) == Cardinality({t \in counted : object[t] = o})

(* The memory of a freed object says nothing any more.                     *)
Freed(dead) ==
    /\ allocated' = allocated \ dead
    /\ g_list_coind' = g_list_coind \ dead
    /\ deleted' = deleted \ dead
    /\ auto_ready' = auto_ready \ dead
    /\ touch' = touch \ dead
    /\ sock' = [o \in Objs |-> IF o \in dead THEN "closed" ELSE sock[o]]
    /\ mutex' = [o \in Objs |-> IF o \in dead THEN Nobody ELSE mutex[o]]
    /\ coind_job' = [o \in Objs |-> IF o \in dead THEN None ELSE coind_job[o]]

Prune(dead, jobs) ==
    /\ main_pc = "prune_coind"
    /\ Freed(dead)
    /\ job_deleted' = job_deleted \cup (jobs \ {None})
    /\ main_pc' = "prune_job"
    /\ UNCHANGED <<envVars, g_list_job, job_coind, create_pc, object, counted, submit_job,
                   undefined>>

(* Mutant: an object is freed although it is counted.                      *)
prune_coind_locked_too ==
    LET dead == g_list_coind \cap deleted
    IN  Prune(dead, {coind_job[o] : o \in dead})

(* Mutant: a freed object stays in the list.                               *)
prune_coind_stays_listed ==
    LET dead == {o \in g_list_coind \cap deleted : lock_count(o) = 0}
    IN  /\ main_pc = "prune_coind" /\ main_pc' = "prune_job"
        /\ allocated' = allocated \ dead
        /\ UNCHANGED <<envVars, g_list_coind, deleted, auto_ready, touch, sock, coind_job,
                       jobVars, createVars, submit_job, undefined>>

(* Mutant: coind_delete forgets the job.                                   *)
prune_coind_keeps_job ==
    Prune({o \in g_list_coind \cap deleted : lock_count(o) = 0}, {})

(* object_prune(&g_list_coind, coind_delete): the current job is flagged,  *)
(* the object freed.                                                       *)
prune_coind ==
    LET dead == {o \in g_list_coind \cap deleted : lock_count(o) = 0}
    IN  Prune(dead, {coind_job[o] : o \in dead})

(* object_prune(&g_list_job, job_delete).                                  *)
prune_job ==
    /\ main_pc = "prune_job"
    /\ LET dead == (g_list_job \cap job_deleted) \ {submit_job}
       IN  /\ g_list_job' = g_list_job \ dead
           /\ job_deleted' = job_deleted \ dead
           /\ job_coind' = [j \in Jobs |-> IF j \in dead THEN None ELSE job_coind[j]]
    /\ main_pc' = "auto_ready"
    /\ UNCHANGED <<envVars, objVars, createVars, submit_job, undefined>>

main_thread ==
    update_auto_ready \/ update_coind \/ coind_terminate \/ prune_coind \/ prune_job

-----------------------------------------------------------------------------
Next ==
    /\ undefined = {}
    /\ \/ daemon_changes \/ row_edited
       \/ \E t \in Creators : coind_create_job(t)
       \/ \E t \in Callers : client_update_block(t) \/ job_update(t)
       \/ client_submit \/ coind_submit
       \/ main_thread

Spec == Init /\ [][Next]_vars

(* A thread under way goes on, RPCs end, and main gets the mutexes that    *)
(* others release again and again.  Nothing is assumed of the daemon, the  *)
(* row, submissions or announcements.                                      *)
Fairness ==
    /\ WF_vars(undefined = {} /\ main_thread)
    /\ \A t \in Creators :
          /\ WF_vars(undefined = {} /\ coind_create_job(t))
          /\ SF_vars(undefined = {} /\ create_lock(t))
    /\ WF_vars(undefined = {} /\ coind_submit)

FairSpec == Spec /\ Fairness

-----------------------------------------------------------------------------
TypeOK ==
    /\ daemon \in {"up", "busy", "down"} /\ selected \in BOOLEAN
    /\ g_list_coind \subseteq allocated /\ allocated \subseteq Objs
    /\ deleted \subseteq Objs /\ auto_ready \subseteq Objs /\ touch \subseteq Objs
    /\ sock \in [Objs -> {"open", "stale", "closed"}]
    /\ mutex \in [Objs -> Creators \cup {Nobody, Destroyed}]
    /\ coind_job \in [Objs -> Jobs \cup {None}]
    /\ g_list_job \subseteq Jobs /\ job_deleted \subseteq Jobs
    /\ job_coind \in [Jobs -> Objs \cup {None}]
    /\ main_pc \in {"auto_ready", "update", "create", "terminate", "prune_coind", "prune_job"}
    /\ create_pc \in [Creators -> {"out", "connected", "lock", "template", "error", "delete",
                                   "compare", "return"}]
    /\ object \in [Creators -> Objs \cup {None}] /\ counted \subseteq Callers
    /\ submit_job \in Jobs \cup {None}
    /\ undefined \subseteq Creators \cup {Submitter}

(* Who counts itself in on the daemon's object, and main, which frees it,  *)
(* never touch it after it was freed (client.cpp:317-338).                 *)
CountedIsLive == undefined \cap ({Main} \cup counted) = {}

(* However objects of the coin follow each other, and their jobs, at any   *)
(* time one job at most can be mined, and its coind is the living object   *)
(* whose current job it is (coind_template.cpp:706-723, coind.h:83-90).    *)
OneMineableJob ==
    \A j \in g_list_job \ job_deleted :
        /\ g_list_coind = {job_coind[j]}
        /\ coind_job[job_coind[j]] = j

Mineable ==
    \E o \in (g_list_coind \cap auto_ready) \ deleted :
        sock[o] # "closed" /\ coind_job[o] \in g_list_job \ job_deleted

(* An object whose reconnection failed once: coind_create_job returns      *)
(* without an error, and nothing connects it again.                        *)
CutOff == \E o \in g_list_coind \ deleted : sock[o] = "closed"

(* A coin whose daemon is up, and stays up, with its row enabled, can be   *)
(* mined in the end, after whatever errors (db.cpp:277-423), unless it is  *)
(* cut off for good, or main finds someone counted in on the object again  *)
(* and again when it prunes.                                               *)
Recovers ==
    <>[](daemon = "up" /\ selected /\ undefined = {})
        => <>[]Mineable \/ <>[]CutOff \/ []<><<prune_coind /\ counted # {}>>_vars
=============================================================================
