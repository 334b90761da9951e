------------------------------ MODULE Clients ------------------------------
(***************************************************************************)
(* The life of a miner's connection: client_thread, client_subscribe and   *)
(* client_authorize (client.cpp), the reconnect order of job_assign_client *)
(* (job.cpp), the two places where another thread throws a client out      *)
(* (job_broadcast in job_send.cpp, db_update_workers in user.cpp), the     *)
(* pruning of g_list_client by main, and the end of the process.           *)
(*                                                                         *)
(* A client object belongs to the thread that created it and, once linked, *)
(* also to the list.  A client told to reconnect keeps its object for a    *)
(* while: lock_count and unlock hold back the pruning, so that its next    *)
(* connection finds by notify_id what it has to take over.  A miner may    *)
(* subscribe as often as it likes, also once its client is linked.         *)
(***************************************************************************)
EXTENDS Integers, FiniteSets

CONSTANTS
    Conns,      \* connections, each with its own thread and object
    MaxCons,    \* g_stratum_max_cons
    MaxLocks    \* bound: how often a client is told to reconnect

NoRow == "no row"
NoConn == "no connection"
ASSUME ConnsAssumption == IsFiniteSet(Conns) /\ {NoRow, NoConn} \cap Conns = {}
ASSUME BoundAssumption == MaxCons \in Nat \ {0} /\ MaxLocks \in Nat \ {0}

VARIABLES
    pc,             \* connection -> program point of its thread
    g_list_client,  \* linked clients
    freed,          \* clients whose object has been deleted
    deleted, reconnecting,  \* clients with that flag set
    lock_count,     \* client -> its lock_count
    workerid,       \* client -> the row of the workers table it stands for
    workers,        \* that table: rows, named by the connection that added them
    insert_id,      \* what mysql_insert_id(g_db) answers to who has just inserted a row
    source,         \* client -> the client it resumes, while it copies from it
    main_pc,
    g_exiting,
    evicted,        \* history: flagged by another thread than its own
    detached        \* history: rows that another client has taken over, or orphaned

rowVars == <<workerid, workers, insert_id>>
objVars == <<freed, deleted, reconnecting, lock_count>>
history == <<evicted, detached>>
vars == <<pc, g_list_client, objVars, rowVars, source, main_pc, g_exiting, history>>

Init ==
    /\ pc = [c \in Conns |-> "start"]
    /\ g_list_client = {} /\ freed = {} /\ deleted = {} /\ reconnecting = {}
    /\ lock_count = [c \in Conns |-> 0]
    /\ workerid = [c \in Conns |-> NoRow]
    /\ workers = {} /\ insert_id = NoRow
    /\ source = [c \in Conns |-> NoConn]
    /\ main_pc = "db_update_workers" /\ g_exiting = FALSE
    /\ evicted = {} /\ detached = {}

Step(c, from, to) == pc[c] = from /\ pc' = [pc EXCEPT ![c] = to]

(* while(!g_exiting) of client_thread, after a message has been handled.   *)
NextMessage == IF g_exiting THEN "find" ELSE "loop"

(* A DELETE of the rows R: db_query sends nothing once the server exits.   *)
Delete(R) ==
    IF g_exiting THEN UNCHANGED workers /\ detached' = detached \cup R
    ELSE workers' = workers \ R /\ UNCHANGED detached

(* db_clear_worker over g_db: it forgets the row, deleted or not.          *)
ClearWorker(c) ==
    /\ workerid' = [workerid EXCEPT ![c] = NoRow]
    /\ Delete({workerid[c]} \ {NoRow})
    /\ insert_id' = IF g_exiting \/ workerid[c] = NoRow THEN insert_id ELSE NoRow

KeepWorker == UNCHANGED <<rowVars, detached>>

(* g_db_mutex, held from an INSERT until the row's id is read.             *)
DbFree == \A d \in Conns : pc[d] # "insert id"

-----------------------------------------------------------------------------
(* accept() of stratum_thread, and a new object.                           *)
connect(c) ==
    /\ ~g_exiting
    /\ Step(c, "start", "loop")
    /\ UNCHANGED <<g_list_client, objVars, rowVars, source, main_pc, g_exiting, history>>

(* client_find_notify_id, in client_subscribe, after get_random_key: if    *)
(* the miner has sent the key of another linked client, that one is found. *)
(* Two clients may have the same key: the one told to reconnect comes      *)
(* first in the code, here any is found.  The pointer outlives the list's  *)
(* mutex.  If none is found, nothing is taken over.                        *)
client_find_notify_id(c) ==
    /\ \E d \in g_list_client \ {c} :
        /\ Step(c, "loop", IF d \in reconnecting THEN "resume" ELSE "copy")
        /\ source' = [source EXCEPT ![c] = d]
    /\ UNCHANGED <<g_list_client, objVars, rowVars, main_pc, g_exiting, history>>

(* The rest of client_subscribe: the client found loses its lock and, if   *)
(* it was told to reconnect, lends its worker.  A row that the subscribing *)
(* client had is forgotten.                                                *)
client_subscribe(c) ==
    /\ LET row == workerid[source[c]] IN
        \/ Step(c, "copy", NextMessage) /\ UNCHANGED <<workerid, detached>>
        \/ /\ Step(c, "resume", NextMessage)
           /\ workerid' = [workerid EXCEPT ![c] = row]
           /\ detached' = detached \cup IF row = workerid[c] THEN {} ELSE {row, workerid[c]} \ {NoRow}
    /\ lock_count' = [lock_count EXCEPT ![source[c]] = 0]
    /\ source' = [source EXCEPT ![c] = NoConn]
    /\ UNCHANGED <<g_list_client, freed, deleted, reconnecting, workers, insert_id, main_pc,
                   g_exiting, evicted>>

(* client_authorize: refused if already linked, if the server is full or   *)
(* for a bad user name, ...                                                *)
client_authorize(c) ==
    /\ \/ Step(c, "loop", "find")
       \/ /\ c \notin g_list_client
          /\ Cardinality(g_list_client) < MaxCons
          /\ Step(c, "loop", "add worker")
    /\ UNCHANGED <<g_list_client, objVars, rowVars, source, main_pc, g_exiting, history>>

(* ... it has a worker if it resumes, ...                                  *)
has_worker(c) ==
    /\ Step(c, "add worker", "validate")
    /\ workerid[c] # NoRow
    /\ UNCHANGED <<g_list_client, objVars, rowVars, source, main_pc, g_exiting, history>>

(* ... but is added one if not, or if the user has no account (userid 0),  *)
(* by an INSERT under g_db_mutex ...                                       *)
db_add_worker(c) ==
    /\ Step(c, "add worker", "insert id")
    /\ DbFree
    /\ workerid' = [workerid EXCEPT ![c] = NoRow]
    /\ IF g_exiting
       THEN /\ detached' = detached \cup ({workerid[c]} \ {NoRow})
            /\ insert_id' \in (Conns \ {c}) \cup {NoRow}
            /\ UNCHANGED workers
       ELSE /\ workers' = (workers \ {workerid[c]}) \cup {c}
            /\ insert_id' = c
            /\ UNCHANGED detached
    /\ UNCHANGED <<g_list_client, objVars, source, main_pc, g_exiting, evicted>>

(* ... whose id is what the connection answers: none after the DELETE of   *)
(* job_broadcast, an older one if the server exits.                        *)
mysql_insert_id(c) ==
    /\ Step(c, "insert id", "validate")
    /\ workerid' = [workerid EXCEPT ![c] = insert_id] /\ insert_id' = NoRow
    /\ detached' = detached \cup IF insert_id = c THEN {} ELSE {insert_id, c} \ {NoRow}
    /\ UNCHANGED <<g_list_client, objVars, workers, source, main_pc, g_exiting, evicted>>

(* ... and the wallet address: a bad one clears the worker, a good one     *)
(* links the client.                                                       *)
client_validate_user_address(c) ==
    /\ \/ /\ Step(c, "validate", "find")
          /\ DbFree
          /\ ClearWorker(c)
          /\ UNCHANGED g_list_client
       \/ /\ Step(c, "validate", NextMessage)
          /\ g_list_client' = g_list_client \cup {c}
          /\ KeepWorker
    /\ UNCHANGED <<objVars, source, main_pc, g_exiting, evicted>>

(* The loop of client_thread ends: the socket is closed or shut down, a    *)
(* message is refused, too many bad submits.                               *)
leave_loop(c) ==
    /\ Step(c, "loop", "find")
    /\ UNCHANGED <<g_list_client, objVars, rowVars, source, main_pc, g_exiting, history>>

(* Mutant: the thread frees its object without asking the list.            *)
find_self_not_asked(c) ==
    /\ Step(c, "find", "free")
    /\ UNCHANGED <<g_list_client, objVars, rowVars, source, main_pc, g_exiting, history>>

(* g_list_client.Find decides who frees the object: main or this thread.   *)
find_self(c) ==
    /\ IF c \in g_list_client THEN Step(c, "find", "clear") ELSE Step(c, "find", "free")
    /\ UNCHANGED <<g_list_client, objVars, rowVars, source, main_pc, g_exiting, history>>

(* Mutant: the row is kept.                                                *)
clear_worker_skipped(c) ==
    /\ Step(c, "clear", "flag")
    /\ KeepWorker
    /\ UNCHANGED <<g_list_client, objVars, source, main_pc, g_exiting, evicted>>

clear_worker(c) ==
    /\ Step(c, "clear", "flag")
    /\ IF workerid[c] # NoRow /\ c \notin reconnecting THEN DbFree /\ ClearWorker(c) ELSE KeepWorker
    /\ UNCHANGED <<g_list_client, objVars, source, main_pc, g_exiting, evicted>>

object_delete(c) ==
    /\ Step(c, "flag", "exited")
    /\ deleted' = deleted \cup {c}
    /\ UNCHANGED <<g_list_client, freed, reconnecting, lock_count, rowVars, source, main_pc,
                   g_exiting, history>>

delete_self(c) ==
    /\ Step(c, "free", "exited")
    /\ freed' = freed \cup {c}
    /\ UNCHANGED <<g_list_client, deleted, reconnecting, lock_count, rowVars, source, main_pc,
                   g_exiting, history>>

client_thread(c) ==
    \/ client_find_notify_id(c) \/ client_subscribe(c) \/ client_authorize(c)
    \/ has_worker(c) \/ db_add_worker(c) \/ mysql_insert_id(c) \/ client_validate_user_address(c)
    \/ leave_loop(c)
    \/ find_self(c) \/ clear_worker(c) \/ object_delete(c) \/ delete_self(c)

-----------------------------------------------------------------------------
(* The job thread, under the mutex of g_list_client.                       *)

(* The end of job_assign_client, when the client's extranonce1 changes and *)
(* it cannot be told so: it is told to reconnect.                          *)
job_assign_reconnect(c) ==
    /\ c \in g_list_client \ deleted
    /\ lock_count[c] < MaxLocks
    /\ reconnecting' = reconnecting \cup {c}
    /\ lock_count' = [lock_count EXCEPT ![c] = @ + 1]
    /\ UNCHANGED <<pc, g_list_client, freed, deleted, rowVars, source, main_pc,
                   g_exiting, history>>

Evict(C) ==
    /\ deleted' = deleted \cup C
    /\ evicted' = evicted \cup {c \in C : pc[c] # "exited"}

(* job_broadcast, when a job could not be sent three times: it does not    *)
(* take g_db_mutex.                                                        *)
job_broadcast_timeout(c) ==
    /\ c \in g_list_client \ deleted
    /\ IF c \notin reconnecting THEN ClearWorker(c) ELSE KeepWorker
    /\ Evict({c})
    /\ UNCHANGED <<pc, g_list_client, freed, reconnecting, lock_count,
                   source, main_pc, g_exiting>>

-----------------------------------------------------------------------------
(* Main: db_update_workers throws out the clients C whose speed has        *)
(* decayed, over a connection of its own; if the server exits meanwhile    *)
(* the rows of those after the first ones, X, stay ...                     *)
db_update_workers ==
    /\ main_pc = "db_update_workers"
    /\ \E C \in SUBSET {c \in g_list_client \ deleted : workerid[c] # NoRow} :
        /\ \E X \in SUBSET C :
            /\ ~g_exiting => X = C
            /\ workers' = workers \ {workerid[c] : c \in X}
            /\ detached' = detached \cup {workerid[c] : c \in C \ X}
        /\ workerid' = [c \in Conns |-> IF c \in C THEN NoRow ELSE workerid[c]]
        /\ Evict(C)
    /\ main_pc' = "object_prune"
    /\ UNCHANGED <<pc, g_list_client, freed, reconnecting, lock_count, insert_id, source,
                   g_exiting>>

(* Mutant: a locked client is not unlocked, whatever its unlock flag.      *)
object_prune_never_unlocks ==
    /\ main_pc = "object_prune"
    /\ LET D == {c \in g_list_client \cap deleted : lock_count[c] = 0} IN
        /\ g_list_client' = g_list_client \ D
        /\ freed' = freed \cup D
    /\ main_pc' = IF g_exiting THEN "closing" ELSE "db_update_workers"
    /\ UNCHANGED <<pc, deleted, reconnecting, lock_count, rowVars, source, g_exiting,
                   history>>

(* Mutant: lock_count is not tested before it is decremented.              *)
object_prune_unlocks_all ==
    /\ main_pc = "object_prune"
    /\ LET D == {c \in g_list_client \cap deleted : lock_count[c] = 0} IN
        /\ g_list_client' = g_list_client \ D
        /\ freed' = freed \cup D
        /\ lock_count' = [c \in Conns |-> IF c \in g_list_client \ D THEN lock_count[c] - 1
                                          ELSE lock_count[c]]
    /\ main_pc' = IF g_exiting THEN "closing" ELSE "db_update_workers"
    /\ UNCHANGED <<pc, deleted, reconnecting, rowVars, source, g_exiting, history>>

(* ... and object_prune frees or unlocks, at the end of main's round.      *)
object_prune ==
    /\ main_pc = "object_prune"
    /\ LET D == {c \in g_list_client \cap deleted : lock_count[c] = 0} IN
        /\ g_list_client' = g_list_client \ D
        /\ freed' = freed \cup D
    /\ lock_count' = [c \in Conns |-> IF c \in g_list_client /\ lock_count[c] > 0
                                      THEN lock_count[c] - 1 ELSE lock_count[c]]
    /\ main_pc' = IF g_exiting THEN "closing" ELSE "db_update_workers"
    /\ UNCHANGED <<pc, deleted, reconnecting, rowVars, source, g_exiting, history>>

-----------------------------------------------------------------------------
(* stratum_thread, when pthread_create fails.                              *)
exit_begins ==
    /\ ~g_exiting /\ g_exiting' = TRUE
    /\ UNCHANGED <<pc, g_list_client, objVars, rowVars, source, main_pc, history>>

(* The process ends with its connections, and is started again: no one     *)
(* refers to the rows in the table any more.                               *)
Restart ==
    /\ pc' = [c \in Conns |-> IF pc[c] = "start" THEN "start" ELSE "exited"]
    /\ freed' = {c \in Conns : pc[c] # "start"}
    /\ g_list_client' = {} /\ deleted' = {} /\ reconnecting' = {}
    /\ lock_count' = [c \in Conns |-> 0]
    /\ workerid' = [c \in Conns |-> NoRow] /\ insert_id' = NoRow
    /\ source' = [c \in Conns |-> NoConn]
    /\ main_pc' = "db_update_workers" /\ g_exiting' = FALSE
    /\ evicted' = {} /\ detached' = workers
    /\ UNCHANGED workers

main_returns == main_pc = "closing" /\ Restart
(* exit(1) in db_query: an error other than a broken connection.           *)
db_query_fails ==
    /\ ~g_exiting
    /\ \/ \E c \in Conns : pc[c] \in {"add worker", "validate", "clear"}
       \/ main_pc = "db_update_workers"
    /\ Restart
(* exit(1) in monitor_thread and stratum_thread, and a crash, at any time. *)
process_dies == Restart

main_thread == db_update_workers \/ object_prune \/ main_returns

Next ==
    \/ \E c \in Conns :
        \/ connect(c) \/ client_thread(c)
        \/ job_assign_reconnect(c) \/ job_broadcast_timeout(c)
    \/ main_thread
    \/ exit_begins \/ db_query_fails \/ process_dies

Spec == Init /\ [][Next]_vars

(* Main's loop goes on.  Of the connections nothing is assumed.            *)
FairSpec == Spec /\ WF_vars(main_thread)

-----------------------------------------------------------------------------
TypeOK ==
    /\ pc \in [Conns -> {"start", "loop", "resume", "copy", "add worker", "insert id", "validate",
                         "find", "clear", "flag", "free", "exited"}]
    /\ g_list_client \subseteq Conns /\ freed \subseteq Conns
    /\ deleted \subseteq Conns /\ reconnecting \subseteq Conns
    /\ lock_count \in [Conns -> 0..MaxLocks]
    /\ workerid \in [Conns -> Conns \cup {NoRow}]
    /\ workers \subseteq Conns /\ insert_id \in Conns \cup {NoRow}
    /\ source \in [Conns -> Conns \cup {NoConn}]
    /\ main_pc \in {"db_update_workers", "object_prune", "closing"} /\ g_exiting \in BOOLEAN
    /\ evicted \subseteq Conns /\ detached \subseteq Conns

Running(c) == pc[c] \notin {"start", "exited"}

(* A client object stays allocated until its thread ends and it is out of  *)
(* the list, unless another thread has flagged it: main frees what is      *)
(* flagged without knowing whether its thread still runs.                  *)
ThreadOwnsObject ==
    \A c \in Conns \ evicted : Running(c) \/ c \in g_list_client => c \notin freed

(* What the comment in client_thread says: clients of g_list_client are    *)
(* purged from there, so a client not in it has not been freed.            *)
OnlyListedArePurged == \A c \in Conns : pc[c] = "free" => c \notin freed

(* The workers table follows the clients: the row goes before the object   *)
(* does, or when another thread flags it, and not earlier than the         *)
(* client's own reference to it.  A client told to reconnect leaves its    *)
(* row behind, and a thread that runs on after its object was freed may    *)
(* add one.  Excepted are the detached rows: those that a second client    *)
(* has taken over, and the orphans of a DELETE that db_query drops or of   *)
(* the end of the process, of a second subscribe with which a linked       *)
(* client resumes another, and of a DELETE of job_broadcast between the    *)
(* INSERT of a row and the reading of its id.                              *)
RowFollowsClient ==
    \A c \in Conns \ detached :
        /\ c \in workers /\ c \in freed => c \in reconnecting \cup evicted
        /\ c \in workers /\ c \in evicted => c \in reconnecting \cup freed
        /\ c \notin freed /\ pc[c] # "insert id" => (c \in workers <=> workerid[c] = c)

(* The object of a connection that has ended is freed: the locks of those  *)
(* told to reconnect are given back one per round of main.                 *)
ExitedIsFreed == \A c \in Conns : pc[c] = "exited" ~> c \in freed
=============================================================================
