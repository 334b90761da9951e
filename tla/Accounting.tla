----------------------------- MODULE Accounting -----------------------------
(***************************************************************************)
(* The way of a share from its miner to a row of the shares table:         *)
(* share_add_worker and share_write (share.cpp), db_query (db.cpp), the    *)
(* row of the workers table it is booked on (db_add_worker and             *)
(* db_clear_worker, user.cpp; client_authorize and client_thread,          *)
(* client.cpp; job_broadcast, job_send.cpp), and the end of the process,   *)
(* which config.sample/run.sh starts again.                                *)
(*                                                                         *)
(* Threads: one per client, the job thread (evictions) and main.  A record *)
(* (YAAMP_WORKER) sums up the difficulty of the shares of one worker, so a *)
(* sum is here the set of its shares, and a record is named by the share   *)
(* it was created for.  The worker id that the database hands out for a    *)
(* client is the client itself.  The order of g_list_worker, coins and     *)
(* rejected shares are left out.                                           *)
(***************************************************************************)
EXTENDS Naturals, FiniteSets

CONSTANTS
    Clients,
    MaxShare,   \* bound: shares found
    Chunk       \* rows of one INSERT (1000)

NoId == "0"
Nobody == "nobody"
Main == "main"
ASSUME ClientsAssumption == {NoId, Nobody, Main} \cap Clients = {}
ASSUME MaxShareAssumption == MaxShare \in Nat
ASSUME ChunkAssumption == Chunk \in Nat \ {0}

Shares == 1..MaxShare     \* numbered as they are found

VARIABLES
    pc,             \* client -> "new", "insert_id", "ready", "create" or "gone"
    workerid,       \* client -> client->workerid
    g_db_mutex,     \* its owner
    insert_id,      \* what mysql_insert_id(g_db) answers to who has just inserted a row
    evicting,       \* the client that job_broadcast has deleted the row of
    g_list_worker, deleted, key, sum,   \* linked records, flagged ones, their workerid, shares
    worker_mutex,   \* the owner of g_list_worker's mutex
    main_pc,
    buffer,         \* the shares whose rows are in share_write's statement
    g_exiting,
    rows,           \* share -> how often the shares table has it: 0, 1 or 2 (or more)
    finder,         \* share -> the client credited for it, in this life of the process or before
    anonymous,      \* history: clients evicted, or whose insert id a DELETE has spoilt
    dropped,        \* history: shares of records without a workerid, flagged unwritten
    lost,           \* history: shares that went with the process
    repeated        \* history: shares of an executed statement whose answer was lost

rowVars == <<workerid, g_db_mutex, insert_id, evicting>>
recordVars == <<g_list_worker, deleted, key, sum, worker_mutex>>
mainVars == <<main_pc, buffer>>
history == <<dropped, lost, repeated>>
vars == <<pc, rowVars, recordVars, mainVars, g_exiting, rows, finder, anonymous, history>>

Init ==
    /\ pc = [c \in Clients |-> "new"]
    /\ workerid = [c \in Clients |-> NoId]
    /\ g_db_mutex = Nobody /\ insert_id = NoId /\ evicting = Nobody
    /\ g_list_worker = {} /\ deleted = {} /\ worker_mutex = Nobody
    /\ key = [r \in Shares |-> NoId] /\ sum = [r \in Shares |-> {}]
    /\ main_pc = "share_write" /\ buffer = {}
    /\ g_exiting = FALSE
    /\ anonymous = {}
    /\ rows = [s \in Shares |-> 0]
    /\ finder = [s \in Shares |-> NoId]
    /\ dropped = {} /\ lost = {} /\ repeated = {}

Goto(c, from, to) == pc[c] = from /\ pc' = [pc EXCEPT ![c] = to]
Listed(c) == pc[c] \in {"ready", "create"}

-----------------------------------------------------------------------------
(* Mutant: the INSERT and mysql_insert_id are not under g_db_mutex.        *)
db_add_worker_no_lock(c) ==
    /\ Goto(c, "new", "insert_id")
    /\ ~g_exiting /\ insert_id' = c
    /\ UNCHANGED <<workerid, g_db_mutex, evicting, recordVars, mainVars, g_exiting, rows, finder,
                   anonymous, history>>

(* client_authorize locks g_db_mutex and inserts the client's row (once    *)
(* the server is exiting it does not, and no share is written any more:    *)
(* no client is authorized then here) ...                                  *)
db_add_worker(c) ==
    /\ Goto(c, "new", "insert_id")
    /\ g_db_mutex = Nobody /\ g_db_mutex' = c
    /\ ~g_exiting /\ insert_id' = c
    /\ UNCHANGED <<workerid, evicting, recordVars, mainVars, g_exiting, rows, finder, anonymous, history>>

(* ... and asks for its id, before it unlocks and lists the client.        *)
mysql_insert_id(c) ==
    /\ Goto(c, "insert_id", "ready")
    /\ workerid' = [workerid EXCEPT ![c] = insert_id]
    /\ g_db_mutex' = Nobody /\ insert_id' = NoId
    /\ UNCHANGED <<evicting, recordVars, mainVars, g_exiting, rows, finder, anonymous, history>>

(* The end of client_thread.  Find waits for job_broadcast, which holds    *)
(* g_list_client.                                                          *)
client_thread_end(c) ==
    /\ Goto(c, "ready", "gone")
    /\ evicting = Nobody /\ g_db_mutex = Nobody
    /\ insert_id' = NoId
    /\ workerid' = [workerid EXCEPT ![c] = NoId]
    /\ UNCHANGED <<g_db_mutex, evicting, recordVars, mainVars, g_exiting, rows, finder, anonymous, history>>

(* The job thread evicts a client: its DELETE goes over the connection of  *)
(* the client threads, g_db, and the locking is commented out.             *)
job_broadcast_delete(c) ==
    /\ evicting = Nobody /\ evicting' = c
    /\ Listed(c) /\ workerid[c] # NoId
    /\ insert_id' = NoId
    /\ anonymous' = anonymous \cup {c} \cup {d \in Clients : pc[d] = "insert_id"}
    /\ UNCHANGED <<pc, workerid, g_db_mutex, recordVars, mainVars, g_exiting, rows, finder, history>>

job_broadcast_clear ==
    /\ evicting # Nobody /\ evicting' = Nobody
    /\ workerid' = [workerid EXCEPT ![evicting] = NoId]
    /\ UNCHANGED <<pc, g_db_mutex, insert_id, recordVars, mainVars, g_exiting, rows, finder, anonymous, history>>

(* main evicts a client that is too slow, over a connection of its own.    *)
db_update_workers(c) ==
    /\ main_pc = "share_write" /\ evicting = Nobody
    /\ Listed(c) /\ workerid[c] # NoId
    /\ workerid' = [workerid EXCEPT ![c] = NoId]
    /\ anonymous' = anonymous \cup {c}
    /\ UNCHANGED <<pc, g_db_mutex, insert_id, evicting, recordVars, mainVars, g_exiting, rows, finder, history>>

-----------------------------------------------------------------------------
Live == g_list_worker \ deleted
Credit(c, s) ==
    /\ finder[s] = NoId /\ \A t \in 1..(s - 1) : finder[t] # NoId
    /\ finder' = [finder EXCEPT ![s] = c]

(* Mutant: share_find_worker does not skip flagged records.                *)
share_add_worker_deleted(c) ==
    /\ pc[c] = "ready" /\ worker_mutex = Nobody
    /\ \E s \in Shares, r \in g_list_worker :
          /\ key[r] = workerid[c]
          /\ Credit(c, s)
          /\ sum' = [sum EXCEPT ![r] = @ \cup {s}]
    /\ UNCHANGED <<pc, rowVars, g_list_worker, deleted, key, worker_mutex, mainVars, g_exiting, rows,
                   anonymous, history>>

(* share_add_worker, under g_list_worker's mutex: the record of the worker *)
(* gets the share ...                                                      *)
share_add_worker(c) ==
    /\ pc[c] = "ready" /\ worker_mutex = Nobody
    /\ \E s \in Shares, r \in Live :
          /\ key[r] = workerid[c]
          /\ Credit(c, s)
          /\ sum' = [sum EXCEPT ![r] = @ \cup {s}]
    /\ UNCHANGED <<pc, rowVars, g_list_worker, deleted, key, worker_mutex, mainVars, g_exiting, rows,
                   anonymous, history>>

(* ... or none is found ...                                                *)
share_find_worker_none(c) ==
    /\ Goto(c, "ready", "create")
    /\ worker_mutex = Nobody /\ worker_mutex' = c
    /\ \E s \in Shares : finder[s] = NoId
    /\ \A r \in Live : key[r] # workerid[c]
    /\ UNCHANGED <<rowVars, g_list_worker, deleted, key, sum, mainVars, g_exiting, rows, finder,
                   anonymous, history>>

(* ... and one is created: client->workerid is read again.                 *)
share_new_worker(c) ==
    /\ Goto(c, "create", "ready")
    /\ worker_mutex' = Nobody
    /\ \E s \in Shares :
          /\ Credit(c, s)
          /\ g_list_worker' = g_list_worker \cup {s}
          /\ key' = [key EXCEPT ![s] = workerid[c]]
          /\ sum' = [sum EXCEPT ![s] = {s}]
    /\ UNCHANGED <<rowVars, deleted, mainVars, g_exiting, rows, anonymous, history>>

-----------------------------------------------------------------------------
SharesOf(R) == {s \in Shares : \E r \in R : s \in sum[r]}
Unnamed == {r \in Live : key[r] = NoId}

(* share_write takes the mutex ...                                         *)
share_write ==
    /\ main_pc = "share_write" /\ main_pc' = "walk"
    /\ worker_mutex = Nobody /\ worker_mutex' = Main
    /\ UNCHANGED <<pc, rowVars, g_list_worker, deleted, key, sum, buffer, g_exiting, rows, finder,
                   anonymous, history>>

(* ... and walks over the list.  Records without a workerid are flagged,   *)
(* the others go into the statement, which is sent when it is full, ...    *)
share_write_chunk ==
    /\ main_pc = "walk" /\ main_pc' = "query_in_walk"
    /\ \E B \in SUBSET (Live \ Unnamed), Z \in SUBSET Unnamed :
          /\ Cardinality(B) = Chunk
          /\ buffer' = SharesOf(B)
          /\ dropped' = dropped \cup SharesOf(Z)
          /\ deleted' = deleted \cup B \cup Z
    /\ UNCHANGED <<pc, rowVars, g_list_worker, key, sum, worker_mutex, g_exiting, rows, finder,
                   anonymous, lost, repeated>>

(* ... and what is left is sent after the mutex is given back.             *)
share_write_rest ==
    /\ main_pc = "walk" /\ main_pc' = IF Live \subseteq Unnamed THEN "object_prune" ELSE "query"
    /\ Cardinality(Live \ Unnamed) < Chunk
    /\ worker_mutex' = Nobody
    /\ buffer' = SharesOf(Live \ Unnamed)
    /\ dropped' = dropped \cup SharesOf(Unnamed)
    /\ deleted' = g_list_worker
    /\ UNCHANGED <<pc, rowVars, g_list_worker, key, sum, g_exiting, rows, finder, anonymous, lost, repeated>>

Querying == main_pc \in {"query_in_walk", "query"}
QueryReturns == main_pc' = IF main_pc = "query" THEN "object_prune" ELSE "walk"
Execute == rows' = [s \in Shares |-> IF s \notin buffer THEN rows[s] ELSE IF rows[s] = 0 THEN 1 ELSE 2]
InTable == {s \in Shares : rows[s] > 0}

(* db_query: the statement is executed and answered, ...                   *)
db_query ==
    /\ Querying /\ QueryReturns
    /\ ~g_exiting
    /\ Execute
    /\ buffer' = {}
    /\ UNCHANGED <<pc, rowVars, recordVars, g_exiting, finder, anonymous, history>>

(* ... or the connection breaks after it was executed, and it is sent      *)
(* again (when it breaks before, nothing changes), ...                     *)
db_query_answer_lost ==
    /\ Querying
    /\ ~g_exiting
    /\ Execute
    /\ repeated' = repeated \cup buffer
    /\ UNCHANGED <<pc, rowVars, recordVars, mainVars, g_exiting, finder, anonymous, dropped, lost>>

(* Mutant: db_query goes on trying, although db_reconnect does not connect *)
(* once the server is exiting.                                             *)
db_query_exiting_tries ==
    /\ Querying
    /\ g_exiting
    /\ UNCHANGED vars

(* ... or the server is exiting, and it is not sent, or not again.         *)
db_query_exiting ==
    /\ Querying /\ QueryReturns
    /\ g_exiting
    /\ lost' = lost \cup (buffer \ InTable)
    /\ buffer' = {}
    /\ UNCHANGED <<pc, rowVars, recordVars, g_exiting, rows, finder, anonymous, dropped, repeated>>

(* object_prune(&g_list_worker), and the end of main's round.              *)
object_prune ==
    /\ main_pc = "object_prune" /\ main_pc' = IF g_exiting THEN "closing" ELSE "share_write"
    /\ worker_mutex = Nobody
    /\ g_list_worker' = Live
    /\ deleted' = {}
    /\ key' = [r \in Shares |-> IF r \in Live THEN key[r] ELSE NoId]
    /\ sum' = [r \in Shares |-> IF r \in Live THEN sum[r] ELSE {}]
    /\ UNCHANGED <<pc, rowVars, worker_mutex, buffer, g_exiting, rows, finder, anonymous, history>>

-----------------------------------------------------------------------------
(* stratum_thread when pthread_create fails; it and monitor_thread also do *)
(* so just before they exit(1), see process_dies.                          *)
exit_begins ==
    /\ ~g_exiting /\ g_exiting' = TRUE
    /\ UNCHANGED <<pc, rowVars, recordVars, mainVars, rows, finder, anonymous, history>>

(* The process ends, with what is in its memory, and is started again.     *)
Restart ==
    /\ lost' = lost \cup ((SharesOf(Live) \cup buffer) \ InTable)
    /\ pc' = [c \in Clients |-> "new"]
    /\ workerid' = [c \in Clients |-> NoId]
    /\ g_db_mutex' = Nobody /\ insert_id' = NoId /\ evicting' = Nobody
    /\ g_list_worker' = {} /\ deleted' = {} /\ worker_mutex' = Nobody
    /\ key' = [r \in Shares |-> NoId] /\ sum' = [r \in Shares |-> {}]
    /\ main_pc' = "share_write" /\ buffer' = {}
    /\ g_exiting' = FALSE
    /\ anonymous' = {}
    /\ UNCHANGED <<rows, finder, dropped, repeated>>

main_returns == main_pc = "closing" /\ Restart
(* exit(1) in db_query: an error other than a broken connection.           *)
db_query_fails == Querying /\ ~g_exiting /\ Restart
(* exit(1) in monitor_thread and stratum_thread, and a crash, at any time. *)
process_dies == Restart

client_thread(c) ==
    \/ db_add_worker(c) \/ mysql_insert_id(c) \/ client_thread_end(c)
    \/ share_add_worker(c) \/ share_find_worker_none(c) \/ share_new_worker(c)
main_thread ==
    \/ share_write \/ share_write_chunk \/ share_write_rest
    \/ db_query \/ db_query_exiting
    \/ object_prune \/ main_returns

Next ==
    \/ \E c \in Clients : client_thread(c) \/ job_broadcast_delete(c) \/ db_update_workers(c)
    \/ job_broadcast_clear
    \/ main_thread \/ db_query_answer_lost
    \/ exit_begins \/ db_query_fails \/ process_dies

Spec == Init /\ [][Next]_vars

(* main runs on: it gets the list's mutex in the end, which whoever is in  *)
(* share_add_worker gives back, and the database answers in the end.       *)
FairSpec ==
    /\ Spec
    /\ SF_vars(main_thread)
    /\ WF_vars(\E c \in Clients : share_new_worker(c))

-----------------------------------------------------------------------------
TypeOK ==
    /\ pc \in [Clients -> {"new", "insert_id", "ready", "create", "gone"}]
    /\ workerid \in [Clients -> Clients \cup {NoId}]
    /\ g_db_mutex \in Clients \cup {Nobody}
    /\ insert_id \in Clients \cup {NoId}
    /\ evicting \in Clients \cup {Nobody}
    /\ g_list_worker \subseteq Shares /\ deleted \subseteq g_list_worker
    /\ key \in [Shares -> Clients \cup {NoId}]
    /\ sum \in [Shares -> SUBSET Shares]
    /\ worker_mutex \in Clients \cup {Main, Nobody}
    /\ main_pc \in {"share_write", "walk", "query_in_walk", "query", "object_prune", "closing"}
    /\ buffer \subseteq Shares
    /\ g_exiting \in BOOLEAN
    /\ rows \in [Shares -> 0..2]
    /\ finder \in [Shares -> Clients \cup {NoId}]
    /\ anonymous \subseteq Clients
    /\ dropped \subseteq Shares /\ lost \subseteq Shares /\ repeated \subseteq Shares

(* Where a credited share can be: in a live record, in the statement, in   *)
(* the table, or given up, knowingly.                                      *)
Credited == {s \in Shares : finder[s] # NoId}

(* A credited share is never forgotten: it is in exactly one of these      *)
(* places; only shares of a statement whose answer was lost can be in the  *)
(* table and in the statement at once, and then in the table twice.        *)
SharesKept ==
    /\ Credited = SharesOf(Live) \cup buffer \cup InTable \cup dropped \cup lost
    /\ SharesOf(Live) \cap (buffer \cup InTable \cup dropped \cup lost) = {}
    /\ (buffer \cup InTable) \cap (dropped \cup lost) = {}
    /\ dropped \cap lost = {}
    /\ buffer \cap InTable \subseteq repeated
    /\ \A q, r \in Live : q # r => sum[q] \cap sum[r] = {}
    /\ \A s \in Shares : rows[s] = 2 => s \in repeated

(* A share is booked on the worker whose client found it, and on no worker *)
(* (share_write drops it) only if the client was evicted, or an eviction   *)
(* spoilt the id of its row.                                               *)
ToItsMiner ==
    \A r \in Live : \A s \in sum[r] :
        \/ key[r] = finder[s]
        \/ key[r] = NoId /\ finder[s] \in anonymous

(* A share booked on a worker gets its row, unless the process ends first. *)
CreditReachesTable ==
    \A s \in Shares :
        (\E r \in Live : key[r] # NoId /\ s \in sum[r]) ~> rows[s] > 0 \/ s \in lost
=============================================================================
