------------------------------- MODULE Locks -------------------------------
(***************************************************************************)
(* What the threads of this server lock and unlock, in the order in which  *)
(* they do it, and who waits for whom.                                     *)
(*                                                                         *)
(* A function is the set of sequences of instructions that its conditions, *)
(* which are not modelled, let a thread go through.  What the code does    *)
(* between a lock and its unlock is a section, whose instructions come in  *)
(* when the mutex is locked.  A lock whose unlock follows at once is one   *)
(* step with it, a visit, unless the mutex is one that can be destroyed in *)
(* between.                                                                *)
(***************************************************************************)
EXTENDS Mutexes, Naturals, Sequences

CONSTANTS
    Main, Job,      \* main and job_thread
    Connections     \* client_threads

Threads == {Main, Job} \cup Connections
Nobody == "nobody"

ASSUME ThreadsAssumption ==
    Main # Job /\ {Main, Job} \cap Connections = {} /\ Nobody \notin Threads

Visit(l) == {<<<<"visit", l>>>>}
Hold(l, f) == {<<<<"hold", l, f>>>>}                \* lock l, section f, unlock l
Reconnect(d) == {<<<<"reconnect", d>>>>}
A ** B == {a \o b : a \in A, b \in B}              \* A, then B
Perhaps(A) == {<<>>} \cup A

(* A loop over D, in any order.                                            *)
ForEach(f, D) == IF D = {} THEN {<<>>} ELSE {<<<<"each", f, D>>>>}

-----------------------------------------------------------------------------
(* Functions that several threads call, and their sections.                *)

(* Not connected; or an answer or none; or the connection is made again,   *)
(* which creates its mutex anew, after an answer or a chunked one and      *)
(* before the unlock when an answer breaks off.                            *)
rpc_call(d) ==
    Perhaps(Hold(rpc_mutex(d), <<"nothing">>) ** Perhaps(Reconnect(d))
            \cup Hold(rpc_mutex(d), <<"reconnect", d>>))

(* No template, or one like the last; or a new job.                        *)
coind_create_job(d) == Perhaps(Hold(coind_mutex(d), <<"coind_create_job", d>>))

(* Mutant: the miners of the old job are moved while coind->mutex is held. *)
coind_create_job_section_relock(d) == rpc_call(d) ** Visit(g_list_job) ** Visit(g_list_client)

coind_create_job_section(d) ==
    rpc_call(d) ** Perhaps(rpc_call(d)) ** Perhaps(Visit(g_job_create_mutex) ** Visit(g_list_job))

job_signal == Visit(g_job_mutex)

block_confirm(d) == Hold(g_list_coind, <<"block_confirm", d>>)
block_confirm_section(d) == Perhaps(rpc_call(d))

share_add == Hold(g_list_worker, <<"visit", g_list_worker>>) ** Visit(g_list_share)

-----------------------------------------------------------------------------
(* main: one turn of its loop, without renting.                            *)
db_update_coinds == Hold(g_list_coind, <<"db_update_coinds">>)
db_update_coinds_section == ForEach("coind_create_job", Coinds)

object_prune(list) == Hold(list, <<"visit", list>>)

main_turn ==
    Visit(g_list_client) ** Visit(g_list_client)        \* db_update_workers, db_update_algos
    ** db_update_coinds
    ** Visit(g_list_worker) ** Visit(g_list_share)      \* share_write, share_prune
    ** Visit(g_list_block) ** Visit(g_list_submit)      \* block_prune, submit_prune
    ** job_signal
    ** object_prune(g_list_coind) ** object_prune(g_list_remote)
    ** object_prune(g_list_job) ** object_prune(g_list_client)
    ** object_prune(g_list_block) ** object_prune(g_list_worker)
    ** object_prune(g_list_share) ** object_prune(g_list_submit)

-----------------------------------------------------------------------------
(* The job thread, from one pthread_cond_wait to the next.                 *)
job_assign_clients_left(d) == Visit(g_list_client) ** Perhaps(Visit(g_list_client))
                                                        \* job_has_free_client first

job_update ==
    Visit(g_list_client)                                \* job_reset_clients
    ** Hold(g_list_job, <<"job_assign_clients">>)
    ** Hold(g_list_coind, <<"job_assign_clients_left">>)
    ** Hold(g_list_client, <<"clients left over">>)
    ** Hold(g_list_job, <<"job_broadcast">>)

(* job_assign_clients, job_unlock_clients, job_has_free_client and at the  *)
(* end job_unlock_clients again.                                           *)
job_assign_clients_section ==
    Perhaps(Visit(g_list_client) ** Visit(g_list_client) ** Visit(g_list_client))
    ** Visit(g_list_client)

job_assign_clients_left_section ==
    ForEach("job_assign_clients_left", Coinds)
    ** ForEach("job_assign_clients_left", Coinds)
    ** ForEach("job_assign_clients_left", Coinds)

(* A new job of the first daemon between job_reset_clients and             *)
(* job_assign_clients.                                                     *)
clients_left_over_section ==
    Perhaps(UNION {Visit(g_list_client) ** coind_create_job(d) ** Visit(g_list_client) : d \in Coinds})

job_broadcast_section == Perhaps(Visit(g_list_client))

job_thread == Hold(g_job_mutex, <<"job_update">>)

-----------------------------------------------------------------------------
(* The threads of the connections: the messages that lock something.       *)
client_subscribe ==
    Visit(g_nonce1_mutex) ** Perhaps(Visit(g_list_client) ** Perhaps(Visit(g_list_client)))

(* Mutant: the job is still in its list when the client is looked for.     *)
job_get_last_nested == Hold(g_list_job, <<"visit", g_list_client>>)

job_get_last == Visit(g_list_job)
job_send_last == job_get_last ** Perhaps(job_get_last)
job_send_jobid == Visit(g_list_job) ** Perhaps(job_send_last)

client_validate_user_address ==
    Visit(g_list_client) ** Perhaps(Visit(g_list_client))
    ** ForEach("rpc_call", Coinds) ** Perhaps(Visit(g_db_mutex))

(* Mutant: the job is kept in its list until the client is in his.         *)
client_authorize_nested ==
    Visit(g_list_client) ** Perhaps(Hold(g_list_job, <<"visit", g_list_client>>))

(* Already there; or refused, before the database is asked or after it; or *)
(* accepted.                                                               *)
client_authorize ==
    Visit(g_list_client)
    ** Perhaps(Perhaps(Visit(g_db_mutex))
               ** Perhaps(client_validate_user_address)
               ** Perhaps(Visit(g_db_mutex)
                          \cup (job_send_last \cup job_send_jobid) ** Visit(g_list_client)))

(* With an auxiliary coin all coins get a new job.                         *)
client_update_block(d) ==
    Visit(g_list_coind)
    ** Perhaps(block_confirm(d) ** coind_create_job(d)
               ** Perhaps(ForEach("coind_create_job", Coinds)) ** job_signal)

(* The blocks are those of the job's coin and of the auxiliary ones, and   *)
(* block_add links them.                                                   *)
client_submit ==
    Visit(g_list_job) ** Perhaps(Visit(g_list_share))
    ** Perhaps(UNION {rpc_call(d) ** Perhaps(Visit(g_list_block) ** Perhaps(block_confirm(d)))
                         : d \in Coinds})
    ** Perhaps(share_add)

client_store_stats == Visit(g_db_mutex)

client_thread_end == Visit(g_list_client) ** Perhaps(Visit(g_db_mutex))

-----------------------------------------------------------------------------
(* What a thread may start when it has nothing left to do, ...             *)
Programs(t) ==
    CASE t = Main -> main_turn
      [] t = Job -> job_thread
      [] OTHER -> client_subscribe \cup client_authorize \cup client_submit
                     \cup client_store_stats \cup client_thread_end
                     \cup UNION {client_update_block(d) : d \in Coinds}

(* ... what it does with the mutex it has locked for section f, ...        *)
Section(f) ==
    CASE f[1] = "nothing" -> {<<>>}
      [] f[1] = "visit" -> Perhaps(Visit(f[2]))
      [] f[1] = "reconnect" -> Reconnect(f[2])
      [] f[1] = "coind_create_job" -> coind_create_job_section(f[2])
      [] f[1] = "block_confirm" -> block_confirm_section(f[2])
      [] f[1] = "db_update_coinds" -> db_update_coinds_section
      [] f[1] = "job_update" -> job_update
      [] f[1] = "job_assign_clients" -> job_assign_clients_section
      [] f[1] = "job_assign_clients_left" -> job_assign_clients_left_section
      [] f[1] = "clients left over" -> clients_left_over_section
      [] f[1] = "job_broadcast" -> job_broadcast_section

(* ... and in a turn of a loop over daemons.                               *)
Turn(f, d) ==
    CASE f = "coind_create_job" -> coind_create_job(d)
      [] f = "job_assign_clients_left" -> job_assign_clients_left(d)
      [] f = "rpc_call" -> rpc_call(d)

-----------------------------------------------------------------------------
VARIABLES
    at,         \* thread -> the instruction it is at
    todo,       \* thread -> the sequences of instructions that may follow
    owner,      \* mutex -> the thread that owns it, or Nobody
    depth,      \* mutex -> how often its owner has locked it
    forsaken    \* threads that sleep on a mutex that was created anew

vars == <<at, todo, owner, depth, forsaken>>

Idle == <<"idle">>

Init ==
    /\ at = [t \in Threads |-> Idle]
    /\ todo = [t \in Threads |-> {<<>>}]
    /\ owner = [l \in Mutexes |-> Nobody]
    /\ depth = [l \in Mutexes |-> 0]
    /\ forsaken = {}

Does(t, op) == at[t][1] = op
Object(t) == at[t][2]
Locking(t) == Does(t, "hold") \/ Does(t, "visit")

(* A sequence of A comes next, or nothing: t goes to its first instruction,*)
(* and those that begin with it may follow.                                *)
GoOn(t, A) ==
    \/ /\ <<>> \in A
       /\ at' = [at EXCEPT ![t] = Idle]
       /\ todo' = [todo EXCEPT ![t] = {<<>>}]
    \/ \E i \in {Head(s) : s \in A \ {<<>>}} :
          /\ at' = [at EXCEPT ![t] = i]
          /\ todo' = [todo EXCEPT ![t] = {Tail(s) : s \in {r \in A \ {<<>>} : Head(r) = i}}]

start(t) ==
    /\ Does(t, "idle")
    /\ GoOn(t, Programs(t))
    /\ UNCHANGED <<owner, depth, forsaken>>

(* The next daemon of a loop.                                              *)
turn(t) ==
    /\ Does(t, "each")
    /\ \E d \in at[t][3] : GoOn(t, Turn(Object(t), d) ** ForEach(Object(t), at[t][3] \ {d}) ** todo[t])
    /\ UNCHANGED <<owner, depth, forsaken>>

(* All mutexes but g_job_mutex may be locked again by their owner.         *)
MustWait(t) == owner[Object(t)] # Nobody /\ (owner[Object(t)] # t \/ Object(t) = g_job_mutex)

lock(t) ==
    /\ Does(t, "hold") /\ ~MustWait(t) /\ t \notin forsaken
    /\ owner' = [owner EXCEPT ![Object(t)] = t]
    /\ depth' = [depth EXCEPT ![Object(t)] = @ + 1]
    /\ GoOn(t, Section(at[t][3]) ** {<<<<"unlock", Object(t)>>>>} ** todo[t])
    /\ UNCHANGED forsaken

visit(t) ==
    /\ Does(t, "visit") /\ ~MustWait(t)
    /\ GoOn(t, todo[t])
    /\ UNCHANGED <<owner, depth, forsaken>>

(* The unlock of somebody else's recursive mutex does nothing.             *)
(* One that somebody waits for may wake a forsaken thread instead of him.  *)
unlock(t) ==
    /\ Does(t, "unlock")
    /\ LET l == Object(t)
           waiting == {u \in Threads : Does(u, "hold") /\ Object(u) = l}
       IN  IF owner[l] # t
           THEN UNCHANGED <<owner, depth, forsaken>>
           ELSE /\ depth' = [depth EXCEPT ![l] = @ - 1]
                /\ owner' = [owner EXCEPT ![l] = IF depth[l] = 1 THEN Nobody ELSE t]
                /\ \/ UNCHANGED forsaken
                   \/ /\ depth[l] = 1 /\ waiting \ forsaken # {}
                      /\ \E u \in waiting \cap forsaken : forsaken' = forsaken \ {u}
    /\ GoOn(t, todo[t])

(* rpc_connect destroys the mutex and creates it again, whoever owns it,   *)
(* and those that sleep on it may be left sleeping.                        *)
rpc_connect(t) ==
    /\ Does(t, "reconnect")
    /\ LET l == rpc_mutex(Object(t))
           asleep == {u \in Threads : Does(u, "hold") /\ Object(u) = l /\ MustWait(u)}
       IN  /\ owner' = [owner EXCEPT ![l] = Nobody]
           /\ depth' = [depth EXCEPT ![l] = 0]
           /\ \E left \in SUBSET asleep : forsaken' = forsaken \cup left
    /\ GoOn(t, todo[t])

Step(t) == start(t) \/ turn(t) \/ lock(t) \/ visit(t) \/ unlock(t) \/ rpc_connect(t)

Next == \E t \in Threads : Step(t)

Spec == Init /\ [][Next]_vars

(* Each thread runs on, daemons answer or hang up, and a mutex that is     *)
(* unlocked again and again is given to everyone who waits for it.         *)
Fairness == \A t \in Threads : SF_vars(Step(t))

FairSpec == Spec /\ Fairness

-----------------------------------------------------------------------------
(* The code locks in the order of LockOrder: what a thread owns, and what  *)
(* it waits for.                                                           *)
held == [t \in Threads |-> {l \in Mutexes : owner[l] = t}]
wants ==
    [t \in Threads |->
        IF Locking(t) /\ (owner[Object(t)] # t \/ Object(t) = g_job_mutex)
        THEN Object(t)
        ELSE <<"none">>]

LO == INSTANCE LockOrder

(* The nested locks of job_update and coind_create_job (job.cpp:259-341,   *)
(* coind_template.cpp:623-729), of block_confirm (share.cpp:243-290) and   *)
(* of the rest follow one order, from which Locks_proofs shows that    *)
(* nobody waits in a circle.                                               *)
KeepsOrder == LO!Spec

(* No threads wait for each other in a circle (job.cpp:296-320).           *)
NoCircularWait == LO!NoCircularWait

(* Turns of the main loop end (stratum.cpp:348-384), unless a reconnection *)
(* has left a thread asleep on the mutex it destroyed (rpc.cpp:36-50).     *)
TurnsEnd == []<>Does(Main, "idle") \/ <>(forsaken # {})
=============================================================================
