----------------------------- MODULE JobUpdate -----------------------------
(***************************************************************************)
(* job_update: which miner is given which job, and what is broadcast.      *)
(* job.cpp and job_core.cpp for the jobs of coin daemons (jobs of remote   *)
(* stratums are not modelled), job_broadcast and job_send_last of          *)
(* job_send.cpp, and the steps of coind_create_job they interleave with.   *)
(*                                                                         *)
(* job_update runs on job_thread, again and again (JobSignal says when);   *)
(* jobs are created on other threads and by job_update itself, miners join *)
(* and leave, daemons' RPC connections come and go.  A miner's speed is 1; *)
(* clients are in no particular order in g_list_client.  One call of       *)
(* job_assign_clients is one step: it holds g_list_client's mutex.         *)
(***************************************************************************)
EXTENDS Integers, Sequences, FiniteSets

CONSTANTS
    Coinds,         \* coin daemons, or the id of their coin
    NoCoin,         \* the coinid of a miner whose account has no coin
    Clients,        \* connections that authorize as miners
    coinid,         \* client -> client->coinid
    Residents,      \* bound: clients that are there from the start and stay
    maxspeed,       \* the speed job_assign_clients gives to one job
    MaxHistory,     \* YAAMP_JOB_MAXHISTORY
    MaxJob          \* bound: how many jobs job_get_jobid hands out

JobIds == 1..MaxJob
NoJob == 0
Max3Passes == 3         \* calls of job_assign_clients_left
nethash100 == 100 * maxspeed

ASSUME ConstantsAssumption ==
    /\ NoCoin \notin Coinds /\ IsFiniteSet(Coinds)
    /\ coinid \in [Clients -> Coinds \cup {NoCoin}]
    /\ Residents \subseteq Clients
    /\ maxspeed \in Nat \ {0} /\ MaxHistory \in Nat \ {0} /\ MaxJob \in Nat

VARIABLES
    g_list_job,     \* the jobs linked in g_list_job
    deleted,        \* the jobs flagged by object_delete
    coind,          \* job -> its coind field, NoCoin while NULL
    lastid,         \* the static counter of job_get_jobid
    coind_job,      \* daemon -> coind->job
    creating,       \* daemon -> how far a running coind_create_job is
    connected,      \* the daemons for which coind_can_mine holds
    status,         \* client -> "new", "sent" its first job, "listed", "gone"
    jobid_next, jobid_sent, job_history,    \* fields of YAAMP_CLIENT
    job_pc,         \* program point of job_thread
    to_visit,       \* what its current loop has left to visit
    pass,           \* the current call of job_assign_clients_left
    resort_coind,   \* the daemon asked for a job when clients have none
    crashed,        \* NULL was dereferenced
    told,           \* history: client -> jobs broadcast to it, newest first
    entitled        \* history: clients whose own coin could be mined all along

jobVars == <<g_list_job, deleted, coind, lastid, coind_job, creating>>
clientVars == <<status, jobid_next, jobid_sent, job_history, told>>
threadVars == <<job_pc, to_visit, pass, resort_coind>>
vars == <<jobVars, connected, clientVars, threadVars, crashed, entitled>>

Init ==
    /\ g_list_job = {}
    /\ deleted = {}
    /\ coind = [j \in JobIds |-> NoCoin]
    /\ lastid = 0
    /\ coind_job = [d \in Coinds |-> NoJob]
    /\ creating = [d \in Coinds |-> "no"]
    /\ connected = Coinds
    /\ status = [c \in Clients |-> IF c \in Residents THEN "listed" ELSE "new"]
    /\ jobid_next = [c \in Clients |-> NoJob]
    /\ jobid_sent = [c \in Clients |-> NoJob]
    /\ job_history = [c \in Clients |-> <<>>]
    /\ told = [c \in Clients |-> <<>>]
    /\ job_pc = "wait"
    /\ to_visit = {}
    /\ pass = 1
    /\ resort_coind = NoCoin
    /\ crashed = FALSE
    /\ entitled = {}

Seen(history) == {history[i] : i \in 1..Len(history)}

job_can_mine(j) == j \notin deleted /\ coind[j] \in connected

(* The mutexes job_thread holds between two of its steps.                  *)
g_list_job_free == job_pc \notin {"assign", "broadcast"}
g_list_client_free == job_pc \notin {"resort_create", "resort_link", "resort_assign"}

-----------------------------------------------------------------------------
(* coind_create_job, for a template that differs from the last one.        *)

BeginJob(d) ==
    /\ creating[d] = "no"
    /\ d \in connected
    /\ lastid + Cardinality({e \in Coinds : creating[e] = "flagged"}) < MaxJob
    /\ creating' = [creating EXCEPT ![d] = "flagged"]
    /\ deleted' = deleted \cup ({coind_job[d]} \ {NoJob})
    /\ entitled' = {c \in entitled : coinid[c] # d}
    /\ UNCHANGED <<g_list_job, coind, lastid, coind_job>>

(* On the thread of a notifying connection or the main thread.             *)
coind_create_job(d) ==
    /\ BeginJob(d)
    /\ UNCHANGED <<connected, clientVars, threadVars, crashed>>

(* Mutant: job_get_jobid does not keep the id it returns.                  *)
coind_new_job_not_counted(d) ==
    /\ creating[d] = "flagged"
    /\ coind_job' = [coind_job EXCEPT ![d] = lastid + 1]
    /\ creating' = [creating EXCEPT ![d] = "bare"]
    /\ UNCHANGED <<g_list_job, deleted, lastid, coind, connected, clientVars, threadVars,
                   crashed, entitled>>

(* coind->job = new YAAMP_JOB, its id and its template.                    *)
coind_new_job(d) ==
    /\ creating[d] = "flagged"
    /\ lastid' = lastid + 1
    /\ coind_job' = [coind_job EXCEPT ![d] = lastid + 1]
    /\ creating' = [creating EXCEPT ![d] = "bare"]
    /\ UNCHANGED <<g_list_job, deleted, coind, connected, clientVars, threadVars,
                   crashed, entitled>>

(* job->coind = coind.                                                     *)
coind_fill_job(d) ==
    /\ creating[d] = "bare"
    /\ coind' = [coind EXCEPT ![coind_job[d]] = d]
    /\ creating' = [creating EXCEPT ![d] = "filled"]
    /\ UNCHANGED <<g_list_job, deleted, lastid, coind_job, connected, clientVars,
                   threadVars, crashed, entitled>>

(* g_list_job.AddTail, and the unlock of coind->mutex.                     *)
coind_link_job(d) ==
    /\ creating[d] = "filled"
    /\ g_list_job_free
    /\ g_list_job' = g_list_job \cup {coind_job[d]}
    /\ creating' = [creating EXCEPT ![d] = "no"]
    /\ UNCHANGED <<deleted, coind, lastid, coind_job, connected, clientVars, threadVars,
                   crashed, entitled>>

(* rpc_connected turns false or true again.                                *)
rpc_flap(d) ==
    /\ connected' = IF d \in connected THEN connected \ {d} ELSE connected \cup {d}
    /\ entitled' = {c \in entitled : coinid[c] # d}
    /\ UNCHANGED <<jobVars, clientVars, threadVars, crashed>>

-----------------------------------------------------------------------------
(* Client threads.                                                         *)

(* job_send_last from client_authorize: the first mineable job of the      *)
(* miner's coin, else of any coin, else nothing.                           *)
job_send_last(c) ==
    LET mineable == {j \in g_list_job : job_can_mine(j)}
        own == {j \in mineable : coind[j] = coinid[c]}
        jobs == IF own # {} THEN own ELSE mineable
    IN  /\ status[c] = "new"
        /\ g_list_job_free
        /\ \E j \in IF jobs = {} THEN {NoJob} ELSE jobs :
              jobid_sent' = [jobid_sent EXCEPT ![c] = j]
        /\ status' = [status EXCEPT ![c] = "sent"]
        /\ UNCHANGED <<jobVars, connected, jobid_next, job_history, told, threadVars,
                       crashed, entitled>>

(* g_list_client.AddTail(client), the end of client_authorize.             *)
client_authorize(c) ==
    /\ status[c] = "sent"
    /\ g_list_client_free
    /\ status' = [status EXCEPT ![c] = "listed"]
    /\ UNCHANGED <<jobVars, connected, jobid_next, jobid_sent, job_history, told,
                   threadVars, crashed, entitled>>

(* object_delete(client): the connection ends, or job_broadcast has failed *)
(* to send to it three times (right after setting jobid_sent).             *)
client_gone(c) ==
    /\ status[c] = "listed"
    /\ c \notin Residents
    /\ status' = [status EXCEPT ![c] = "gone"]
    /\ entitled' = entitled \ {c}
    /\ UNCHANGED <<jobVars, connected, jobid_next, jobid_sent, job_history, told,
                   threadVars, crashed>>

-----------------------------------------------------------------------------
(* job_thread.                                                             *)

(* Mutant: the walk through the history starts behind its end.             *)
client_find_job_history_nothing(c, j) == FALSE

(* client_find_job_history(client, jobid), which skips the latest entry.   *)
client_find_job_history(c, j) ==
    job_history[c] # <<>> /\ j \in Seen(Tail(job_history[c]))

(* Mutant: the clients keep the jobs of the last time.                     *)
job_update_no_reset ==
    /\ job_pc = "wait"
    /\ job_pc' = "assign"
    /\ to_visit' = g_list_job
    /\ UNCHANGED <<jobVars, connected, clientVars, pass, resort_coind, crashed, entitled>>

(* job_reset_clients and the start of the walk through g_list_job.         *)
job_update ==
    /\ job_pc = "wait"
    /\ jobid_next' = [c \in Clients |-> IF status[c] = "listed" THEN NoJob ELSE jobid_next[c]]
    /\ entitled' = {c \in Clients :
                        /\ status[c] = "listed"
                        /\ coinid[c] \in connected
                        /\ creating[coinid[c]] = "no"
                        /\ coind_job[coinid[c]] # NoJob
                        /\ ~client_find_job_history(c, coind_job[coinid[c]])}
    /\ job_pc' = "assign"
    /\ to_visit' = g_list_job
    /\ UNCHANGED <<jobVars, connected, status, jobid_sent, job_history, told, pass,
                   resort_coind, crashed>>

(* The clients that pass the first conditions of job_assign_client.        *)
Free(j) ==
    {c \in Clients : /\ status[c] = "listed"
                     /\ jobid_next[c] = NoJob
                     /\ ~client_find_job_history(c, j)}

(* Mutant: job_assign_client forgets "not the right coin".                 *)
FreeOfCoin_any_coin(j, d) == Free(j)

(* ... and are on the job's coin: without g_autoexchange a job with a      *)
(* speed limit goes to no other miner.                                     *)
FreeOfCoin(j, d) == {c \in Free(j) : coinid[c] = d}

Give(j, S) == jobid_next' = [c \in Clients |-> IF c \in S THEN j ELSE jobid_next[c]]

(* job_assign_client for every client of E, until the job has the speed    *)
(* limit, speed of which it had before.                                    *)
AssignUpTo(j, E, speed, limit) ==
    \E S \in SUBSET E :
        /\ Cardinality(S) + speed <= limit
        /\ S = E \/ Cardinality(S) + speed = limit
        /\ Give(j, S)

(* One job of the first loop: job_assign_clients(job, job->maxspeed).      *)
job_assign_clients(j) ==
    /\ job_pc = "assign"
    /\ j \in to_visit
    /\ to_visit' = to_visit \ {j}
    /\ IF job_can_mine(j) THEN AssignUpTo(j, FreeOfCoin(j, coind[j]), 0, maxspeed)
       ELSE UNCHANGED jobid_next
    /\ UNCHANGED <<jobVars, connected, status, jobid_sent, job_history, told, job_pc,
                   pass, resort_coind, crashed, entitled>>

(* The first loop ends, or one of the three walks through g_list_coind.    *)
next_loop ==
    /\ job_pc \in {"assign", "left"}
    /\ to_visit = {}
    /\ IF job_pc = "left" /\ pass = Max3Passes
       THEN job_pc' = "resort" /\ pass' = 1 /\ UNCHANGED to_visit
       ELSE /\ job_pc' = "left"
            /\ to_visit' = Coinds
            /\ pass' = IF job_pc = "assign" THEN 1 ELSE pass + 1
    /\ UNCHANGED <<jobVars, connected, clientVars, resort_coind, crashed, entitled>>

(* One daemon of job_assign_clients_left.  Its current job need not be in  *)
(* g_list_job; if it has no coind yet, job->coind->id reads through NULL.  *)
job_assign_clients_left(d) ==
    LET j == coind_job[d]
        E == FreeOfCoin(j, d)
    IN  /\ job_pc = "left"
        /\ d \in to_visit
        /\ to_visit' = to_visit \ {d}
        /\ IF d \notin connected \/ j = NoJob \/ E = {}
           THEN UNCHANGED <<jobid_next, crashed>>
           ELSE IF creating[d] = "bare"
           THEN crashed' = TRUE /\ UNCHANGED jobid_next
           ELSE /\ AssignUpTo(j, E, Cardinality({c \in Clients : jobid_next[c] = j}), nethash100)
                /\ UNCHANGED crashed
        /\ UNCHANGED <<jobVars, connected, status, jobid_sent, job_history, told, job_pc,
                       pass, resort_coind, entitled>>

(* "clients with no job": the first daemon of g_list_coind gets a new job. *)
(* Its clients are reset (all clients, if it has no job yet: job_reset_    *)
(* clients(NULL)).                                                         *)
resort(d) ==
    /\ job_pc = "resort"
    /\ \E c \in Clients : status[c] = "listed" /\ jobid_next[c] = NoJob
    /\ jobid_next' = [c \in Clients |->
            IF status[c] = "listed" /\ coind_job[d] \in {NoJob, jobid_next[c]}
            THEN NoJob ELSE jobid_next[c]]
    /\ entitled' = IF coind_job[d] = NoJob THEN {} ELSE entitled
    /\ resort_coind' = d
    /\ job_pc' = "resort_create"
    /\ UNCHANGED <<jobVars, connected, status, jobid_sent, job_history, told, to_visit,
                   pass, crashed>>

(* coind_create_job(coind, true), on this thread ...                       *)
resort_create ==
    /\ job_pc = "resort_create"
    /\ BeginJob(resort_coind)
    /\ job_pc' = "resort_link"
    /\ UNCHANGED <<connected, clientVars, to_visit, pass, resort_coind, crashed>>

(* ... which returns once the job is linked; or returns false: no RPC, no  *)
(* template.                                                               *)
resort_created ==
    /\ \/ job_pc = "resort_link" /\ creating[resort_coind] = "no"
       \/ /\ job_pc = "resort_create"
          /\ creating[resort_coind] = "no" \/ resort_coind \notin connected
    /\ job_pc' = "resort_assign"
    /\ UNCHANGED <<jobVars, connected, clientVars, to_visit, pass, resort_coind, crashed,
                   entitled>>

(* job_assign_clients(coind->job, -1): no limit, any coin.                 *)
resort_assign ==
    LET j == coind_job[resort_coind]
    IN  /\ job_pc = "resort_assign"
        /\ IF j = NoJob THEN UNCHANGED jobid_next ELSE Give(j, Free(j))
        /\ job_pc' = "broadcast"
        /\ to_visit' = g_list_job
        /\ resort_coind' = NoCoin
        /\ UNCHANGED <<jobVars, connected, status, jobid_sent, job_history, told, pass,
                       crashed, entitled>>

(* Every client has a job.                                                 *)
no_resort ==
    /\ job_pc = "resort"
    /\ \A c \in Clients : status[c] = "listed" => jobid_next[c] # NoJob
    /\ job_pc' = "broadcast"
    /\ to_visit' = g_list_job
    /\ UNCHANGED <<jobVars, connected, clientVars, pass, resort_coind, crashed, entitled>>

(* client_add_job_history: the newest MaxHistory jobs, each once.          *)
client_add_job_history(c, j) ==
    IF j \in Seen(job_history[c]) THEN job_history[c]
    ELSE SubSeq(<<j>> \o job_history[c], 1,
                IF Len(job_history[c]) < MaxHistory THEN Len(job_history[c]) + 1 ELSE MaxHistory)

(* The clients job_broadcast sends the job to.                             *)
Receivers(j) ==
    {c \in Clients : status[c] = "listed" /\ jobid_next[c] = j /\ jobid_sent[c] # j}

job_broadcast(j) ==
    /\ job_pc = "broadcast"
    /\ j \in to_visit
    /\ to_visit' = to_visit \ {j}
    /\ LET R == IF job_can_mine(j) THEN Receivers(j) ELSE {}
       IN  /\ jobid_sent' = [c \in Clients |-> IF c \in R THEN j ELSE jobid_sent[c]]
           /\ job_history' = [c \in Clients |-> IF c \in R THEN client_add_job_history(c, j)
                                                ELSE job_history[c]]
           /\ told' = [c \in Clients |-> IF c \in R THEN <<j>> \o told[c] ELSE told[c]]
    /\ UNCHANGED <<jobVars, connected, status, jobid_next, job_pc, pass, resort_coind,
                   crashed, entitled>>

(* pthread_cond_wait.                                                      *)
job_update_done ==
    /\ job_pc = "broadcast"
    /\ to_visit = {}
    /\ job_pc' = "wait"
    /\ entitled' = {}
    /\ UNCHANGED <<jobVars, connected, clientVars, to_visit, pass, resort_coind, crashed>>

-----------------------------------------------------------------------------
CreateSteps(d) == coind_new_job(d) \/ coind_fill_job(d) \/ coind_link_job(d)

job_thread ==
    \/ job_update
    \/ \E j \in JobIds : job_assign_clients(j) \/ job_broadcast(j)
    \/ next_loop
    \/ \E d \in Coinds : job_assign_clients_left(d) \/ resort(d)
    \/ resort_create
    \/ resort_created
    \/ resort_assign
    \/ no_resort
    \/ job_update_done

Next ==
    /\ ~crashed
    /\ \/ \E d \in Coinds : coind_create_job(d) \/ CreateSteps(d) \/ rpc_flap(d)
       \/ \E c \in Clients : job_send_last(c) \/ client_authorize(c) \/ client_gone(c)
       \/ job_thread

Spec == Init /\ [][Next]_vars

(* The job thread is signalled again and again (by the main loop at the    *)
(* latest), and a creation or an authorization that has begun goes on.     *)
(* Nothing is assumed of new templates, of miners or of RPC connections.   *)
Fairness ==
    /\ WF_vars(~crashed /\ job_thread)
    /\ \A d \in Coinds : SF_vars(~crashed /\ CreateSteps(d))
    /\ \A c \in Clients : SF_vars(~crashed /\ client_authorize(c))

FairSpec == Spec /\ Fairness

-----------------------------------------------------------------------------
TypeOK ==
    /\ g_list_job \subseteq 1..lastid /\ deleted \subseteq 1..lastid
    /\ coind \in [JobIds -> Coinds \cup {NoCoin}]
    /\ lastid \in 0..MaxJob
    /\ coind_job \in [Coinds -> 0..lastid]
    /\ creating \in [Coinds -> {"no", "flagged", "bare", "filled"}]
    /\ connected \subseteq Coinds
    /\ status \in [Clients -> {"new", "sent", "listed", "gone"}]
    /\ {jobid_next, jobid_sent} \subseteq [Clients -> 0..lastid]
    /\ \A c \in Clients :
          /\ Len(job_history[c]) = Cardinality(Seen(job_history[c]))
          /\ Len(job_history[c]) <= MaxHistory
          /\ Seen(job_history[c]) \subseteq Seen(told[c]) \cap g_list_job
    /\ job_pc \in {"wait", "assign", "left", "resort", "resort_create", "resort_link",
                   "resort_assign", "broadcast"}
    /\ to_visit \subseteq (IF job_pc = "left" THEN Coinds ELSE g_list_job)
    /\ pass \in 1..Max3Passes
    /\ resort_coind \in Coinds \cup {NoCoin}
    /\ crashed \in BOOLEAN
    /\ entitled \subseteq Clients

(* A miner's jobs move forward (job.cpp:19, client_core.cpp:248-283,       *)
(* job_send.cpp:177-178): a broadcast never takes it back to a job of the  *)
(* same coin that is not newer than one broadcast to it before, whatever   *)
(* jobs of other coins came between, as long as these were not so many     *)
(* that the job's entry has left the history.                              *)
ForwardOnly ==
    [][\A c \in Clients : told'[c] # told[c] =>
          \A i \in DOMAIN told[c] :
             coind[told[c][i]] = coind[told'[c][1]] =>
                told[c][i] < told'[c][1] \/ i > MaxHistory]_vars

(* A miner stays on its coin (job.cpp:21-25, 208-218): if the coin could   *)
(* be mined throughout a job_update and its job was not one the miner had  *)
(* been moved away from, this job_update broadcasts no other coin's job to *)
(* the miner.                                                              *)
StaysOnCoin ==
    [][\A c \in entitled : told'[c] # told[c] => coind[told'[c][1]] = coinid[c]]_vars

(* A job has a coind or a remote, "either one of them" (job.h:84-86): the  *)
(* job thread is never handed one that has neither.                        *)
EitherOneOfThem == ~crashed

Served(c) ==
    LET j == coind_job[coinid[c]]
    IN  \/ j \in {NoJob, jobid_sent[c]}
        \/ client_find_job_history(c, j)

(* job_reset_clients(NULL): the first daemon of the list has never had a   *)
(* job, and takes all clients' assignments away.                           *)
AllReset == job_pc = "resort_create" /\ coind_job[resort_coind] = NoJob

(* A miner that stays, on a coin that can be mined, ends up with the       *)
(* newest job of its coin (job.cpp:259-342), unless that is a job it was   *)
(* moved away from before, or all clients are reset again and again        *)
(* because another one's coin cannot be mined and the daemon at the head   *)
(* of the list never had a job (job.cpp:313).                              *)
EveryMinerServed ==
    \A c \in {m \in Clients : coinid[m] # NoCoin} :
        <>[](~crashed /\ status[c] = "listed" /\ coinid[c] \in connected)
            => <>[]Served(c) \/ []<>AllReset
=============================================================================
