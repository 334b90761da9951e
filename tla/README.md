# A TLA+ model of the yiimp stratum server

This directory holds a formal model of the stratum mining-pool server in `src/`:
TLA+ modules translated from its C++ code, configurations that model-check them
with TLC on small instances, and theorems about them with proofs checked by
TLAPS. Line references are to the files of `src/`.

- [1. The system](#1-the-system): inventory of components, state, operations, interactions
- [2. What is hard in it](#2-what-is-hard-in-it)
- [3. The modules and the code they stand for](#3-the-modules-and-the-code-they-stand-for)
- [4. The runs, their bounds and what they show](#4-the-runs-their-bounds-and-what-they-show)
- [5. Fairness](#5-fairness)
- [6. What is proved](#6-what-is-proved)
- [7. Disagreements found while modelling](#7-disagreements-found-while-modelling)
- [8. What is not modelled, and why](#8-what-is-not-modelled-and-why)
- [9. Plan](#9-plan)

`PROJECT.json` has the same in tabular form: the components, the runs with their
properties, for every property a mutation of the model it catches, the source
lines of every definition, the hazards and the properties that watch them.

## 1. The system

One process serves one mining algorithm. It speaks the stratum protocol with
miners, gets block templates from coin daemons by RPC, and keeps its books in a
MySQL database that the rest of the pool reads.

### Threads

| thread | code | what it does |
|---|---|---|
| main | `main`, stratum.cpp:348-384 | every 20 seconds: database upkeep, `share_write`, the prune functions, `job_signal`, then `object_prune` on every list: the only place where a shared object is freed |
| job thread | `job_thread`, job.cpp:228-342 | waits on `g_job_cond`, then runs `job_update`: assigns jobs to clients and broadcasts them |
| stratum thread | `stratum_thread`, stratum.cpp:430-483 | accepts connections, one detached thread each |
| client threads | `client_thread`, client.cpp:527-686 | read JSON lines of one connection: subscribe, authorize, submit, and `mining.update_block` from the daemons' `blocknotify` |
| remote threads | `remote_thread`, remote.cpp | renting: a session with another pool (dead in the default build, see section 8) |
| monitor | `monitor_thread`, stratum.cpp | ends the process when nothing has been broadcast for too long |

### Components

**Objects and lists** (object.cpp, list.cpp). Every shared thing (job, client,
share, block, coin daemon, remote, worker record, submission) is a `YAAMP_OBJECT`
with `lock_count`, `unlock` and `deleted`, in a doubly linked list with a mutex.
`object_delete` only sets `deleted`; `object_prune`, called by main alone, frees
what is flagged and not counted. *Correct if* no thread uses an object after it
was freed, and whatever is flagged is freed in the end.

**Jobs** (coind_template.cpp, job.cpp, job_core.cpp, job_send.cpp). Each coin
daemon has a current job; `coind_create_job` makes a new one when the template
changed, flags the old one, and links the new one in `g_list_job`. `job_update`
gives each client a job (`jobid_next`) and broadcasts jobs to clients that have
not got them (`jobid_sent`, `job_history`). *Correct if* a miner is never sent
back to an old job of a coin, stays on its own coin while that can be mined, and
always ends up with the newest job; and if no new block goes unnoticed.

**Submissions and shares** (client_submit.cpp, share.cpp). The handler finds the
job, counts itself in, checks the share, looks for a duplicate in `g_list_share`,
verifies it, submits it as a block when it is good enough, credits the worker
record and links the share. *Correct if* no share is credited twice.

**Blocks** (coind_submit.cpp, share.cpp, client.cpp). A block the daemon accepted
is linked in `g_list_block`; it is confirmed when its hash is announced by
`blocknotify`; `block_prune` writes confirmed blocks to the table `blocks` and
drops those not confirmed within 30 seconds. *Correct if* no block gets two rows
or a row without the announced hash, and every confirmed block gets one unless the process ends first.

**Clients** (client.cpp, client_core.cpp, user.cpp). A connection's session:
subscribe (with an optional session to resume), authorize, submit, leave; the
row of the table `workers` that stands for it; being told to reconnect; being
thrown out for not reading or for a decayed speed. *Correct if* the object is freed once, by
the right thread, and the row goes when the client goes, but for the ways of orphaning it that one can name.

**Variable difficulty** (client_difficulty.cpp). The difficulty of a client
follows its share rate at each broadcast. *Correct if* it settles, at a useful
rate, and if shares are measured at the difficulty the miner was told.

**Coin daemons** (coind.cpp, coind_aux.cpp, coind_template.cpp, coinbase.cpp,
merkle.cpp, rpc.cpp, rpc_curl.cpp): configuration from the database, templates,
merged mining, coinbase transactions, merkle branches, RPC over a connection with
a mutex. An error in an RPC flags the daemon's object; main frees it and connects a
new one. *Correct if* who counts itself in on the object can go on using it, only jobs of the
living object are mined, and the coin is mined again after errors.

**Accounting** (share.cpp:`share_add_worker`, `share_write`; user.cpp; db.cpp:`db_query`): a record
(`YAAMP_WORKER`) per worker, coin and validity sums up difficulty; main writes the records to the table `shares`
every round and starts new ones. A statement whose connection breaks is sent again. *Correct if* every
credited share is written once, on its miner's row, or lost for a reason one can name.

**Mutexes** (list.cpp, util.cpp, rpc.cpp): one per list, per daemon, per RPC connection, and four of their own;
nested in main's loop, in `job_update` and in the messages of the connections. *Correct if* nobody waits in a circle.

**Targets** (util.cpp): conversions between targets and difficulties.
**Remotes** (remote.cpp, remote_template.cpp): renting hash power to other pools.
**Sockets** (socket.cpp): lines of JSON. **Database** (db.cpp): queries, the
configuration of coins, algorithms and remotes. **Hash algorithms** (algos/,
sha3/): cryptography.

### Interactions

- Client threads and the coin daemons' notify connections create jobs, under
  `coind->mutex`, and signal the job thread; main does the same once per round.
- The job thread reads `g_list_job`, `g_list_coind` and, under its mutex,
  `g_list_client`; it writes to the clients' sockets while their own threads read.
- Client threads count themselves in on jobs; main frees jobs; the two share
  only the list's mutex, and not even that when counting out.
- The submitter of a block and the connection that announces it meet in
  `g_list_block` and in `coind->lastnotifyhash`.
- Main and client threads both write the table `workers`, from their own database
  connections (`db` of main, the shared `g_db` of the rest).

## 2. What is hard in it

The code has no unit tests of these parts, and the threads share memory almost
without locks. `PROJECT.json` lists each hazard at its line; in short:

- the reference counts are plain `++` and `--`, the latter under no lock
  (object.cpp:26-36);
- objects are flagged by one thread, used by a second and freed by a third, and
  two of the flaggers (job.cpp, user.cpp) do not know whether the owner still runs;
- the duplicate test and the recording of a share are apart, with pruning between;
- announcement and submission of a block race, and one field holds the last
  announcement of all;
- the database connection of the client threads has one "last insert id" for all of them, and one of its
  users does not lock it; statements are repeated, dropped at shutdown, or die with the process;
- mutexes nest over five levels, and the innermost is destroyed and created again while others may wait for it;
- a condition variable forgets signals; shutdown happens by a flag that threads
  look at in their own time;
- a daemon's object is freed and replaced after an error, while the job thread and
  submitters reach it by pointers that nobody counts; a connection that could not be
  renewed once is never renewed;
- a job is published in `coind->job` before it is filled in
  (coind_template.cpp:708-721);
- the assignment of jobs has four passes with limits, interleaved with the
  creation of jobs, daemons going away and miners joining;
- difficulties are rounded after they are compared with their limits.

## 3. The modules and the code they stand for

| module | stands for | state |
|---|---|---|
| `JobRefs` | object.cpp; share.cpp:78-176; client_submit.cpp:401-419, 643-877; coind_template.cpp:623-729; stratum.cpp:348-384 | the list of jobs and its mutex, flags and counts, shares, a program point per thread |
| `Blocks` | client_submit.cpp:334-374; coind_submit.cpp; share.cpp:180-307; client.cpp:300-351; db.cpp:79-116; stratum.cpp:348-424, 471-479; config.sample/run.sh | the list of blocks, flags, `lastnotifyhash`, the statement under way, the table, `g_exiting` |
| `Ledger` | the promise behind the table `blocks`; no code of its own | accepted, announced, rows |
| `Clients` | client.cpp:25-133, 204-296, 527-686; client_core.cpp:25-43; user.cpp:160-234; db.cpp:91-116; job.cpp:109-126; job_send.cpp:156-206; stratum.cpp:348-424, 471-479; config.sample/run.sh | the list of clients, flags and locks, the table `workers`, the last insert id, `g_exiting` |
| `JobSignal` | job.cpp:228-257; client.cpp:337-349; stratum.cpp:348-394, 430-483 | the mutex and condition variable, `g_exiting`, program points |
| `JobUpdate` | job.cpp:1-226, 259-342; job_core.cpp; job_send.cpp; client_core.cpp:248-283; coind_template.cpp:623-729 | jobs, assignments, histories, the walk under way |
| `Coinds` | db.cpp:196-208, 271-443; coind.cpp; coind.h:83-90; rpc.cpp:116-240; coind_template.cpp:233-382, 623-729; client.cpp:300-351; job.cpp:297-320; coind_submit.cpp | the objects of a coin's daemon, their sockets, mutexes, flags and jobs, the coin's row, program points |
| `Accounting` | share.cpp:12-76, 117-159; user.cpp:160-222; db.cpp:79-116; client.cpp:250-270, 669-684; job_send.cpp:187-198; stratum.cpp:348-424; config.sample/run.sh | records and their mutex, the statement under way, the table, ids of the workers' rows, `g_exiting` |
| `Mutexes`, `Locks` | what main, the job thread and every message of a connection lock (files of the threads above; list.cpp, rpc.cpp:4-61, 119-240) | the instruction each thread is at, what may follow it; owner and depth of each mutex; who sleeps on a destroyed one |
| `LockOrder` | the order behind `Locks`; no code of its own | who holds what, who waits for what |
| `Vardiff` | client_difficulty.cpp; client.cpp:4-17, 25-124, 247-295 | one miner's difficulty, its share rate, what it was told |

`MC<module>` instantiates a module for TLC, `<module>_proofs` holds its theorems; those of `JobSignal` and
`Vardiff`, the signals to the job thread and the difficulties it gives to miners, are in `JobThread_proofs`, those of `LockOrder` in `Locks_proofs`.
Definitions keep the names of the C++ functions they stand for; when a function
takes several steps, the steps are named after what they do. A step ends where
another thread can see or change something the function reads or writes next:
at a lock or an unlock, or between a load and a store under no lock.

**JobRefs.** A client thread runs the submit handler from `object_find` to
`object_unlock`. `lock_count++` is `object_find` (the load, together with the
walk that finds the job) followed by `object_lock` (the store), with the list's mutex held
in between; `lock_count--` is `object_unlock` and `object_unlock_store`, with
nothing held. The history variable `lost` becomes true when a store overwrites an
update made since its load. After that the counts mean nothing; the properties
say what holds until then, and so name the only way things go wrong. The
creator of jobs is two steps, since other threads look at the flagged old job
while the new one is not there yet. Main walks the list job by job. Shares
are (job, connection, nonce); ntime and extranonce2 are part of the nonce.
Verification of the proof of work is a choice.

**Blocks.** Submitter, notifier and main, each split where it can be
interrupted. The daemon may accept a block and its answer get lost: then the block counts as rejected. A notifier that finds no
object of the daemon gives up (`object_find_none`); otherwise it writes `lastnotifyhash` and runs `block_confirm`, in which
`hash_copied` and `confirmed` are separate steps without a lock, so that `block_prune` may come between them. For the coins
of `PowHashed`, whose proof-of-work hash is not their block hash, the hash that `client_do_submit` compares with `lastnotifyhash` is
not the one that the daemon announces, and `block_confirm` asks the daemon (`getblock`) for the hash to look for; without an answer it
finds nothing. `db_query` sends a statement again when the connection broke after it
was executed (`db_answer_lost`), and gives it up once `g_exiting` is set (`db_query_exiting`), though `block_prune` has flagged its
blocks already. The process ends by `main_returns`, by exit(1) in `db_query` (`db_query_fails`), or at any time (`process_dies`), and run.sh
starts it again; `lost` are the blocks without a row that went with it or with a statement given up. `Ledger` is the abstract
specification: a block is accepted, its hash announced,
then it may get a row, and a second one only while the statement is `unanswered`. A step
of `Blocks` is a step of `Ledger` or leaves its variables alone; `unanswered` is, through the mapping, the statement
under way once an answer was lost.

**Clients.** A connection's thread and the three others that touch its object:
the job thread (told to reconnect, thrown out), main (thrown out, pruned) and the
thread of a connection that resumes its session. `find_self` to `delete_self`
are the end of `client_thread`, where the list decides who frees the object. A miner may subscribe at any time, also when its
client is linked (client.cpp:602 does not ask), and takes over the `workerid` of a client that was told to reconnect; which linked client
a key finds is left open. Rows of
`workers` are named by the connection that added them, so one can see who takes
over whose row. The INSERT of a row and the reading of its id are two steps, with `g_db_mutex` held, which `job_broadcast` does not take.
Once `g_exiting` is set `db_query` drops every statement, while the code forgets the `workerid` all the same. `detached` records the rows
that another client has taken over, and the orphans. The process ends and starts again as in `Blocks`.

**JobSignal.** What `job_update` does is one step here and the subject of
`JobUpdate`. `unserved` records the threads that have linked new jobs which no
`job_update` started since has had a chance to see.

**JobUpdate.** Each miner has speed 1, each job takes up to `maxspeed` in the first
pass and 100 times that in the three passes over `g_list_coind`. Jobs of remote
stratums are left out, so `g_list_job` holds jobs of coin daemons only. The order in which lists are walked
is left open, since `job_sort` and `coind_sort` reorder them. Some things
the model keeps because the code does them, though they look odd:
`client_find_job_history` skips the latest entry; `job_reset_clients(NULL)`
resets all clients if the first coin has no job; the last assignment, with speed
-1, accepts a client of any coin; and it looks at a job which `coind_create_job`
may at that moment have allocated without filling it in.

**Coinds.** One coin, whose object is created, flagged, freed and succeeded by another
at another address (or the same, as soon as no pointer to it is left). The row is edited, and
disabled by main when it sees an object between the two assignments of `coind_error`.
A socket is stale when the daemon has dropped the connection, and closed when `rpc_do_call`
tried to reconnect and failed. Threads that create jobs go through `coind_create_job` step by step;
a caller is either a connection that announces a block, counted in, or the job thread, not counted.
A thread that touches a freed object ends the behaviour and is recorded in `undefined`. A
mutex that `coind_terminate` has destroyed lets everyone pass, as glibc's does (the lock fails, and the code does not look).

**Accounting.** A record's sum of difficulty is the set of its shares, and a record is named by the share
it was created for, so no two shares or records are confused. The id that the database gives to a client's row
is the client. `insert_id` is what `mysql_insert_id` answers on the connection `g_db`, and every DELETE over it
resets it: `job_broadcast` sends one without the mutex. `share_add_worker` is one step when it finds the record, and two,
with the mutex held, when it creates one, since `workerid` may be cleared in between. `process_dies` is exit(1), from `db_query` or
the monitor, and a crash; run.sh starts the server again. `main_returns` is the orderly end, after `pthread_create` failed. What
is given up is recorded: `dropped` (records without a worker id), `lost` (with the process, or a statement dropped once
`g_exiting` is set), `repeated` (executed, answer lost).

**Locks.** A function is a set of sequences of instructions: visit a mutex (lock and unlock it), hold it for a section of code, unlock,
create a connection's mutex anew, or loop over daemons. Conditions of the code are choices
between sequences, so the model has every path the code has and some more. A thread is at one instruction (`at`), and `todo` are the
sequences that may follow; the instructions of a section come in when its mutex is locked, those of a loop turn by turn, over
the daemons in any order. So the sets stay small and nothing is recursive. A lock whose
unlock follows at once is one step, since nobody can do anything in between but wait. `rpc_connect` destroys and
creates the mutex of a connection: its owner no longer owns it, and who sleeps on it may sleep for ever (`forsaken`), or be
woken by a later unlock. Unlocking a recursive mutex one does not own does nothing (as glibc's, which returns an error the
code does not look at); two threads may then talk over one connection at a time, which `Locks` shows but nothing
in the repository denies. `LockOrder` says what a thread that holds some mutexes may lock next.

**Vardiff.** Difficulties are integers in units of 1/4000: thousandths that can be
multiplied by 1.5 and halved. The moving average is one of five values, one for each range
that `client_adjust_difficulty` tells apart, and moves range by range towards the
rate the miner reaches. A difficulty between 1 and 2 that is rounded to an even
number is 0, which `client_change_difficulty` ignores: a difficulty between 1/4 and 2
is caught there. `EndsInBand` says so explicitly. `client_subscribe` sets the difficulty to the default, or to that of a client it
resumes, whenever the miner subscribes, before or after it is authorized, and the answer (to equihash miners) names no difficulty: `unannounced` is
the time from there, or from a suggestion, to the next difficulty that is sent.

## 4. The runs, their bounds and what they show

| run | question | instance |
|---|---|---|
| `MCJobRefs` | is a count exact, memory live, a share credited once, a replaced job freed? | 2 connections, 1 daemon, 1 nonce, 2 jobs |
| `MCBlocks` | is the table what the ledger allows, is each confirmed block written unless the process ends? | 2 own blocks, one of them of a coin with a separate proof-of-work hash; any number of lost answers and restarts |
| `MCClients` | who frees a client, is each one freed, whose row is in the table? | 2 connections, 2 places, told to reconnect twice; subscriptions and restarts are not bounded |
| `MCJobSignal` | is a signal lost, is each new block served, does shutdown end? | 3 notifying connections and main |
| `MCJobUpdate` | does every miner get the newest job, is it sent back, or moved off its coin? | 2 miners on 2 coins, one of them joins and leaves, 2 jobs, a history of 2 |
| `MCCoinds` | who touches a freed object, whose jobs are mined, is the coin mined again? | 1 coin, 2 objects, 2 jobs, main, 1 other thread that creates jobs, 1 that submits blocks |
| `MCAccounting` | is each share in one place, on its miner's account, and written in the end? | 2 clients, 3 shares, statements of 2 rows, any number of evictions, repetitions and restarts |
| `MCLocks` | do the threads keep one order, wait in a circle, block main? | main, the job thread, 1 connection that sends any messages, 1 daemon |
| `MCVardiff` | does the difficulty settle, and where? | 46 hash rates, 8 difficulties asked for, one suggestion or repeated subscription, the limits of config.sample/equihash.conf |
| `MCClientsPurge`, `MCJobUpdateBare`, `MCVardiffMin` | section 7 | as the runs above, smaller |

**MCJobRefs.** `RefsExact`: until an update is lost, each count is the number of
threads using the job. `NoUseAfterFree`: until then, no thread uses a freed job.
`NoDoubleCredit`: until then, a share is credited once, although lookup and
insertion are apart and `share_prune` removes shares. `FreedForGood`: an id
never comes back, and only main, with the mutex, unlinks, and only flagged jobs.
`DeletedJobFreed`: a flagged job stays linked only if submissions hold it again and again.
`IInv`: the inductive invariant of section 6. Two connections are enough for
a lost update and for holding a job alternately. Two jobs are enough for one
to be replaced while it is in use, then freed. One nonce makes every second submission a duplicate.

**MCBlocks.** `AnnouncedIsConfirmed`: whichever of submission and announcement comes first,
one of the two threads sees the other, except where the code has a real gap: another
announcement replaced `lastnotifyhash` before the submitter read it, the block had
aged out, or its proof-of-work hash is not what is announced. (An announcement that finds no object of the daemon is a fourth
gap; its thread never gets as far as the property asks.) `ForgottenExpired`: a block leaves the list
with a row, or because it aged out unconfirmed, or because the process ended: with the list in memory, or with the statement that was
to write the block. `ConfirmedIsWritten`: each confirmed block gets a row in the
end, or goes in one of these ways. `LedgerSpec`: the refinement; in particular a row is written again only in the retry of a
statement whose answer was lost, and never for a block that was not accepted or not announced. Two own blocks give
each block another that can overwrite its announcement, and the table a statement with two rows. No foreign block is needed for that: seen from
the first block, the second, which can be accepted, announced and not found, does all that a foreign one does (the proofs take any).

**MCClients.** `ThreadOwnsObject`: an object stays until its thread has ended and
it is out of the list, unless another thread has flagged it.
`RowFollowsClient`: a row disappears no later than its client unless the client
was told to reconnect or evicted; it disappears with an eviction; and it is there exactly
as long as its client refers to it. Excepted are the `detached` rows: taken over by another client, or orphaned by a DELETE that is dropped
while the server exits, by the end of the process, by a linked client that subscribes again and resumes another (line 84 overwrites its
`workerid`), or by the DELETE of `job_broadcast` between another client's INSERT and `mysql_insert_id`. `ExitedIsFreed`: pruning takes
back the reconnect locks one by one and frees the object, or the process ends. Two connections are enough for one to resume the other, and for one's eviction to spoil the other's id; two locks for one to be given
back in a round and one to be left.

**MCJobSignal.** `NoLostSignal`: when the job thread sleeps, whoever has jobs it has not seen
still has its signal to send. `ChangesServed`: each change is
followed by a `job_update` that starts after it, with no help of main's periodic
signal. `ClosesUnlessOrphaned`: after `g_exiting` main closes its database
connection, unless the job thread left its loop first, with the mutex, and main
waits for it for ever (nobody unlocks at job.cpp:241). Three signallers beside the
job thread cover one at the lock, one signalling, one creating jobs.

**MCJobUpdate.** `EveryMinerServed`: a miner that stays on a coin that can be mined
ends up with the coin's newest job, unless the daemon at the head of the list never had a job whenever miners are left
over: then `job_reset_clients(NULL)` takes all jobs back, again and again. The second miner's coming and going, and the failures
of the other coin's daemon, do not keep the first from its job. `ForwardOnly`: a miner is not sent a job of a
coin that is not newer than one it had before, as far as its history goes back. `StaysOnCoin`: during a
`job_update` throughout which the miner's own coin could be mined it gets no other coin's job. Two coins are enough for daemons to
fail in turn and come back; two jobs for one to succeed the other between any two steps of an assignment; `Residents` are the miners
who stay, the others join and leave.

**MCCoinds.** `CountedIsLive`: a thread that counts itself in, or main, never touches a freed
object (the job thread and submitters do: the model has such behaviours, and nothing
in the repository denies them). `OneMineableJob`: the only job that can be mined is the current one of the
one object in the list, however objects and jobs succeed each other. `Recovers`: with the daemon up for good and its
row enabled, the coin can be mined for good in the end, whatever errors came before; or its connection
was closed by a failed reconnection, which nothing repairs; or main finds someone counted
in whenever it prunes. Two objects are enough for one to succeed another; two jobs for one to be
replaced while it is submitted for. With more memory nothing is gained but jobs flagged
and not yet pruned (3 jobs, or two callers without `Recovers`, pass as well, but take several minutes).

**MCAccounting.** `SharesKept`: a credited share is in a record not yet written, in the statement under way, in the
table, or given up for a known reason, and in one of these only; the exception are shares of a statement
whose answer was lost. `ToItsMiner`: no share is on another miner's row, and on none only after an eviction: of its
client, or of another one at the moment when the client was between INSERT and `mysql_insert_id`. `CreditReachesTable`: whatever is
booked on a row is written, or the process ends. Two clients are enough to mix up ids and records; three shares and statements
of two rows for a statement sent in the middle of the walk and another one after it. Restarts are not bounded.

**MCLocks.** `KeepsOrder`: every step of the threads is one of `LockOrder`, a refinement. `NoCircularWait`: no set of threads has
everyone waiting for another of it. `TurnsEnd`: main's turns end, unless a reconnection
has left a thread asleep on a destroyed mutex. Both are proved for any number of connections and daemons (section 6); the run, with one of each, has every section and every path through
it, and answers for `TurnsEnd`.

**MCVardiff.** `MeasuredAsTold`: the server measures shares at the difficulty the
miner was told, except from a suggestion, or from another subscription, to the next change: neither is answered with a difficulty. `Settles`: steps up and down do not chase each other for ever, rounding included.
`EndsInBand`: in the end the rate is 5 to 20 shares per minute, or a limit or the
rounding between 1/4 and 2 is in the way. The hash rates are spaced by less than the
ratio of the band's ends, from far too slow to far too fast at every difficulty.

`CHECK_DEADLOCK FALSE` where the model may stop: `JobSignal` when the
server has shut down or hangs in doing so, `JobUpdate` after NULL was dereferenced, `Coinds` after a freed object was touched,
`Vardiff` when the difficulty has settled, `Locks` when threads are left asleep on a destroyed mutex. Everywhere else main's loop never
stops and deadlock is checked.

**Bounds.** `MaxJob` caps the ids handed out (a 32-bit counter in the code). `MaxLocks` caps how often a client
is told to reconnect. `MaxRequests` caps the suggestions and the repeated subscriptions of a miner. In
`JobRefs` no submission begins once an update is lost: the counts would drift without
limit, and no property speaks of that time. `MaxShare` caps the shares found; `Chunk` is the 1000 rows of a statement, smaller. `MaxHistory` is `YAAMP_JOB_MAXHISTORY`, smaller.

## 5. Fairness

Fairness states what the scheduler gives, never what miners or daemons do.

- A thread at a point other than its blocking read goes on (weak fairness per
  thread, in every module but `Clients`, where main's is enough): the steps between are computations, or RPCs, which end
  with an answer or a broken connection.
- A mutex that is free again and again is obtained by whoever keeps asking (strong
  fairness: `prune_enter` in `JobRefs`, `job_thread` and `job_signal_lock` in
  `JobSignal`, job creation and authorization in `JobUpdate`, `create_lock` in `Coinds`, main in `Accounting`, every thread in
  `Locks`). Pthread mutexes
  do not promise that, but their holders here release them for
  milliseconds to seconds between messages.
- No fairness is assumed for new blocks, submissions, spurious wake-ups,
  announcements, disconnections or RPC failures. Nor for main's periodic `job_signal` in `JobSignal`:
  it would hide a lost signal 20 seconds later. In `JobUpdate` the job thread is signalled
  again and again, which that periodic signal does justify.
- Nothing makes the server exit or the process die, and nothing keeps it from it: a liveness property holds with and without
  restarts.
- The database answers in the end, or the server exits: otherwise `db_query` tries for ever, which `Blocks` and
  `Accounting` allow as long as it lasts. In `Locks` a daemon answers or hangs up.
- In `Vardiff` the miner goes on finding shares and jobs go on being broadcast.

## 6. What is proved

TLAPS checks these for all values of the constants. The assumptions are named in the modules that declare the constants:
connections (in `Coinds`: threads) and objects are sets that do not contain the names of other threads or "nothing"
(`ClientsAssumption`, `NotifiersAssumption`, `HashAssumption`, `PowHashedAssumption`, `ConnsAssumption`, `PoolsAssumption`), finite where the
model counts them, and in `JobSignal`; bounds and sizes are natural numbers (`MaxJobAssumption`, `BoundAssumption`,
`MaxShareAssumption`, `ChunkAssumption`, `ConstantsAssumption`);
main, the job thread and the connections are different threads (`ThreadsAssumption`).

Every invariant and every action property of section 4 is proved, and both refinements. Each proof has the same
shape: an invariant `IInv` of named parts, one lemma per part saying that every step keeps it, with one step of the lemma per action.

**JobRefs_proofs**: `Inductive` (`Spec => []IInv`), and from it `TypeCorrect`,
`CountsExact`, `JobsSafe`, `SharesOnce`; and `FreedOnce` (`Spec => FreedForGood`).
Argument: *a share is credited once* needs that a credited share is found as long as its
job can be found, since `share_prune` drops shares of unlinked jobs (`CreditRecorded`). For a thread that is past
the duplicate test, this needs its job to be still linked: *no use after free*.
A job is unlinked only with count 0, so this needs counts that are right:
*RefsExact*. A count is written by a load and a store; the increment's pair is
protected by the list's mutex against pruning (`MutexHeld`), and an update lost to
an unprotected decrement sets `lost`. The increment's thread is not yet counted but
holds the mutex, so that main, which holds it while it frees, cannot free its job. Ids
come from a counter (`IdsHandedOut`), so a new job is no old one. None
of these is inductive alone; their conjunction `IInv` is. Cardinalities of sets
of holders change by one at a time (lemmas over `FiniteSetTheorems`).

**JobThread_proofs**, first part: `Inductive`, `TypeCorrect` and `SignalsKept` (`Spec => []NoLostSignal`). Argument: the job
thread owns the mutex throughout `job_update`, so a thread that links jobs in that
time still stands at the lock when the job thread goes to sleep, which gives up the mutex in the
same step.

**Blocks_proofs**: `TypeCorrect`, `AnnouncedConfirmed`, `ForgottenWritten`, and `LedgerKept` (`Spec => LedgerSpec`, the
refinement). Argument: the submitter links its block *before* it compares with `lastnotifyhash`, and the notifier writes
that field *before* it walks the list. So an announcement before the comparison is still there or was overwritten
(`LastOrOverwritten`), and a later one finds the block linked (`Linked`). That the table is what the ledger allows needs to know
that a hash is copied, and a block confirmed, only after the announcement (`HashKnown`), and for the statement under way that its
blocks are confirmed, flagged, and without a row until an answer is lost (`Statement`); who is flagged has a row,
is in the statement, had aged out, or was lost with a statement given up (`FlaggedWritten`), hence is not written by a later round. A block of
an earlier process is accounted for in the same way (`GoneSettled`), and its submitter never links it again.

**Clients_proofs**: `TypeCorrect`, `OwnerFrees` (`Spec => []ThreadOwnsObject`), `RowsFollow` (`Spec => []RowFollowsClient`).
Argument, first half (`Lifetimes`): only a client's own thread links it and only before it can be flagged; who
is flagged or freed has either been evicted, or its thread found it in the list and has ended. Second half (`Rows`): a
`workerid` is a client's own or one that it took over, which is `detached` from then on (`TakenOver`); between INSERT and `mysql_insert_id` the client
refers to no row, and the id it will get is its own, or one that a DELETE of `job_broadcast` has spoilt (`Inserting`); a client refers to its own row
only while it is linked or
about to be (`OwnRow`), and a thread that has ended leaves no row but for reconnection and eviction (`RowGone`). Detached rows are out of all this: the
theorem says nothing of them but how they come about.

**JobUpdate_proofs**: `TypeCorrect`, `MovesForward` (`Spec => ForwardOnly`), and `KeepsCoin` (`Spec => StaysOnCoin`).
*Forward*: the history holds the jobs broadcast last, each once, and the very last of them is `jobid_sent` (`History`). That is why
skipping its first entry does no harm: the job about to be broadcast is not among the others (`NextFresh`), and not the first because it
differs from `jobid_sent`. And since `coind_create_job` flags a coin's current job before it takes the next id, the one job of a
coin that is not flagged is its newest (`Newest`). *Stays*: a miner entitled to its coin either has a job of that coin or can still be
given one (`EntitledKeep`). Here the theorem assumes `RoomForAll`: the miners are no more than a coin's job takes in the passes over
`g_list_coind`, 100 times the coin's own speed. Without it the last assignment, which takes any
coin, does move miners away from a coin that is full.

**Coinds_proofs**: `TypeCorrect`, `CountedSafe` (`Spec => []CountedIsLive`), `OneJob` (`Spec => []OneMineableJob`).
Argument: the list has one object at most and memory holds no other (`OneObject`); who is counted in uses the one of the list
(`CountedListed`), which main does not free while the count, a cardinality, is not 0 (`LockedStays`); main itself creates jobs only
between two prunings (`MainListed`). A new job and a freed object both flag the job before.

**Accounting_proofs**: `TypeCorrect`, `EveryShareKept` (`Spec => []SharesKept`), `EveryMinerBooked` (`Spec => []ToItsMiner`).
Argument: a linked record, flagged or not, bears the name of a credited share, so that a new record replaces none
(`RecordsNamed`), and the statement is empty except while it is being sent (`BufferSent`). For the miner's row: whoever has inserted a row and
has not asked for its id owns `g_db_mutex`, so that only an eviction can come between (`IdAsked`), and a listed client has its own id, or none after
an eviction (`IdKnown`).

**JobThread_proofs**, second part: `DifficultyTyped` (`DifficultySpec => []DifficultyTypeOK`) and `SharesMeasured`
(`DifficultySpec => []MeasuredAsTold`), from the assumption of `Vardiff` on its constants, that the configured difficulties are positive. Argument:
`client_normalize_difficulty` returns at most the maximum (`Normalized`) and 0 is refused, so what is sent is a difficulty and
the one in use (`Changed`); what a client is given when it subscribes is the default, or what another was given (`AskableGiven`). The limits may be configured in any way, diff_min above diff_max included. The configured start difficulty, which nothing compares
with the maximum (stratum.cpp:272-274), is the one difficulty that may be above it; `DifficultyTypeOK` says so.

**Locks_proofs**: `LocksKeepOrder` (`Spec => KeepsOrder`, the refinement), `NoDeadlock` (`Spec => []NoCircularWait`), both from `Inductive`
(`Spec => []IInv`); and, about `LockOrder`, `OrderExcludesCircles` (`LO!Spec => []LO!NoCircularWait`). Argument, in four steps:

1. *The programs are lawful.* `Good(t, H)` are the instructions that thread t may execute while it owns H or less: a mutex it visits or holds is
   the next in the order (or, visited, one that it owns and that may be locked again), and the section it then enters, or the loop, may
   be entered with what it owns (`Around`, `AroundLoop`). `SectionsFollow`, `TurnsFollow` and `ProgramsFollow` go through every function
   and show that it is made of good instructions only.
2. *They stay lawful.* A sequence is `Lawful` if each of its instructions is good with what is still unlocked after it (`Pending`).
   Taking its first instruction off (`Pop`), or putting a section and an unlock before it (`Push`, `PushUnlock`), keeps it lawful.
3. *The invariant.* `IInv`: all that may follow in a thread is lawful and fits the instruction it is at (`Follows`), what it owns
   it will unlock (`Owned`), and nothing is locked twice (`Counted`). `Owned` is what connects programs to mutexes: the thread owns at most what
   it will unlock, hence may lock what it comes to. The converse fails: a reconnection takes a mutex from its owner, who
   still unlocks it.
4. *The order excludes circles.* By `IInv` each step is one of `LockOrder` (`StepOrders`): a lock takes a mutex nobody owns, all else
   only loses mutexes. From the last mutex of the order to the first: whoever waits for the last can only wait for
   a thread that waits for nothing; so in a set of threads that wait for each other nobody waits for the last, nor for the
   one before, and so on (`NoCircle`).

**Only model-checked**: all liveness properties, since the prover does not handle
fairness and ENABLED: `DeletedJobFreed`, `ConfirmedIsWritten`, `ExitedIsFreed`, `ChangesServed`, `ClosesUnlessOrphaned`,
`EveryMinerServed`, `Settles`, `EndsInBand`, `Recovers`, `CreditReachesTable`, `TurnsEnd`.

## 7. Disagreements found while modelling

1. `MCClientsPurge`. client.cpp:679 says "only clients sockets in g_list_client are
   purged (if marked deleted)", so a client not in the list is its thread's to
   delete. But a client flagged by `job_broadcast` or `db_update_workers` is freed by main
   while its thread runs; when that thread ends, it does not find itself and
   deletes the object again.
2. `MCJobUpdateBare`. job.h:86 says of a job's `coind` and `remote` "either one of
   them". A job that `coind_create_job` has allocated, but not filled in, reaches
   `job_assign_client` by way of `coind->job`.
3. `MCVardiffMin`. `diff_min` of the sample configuration is 0.005; rounding to even
   thousandths after the comparison gives 0.004.

Other observations that contradict no statement in the repository: shutdown can hang
on `g_job_mutex` (`ClosesUnlessOrphaned`); lost updates of `lock_count` are possible
(`RefsExact` and the others are conditional on `lost`); blocks of coins
whose proof-of-work hash is not the block hash are confirmed only by an announcement that comes
after `block_add` (`AnnouncedIsConfirmed`); a difficulty between 1/4 and 2 is caught (`EndsInBand`); a daemon that closes its connection and is
down for the reconnection that follows is cut off until the monitor ends the process (`Recovers`); an error
at the wrong moment disables the coin's row in the database (`update_auto_ready` in `Coinds`); as long as the daemon at the head of
the list has never had a job, a single miner without a job makes `job_reset_clients(NULL)` take all miners' jobs back (job.cpp:313,
`EveryMinerServed`); more miners than a coin's job takes are moved to other coins (`RoomForAll` in section 6); an eviction's DELETE on the
unlocked `g_db` resets the id another client is about to ask for, and that client's shares are then never written (job_send.cpp:195-197,
`dropped` in `Accounting`); a statement whose answer is lost is sent again and its rows are there twice, and one that fails once `g_exiting` is set is
given up with its shares or its confirmed blocks, which are flagged already and never written (db.cpp:79-116);
rows of `workers` are orphaned by a DELETE given up in the same way, and by a linked client that subscribes again and resumes another (client.cpp:84, 602); a
repeated `mining.subscribe` resets the miner's difficulty without telling it (client.cpp:31); a block whose announcement comes while no object of
its daemon is linked is not confirmed (client.cpp:317-318), nor is one whose `submitblock` answer is lost ever linked (coind_submit.cpp:47); `rpc_connect` destroys a mutex that others use: two threads may then talk over one connection, and a thread
asleep on it may never wake up (`forsaken` in `Locks`).

## 8. What is not modelled, and why

- **Remote stratums.** The default build has `NO_EXCHANGE` (`g_autoexchange` false), and remotes are
  only loaded with renting on. Among what is left out: a session's `status`, which connecting and closing overwrite while other threads set
  it (remote.cpp:50).
- **Coin daemons**: merged mining and what is in a template; new and terminated daemons in `Locks`. coinbase.cpp formats
  transactions coin by coin and has no state.
- **Accounting**: rejected shares (records of their own, without difficulty), and coins and remotes in a record's key, which only make more records of the same
  kind. A share's credit reads `difficulty_actual` a second time (share.cpp:68) after the share was measured at it; `Accounting` credits a share,
  not its amount. A server built with `NO_MYSQL` has no rows, so that every `workerid` is 0 and nothing is written at all.
  The authorization of a client once the server is exiting, whose INSERT is dropped, is in `Clients` but not in `Accounting`, nor are two clients that share
  a `workerid` after a resumption.
- **Blocks**: blocks of merged-mined coins (`coind_submitgetauxblock`), which go to another daemon
  by another call, before the block itself; a coin has one daemon object, and one `lastnotifyhash`, throughout (`Coinds` has their succession).
- **Vardiff**: the miner subscribes before it authorizes, as the protocol has it; the server does not insist. The algorithms whose answer to `mining.subscribe`
  does name a difficulty are not modelled: equihash, the algorithm of the sample configuration, gets none.
- **Clients**: keys are not modelled, so that a subscription may find any linked client, not only the one whose key was sent. A thread whose object
  main has freed runs on as if the memory were still there. After an INSERT that was dropped `mysql_insert_id` answers any older id or 0.
- **Targets**, **merkle branches**, **sockets**: functions without shared state.
- **Session keys**: how `extranonce1` is put together; after 2^24 connections the counter repeats (client_core.cpp:11).
- **RPC and database connections**: blocking I/O; the models use that a call succeeds or
  fails, in `Coinds` and `Locks` what becomes of the socket and its mutex, in `Accounting` what becomes of a statement and of the last insert id.
  That several threads send over `g_db` at the same time is below that level, and the MySQL library's business.
- **Locks**: start-up, renting, and the trylock of the debug option.
- **List links**. A list is a set in the models: `block_confirm` walks
  `g_list_block` without its mutex while main unlinks blocks, which a model of `CommonList` would show. `job_send_last` likewise uses a job
  after it has left the list.
- **Hash algorithms**, base58, ini and JSON parsing, logging, statistics, the
  monitor thread: no protocol logic. They are the bulk of the source by lines.
- In modelled parts: `mining.ping`, `mining.extranonce.subscribe`, `mining.multi_version`, `mining.get_transactions` and `getwork`;
  methods of miners on algorithms other than equihash in `client_submit.cpp:442-639`, which repeat the
  same steps; jobs with subids and locked clients.

## 9. Plan

Done: jobs, shares and reference counts; blocks and their table, with lost answers; sessions;
signalling; assignment; daemons' objects; difficulty; accounting through restarts; the order of the mutexes. All the safety properties that
runs check as holding are proved.

What would add most next, in this order:

1. **Merkle** and **AuxTree**: `merkle_steps`/`merkle_with_first` against the root of the full tree;
   `coind_aux_build_auxs` against "every chain has a slot of its own". Pure operators over bounded inputs.
2. **Targets**: `decode_compact`, `target_to_diff`, `diff_to_target` in 64 bits.
3. **Sessions and submissions together**: `Clients` composed with `JobRefs`: a resumed client shares
   its extranonce1 with its predecessor.
4. **Merged mining**: `coind_getauxblock` and `aux.hash` against jobs still in use; two coins in `Coinds`.
5. **CommonList**: links, walks without the mutex. **Remote**: status of the session, reconnects.

Proofs to come: lemmas about the operators of these modules, and for the liveness properties the invariants they rest on.
