------------------------------- MODULE Blocks -------------------------------
(***************************************************************************)
(* The way of a block from the share that solves it to a row of the blocks *)
(* table: client_do_submit (client_submit.cpp), client_update_block        *)
(* (client.cpp), block_add, block_confirm and block_prune (share.cpp),     *)
(* db_query (db.cpp), and the end of the process, which                    *)
(* config.sample/run.sh starts again.                                      *)
(*                                                                         *)
(* Threads: the client thread that submits block b, the client thread that *)
(* serves the blocknotify call of the daemon for hash h, and main.  The    *)
(* submitter links the block and then reads coind->lastnotifyhash; the     *)
(* notifier writes lastnotifyhash and then looks the block up in           *)
(* g_list_block, under no lock.                                            *)
(*                                                                         *)
(* A coin has one daemon object here, and so one lastnotifyhash.  Blocks   *)
(* of merged-mined coins (coind_submitgetauxblock) are left out.           *)
(***************************************************************************)
EXTENDS Naturals, FiniteSets

CONSTANTS
    Blocks,     \* blocks found by this pool
    Foreign,    \* hashes of blocks found by others, announced as well
    PowHashed   \* blocks of a coin whose block hash is not its proof of work hash

NoHash == "none"
ASSUME HashAssumption == NoHash \notin Blocks \cup Foreign /\ Blocks \cap Foreign = {}
ASSUME PowHashedAssumption == PowHashed \subseteq Blocks

Hashes == Blocks \cup Foreign

VARIABLES
    accepted,       \* blocks the daemon has accepted (daemon)
    submit_pc,      \* block -> program point of its submitter
    notify_pc,      \* hash -> program point of the thread serving its blocknotify
    lastnotifyhash, \* of the coin daemon's object
    g_list_block,   \* linked blocks: their memory is live
    deleted, confirmed, hash_copied,    \* blocks with that flag, or block->hash, set
    aged,           \* linked blocks created more than 30 seconds ago
    main_pc,
    g_exiting,
    insert,         \* block_prune's statement: block -> whether its hash is there
    answer_lost,    \* it was executed, and the connection broke before the answer
    rows,           \* block -> "none", "announced hash", "no hash" or "twice"
    overwritten,    \* history: announced, but lastnotifyhash was replaced
                    \* before the submitter read it
    expired,        \* history: flagged before it was confirmed
    lost            \* history: went with the process, or its INSERT was given up

threadVars == <<submit_pc, notify_pc, lastnotifyhash>>
blockVars == <<g_list_block, deleted, confirmed, hash_copied, aged>>
mainVars == <<main_pc, g_exiting, insert, answer_lost, rows>>
history == <<overwritten, expired, lost>>
vars == <<accepted, threadVars, blockVars, mainVars, history>>

Init ==
    /\ accepted = {}
    /\ submit_pc = [b \in Blocks |-> "rpc"]
    /\ notify_pc = [h \in Hashes |-> "silent"]
    /\ lastnotifyhash = NoHash
    /\ g_list_block = {}
    /\ deleted = {} /\ confirmed = {} /\ hash_copied = {} /\ aged = {}
    /\ main_pc = "loop" /\ g_exiting = FALSE
    /\ insert = [b \in {} |-> TRUE] /\ answer_lost = FALSE
    /\ rows = [b \in Blocks |-> "none"]
    /\ overwritten = {} /\ expired = {} /\ lost = {}

Submit(b, from, to) == submit_pc[b] = from /\ submit_pc' = [submit_pc EXCEPT ![b] = to]
Notify(h, from, to) == notify_pc[h] = from /\ notify_pc' = [notify_pc EXCEPT ![h] = to]

-----------------------------------------------------------------------------
(* Mutant: the daemon's answer is not looked at.                           *)
coind_submit_answer_ignored(b) ==
    /\ Submit(b, "rpc", "add")
    /\ accepted' \in {accepted, accepted \cup {b}}
    /\ UNCHANGED <<notify_pc, lastnotifyhash, blockVars, mainVars, history>>

(* The daemon takes the block or not, before coind_submit has its answer;  *)
(* without an answer the block counts as rejected, and is not linked.      *)
coind_submit(b) ==
    /\ \/ Submit(b, "rpc", "add") /\ accepted' = accepted \cup {b}
       \/ Submit(b, "rpc", "unanswered") /\ accepted' = accepted \cup {b}
       \/ Submit(b, "rpc", "rejected") /\ UNCHANGED accepted
    /\ UNCHANGED <<notify_pc, lastnotifyhash, blockVars, mainVars, history>>

(* blocknotify: once per accepted block, own or foreign.                   *)
blocknotify(h) ==
    /\ h \in accepted \cup Foreign
    /\ Notify(h, "silent", "write")
    /\ UNCHANGED <<accepted, submit_pc, lastnotifyhash, blockVars, mainVars, history>>

-----------------------------------------------------------------------------
(* The submitter: block_add, under the list's mutex ...                    *)
block_add(b) ==
    /\ Submit(b, "add", "compare")
    /\ g_list_block' = g_list_block \cup {b}
    /\ UNCHANGED <<accepted, notify_pc, lastnotifyhash, deleted, confirmed, hash_copied, aged,
                   mainVars, history>>

(* Mutant: lastnotifyhash is not compared.                                 *)
compare_lastnotify_dropped(b) ==
    /\ Submit(b, "compare", "done")
    /\ UNCHANGED <<accepted, notify_pc, lastnotifyhash, blockVars, mainVars, history>>

(* ... and the comparison of lastnotifyhash with hash_be, the proof of     *)
(* work hash: was this block announced before it was linked?               *)
compare_lastnotify(b) ==
    /\ IF lastnotifyhash = b /\ b \notin PowHashed
       THEN Submit(b, "compare", "find")
       ELSE Submit(b, "compare", "done")
    /\ UNCHANGED <<accepted, notify_pc, lastnotifyhash, blockVars, mainVars, history>>

(* The notifier finds no object of the daemon (not linked yet, flagged, or *)
(* its server is down): the announcement is lost.                          *)
object_find_none(h) ==
    /\ Notify(h, "write", "refused")
    /\ UNCHANGED <<accepted, submit_pc, lastnotifyhash, blockVars, mainVars, history>>

(* Otherwise lastnotifyhash is written ...                                 *)
HasWritten(h) == notify_pc[h] \in {"find", "copy", "confirm", "done"}
write_lastnotify(h) ==
    /\ Notify(h, "write", "find")
    /\ lastnotifyhash' = h
    /\ overwritten' = overwritten \cup
          {b \in Blocks \ {h} : HasWritten(b) /\ submit_pc[b] \in {"rpc", "add", "compare"}}
    /\ UNCHANGED <<accepted, submit_pc, blockVars, mainVars, expired, lost>>

(* ... before block_confirm looks for the block: one that is linked and    *)
(* not flagged, by either of its hashes.  For a coin whose block hash is   *)
(* not its proof of work hash it asks the daemon first (getblock): without *)
(* an answer it looks for the wrong hash.                                  *)
Found(b) == b \in g_list_block \ deleted

find_block_submit(b) ==
    /\ \/ Found(b) /\ Submit(b, "find", "copy")
       \/ (~Found(b) \/ b \in PowHashed) /\ Submit(b, "find", "done")
    /\ UNCHANGED <<accepted, notify_pc, lastnotifyhash, blockVars, mainVars, history>>

find_block_notify(h) ==
    /\ \/ Found(h) /\ Notify(h, "find", "copy")
       \/ (~Found(h) \/ h \in PowHashed) /\ Notify(h, "find", "done")
    /\ UNCHANGED <<accepted, submit_pc, lastnotifyhash, blockVars, mainVars, history>>

(* A block not confirmed gets its hash, and the flag only after it.        *)
copy_hash(b) ==
    /\ \/ Submit(b, "copy", IF b \in confirmed THEN "done" ELSE "confirm") /\ UNCHANGED notify_pc
       \/ Notify(b, "copy", IF b \in confirmed THEN "done" ELSE "confirm") /\ UNCHANGED submit_pc
    /\ hash_copied' = IF b \in confirmed THEN hash_copied ELSE hash_copied \cup {b}
    /\ UNCHANGED <<accepted, lastnotifyhash, g_list_block, deleted, confirmed, aged, mainVars, history>>

set_confirmed(b) ==
    /\ \/ Submit(b, "confirm", "done") /\ UNCHANGED notify_pc
       \/ Notify(b, "confirm", "done") /\ UNCHANGED submit_pc
    /\ confirmed' = confirmed \cup {b}
    /\ UNCHANGED <<accepted, lastnotifyhash, g_list_block, deleted, hash_copied, aged, mainVars, history>>

-----------------------------------------------------------------------------
(* The clock passes created + 30 of a linked block.                        *)
pass_time(b) ==
    /\ b \in g_list_block \ aged
    /\ aged' = aged \cup {b}
    /\ UNCHANGED <<accepted, threadVars, g_list_block, deleted, confirmed, hash_copied, mainVars, history>>

(* Mutant: age is tested before confirmed.                                 *)
block_prune_age_first ==
    /\ main_pc = "block_prune"
    /\ LET old == g_list_block \cap aged
           new == (g_list_block \cap confirmed) \ old IN
        /\ insert' = [b \in new |-> b \in hash_copied]
        /\ deleted' = deleted \cup new \cup old
        /\ expired' = expired \cup (old \ confirmed)
    /\ main_pc' = "db_query"
    /\ UNCHANGED <<accepted, threadVars, g_list_block, confirmed, hash_copied, aged, g_exiting, answer_lost, rows,
                   overwritten, lost>>

(* Mutant: a block that goes into the statement is not flagged.            *)
block_prune_no_delete ==
    /\ main_pc = "block_prune"
    /\ insert' = [b \in g_list_block \cap confirmed |-> b \in hash_copied]
    /\ LET old == (g_list_block \cap aged) \ confirmed IN
        /\ deleted' = deleted \cup old
        /\ expired' = expired \cup old
    /\ main_pc' = "db_query"
    /\ UNCHANGED <<accepted, threadVars, g_list_block, confirmed, hash_copied, aged, g_exiting, answer_lost, rows,
                   overwritten, lost>>

(* block_prune, under the list's mutex: a confirmed block, flagged or not, *)
(* goes into the statement and is flagged; any other is flagged when old.  *)
block_prune ==
    /\ main_pc = "block_prune"
    /\ insert' = [b \in g_list_block \cap confirmed |-> b \in hash_copied]
    /\ LET old == (g_list_block \cap aged) \ confirmed IN
        /\ deleted' = deleted \cup (g_list_block \cap confirmed) \cup old
        /\ expired' = expired \cup old
    /\ main_pc' = "db_query"
    /\ UNCHANGED <<accepted, threadVars, g_list_block, confirmed, hash_copied, aged, g_exiting, answer_lost, rows,
                   overwritten, lost>>

(* The statement is executed after the mutex is left, ...                  *)
Execute ==
    rows' = [b \in Blocks |->
                  IF b \notin DOMAIN insert THEN rows[b]
                  ELSE IF rows[b] # "none" THEN "twice"
                  ELSE IF insert[b] THEN "announced hash" ELSE "no hash"]
QueryReturns ==
    /\ main_pc = "db_query" /\ main_pc' = "object_prune"
    /\ insert' = [b \in {} |-> TRUE] /\ answer_lost' = FALSE

db_query ==
    /\ QueryReturns
    /\ ~g_exiting \/ insert = [b \in {} |-> TRUE]
    /\ Execute
    /\ UNCHANGED <<accepted, threadVars, blockVars, g_exiting, history>>

(* ... or the connection breaks after it was executed, and it is sent      *)
(* again (when it breaks before, nothing changes), ...                     *)
db_answer_lost ==
    /\ main_pc = "db_query" /\ insert # [b \in {} |-> TRUE]
    /\ ~g_exiting
    /\ Execute
    /\ answer_lost' = TRUE
    /\ UNCHANGED <<accepted, threadVars, blockVars, main_pc, g_exiting, insert, history>>

(* ... or the server is exiting, and it is not sent, or not again: its     *)
(* blocks are flagged already.                                             *)
db_query_exiting ==
    /\ QueryReturns
    /\ g_exiting /\ insert # [b \in {} |-> TRUE]
    /\ lost' = lost \cup {b \in DOMAIN insert : rows[b] = "none"}
    /\ UNCHANGED <<accepted, threadVars, blockVars, g_exiting, rows, overwritten, expired>>

(* object_prune(&g_list_block, block_delete): no block is ever locked.     *)
object_prune ==
    /\ main_pc = "object_prune" /\ main_pc' = "loop"
    /\ g_list_block' = g_list_block \ deleted
    /\ UNCHANGED <<accepted, threadVars, deleted, confirmed, hash_copied, aged,
                   g_exiting, insert, answer_lost, rows, history>>

(* while(!g_exiting), between two rounds.                                  *)
main_loop ==
    /\ main_pc = "loop" /\ main_pc' = IF g_exiting THEN "closing" ELSE "block_prune"
    /\ UNCHANGED <<accepted, threadVars, blockVars, g_exiting, insert, answer_lost, rows, history>>

-----------------------------------------------------------------------------
(* stratum_thread, when pthread_create fails.                              *)
exit_begins ==
    /\ ~g_exiting /\ g_exiting' = TRUE
    /\ UNCHANGED <<accepted, threadVars, blockVars, main_pc, insert, answer_lost, rows, history>>

(* The process ends with its threads and what is in its memory, and is     *)
(* started again: the table stays, and what the daemon has accepted or     *)
(* announced.                                                              *)
Restart ==
    /\ lost' = lost \cup {b \in Blocks : submit_pc[b] = "add"}
                    \cup {b \in g_list_block : rows[b] = "none"}
    /\ submit_pc' = [b \in Blocks |->
          IF submit_pc[b] \in {"rpc", "rejected", "unanswered"} THEN submit_pc[b] ELSE "gone"]
    /\ notify_pc' = [h \in Hashes |->
          IF notify_pc[h] \in {"silent", "refused"} THEN notify_pc[h] ELSE "gone"]
    /\ lastnotifyhash' = NoHash
    /\ g_list_block' = {} /\ deleted' = {} /\ confirmed' = {} /\ hash_copied' = {} /\ aged' = {}
    /\ overwritten' = {}
    /\ main_pc' = "loop" /\ g_exiting' = FALSE
    /\ insert' = [b \in {} |-> TRUE] /\ answer_lost' = FALSE
    /\ UNCHANGED <<accepted, rows, expired>>

main_returns == main_pc = "closing" /\ Restart
(* exit(1) in db_query: an error other than a broken connection.           *)
db_query_fails ==
    /\ main_pc = "db_query" /\ insert # [b \in {} |-> TRUE]
    /\ ~g_exiting
    /\ Restart
(* exit(1) in monitor_thread and stratum_thread, and a crash, at any time. *)
process_dies == Restart

submitter(b) ==
    \/ block_add(b) \/ compare_lastnotify(b) \/ find_block_submit(b)
notifier(h) == object_find_none(h) \/ write_lastnotify(h) \/ find_block_notify(h)
confirmer(b) == copy_hash(b) \/ set_confirmed(b)
main_thread ==
    block_prune \/ db_query \/ db_query_exiting \/ object_prune \/ main_loop \/ main_returns
process_end == exit_begins \/ db_query_fails \/ process_dies

Next ==
    \/ \E b \in Blocks : coind_submit(b) \/ submitter(b) \/ confirmer(b) \/ pass_time(b)
    \/ \E h \in Hashes : blocknotify(h) \/ notifier(h)
    \/ main_thread \/ db_answer_lost
    \/ process_end

Spec == Init /\ [][Next]_vars

(* Threads under way run on, and the database answers in the end; nothing  *)
(* makes a daemon accept or announce.                                      *)
FairSpec ==
    /\ Spec
    /\ WF_vars(main_thread)
    /\ \A b \in Blocks : WF_vars(submitter(b)) /\ WF_vars(confirmer(b))
    /\ \A h \in Hashes : WF_vars(notifier(h))

-----------------------------------------------------------------------------
TypeOK ==
    /\ accepted \subseteq Blocks
    /\ submit_pc \in [Blocks -> {"rpc", "rejected", "unanswered", "add", "compare", "find", "copy",
                               "confirm", "done", "gone"}]
    /\ notify_pc \in [Hashes -> {"silent", "refused", "write", "find", "copy", "confirm", "done", "gone"}]
    /\ lastnotifyhash \in Hashes \cup {NoHash}
    /\ g_list_block \subseteq accepted
    /\ deleted \subseteq Blocks /\ confirmed \subseteq Blocks
    /\ hash_copied \subseteq Blocks /\ aged \subseteq Blocks
    /\ main_pc \in {"loop", "block_prune", "db_query", "object_prune", "closing"}
    /\ g_exiting \in BOOLEAN
    /\ DOMAIN insert \subseteq Blocks /\ answer_lost \in BOOLEAN
    /\ rows \in [Blocks -> {"none", "announced hash", "no hash", "twice"}]
    /\ overwritten \subseteq Blocks /\ expired \subseteq Blocks /\ lost \subseteq Blocks

(* However the submitter and the notifier of a block interleave, one of    *)
(* them sees the other: a block both have dealt with is confirmed, unless  *)
(* another announcement replaced lastnotifyhash in between, or the block   *)
(* aged out first, or its hash_be is not the hash that is announced.       *)
AnnouncedIsConfirmed ==
    \A b \in Blocks :
        submit_pc[b] = "done" /\ notify_pc[b] = "done"
            => b \in confirmed \cup overwritten \cup expired \cup PowHashed

(* A block that was linked is forgotten without a row only if it was       *)
(* flagged unconfirmed, or if the process ended: before it was written, or *)
(* (db_query) while it was about to be.                                    *)
ForgottenExpired ==
    \A b \in Blocks :
        submit_pc[b] \in {"compare", "find", "copy", "confirm", "done", "gone"} /\ b \notin g_list_block
            => rows[b] # "none" \/ b \in expired \/ b \in lost

(* Every confirmed block gets its row, unless it had aged out before, or   *)
(* the process ends first.                                                 *)
ConfirmedIsWritten ==
    \A b \in Blocks : b \in confirmed ~> rows[b] # "none" \/ b \in expired \/ b \in lost

(* The blocks table is what the pool promises: no row without acceptance   *)
(* and announcement, none without the announced hash, and none twice       *)
(* unless the answer to its INSERT was lost and the statement sent again.  *)
announced == {b \in Blocks : notify_pc[b] # "silent"}
L == INSTANCE Ledger WITH
        Blocks <- Blocks, accepted <- accepted, announced <- announced, rows <- rows,
        unanswered <- IF answer_lost THEN DOMAIN insert ELSE {}
LedgerSpec == L!Spec
=============================================================================
