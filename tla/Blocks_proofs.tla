--------------------------- MODULE Blocks_proofs ---------------------------
(***************************************************************************)
(* Proofs about Blocks, for any blocks and any foreign hashes: what is     *)
(* confirmed and written, and that Blocks implements Ledger.               *)
(***************************************************************************)
EXTENDS Blocks, TLAPS

(* The submitters that have linked their block.                            *)
Past == {b \in Blocks : submit_pc[b] \in {"compare", "find", "copy", "confirm", "done"}}

AcceptedExact == accepted = {b \in Blocks : submit_pc[b] \notin {"rpc", "rejected"}}
AnnouncedAccepted == announced \subseteq accepted

(* A block stays linked until it is flagged.                               *)
Linked == g_list_block \cup deleted \subseteq Past /\ Past \subseteq g_list_block \cup deleted

(* A hash is copied, and a block confirmed, only after the announcement.   *)
LastWritten == \A b \in Blocks : lastnotifyhash = b => HasWritten(b)
HashKnown ==
    /\ confirmed \subseteq hash_copied /\ hash_copied \subseteq announced
    /\ \A b \in Blocks :
        /\ submit_pc[b] \in {"find", "copy", "confirm"} => b \in announced
        /\ submit_pc[b] = "confirm" \/ notify_pc[b] = "confirm" => b \in hash_copied

(* The submitter will see an announcement that came first.                 *)
LastOrOverwritten ==
    \A b \in Blocks :
        HasWritten(b) /\ submit_pc[b] \in {"rpc", "add", "compare"}
            => lastnotifyhash = b \/ b \in overwritten

(* The statement holds flagged, confirmed blocks with their hashes, none   *)
(* of which has a row unless the statement was executed before.            *)
Statement ==
    /\ main_pc # "db_query" => DOMAIN insert = {} /\ ~answer_lost
    /\ \A b \in DOMAIN insert :
        /\ b \in g_list_block \cap deleted \cap confirmed
        /\ insert[b] = TRUE
        /\ rows[b] = "none" <=> ~answer_lost

FlaggedWhy == deleted \subseteq confirmed \cup expired
FlaggedGone == main_pc \in {"loop", "block_prune", "closing"} => g_list_block \cap deleted = {}
RowsFlagged == \A b \in Blocks : rows[b] # "none" => b \in deleted \/ submit_pc[b] = "gone"

(* A flagged block, and one of an earlier process, is accounted for.       *)
Settled(b) == rows[b] # "none" \/ b \in expired \/ b \in lost
FlaggedWritten == \A b \in deleted : Settled(b) \/ b \in DOMAIN insert
GoneSettled == \A b \in Blocks : submit_pc[b] = "gone" => Settled(b)

Writing == Statement /\ FlaggedWhy /\ FlaggedGone /\ RowsFlagged /\ FlaggedWritten /\ GoneSettled

IInv ==
    /\ TypeOK /\ AcceptedExact /\ AnnouncedAccepted /\ Linked
    /\ LastWritten /\ HashKnown /\ LastOrOverwritten
    /\ Writing /\ AnnouncedIsConfirmed

-----------------------------------------------------------------------------
(* Only the thread that moves changes its program point.                   *)
LEMMA MovesAlone ==
  ASSUME TypeOK, NEW b \in Blocks, NEW from, NEW to, Submit(b, from, to)
  PROVE  \A c \in Blocks \ {b} : submit_pc'[c] = submit_pc[c]
  BY DEF TypeOK, Submit

LEMMA ConfirmerAlone ==
  ASSUME TypeOK, NEW b \in Blocks, confirmer(b)
  PROVE  \A c \in Blocks \ {b} : submit_pc'[c] = submit_pc[c] /\ notify_pc'[c] = notify_pc[c]
<1>1. CASE copy_hash(b)
  BY <1>1 DEF copy_hash, TypeOK, Submit, Notify, Hashes
<1>2. CASE set_confirmed(b)
  BY <1>2 DEF set_confirmed, TypeOK, Submit, Notify, Hashes
<1> QED
  BY <1>1, <1>2 DEF confirmer

(* Only the daemon's acceptance makes a submitter link its block.          *)
LEMMA TypeStep ==
  ASSUME TypeOK, AcceptedExact, [Next]_vars
  PROVE  TypeOK'
<1> USE HashAssumption DEF TypeOK, AcceptedExact, Hashes, Submit, Notify, threadVars, blockVars,
    mainVars, history
<1>1. ASSUME NEW b \in Blocks, coind_submit(b) PROVE TypeOK'
  BY <1>1 DEF coind_submit
<1>2. ASSUME NEW b \in Blocks, block_add(b) PROVE TypeOK'
  BY <1>2 DEF block_add
<1>3. ASSUME NEW b \in Blocks, compare_lastnotify(b) PROVE TypeOK'
  BY <1>3 DEF compare_lastnotify
<1>4. ASSUME NEW b \in Blocks, find_block_submit(b) PROVE TypeOK'
  BY <1>4 DEF find_block_submit, Found
<1>5. ASSUME NEW b \in Blocks, copy_hash(b) PROVE TypeOK'
  BY <1>5 DEF copy_hash
<1>6. ASSUME NEW b \in Blocks, set_confirmed(b) PROVE TypeOK'
  BY <1>6 DEF set_confirmed
<1>7. ASSUME NEW b \in Blocks, pass_time(b) PROVE TypeOK'
  BY <1>7 DEF pass_time
<1>8. ASSUME NEW h \in Hashes, blocknotify(h) PROVE TypeOK'
  BY <1>8 DEF blocknotify
<1>9. ASSUME NEW h \in Hashes, write_lastnotify(h) PROVE TypeOK'
  BY <1>9 DEF write_lastnotify
<1>10. ASSUME NEW h \in Hashes, find_block_notify(h) PROVE TypeOK'
  BY <1>10 DEF find_block_notify, Found
<1>11. CASE block_prune
  BY <1>11 DEF block_prune
<1>12. CASE db_query
  BY <1>12 DEF db_query, QueryReturns, Execute
<1>13. CASE db_answer_lost
  BY <1>13 DEF db_answer_lost, Execute
<1>14. CASE object_prune
  BY <1>14 DEF object_prune
<1>15. CASE UNCHANGED vars
  BY <1>15 DEF vars
<1>16. CASE db_query_exiting
  BY <1>16 DEF db_query_exiting, QueryReturns
<1>17. CASE main_loop \/ exit_begins
  BY <1>17 DEF main_loop, exit_begins
<1>18. ASSUME NEW h \in Hashes, object_find_none(h) PROVE TypeOK'
  BY <1>18 DEF object_find_none
<1>19. CASE Restart
  BY <1>19 DEF Restart
<1> QED
  BY <1>1, <1>2, <1>3, <1>4, <1>5, <1>6, <1>7, <1>8, <1>9, <1>10, <1>11, <1>12, <1>13, <1>14,
      <1>15, <1>16, <1>17, <1>18, <1>19
  DEF Next, submitter, notifier, confirmer, main_thread, process_end, main_returns, db_query_fails,
      process_dies

(* A submitter goes on exactly if the daemon has accepted.                 *)
LEMMA AcceptedStep ==
  ASSUME TypeOK, AcceptedExact, [Next]_vars
  PROVE  AcceptedExact'
<1> USE HashAssumption DEF TypeOK, AcceptedExact, Hashes, Submit, Notify, threadVars, blockVars,
    mainVars, history
<1>1. ASSUME NEW b \in Blocks, coind_submit(b) PROVE AcceptedExact'
  <2>1. CASE Submit(b, "rpc", "add") /\ accepted' = accepted \cup {b}
    <3>1. submit_pc'[b] = "add" /\ \A c \in Blocks \ {b} : submit_pc'[c] = submit_pc[c]
      BY <2>1
    <3> QED
      BY <2>1, <3>1
  <2>2. CASE Submit(b, "rpc", "rejected") /\ UNCHANGED accepted
    BY <1>1, <2>2 DEF coind_submit
  <2>3. CASE Submit(b, "rpc", "unanswered") /\ accepted' = accepted \cup {b}
    <3>1. submit_pc'[b] = "unanswered" /\ \A c \in Blocks \ {b} : submit_pc'[c] = submit_pc[c]
      BY <2>3
    <3> QED
      BY <2>3, <3>1
  <2> QED
    BY <1>1, <2>1, <2>2, <2>3 DEF coind_submit
<1>2. ASSUME NEW b \in Blocks, block_add(b) PROVE AcceptedExact'
  BY <1>2 DEF block_add
<1>3. ASSUME NEW b \in Blocks, compare_lastnotify(b) PROVE AcceptedExact'
  BY <1>3 DEF compare_lastnotify
<1>4. ASSUME NEW b \in Blocks, find_block_submit(b) PROVE AcceptedExact'
  BY <1>4 DEF find_block_submit, Found
<1>5. ASSUME NEW b \in Blocks, copy_hash(b) PROVE AcceptedExact'
  BY <1>5 DEF copy_hash
<1>6. ASSUME NEW b \in Blocks, set_confirmed(b) PROVE AcceptedExact'
  BY <1>6 DEF set_confirmed
<1>7. ASSUME NEW b \in Blocks, pass_time(b) PROVE AcceptedExact'
  BY <1>7 DEF pass_time
<1>8. ASSUME NEW h \in Hashes, blocknotify(h) PROVE AcceptedExact'
  BY <1>8 DEF blocknotify
<1>9. ASSUME NEW h \in Hashes, write_lastnotify(h) PROVE AcceptedExact'
  BY <1>9 DEF write_lastnotify
<1>10. ASSUME NEW h \in Hashes, find_block_notify(h) PROVE AcceptedExact'
  BY <1>10 DEF find_block_notify, Found
<1>11. CASE block_prune \/ db_query \/ db_answer_lost \/ db_query_exiting \/ object_prune
            \/ main_loop \/ exit_begins
  BY <1>11 DEF block_prune, db_query, db_answer_lost, db_query_exiting, QueryReturns,
    object_prune, main_loop, exit_begins
<1>12. ASSUME NEW h \in Hashes, object_find_none(h) PROVE AcceptedExact'
  BY <1>12 DEF object_find_none
<1>13. CASE Restart
  BY <1>13 DEF Restart
<1>14. CASE UNCHANGED vars
  BY <1>14 DEF vars
<1> QED
  BY <1>1, <1>2, <1>3, <1>4, <1>5, <1>6, <1>7, <1>8, <1>9, <1>10, <1>11, <1>12, <1>13, <1>14
  DEF Next, submitter, notifier, confirmer, main_thread, process_end, main_returns,
      db_query_fails, process_dies

(* A daemon announces own blocks only after it accepted them.              *)
LEMMA AnnouncedStep ==
  ASSUME TypeOK, AcceptedExact, AnnouncedAccepted, [Next]_vars
  PROVE  AnnouncedAccepted'
<1> USE HashAssumption DEF TypeOK, AnnouncedAccepted, announced, Hashes, Submit, Notify,
    threadVars, blockVars, mainVars, history
<1>1. ASSUME NEW b \in Blocks, coind_submit(b) PROVE AnnouncedAccepted'
  BY <1>1 DEF coind_submit
<1>2. ASSUME NEW b \in Blocks, block_add(b) PROVE AnnouncedAccepted'
  BY <1>2 DEF block_add
<1>3. ASSUME NEW b \in Blocks, compare_lastnotify(b) PROVE AnnouncedAccepted'
  BY <1>3 DEF compare_lastnotify
<1>4. ASSUME NEW b \in Blocks, find_block_submit(b) PROVE AnnouncedAccepted'
  BY <1>4 DEF find_block_submit, Found
<1>5. ASSUME NEW b \in Blocks, copy_hash(b) PROVE AnnouncedAccepted'
  BY <1>5 DEF copy_hash
<1>6. ASSUME NEW b \in Blocks, set_confirmed(b) PROVE AnnouncedAccepted'
  BY <1>6 DEF set_confirmed
<1>7. ASSUME NEW b \in Blocks, pass_time(b) PROVE AnnouncedAccepted'
  BY <1>7 DEF pass_time
<1>8. ASSUME NEW h \in Hashes, blocknotify(h) PROVE AnnouncedAccepted'
  BY <1>8 DEF blocknotify
<1>9. ASSUME NEW h \in Hashes, write_lastnotify(h) PROVE AnnouncedAccepted'
  BY <1>9 DEF write_lastnotify
<1>10. ASSUME NEW h \in Hashes, find_block_notify(h) PROVE AnnouncedAccepted'
  BY <1>10 DEF find_block_notify, Found
<1>11. CASE block_prune \/ db_query \/ db_answer_lost \/ db_query_exiting \/ object_prune
            \/ main_loop \/ exit_begins
  BY <1>11 DEF block_prune, db_query, db_answer_lost, db_query_exiting, QueryReturns,
    object_prune, main_loop, exit_begins
<1>12. ASSUME NEW h \in Hashes, object_find_none(h) PROVE AnnouncedAccepted'
  BY <1>12 DEF object_find_none
<1>13. CASE Restart
  BY <1>13 DEF Restart
<1>14. CASE UNCHANGED vars
  BY <1>14 DEF vars
<1> QED
  BY <1>1, <1>2, <1>3, <1>4, <1>5, <1>6, <1>7, <1>8, <1>9, <1>10, <1>11, <1>12, <1>13, <1>14
  DEF Next, submitter, notifier, confirmer, main_thread, process_end, main_returns,
      db_query_fails, process_dies

(* Blocks are linked once, and unlinked only when flagged.                 *)
LEMMA LinkedStep ==
  ASSUME TypeOK, Linked, [Next]_vars
  PROVE  Linked'
<1> USE HashAssumption DEF TypeOK, Linked, Past, Hashes, Submit, Notify, threadVars, blockVars,
    mainVars, history
<1>1. ASSUME NEW b \in Blocks, coind_submit(b) PROVE Linked'
  <2>1. CASE Submit(b, "rpc", "add") /\ accepted' = accepted \cup {b}
    BY <1>1, <2>1 DEF coind_submit
  <2>2. CASE Submit(b, "rpc", "rejected") /\ UNCHANGED accepted
    BY <1>1, <2>2 DEF coind_submit
  <2>3. CASE Submit(b, "rpc", "unanswered") /\ accepted' = accepted \cup {b}
    BY <1>1, <2>3 DEF coind_submit
  <2> QED
    BY <1>1, <2>1, <2>2, <2>3 DEF coind_submit
<1>2. ASSUME NEW b \in Blocks, block_add(b) PROVE Linked'
  <2>1. Past' = Past \cup {b}
    BY <1>2 DEF block_add
  <2> QED
    BY <1>2, <2>1 DEF block_add
<1>3. ASSUME NEW b \in Blocks, compare_lastnotify(b) PROVE Linked'
  BY <1>3 DEF compare_lastnotify
<1>4. ASSUME NEW b \in Blocks, find_block_submit(b) PROVE Linked'
  BY <1>4 DEF find_block_submit, Found
<1>5. ASSUME NEW b \in Blocks, copy_hash(b) PROVE Linked'
  BY <1>5 DEF copy_hash
<1>6. ASSUME NEW b \in Blocks, set_confirmed(b) PROVE Linked'
  BY <1>6 DEF set_confirmed
<1>7. ASSUME NEW b \in Blocks, pass_time(b) PROVE Linked'
  BY <1>7 DEF pass_time
<1>8. ASSUME NEW h \in Hashes, blocknotify(h) PROVE Linked'
  BY <1>8 DEF blocknotify
<1>9. ASSUME NEW h \in Hashes, write_lastnotify(h) PROVE Linked'
  BY <1>9 DEF write_lastnotify
<1>10. ASSUME NEW h \in Hashes, find_block_notify(h) PROVE Linked'
  BY <1>10 DEF find_block_notify, Found
<1>11. CASE block_prune \/ db_query \/ db_answer_lost \/ db_query_exiting \/ object_prune
            \/ main_loop \/ exit_begins
  BY <1>11 DEF block_prune, db_query, db_answer_lost, db_query_exiting, QueryReturns,
    object_prune, main_loop, exit_begins
<1>12. ASSUME NEW h \in Hashes, object_find_none(h) PROVE Linked'
  BY <1>12 DEF object_find_none
<1>13. CASE Restart
  BY <1>13 DEF Restart
<1>14. CASE UNCHANGED vars
  BY <1>14 DEF vars
<1> QED
  BY <1>1, <1>2, <1>3, <1>4, <1>5, <1>6, <1>7, <1>8, <1>9, <1>10, <1>11, <1>12, <1>13, <1>14
  DEF Next, submitter, notifier, confirmer, main_thread, process_end, main_returns,
      db_query_fails, process_dies

(* lastnotifyhash holds announced hashes.                                  *)
LEMMA LastWrittenStep ==
  ASSUME TypeOK, LastWritten, [Next]_vars
  PROVE  LastWritten'
<1> USE HashAssumption DEF TypeOK, HasWritten, LastWritten, Hashes, Submit, Notify, threadVars, blockVars,
    mainVars, history
<1>1. ASSUME NEW b \in Blocks, coind_submit(b) PROVE LastWritten'
  BY <1>1 DEF coind_submit
<1>2. ASSUME NEW b \in Blocks, block_add(b) PROVE LastWritten'
  BY <1>2 DEF block_add
<1>3. ASSUME NEW b \in Blocks, compare_lastnotify(b) PROVE LastWritten'
  BY <1>3 DEF compare_lastnotify
<1>4. ASSUME NEW b \in Blocks, find_block_submit(b) PROVE LastWritten'
  BY <1>4 DEF find_block_submit, Found
<1>5. ASSUME NEW b \in Blocks, copy_hash(b) PROVE LastWritten'
  BY <1>5 DEF copy_hash
<1>6. ASSUME NEW b \in Blocks, set_confirmed(b) PROVE LastWritten'
  BY <1>6 DEF set_confirmed
<1>7. ASSUME NEW b \in Blocks, pass_time(b) PROVE LastWritten'
  BY <1>7 DEF pass_time
<1>8. ASSUME NEW h \in Hashes, blocknotify(h) PROVE LastWritten'
  BY <1>8 DEF blocknotify
<1>9. ASSUME NEW h \in Hashes, write_lastnotify(h) PROVE LastWritten'
  BY <1>9 DEF write_lastnotify
<1>10. ASSUME NEW h \in Hashes, find_block_notify(h) PROVE LastWritten'
  BY <1>10 DEF find_block_notify, Found
<1>11. CASE block_prune \/ db_query \/ db_answer_lost \/ db_query_exiting \/ object_prune
            \/ main_loop \/ exit_begins
  BY <1>11 DEF block_prune, db_query, db_answer_lost, db_query_exiting, QueryReturns,
    object_prune, main_loop, exit_begins
<1>12. ASSUME NEW h \in Hashes, object_find_none(h) PROVE LastWritten'
  BY <1>12 DEF object_find_none
<1>13. CASE Restart
  BY <1>13 DEF Restart
<1>14. CASE UNCHANGED vars
  BY <1>14 DEF vars
<1> QED
  BY <1>1, <1>2, <1>3, <1>4, <1>5, <1>6, <1>7, <1>8, <1>9, <1>10, <1>11, <1>12, <1>13, <1>14
  DEF Next, submitter, notifier, confirmer, main_thread, process_end, main_returns,
      db_query_fails, process_dies

(* block_confirm runs for announced blocks, and flags what has its hash.   *)
LEMMA HashKnownStep ==
  ASSUME TypeOK, AcceptedExact, AnnouncedAccepted, LastWritten, HashKnown, [Next]_vars
  PROVE  HashKnown'
<1> USE HashAssumption DEF TypeOK, AcceptedExact, AnnouncedAccepted, announced, LastWritten,
    HashKnown, Hashes, Submit, Notify, threadVars, blockVars, mainVars, history
<1>0. \A b \in Blocks : lastnotifyhash = b => b \in announced
  BY DEF HasWritten
<1>1. ASSUME NEW b \in Blocks, coind_submit(b) PROVE HashKnown'
  <2>1. CASE Submit(b, "rpc", "add") /\ accepted' = accepted \cup {b}
    BY <1>1, <2>1 DEF coind_submit
  <2>2. CASE Submit(b, "rpc", "rejected") /\ UNCHANGED accepted
    BY <1>1, <2>2 DEF coind_submit
  <2>3. CASE Submit(b, "rpc", "unanswered") /\ accepted' = accepted \cup {b}
    BY <1>1, <2>3 DEF coind_submit
  <2> QED
    BY <1>1, <2>1, <2>2, <2>3 DEF coind_submit
<1>2. ASSUME NEW b \in Blocks, block_add(b) PROVE HashKnown'
  BY <1>2 DEF block_add
<1>3. ASSUME NEW b \in Blocks, compare_lastnotify(b) PROVE HashKnown'
  BY <1>0, <1>3 DEF compare_lastnotify
<1>4. ASSUME NEW b \in Blocks, find_block_submit(b) PROVE HashKnown'
  <2>1. submit_pc[b] = "find" /\ submit_pc'[b] \in {"copy", "done"}
    BY <1>4 DEF find_block_submit
  <2>2. \A c \in Blocks \ {b} : submit_pc'[c] = submit_pc[c]
    BY <1>4, MovesAlone DEF find_block_submit
  <2>3. UNCHANGED <<notify_pc, confirmed, hash_copied>>
    BY <1>4 DEF find_block_submit
  <2> QED
    BY <2>1, <2>2, <2>3
<1>5. ASSUME NEW b \in Blocks, copy_hash(b) PROVE HashKnown'
  <2>1. b \in announced /\ announced \subseteq announced'
    <3>1. CASE UNCHANGED notify_pc
      BY <1>5, <3>1 DEF copy_hash
    <3>2. CASE UNCHANGED submit_pc
      <4>1. notify_pc[b] # "silent" /\ notify_pc'[b] # "silent"
        BY <1>5, <3>2 DEF copy_hash
      <4>2. \A c \in Blocks \ {b} : notify_pc'[c] = notify_pc[c]
        BY <1>5, <3>2 DEF copy_hash
      <4>3. b \in announced
        BY <1>5, <3>2 DEF copy_hash
      <4> QED
        BY <4>1, <4>2, <4>3
    <3> QED
      BY <1>5, <3>1, <3>2 DEF copy_hash
  <2>2. hash_copied' \in {hash_copied, hash_copied \cup {b}} /\ b \in hash_copied'
        /\ UNCHANGED confirmed
    BY <1>5 DEF copy_hash
  <2>3. \A c \in Blocks \ {b} : submit_pc'[c] = submit_pc[c] /\ notify_pc'[c] = notify_pc[c]
    BY <1>5, ConfirmerAlone DEF confirmer
  <2> QED
    BY <2>1, <2>2, <2>3
<1>6. ASSUME NEW b \in Blocks, set_confirmed(b) PROVE HashKnown'
  <2>1. b \in hash_copied /\ announced \subseteq announced'
    <3>1. CASE UNCHANGED notify_pc
      BY <1>6, <3>1 DEF set_confirmed
    <3>2. CASE UNCHANGED submit_pc
      <4>1. notify_pc[b] # "silent" /\ notify_pc'[b] # "silent"
        BY <1>6, <3>2 DEF set_confirmed
      <4>2. \A c \in Blocks \ {b} : notify_pc'[c] = notify_pc[c]
        BY <1>6, <3>2 DEF set_confirmed
      <4>3. b \in hash_copied
        BY <1>6, <3>2 DEF set_confirmed
      <4> QED
        BY <4>1, <4>2, <4>3
    <3> QED
      BY <1>6, <3>1, <3>2 DEF set_confirmed
  <2>2. confirmed' = confirmed \cup {b} /\ UNCHANGED hash_copied
    BY <1>6 DEF set_confirmed
  <2>3. \A c \in Blocks \ {b} : submit_pc'[c] = submit_pc[c] /\ notify_pc'[c] = notify_pc[c]
    BY <1>6, ConfirmerAlone DEF confirmer
  <2> QED
    BY <2>1, <2>2, <2>3
<1>7. ASSUME NEW b \in Blocks, pass_time(b) PROVE HashKnown'
  BY <1>7 DEF pass_time
<1>8. ASSUME NEW h \in Hashes, blocknotify(h) PROVE HashKnown'
  BY <1>8 DEF blocknotify
<1>9. ASSUME NEW h \in Hashes, write_lastnotify(h) PROVE HashKnown'
  BY <1>9 DEF write_lastnotify
<1>10. ASSUME NEW h \in Hashes, find_block_notify(h) PROVE HashKnown'
  BY <1>10 DEF find_block_notify, Found
<1>11. CASE block_prune \/ db_query \/ db_answer_lost \/ db_query_exiting \/ object_prune
            \/ main_loop \/ exit_begins
  BY <1>11 DEF block_prune, db_query, db_answer_lost, db_query_exiting, QueryReturns,
    object_prune, main_loop, exit_begins
<1>12. ASSUME NEW h \in Hashes, object_find_none(h) PROVE HashKnown'
  BY <1>12 DEF object_find_none
<1>13. CASE Restart
  BY <1>13 DEF Restart
<1>14. CASE UNCHANGED vars
  BY <1>14 DEF vars
<1> QED
  BY <1>1, <1>2, <1>3, <1>4, <1>5, <1>6, <1>7, <1>8, <1>9, <1>10, <1>11, <1>12, <1>13, <1>14
  DEF Next, submitter, notifier, confirmer, main_thread, process_end, main_returns,
      db_query_fails, process_dies

(* An announcement is in lastnotifyhash until the next one.                *)
LEMMA LastOrOverwrittenStep ==
  ASSUME TypeOK, AcceptedExact, AnnouncedAccepted, LastOrOverwritten, [Next]_vars
  PROVE  LastOrOverwritten'
<1> USE HashAssumption DEF TypeOK, HasWritten, AcceptedExact, AnnouncedAccepted, announced,
    LastOrOverwritten, Hashes, Submit, Notify, threadVars, blockVars, mainVars, history
<1>1. ASSUME NEW b \in Blocks, coind_submit(b) PROVE LastOrOverwritten'
  <2>1. b \notin accepted /\ UNCHANGED <<notify_pc, lastnotifyhash, overwritten>>
    BY <1>1 DEF coind_submit
  <2>2. ~HasWritten(b)
    BY <2>1
  <2>3. \A c \in Blocks \ {b} : submit_pc'[c] = submit_pc[c]
    BY <1>1, MovesAlone DEF coind_submit
  <2> QED
    BY <2>1, <2>2, <2>3
<1>2. ASSUME NEW b \in Blocks, block_add(b) PROVE LastOrOverwritten'
  BY <1>2 DEF block_add
<1>3. ASSUME NEW b \in Blocks, compare_lastnotify(b) PROVE LastOrOverwritten'
  BY <1>3 DEF compare_lastnotify
<1>4. ASSUME NEW b \in Blocks, find_block_submit(b) PROVE LastOrOverwritten'
  <2>1. submit_pc'[b] \in {"copy", "done"}
    BY <1>4 DEF find_block_submit
  <2>2. \A c \in Blocks \ {b} : submit_pc'[c] = submit_pc[c]
    BY <1>4, MovesAlone DEF find_block_submit
  <2>3. UNCHANGED <<notify_pc, lastnotifyhash, overwritten>>
    BY <1>4 DEF find_block_submit
  <2> QED
    BY <2>1, <2>2, <2>3
<1>5. ASSUME NEW b \in Blocks, copy_hash(b) PROVE LastOrOverwritten'
  <2>1. \A c \in Blocks \ {b} : submit_pc'[c] = submit_pc[c] /\ notify_pc'[c] = notify_pc[c]
    BY <1>5, ConfirmerAlone DEF confirmer
  <2>2. UNCHANGED <<lastnotifyhash, overwritten>>
    BY <1>5 DEF copy_hash
  <2>3. \/ submit_pc'[b] \in {"confirm", "done"}
        \/ submit_pc'[b] = submit_pc[b] /\ notify_pc[b] \in {"copy", "confirm"}
    BY <1>5 DEF copy_hash
  <2> QED
    BY <2>1, <2>2, <2>3
<1>6. ASSUME NEW b \in Blocks, set_confirmed(b) PROVE LastOrOverwritten'
  <2>1. \A c \in Blocks \ {b} : submit_pc'[c] = submit_pc[c] /\ notify_pc'[c] = notify_pc[c]
    BY <1>6, ConfirmerAlone DEF confirmer
  <2>2. UNCHANGED <<lastnotifyhash, overwritten>>
    BY <1>6 DEF set_confirmed
  <2>3. \/ submit_pc'[b] \in {"confirm", "done"}
        \/ submit_pc'[b] = submit_pc[b] /\ notify_pc[b] \in {"copy", "confirm"}
    BY <1>6 DEF set_confirmed
  <2> QED
    BY <2>1, <2>2, <2>3
<1>7. ASSUME NEW b \in Blocks, pass_time(b) PROVE LastOrOverwritten'
  BY <1>7 DEF pass_time
<1>8. ASSUME NEW h \in Hashes, blocknotify(h) PROVE LastOrOverwritten'
  BY <1>8 DEF blocknotify
<1>9. ASSUME NEW h \in Hashes, write_lastnotify(h) PROVE LastOrOverwritten'
  BY <1>9 DEF write_lastnotify
<1>10. ASSUME NEW h \in Hashes, find_block_notify(h) PROVE LastOrOverwritten'
  BY <1>10 DEF find_block_notify, Found
<1>11. CASE block_prune \/ db_query \/ db_answer_lost \/ db_query_exiting \/ object_prune
            \/ main_loop \/ exit_begins
  BY <1>11 DEF block_prune, db_query, db_answer_lost, db_query_exiting, QueryReturns,
    object_prune, main_loop, exit_begins
<1>12. ASSUME NEW h \in Hashes, object_find_none(h) PROVE LastOrOverwritten'
  BY <1>12 DEF object_find_none
<1>13. CASE Restart
  BY <1>13 DEF Restart
<1>14. CASE UNCHANGED vars
  BY <1>14 DEF vars
<1> QED
  BY <1>1, <1>2, <1>3, <1>4, <1>5, <1>6, <1>7, <1>8, <1>9, <1>10, <1>11, <1>12, <1>13, <1>14
  DEF Next, submitter, notifier, confirmer, main_thread, process_end, main_returns,
      db_query_fails, process_dies

(* From the flag to the row: block_prune, db_query, object_prune.          *)
LEMMA WritingStep ==
  ASSUME TypeOK, Linked, HashKnown, Writing, [Next]_vars
  PROVE  Writing'
<1> USE HashAssumption DEF TypeOK, Linked, HashKnown, Past, Writing, Statement, FlaggedWhy,
    FlaggedGone, RowsFlagged, FlaggedWritten, GoneSettled, Settled, Hashes, Submit, Notify, threadVars, blockVars,
    mainVars, history
<1>1. ASSUME NEW b \in Blocks, coind_submit(b) PROVE Writing'
  BY <1>1 DEF coind_submit
<1>2. ASSUME NEW b \in Blocks, block_add(b) PROVE Writing'
  BY <1>2 DEF block_add
<1>3. ASSUME NEW b \in Blocks, compare_lastnotify(b) PROVE Writing'
  BY <1>3 DEF compare_lastnotify
<1>4. ASSUME NEW b \in Blocks, find_block_submit(b) PROVE Writing'
  BY <1>4 DEF find_block_submit, Found
<1>5. ASSUME NEW b \in Blocks, copy_hash(b) PROVE Writing'
  BY <1>5 DEF copy_hash
<1>6. ASSUME NEW b \in Blocks, set_confirmed(b) PROVE Writing'
  BY <1>6 DEF set_confirmed
<1>7. ASSUME NEW b \in Blocks, pass_time(b) PROVE Writing'
  BY <1>7 DEF pass_time
<1>8. ASSUME NEW h \in Hashes, blocknotify(h) PROVE Writing'
  BY <1>8 DEF blocknotify
<1>9. ASSUME NEW h \in Hashes, write_lastnotify(h) PROVE Writing'
  BY <1>9 DEF write_lastnotify
<1>10. ASSUME NEW h \in Hashes, find_block_notify(h) PROVE Writing'
  BY <1>10 DEF find_block_notify, Found
<1>11. CASE block_prune
  BY <1>11 DEF block_prune
<1>12. CASE db_query
  BY <1>12 DEF db_query, QueryReturns, Execute
<1>13. CASE db_answer_lost
  BY <1>13 DEF db_answer_lost, Execute
<1>14. CASE object_prune
  BY <1>14 DEF object_prune
<1>15. CASE UNCHANGED vars
  BY <1>15 DEF vars
<1>16. CASE db_query_exiting
  BY <1>16 DEF db_query_exiting, QueryReturns
<1>17. CASE main_loop \/ exit_begins
  <2>1. CASE main_loop
    BY <2>1 DEF main_loop
  <2>2. CASE exit_begins
    BY <2>2 DEF exit_begins
  <2> QED
    BY <1>17, <2>1, <2>2
<1>18. ASSUME NEW h \in Hashes, object_find_none(h) PROVE Writing'
  BY <1>18 DEF object_find_none
<1>19. CASE Restart
  BY <1>19 DEF Restart
<1> QED
  BY <1>1, <1>2, <1>3, <1>4, <1>5, <1>6, <1>7, <1>8, <1>9, <1>10, <1>11, <1>12, <1>13, <1>14,
      <1>15, <1>16, <1>17, <1>18, <1>19
  DEF Next, submitter, notifier, confirmer, main_thread, process_end, main_returns, db_query_fails,
      process_dies

(* A thread that gives up has found its block confirmed or flagged.        *)
LEMMA AnnouncedIsConfirmedStep ==
  ASSUME IInv, [Next]_vars
  PROVE  AnnouncedIsConfirmed'
<1> USE HashAssumption DEF IInv, TypeOK, HasWritten, AcceptedExact, AnnouncedAccepted, Linked, Past,
    announced, HashKnown, LastOrOverwritten, Writing, FlaggedWhy, AnnouncedIsConfirmed, Hashes,
    Submit, Notify, threadVars, blockVars, mainVars, history
<1>1. ASSUME NEW b \in Blocks, coind_submit(b) PROVE AnnouncedIsConfirmed'
  <2>1. submit_pc'[b] = "done" /\ notify_pc'[b] = "done" /\ b \in Blocks
           => b \in (confirmed \cup overwritten \cup expired \cup PowHashed)
    BY <1>1 DEF coind_submit
  <2>2. \A c \in Blocks \ {b} : submit_pc'[c] = submit_pc[c] /\ notify_pc'[c] = notify_pc[c]
    <3>1. UNCHANGED notify_pc
      BY <1>1 DEF coind_submit
    <3>2. \E to \in {"add", "unanswered", "rejected"} : Submit(b, "rpc", to)
      BY <1>1 DEF coind_submit
    <3> QED
      BY <3>1, <3>2, MovesAlone
  <2>3. UNCHANGED <<confirmed, overwritten, expired>>
    BY <1>1 DEF coind_submit
  <2> QED
    BY <2>1, <2>2, <2>3
<1>2. ASSUME NEW b \in Blocks, block_add(b) PROVE AnnouncedIsConfirmed'
  BY <1>2 DEF block_add
<1>3. ASSUME NEW b \in Blocks, compare_lastnotify(b) PROVE AnnouncedIsConfirmed'
  <2>1. submit_pc'[b] = "done" /\ notify_pc'[b] = "done" /\ b \in Blocks
           => b \in (confirmed \cup overwritten \cup expired \cup PowHashed)
    BY <1>3 DEF compare_lastnotify
  <2>2. \A c \in Blocks \ {b} : submit_pc'[c] = submit_pc[c] /\ notify_pc'[c] = notify_pc[c]
    BY <1>3 DEF compare_lastnotify
  <2>3. UNCHANGED <<confirmed, overwritten, expired>>
    BY <1>3 DEF compare_lastnotify
  <2> QED
    BY <2>1, <2>2, <2>3
<1>4. ASSUME NEW b \in Blocks, find_block_submit(b) PROVE AnnouncedIsConfirmed'
  <2>1. b \in confirmed \cup expired \cup PowHashed \/ submit_pc'[b] = "copy"
    <3>1. CASE Submit(b, "find", "copy")
      BY <3>1
    <3>2. CASE ~Found(b) /\ Submit(b, "find", "done")
      BY <3>2 DEF Found
    <3> QED
      BY <1>4, <3>1, <3>2 DEF find_block_submit
  <2>2. \A c \in Blocks \ {b} : submit_pc'[c] = submit_pc[c]
    BY <1>4, MovesAlone DEF find_block_submit
  <2>3. UNCHANGED <<notify_pc, confirmed, overwritten, expired>>
    BY <1>4 DEF find_block_submit
  <2> QED
    BY <2>1, <2>2, <2>3
<1>5. ASSUME NEW b \in Blocks, copy_hash(b) PROVE AnnouncedIsConfirmed'
  <2>1. \/ b \in confirmed
        \/ submit_pc'[b] = "confirm" \/ notify_pc'[b] = "confirm"
    <3>1. CASE Submit(b, "copy", IF b \in confirmed THEN "done" ELSE "confirm")
      BY <3>1
    <3>2. CASE Notify(b, "copy", IF b \in confirmed THEN "done" ELSE "confirm")
      BY <3>2
    <3> QED
      BY <1>5, <3>1, <3>2 DEF copy_hash
  <2>2. \A c \in Blocks \ {b} : submit_pc'[c] = submit_pc[c] /\ notify_pc'[c] = notify_pc[c]
    BY <1>5, ConfirmerAlone DEF confirmer
  <2>3. UNCHANGED <<confirmed, overwritten, expired>>
    BY <1>5 DEF copy_hash
  <2> QED
    BY <2>1, <2>2, <2>3
<1>6. ASSUME NEW b \in Blocks, set_confirmed(b) PROVE AnnouncedIsConfirmed'
  BY <1>6 DEF set_confirmed
<1>7. ASSUME NEW b \in Blocks, pass_time(b) PROVE AnnouncedIsConfirmed'
  BY <1>7 DEF pass_time
<1>8. ASSUME NEW h \in Hashes, blocknotify(h) PROVE AnnouncedIsConfirmed'
  BY <1>8 DEF blocknotify
<1>9. ASSUME NEW h \in Hashes, write_lastnotify(h) PROVE AnnouncedIsConfirmed'
  BY <1>9 DEF write_lastnotify
<1>10. ASSUME NEW h \in Hashes, find_block_notify(h) PROVE AnnouncedIsConfirmed'
  <2>1. submit_pc'[h] = "done" /\ notify_pc'[h] = "done" /\ h \in Blocks
           => h \in (confirmed \cup overwritten \cup expired \cup PowHashed)
    BY <1>10 DEF find_block_notify, Found
  <2>2. \A c \in Blocks \ {h} : submit_pc'[c] = submit_pc[c] /\ notify_pc'[c] = notify_pc[c]
    BY <1>10 DEF find_block_notify, Found
  <2>3. UNCHANGED <<confirmed, overwritten, expired>>
    BY <1>10 DEF find_block_notify, Found
  <2> QED
    BY <2>1, <2>2, <2>3
<1>11. CASE block_prune \/ db_query \/ db_answer_lost \/ db_query_exiting \/ object_prune
            \/ main_loop \/ exit_begins
  BY <1>11 DEF block_prune, db_query, db_answer_lost, db_query_exiting, QueryReturns,
    object_prune, main_loop, exit_begins
<1>12. ASSUME NEW h \in Hashes, object_find_none(h) PROVE AnnouncedIsConfirmed'
  BY <1>12 DEF object_find_none
<1>13. CASE Restart
  BY <1>13 DEF Restart
<1>14. CASE UNCHANGED vars
  BY <1>14 DEF vars
<1> QED
  BY <1>1, <1>2, <1>3, <1>4, <1>5, <1>6, <1>7, <1>8, <1>9, <1>10, <1>11, <1>12, <1>13, <1>14
  DEF Next, submitter, notifier, confirmer, main_thread, process_end, main_returns,
      db_query_fails, process_dies

LEMMA IInvInit == Init => IInv
<1> SUFFICES ASSUME Init PROVE IInv
  OBVIOUS
<1> USE DEF Init
<1>1. TypeOK /\ LastWritten
  BY HashAssumption DEF TypeOK, LastWritten, Hashes, NoHash
<1>2. AcceptedExact /\ AnnouncedAccepted /\ Linked
  BY DEF AcceptedExact, AnnouncedAccepted, announced, Linked, Past, Hashes
<1>3. HashKnown /\ LastOrOverwritten /\ AnnouncedIsConfirmed
  BY DEF HashKnown, LastOrOverwritten, HasWritten, AnnouncedIsConfirmed, Hashes
<1>4. Writing
  BY DEF Writing, Statement, FlaggedWhy, FlaggedGone, RowsFlagged, FlaggedWritten, GoneSettled, Settled
<1> QED
  BY <1>1, <1>2, <1>3, <1>4 DEF IInv

LEMMA IInvStep == IInv /\ [Next]_vars => IInv'
  BY TypeStep, AcceptedStep, AnnouncedStep, LinkedStep, LastWrittenStep, HashKnownStep,
     LastOrOverwrittenStep, WritingStep, AnnouncedIsConfirmedStep DEF IInv

(* Each step accepts a block, announces one, executes an INSERT, or leaves *)
(* the ledger alone.                                                       *)
LEMMA LedgerStep == IInv /\ [Next]_vars => [L!Next]_L!ledgerVars
<1> SUFFICES ASSUME IInv, [Next]_vars PROVE [L!Next]_L!ledgerVars
  OBVIOUS
<1> USE DEF IInv, L!ledgerVars, Hashes, Submit, Notify, threadVars, blockVars, mainVars, history
<1>1. ASSUME NEW b \in Blocks, coind_submit(b) PROVE [L!Next]_L!ledgerVars
  <2>1. CASE Submit(b, "rpc", "add") /\ accepted' = accepted \cup {b}
    <3>1. b \notin accepted
      BY <2>1 DEF AcceptedExact
    <3>2. announced' = announced
      BY <1>1 DEF coind_submit, announced
    <3>3. L!Accept(b)
      BY <1>1, <2>1, <3>1, <3>2 DEF coind_submit, L!Accept
    <3> QED
      BY <3>3 DEF L!Next
  <2>2. CASE Submit(b, "rpc", "unanswered") /\ accepted' = accepted \cup {b}
    <3>1. b \notin accepted
      BY <2>2 DEF AcceptedExact
    <3>2. announced' = announced
      BY <1>1 DEF coind_submit, announced
    <3>3. L!Accept(b)
      BY <1>1, <2>2, <3>1, <3>2 DEF coind_submit, L!Accept
    <3> QED
      BY <3>3 DEF L!Next
  <2>3. CASE UNCHANGED accepted
    BY <1>1, <2>3 DEF coind_submit, announced
  <2> QED
    BY <1>1, <2>1, <2>2, <2>3 DEF coind_submit
<1>2. ASSUME NEW b \in Blocks, block_add(b) PROVE [L!Next]_L!ledgerVars
  BY <1>2 DEF block_add, announced
<1>3. ASSUME NEW b \in Blocks, compare_lastnotify(b) PROVE [L!Next]_L!ledgerVars
  BY <1>3 DEF compare_lastnotify, announced
<1>4. ASSUME NEW b \in Blocks, find_block_submit(b) PROVE [L!Next]_L!ledgerVars
  BY <1>4 DEF find_block_submit, announced
<1>5. ASSUME NEW b \in Blocks, copy_hash(b) PROVE [L!Next]_L!ledgerVars
  <2>1. announced' = announced
    <3>1. (notify_pc[b] = "silent") <=> (notify_pc'[b] = "silent")
      <4>1. CASE UNCHANGED notify_pc
        BY <4>1
      <4>2. CASE UNCHANGED submit_pc
        BY <1>5, <4>2 DEF copy_hash, TypeOK
      <4> QED
        BY <1>5, <4>1, <4>2 DEF copy_hash
    <3>2. \A c \in Blocks \ {b} : notify_pc'[c] = notify_pc[c]
      BY <1>5 DEF copy_hash, TypeOK
    <3> QED
      BY <3>1, <3>2 DEF announced
  <2> QED
    BY <1>5, <2>1 DEF copy_hash
<1>6. ASSUME NEW b \in Blocks, set_confirmed(b) PROVE [L!Next]_L!ledgerVars
  <2>1. announced' = announced
    <3>1. (notify_pc[b] = "silent") <=> (notify_pc'[b] = "silent")
      <4>1. CASE UNCHANGED notify_pc
        BY <4>1
      <4>2. CASE UNCHANGED submit_pc
        BY <1>6, <4>2 DEF set_confirmed, TypeOK
      <4> QED
        BY <1>6, <4>1, <4>2 DEF set_confirmed
    <3>2. \A c \in Blocks \ {b} : notify_pc'[c] = notify_pc[c]
      BY <1>6 DEF set_confirmed, TypeOK
    <3> QED
      BY <3>1, <3>2 DEF announced
  <2> QED
    BY <1>6, <2>1 DEF set_confirmed
<1>7. ASSUME NEW b \in Blocks, pass_time(b) PROVE [L!Next]_L!ledgerVars
  BY <1>7 DEF pass_time, announced
<1>8. ASSUME NEW h \in Hashes, blocknotify(h) PROVE [L!Next]_L!ledgerVars
  <2>1. CASE h \in Blocks
    <3>1. h \in accepted /\ h \notin announced
      BY <1>8, <2>1, HashAssumption DEF blocknotify, announced
    <3>2. announced' = announced \cup {h}
      BY <1>8, <2>1 DEF blocknotify, announced, TypeOK
    <3>3. L!Announce(h)
      BY <1>8, <2>1, <3>1, <3>2 DEF blocknotify, L!Announce
    <3> QED
      BY <2>1, <3>3 DEF L!Next
  <2>2. CASE h \notin Blocks
    <3>1. announced' = announced
      BY <1>8, <2>2 DEF blocknotify, announced, TypeOK
    <3> QED
      BY <1>8, <3>1 DEF blocknotify
  <2> QED
    BY <2>1, <2>2
<1>9. ASSUME NEW h \in Hashes, write_lastnotify(h) PROVE [L!Next]_L!ledgerVars
  <2>1. announced' = announced
    BY <1>9 DEF write_lastnotify, announced, TypeOK
  <2> QED
    BY <1>9, <2>1 DEF write_lastnotify
<1>10. ASSUME NEW h \in Hashes, find_block_notify(h) PROVE [L!Next]_L!ledgerVars
  <2>1. announced' = announced
    BY <1>10 DEF find_block_notify, announced, TypeOK
  <2> QED
    BY <1>10, <2>1 DEF find_block_notify
<1>11. CASE block_prune
  <2>1. ~answer_lost
    BY <1>11 DEF block_prune, Writing, Statement
  <2> QED
    BY <1>11, <2>1 DEF block_prune, announced
<1> USE DEF TypeOK, HashKnown, Writing, Statement, Execute
<1>12. ASSUME main_pc = "db_query"
       PROVE  /\ DOMAIN insert \subseteq
                    {b \in announced : rows[b] = "none"}
                        \cup (IF answer_lost THEN DOMAIN insert ELSE {})
              /\ Execute => rows' = [b \in Blocks |->
                    IF b \notin DOMAIN insert THEN rows[b]
                    ELSE IF rows[b] = "none" THEN "announced hash" ELSE "twice"]
  BY <1>12
<1>13. CASE db_query
  <2>1. L!Insert(DOMAIN insert)
    <3>1. announced' = announced
      BY <1>13 DEF db_query, announced
    <3> QED
      BY <1>12, <1>13, <3>1 DEF db_query, QueryReturns, L!Insert
  <2> QED
    BY <2>1 DEF L!Next
<1>14. CASE db_answer_lost
  <2>1. L!Insert(DOMAIN insert)
    <3>1. announced' = announced
      BY <1>14 DEF db_answer_lost, announced
    <3> QED
      BY <1>12, <1>14, <3>1 DEF db_answer_lost, L!Insert
  <2> QED
    BY <2>1 DEF L!Next
<1>15. CASE object_prune
  BY <1>15 DEF object_prune, announced
<1>16. CASE UNCHANGED vars
  BY <1>16 DEF vars, announced
<1>17. CASE db_query_exiting
  <2>1. announced' = announced /\ ~answer_lost'
    BY <1>17 DEF db_query_exiting, QueryReturns, announced
  <2>2. L!GiveUp
    BY <1>17, <2>1 DEF db_query_exiting, L!GiveUp
  <2> QED
    BY <2>2 DEF L!Next
<1>18. CASE main_loop \/ exit_begins
  <2>1. CASE main_loop
    BY <2>1 DEF main_loop, announced
  <2>2. CASE exit_begins
    BY <2>2 DEF exit_begins, announced
  <2> QED
    BY <1>18, <2>1, <2>2
<1>19. ASSUME NEW h \in Hashes, object_find_none(h) PROVE [L!Next]_L!ledgerVars
  <2>1. announced' = announced
    BY <1>19 DEF object_find_none, announced
  <2> QED
    BY <1>19, <2>1 DEF object_find_none
<1>20. CASE Restart
  <2>1. announced' = announced
    BY <1>20 DEF Restart, announced
  <2>2. L!GiveUp
    BY <1>20, <2>1 DEF Restart, L!GiveUp
  <2> QED
    BY <2>2 DEF L!Next
<1> QED
  BY <1>1, <1>2, <1>3, <1>4, <1>5, <1>6, <1>7, <1>8, <1>9, <1>10, <1>11, <1>13, <1>14, <1>15,
      <1>16, <1>17, <1>18, <1>19, <1>20
  DEF Next, submitter, notifier, confirmer, main_thread, process_end, main_returns, db_query_fails,
      process_dies

-----------------------------------------------------------------------------
(* The variables of blocks, announcements and the statement keep their     *)
(* types; in particular only accepted blocks are linked (block_add).       *)
THEOREM TypeCorrect == Spec => []TypeOK
<1>1. IInv => TypeOK
  BY DEF IInv
<1> QED
  BY <1>1, IInvInit, IInvStep, PTL DEF Spec

(* However client_do_submit and client_update_block interleave, a block    *)
(* that both have dealt with is confirmed, but for the gaps it names.      *)
THEOREM AnnouncedConfirmed == Spec => []AnnouncedIsConfirmed
<1>1. IInv => AnnouncedIsConfirmed
  BY DEF IInv
<1> QED
  BY <1>1, IInvInit, IInvStep, PTL DEF Spec

(* object_prune forgets a block without a row only if block_prune flagged  *)
(* it, aged and unconfirmed, or db_query gave up its INSERT as the server  *)
(* was exiting, or the process ended before it was written.                *)
THEOREM ForgottenWritten == Spec => []ForgottenExpired
<1>1. IInv => ForgottenExpired
  BY DEF IInv, ForgottenExpired, Linked, Past, Writing, Statement, FlaggedWritten,
    GoneSettled, Settled
<1> QED
  BY <1>1, IInvInit, IInvStep, PTL DEF Spec

(* block_prune and db_query write the table blocks as Ledger promises: no  *)
(* row but of accepted and announced blocks, with the announced hash, and  *)
(* none twice unless the answer to its INSERT was lost.                    *)
THEOREM LedgerKept == Spec => LedgerSpec
<1>1. Init => L!Init
  BY DEF Init, L!Init, announced, Hashes
<1> QED
  BY <1>1, IInvInit, IInvStep, LedgerStep, PTL DEF Spec, LedgerSpec, L!Spec
=============================================================================
