--------------------------- MODULE Clients_proofs ---------------------------
(***************************************************************************)
(* Proofs about Clients, for any connections, any limit of the list and    *)
(* any number of orders to reconnect: who frees a client, and whose row is *)
(* in the workers table.                                                   *)
(***************************************************************************)
EXTENDS Clients, TLAPS

(* The parts of TypeOK.                                                    *)
PlacesOK ==
    /\ pc \in [Conns -> {"start", "loop", "resume", "copy", "add worker", "insert id", "validate",
                         "find", "clear", "flag", "free", "exited"}]
    /\ g_list_client \subseteq Conns /\ freed \subseteq Conns
    /\ deleted \subseteq Conns /\ reconnecting \subseteq Conns
    /\ source \in [Conns -> Conns \cup {NoConn}]
    /\ main_pc \in {"db_update_workers", "object_prune", "closing"} /\ g_exiting \in BOOLEAN
    /\ evicted \subseteq Conns
LocksOK == lock_count \in [Conns -> 0..MaxLocks]
RowsOK ==
    /\ workerid \in [Conns -> Conns \cup {NoRow}]
    /\ workers \subseteq Conns /\ detached \subseteq Conns
    /\ insert_id \in Conns \cup {NoRow}

Sourced == \A c \in Conns : pc[c] \in {"resume", "copy"} => source[c] \in Conns

(* Only a client's own thread links it, and only after it has authorized.  *)
Unlinked ==
    \A c \in Conns :
        pc[c] \in {"start", "add worker", "insert id", "validate", "free"} => c \notin g_list_client

(* Who is flagged has been so by its own thread, which has ended, or was   *)
(* evicted; likewise who is freed.  Who was evicted leaves the list freed. *)
FlaggedWhy == \A c \in Conns \ evicted : c \in deleted => pc[c] = "exited"
FreedWhy ==
    \A c \in Conns \ evicted : c \in freed => pc[c] = "exited" /\ c \notin g_list_client
EvictedWhere == \A c \in Conns \cap evicted : c \in g_list_client \cup freed

(* A client refers to its own row while it is linked or about to be, and   *)
(* to that of another only after it has taken it over.                     *)
OwnRow ==
    \A c \in Conns \ (freed \cup detached) :
        workerid[c] = c => c \in g_list_client \/ pc[c] = "validate"
TakenOver == \A c \in Conns : workerid[c] \in {c, NoRow} \cup detached

(* Between the INSERT of a row and the reading of its id only a DELETE of  *)
(* job_broadcast can spoil the id.                                         *)
Inserting ==
    \A c \in Conns :
        pc[c] = "insert id" => workerid[c] = NoRow /\ (insert_id = c => c \in workers \cup detached)

(* A thread that has ended has left no row, but for the known reasons.     *)
RowGone ==
    \A c \in Conns \ detached :
        c \in workers /\ pc[c] \in {"flag", "exited"} => c \in reconnecting \cup freed \cup evicted

Lifetimes == Sourced /\ Unlinked /\ FlaggedWhy /\ FreedWhy /\ EvictedWhere
Rows == OwnRow /\ TakenOver /\ Inserting /\ RowGone /\ RowFollowsClient

IInv == TypeOK /\ Lifetimes /\ Rows

-----------------------------------------------------------------------------
(* Where a refused and an accepted authorization lead.                       *)
LEMMA Authorizes ==
  ASSUME TypeOK, NEW c \in Conns, client_authorize(c)
  PROVE  /\ pc[c] = "loop" /\ pc'[c] \in {"find", "add worker"}
         /\ pc'[c] = "add worker" => c \notin g_list_client
         /\ \A d \in Conns \ {c} : pc'[d] = pc[d]
<1>1. PICK to \in {"find", "add worker"} :
          Step(c, "loop", to) /\ (to = "add worker" => c \notin g_list_client)
  BY DEF client_authorize
<1> QED
  BY <1>1 DEF Step, TypeOK

(* Whom a resuming client copies: a linked one.                              *)
LEMMA Finds ==
  ASSUME TypeOK, NEW c \in Conns, client_find_notify_id(c)
  PROVE  /\ pc[c] = "loop" /\ pc'[c] \in {"resume", "copy"} /\ source'[c] \in Conns
         /\ \A d \in Conns \ {c} : pc'[d] = pc[d] /\ source'[d] = source[d]
         /\ UNCHANGED <<g_list_client, freed, deleted, evicted>>
<1>1. PICK to \in {"resume", "copy"} : pc[c] = "loop" /\ pc' = [pc EXCEPT ![c] = to]
  BY DEF client_find_notify_id, Step
<1>2. PICK d \in g_list_client : source' = [source EXCEPT ![c] = d]
  BY DEF client_find_notify_id
<1>3. UNCHANGED <<g_list_client, freed, deleted, evicted>>
  BY DEF client_find_notify_id, objVars, rowVars, history
<1>4. /\ pc \in [Conns -> {"start", "loop", "resume", "copy", "add worker", "insert id", "validate",
                          "find", "clear", "flag", "free", "exited"}]
      /\ source \in [Conns -> Conns \cup {NoConn}] /\ g_list_client \subseteq Conns
  BY DEF TypeOK
<1> QED
  BY <1>1, <1>2, <1>3, <1>4

(* Where the end of a subscription leads.                                    *)
LEMMA Subscribes ==
  ASSUME TypeOK, NEW c \in Conns, client_subscribe(c)
  PROVE  /\ pc[c] \in {"resume", "copy"} /\ pc'[c] \in {"loop", "find"}
         /\ \A d \in Conns \ {c} : pc'[d] = pc[d] /\ source'[d] = source[d]
         /\ UNCHANGED <<g_list_client, freed, deleted, evicted>>
<1>1. PICK to \in {"loop", "find"} : pc[c] \in {"resume", "copy"} /\ pc' = [pc EXCEPT ![c] = to]
  BY DEF client_subscribe, Step, NextMessage
<1>2. source' = [source EXCEPT ![c] = NoConn]
  BY DEF client_subscribe
<1>3. UNCHANGED <<g_list_client, freed, deleted, evicted>>
  BY DEF client_subscribe
<1>4. pc \in [Conns -> {"start", "loop", "resume", "copy", "add worker", "insert id", "validate",
                        "find", "clear", "flag", "free", "exited"}]
      /\ source \in [Conns -> Conns \cup {NoConn}]
  BY DEF TypeOK
<1> QED
  BY <1>1, <1>2, <1>3, <1>4

(* Where the check of the wallet address leads.                              *)
LEMMA Validates ==
  ASSUME TypeOK, NEW c \in Conns, client_validate_user_address(c)
  PROVE  /\ pc[c] = "validate" /\ pc'[c] \in {"find", "loop"}
         /\ \A d \in Conns \ {c} : pc'[d] = pc[d]
  BY DEF client_validate_user_address, Step, NextMessage, TypeOK

(* What db_clear_worker changes: the row goes, or it is detached.          *)
LEMMA Clears ==
  ASSUME TypeOK, NEW c \in Conns, ClearWorker(c)
  PROVE  /\ workerid'[c] = NoRow /\ \A d \in Conns \ {c} : workerid'[d] = workerid[d]
         /\ workers' \subseteq workers /\ detached \subseteq detached'
         /\ \A d \in workers \ workers' : d = workerid[c]
         /\ workerid[c] \notin workers' \ detached'
         /\ insert_id' \in {insert_id, NoRow}
         /\ RowsOK'
<1>1. /\ workerid \in [Conns -> Conns \cup {NoRow}] /\ workers \subseteq Conns
      /\ detached \subseteq Conns /\ insert_id \in Conns \cup {NoRow} /\ NoRow \notin Conns
  BY ConnsAssumption DEF TypeOK
<1>2. workerid' = [workerid EXCEPT ![c] = NoRow] /\ insert_id' \in {insert_id, NoRow}
  BY DEF ClearWorker
<1>3. CASE g_exiting
  <2>1. workers' = workers /\ detached' = detached \cup ({workerid[c]} \ {NoRow})
    BY <1>3 DEF ClearWorker, Delete
  <2> QED
    BY <1>1, <1>2, <2>1 DEF RowsOK
<1>4. CASE ~g_exiting
  <2>1. workers' = workers \ ({workerid[c]} \ {NoRow}) /\ detached' = detached
    BY <1>4 DEF ClearWorker, Delete
  <2> QED
    BY <1>1, <1>2, <2>1 DEF RowsOK
<1> QED
  BY <1>3, <1>4

(* What the INSERT of db_add_worker changes: nothing once the server exits. *)
LEMMA Inserts ==
  ASSUME TypeOK, NEW c \in Conns, db_add_worker(c)
  PROVE  /\ pc[c] = "add worker" /\ pc'[c] = "insert id"
         /\ \A d \in Conns \ {c} : pc'[d] = pc[d] /\ pc[d] # "insert id"
         /\ workerid'[c] = NoRow /\ \A d \in Conns \ {c} : workerid'[d] = workerid[d]
         /\ workers' \subseteq workers \cup {c} /\ detached \subseteq detached'
         /\ \A d \in (workers \ workers') \ {c} : d = workerid[c]
         /\ insert_id' = c => c \in workers'
         /\ c \in workers' \/ workers' = workers
         /\ RowsOK'
         /\ UNCHANGED <<g_list_client, freed, deleted, reconnecting, evicted>>
<1>1. /\ workerid \in [Conns -> Conns \cup {NoRow}] /\ workers \subseteq Conns
      /\ detached \subseteq Conns /\ NoRow \notin Conns /\ pc[c] = "add worker"
  BY ConnsAssumption DEF TypeOK, db_add_worker, Step
<1>2. workerid' = [workerid EXCEPT ![c] = NoRow]
  BY DEF db_add_worker
<1>3. /\ pc'[c] = "insert id" /\ \A d \in Conns \ {c} : pc'[d] = pc[d] /\ pc[d] # "insert id"
      /\ UNCHANGED <<g_list_client, freed, deleted, reconnecting, evicted>>
  BY DEF db_add_worker, Step, DbFree, TypeOK, objVars
<1>4. CASE g_exiting
  <2>1. /\ workers' = workers /\ detached' = detached \cup ({workerid[c]} \ {NoRow})
        /\ insert_id' \in (Conns \ {c}) \cup {NoRow}
    BY <1>4 DEF db_add_worker
  <2> QED
    BY <1>1, <1>2, <1>3, <2>1 DEF RowsOK
<1>5. CASE ~g_exiting
  <2>1. workers' = (workers \ {workerid[c]}) \cup {c} /\ detached' = detached /\ insert_id' = c
    BY <1>5 DEF db_add_worker
  <2> QED
    BY <1>1, <1>2, <1>3, <2>1 DEF RowsOK
<1> QED
  BY <1>4, <1>5

(* Threads move between their program points, and only connections are     *)
(* linked, flagged and freed.                                              *)
LEMMA PlacesStep ==
  ASSUME TypeOK, Sourced, [Next]_vars
  PROVE  PlacesOK'
<1> USE ConnsAssumption DEF TypeOK, PlacesOK, Sourced, Step, NoRow, NoConn, objVars, rowVars, history
<1>1. ASSUME NEW c \in Conns, connect(c) PROVE PlacesOK'
  BY <1>1 DEF connect
<1>2. ASSUME NEW c \in Conns, client_find_notify_id(c) PROVE PlacesOK'
  <2>1. PICK d \in g_list_client : source' = [source EXCEPT ![c] = d]
    BY <1>2 DEF client_find_notify_id
  <2>2. source' \in [Conns -> Conns \cup {NoConn}]
    BY <2>1
  <2>3. PICK to \in {"resume", "copy"} : pc' = [pc EXCEPT ![c] = to]
    BY <1>2 DEF client_find_notify_id
  <2>4. UNCHANGED <<g_list_client, freed, deleted, reconnecting, main_pc, g_exiting, evicted>>
    BY <1>2 DEF client_find_notify_id
  <2> QED
    BY <2>2, <2>3, <2>4
<1>3. ASSUME NEW c \in Conns, client_subscribe(c) PROVE PlacesOK'
  <2>1. PICK to \in {"loop", "find"} : pc' = [pc EXCEPT ![c] = to]
    BY <1>3 DEF client_subscribe, NextMessage
  <2>2. source' = [source EXCEPT ![c] = NoConn]
    BY <1>3 DEF client_subscribe
  <2>3. UNCHANGED <<g_list_client, freed, deleted, reconnecting, main_pc, g_exiting, evicted>>
    BY <1>3 DEF client_subscribe
  <2> QED
    BY <2>1, <2>2, <2>3
<1>4. ASSUME NEW c \in Conns, client_authorize(c) PROVE PlacesOK'
  BY <1>4 DEF client_authorize
<1>5. ASSUME NEW c \in Conns, db_add_worker(c) PROVE PlacesOK'
  BY <1>5 DEF db_add_worker, KeepWorker
<1>6. ASSUME NEW c \in Conns, client_validate_user_address(c) PROVE PlacesOK'
  BY <1>6 DEF client_validate_user_address, KeepWorker, NextMessage
<1>7. ASSUME NEW c \in Conns, leave_loop(c) PROVE PlacesOK'
  BY <1>7 DEF leave_loop
<1>8. ASSUME NEW c \in Conns, find_self(c) PROVE PlacesOK'
  BY <1>8 DEF find_self
<1>9. ASSUME NEW c \in Conns, clear_worker(c) PROVE PlacesOK'
  BY <1>9 DEF clear_worker, KeepWorker
<1>10. ASSUME NEW c \in Conns, object_delete(c) PROVE PlacesOK'
  BY <1>10 DEF object_delete
<1>11. ASSUME NEW c \in Conns, delete_self(c) PROVE PlacesOK'
  BY <1>11 DEF delete_self
<1>12. ASSUME NEW c \in Conns, job_assign_reconnect(c) PROVE PlacesOK'
  BY <1>12 DEF job_assign_reconnect
<1>13. ASSUME NEW c \in Conns, job_broadcast_timeout(c) PROVE PlacesOK'
  BY <1>13 DEF job_broadcast_timeout, KeepWorker, Evict
<1>14. CASE db_update_workers
  BY <1>14 DEF db_update_workers, Evict
<1>15. CASE object_prune
  BY <1>15 DEF object_prune
<1>16. CASE UNCHANGED vars
  BY <1>16 DEF vars
<1>17. ASSUME NEW c \in Conns, has_worker(c) PROVE PlacesOK'
  BY <1>17 DEF has_worker
<1>18. ASSUME NEW c \in Conns, mysql_insert_id(c) PROVE PlacesOK'
  BY <1>18 DEF mysql_insert_id
<1>19. CASE exit_begins
  BY <1>19 DEF exit_begins
<1>20. CASE Restart
  BY <1>20 DEF Restart
<1> QED
  BY <1>1, <1>2, <1>3, <1>4, <1>5, <1>6, <1>7, <1>8, <1>9, <1>10, <1>11, <1>12, <1>13, <1>14,
      <1>15, <1>16, <1>17, <1>18, <1>19, <1>20
  DEF Next, client_thread, main_thread, main_returns, db_query_fails, process_dies

(* Locks are counted up to the bound and down to 0.                         *)
LEMMA LocksStep ==
  ASSUME TypeOK, Sourced, [Next]_vars
  PROVE  LocksOK'
<1>0. lock_count \in [Conns -> 0..MaxLocks] /\ MaxLocks \in Nat
  BY BoundAssumption DEF TypeOK
<1>1. ASSUME NEW c \in Conns, client_subscribe(c) PROVE LocksOK'
  <2>1. source[c] \in Conns
    BY <1>1 DEF client_subscribe, Step, Sourced, TypeOK
  <2>2. lock_count' = [lock_count EXCEPT ![source[c]] = 0]
    BY <1>1 DEF client_subscribe
  <2> QED
    BY <1>0, <2>1, <2>2 DEF LocksOK
<1>2. ASSUME NEW c \in Conns, job_assign_reconnect(c) PROVE LocksOK'
  <2>1. lock_count[c] < MaxLocks /\ lock_count' = [lock_count EXCEPT ![c] = lock_count[c] + 1]
    BY <1>2 DEF job_assign_reconnect
  <2>2. lock_count[c] + 1 \in 0..MaxLocks
    BY <1>0, <2>1
  <2> QED
    BY <1>0, <2>1, <2>2 DEF LocksOK
<1>3. CASE object_prune
  <2>1. lock_count' = [c \in Conns |-> IF c \in g_list_client /\ lock_count[c] > 0
                                      THEN lock_count[c] - 1 ELSE lock_count[c]]
    BY <1>3 DEF object_prune
  <2>2. ASSUME NEW c \in Conns, lock_count[c] > 0 PROVE lock_count[c] - 1 \in 0..MaxLocks
    BY <1>0, <2>2
  <2> QED
    BY <1>0, <2>1, <2>2 DEF LocksOK
<1>4. CASE UNCHANGED lock_count
  BY <1>0, <1>4 DEF LocksOK
<1>5. CASE Restart
  BY <1>0, <1>5 DEF Restart, LocksOK
<1> QED
  BY <1>1, <1>2, <1>3, <1>4, <1>5
  DEF Next, vars, objVars, rowVars, history, client_thread, main_thread, connect,
      client_find_notify_id, client_authorize, has_worker, db_add_worker, mysql_insert_id,
      client_validate_user_address, leave_loop, find_self, clear_worker, object_delete,
      delete_self, job_broadcast_timeout, db_update_workers, exit_begins, main_returns,
      db_query_fails, process_dies

(* Rows are named by connections, also the row a client takes over.        *)
LEMMA RowsOKStep ==
  ASSUME TypeOK, Sourced, [Next]_vars
  PROVE  RowsOK'
<1> USE ConnsAssumption DEF ClearWorker, Delete, TypeOK, RowsOK, Sourced, objVars, rowVars, history
<1>1. ASSUME NEW c \in Conns, connect(c) PROVE RowsOK'
  BY <1>1 DEF connect
<1>2. ASSUME NEW c \in Conns, client_find_notify_id(c) PROVE RowsOK'
  BY <1>2 DEF client_find_notify_id
<1>3. ASSUME NEW c \in Conns, client_subscribe(c) PROVE RowsOK'
  <2> DEFINE row == workerid[source[c]]
  <2>1. source[c] \in Conns
    BY <1>3 DEF client_subscribe, Step
  <2>2. /\ \/ /\ workerid' = [workerid EXCEPT ![c] = row]
              /\ detached' \subseteq detached \cup ({row, workerid[c]} \ {NoRow})
           \/ UNCHANGED <<workerid, detached>>
        /\ UNCHANGED <<workers, insert_id>>
    BY <1>3 DEF client_subscribe
  <2>3. row \in Conns \cup {NoRow} /\ workerid[c] \in Conns \cup {NoRow}
    BY <2>1
  <2>4. workerid' \in [Conns -> Conns \cup {NoRow}]
    BY <2>2, <2>3
  <2>5. detached' \subseteq Conns
    <3> HIDE DEF row
    <3>1. {row, workerid[c]} \ {NoRow} \subseteq Conns
      BY <2>3
    <3> QED
      BY <2>2, <3>1
  <2> QED
    BY <2>2, <2>4, <2>5
<1>4. ASSUME NEW c \in Conns, client_authorize(c) PROVE RowsOK'
  BY <1>4 DEF client_authorize
<1>5. ASSUME NEW c \in Conns, db_add_worker(c) PROVE RowsOK'
  BY <1>5, Inserts
<1>6. ASSUME NEW c \in Conns, client_validate_user_address(c) PROVE RowsOK'
  <2>1. ClearWorker(c) \/ KeepWorker
    BY <1>6 DEF client_validate_user_address
  <2> QED
    BY <2>1, Clears DEF KeepWorker
<1>7. ASSUME NEW c \in Conns, leave_loop(c) PROVE RowsOK'
  BY <1>7 DEF leave_loop
<1>8. ASSUME NEW c \in Conns, find_self(c) PROVE RowsOK'
  BY <1>8 DEF find_self
<1>9. ASSUME NEW c \in Conns, clear_worker(c) PROVE RowsOK'
  <2>1. ClearWorker(c) \/ KeepWorker
    BY <1>9 DEF clear_worker
  <2> QED
    BY <2>1, Clears DEF KeepWorker
<1>10. ASSUME NEW c \in Conns, object_delete(c) PROVE RowsOK'
  BY <1>10 DEF object_delete
<1>11. ASSUME NEW c \in Conns, delete_self(c) PROVE RowsOK'
  BY <1>11 DEF delete_self
<1>12. ASSUME NEW c \in Conns, job_assign_reconnect(c) PROVE RowsOK'
  BY <1>12 DEF job_assign_reconnect
<1>13. ASSUME NEW c \in Conns, job_broadcast_timeout(c) PROVE RowsOK'
  <2>1. ClearWorker(c) \/ KeepWorker
    BY <1>13 DEF job_broadcast_timeout
  <2> QED
    BY <2>1, Clears DEF KeepWorker
<1>14. CASE db_update_workers
  <2>1. PICK C \in SUBSET {c \in g_list_client \ deleted : workerid[c] # NoRow} :
          /\ \E X \in SUBSET C :
               /\ workers' = workers \ {workerid[c] : c \in X}
               /\ detached' = detached \cup {workerid[c] : c \in C \ X}
          /\ workerid' = [c \in Conns |-> IF c \in C THEN NoRow ELSE workerid[c]]
    BY <1>14 DEF db_update_workers
  <2>2. \A c \in C : workerid[c] \in Conns
    <3>1. \A c \in C : c \in Conns /\ workerid[c] # NoRow
      BY <2>1
    <3> QED
      BY <3>1
  <2>3. UNCHANGED insert_id
    BY <1>14 DEF db_update_workers
  <2>4. detached' \subseteq Conns
    <3>1. PICK X \in SUBSET C : detached' = detached \cup {workerid[c] : c \in C \ X}
      BY <2>1
    <3>2. ASSUME NEW r \in {workerid[c] : c \in C \ X} PROVE r \in Conns
      <4>1. PICK c \in C : r = workerid[c]
        OBVIOUS
      <4> QED
        BY <2>2, <4>1
    <3> QED
      BY <3>1, <3>2
  <2>5. workerid' \in [Conns -> Conns \cup {NoRow}]
    BY <2>1
  <2> QED
    BY <2>1, <2>3, <2>4, <2>5
<1>15. CASE object_prune
  BY <1>15 DEF object_prune
<1>16. CASE UNCHANGED vars
  BY <1>16 DEF vars
<1>17. ASSUME NEW c \in Conns, has_worker(c) PROVE RowsOK'
  BY <1>17 DEF has_worker
<1>18. ASSUME NEW c \in Conns, mysql_insert_id(c) PROVE RowsOK'
  <2>1. /\ workerid' = [workerid EXCEPT ![c] = insert_id] /\ insert_id' = NoRow
        /\ detached' \subseteq detached \cup ({insert_id, c} \ {NoRow})
        /\ UNCHANGED workers
    BY <1>18 DEF mysql_insert_id
  <2> QED
    BY <2>1
<1>19. CASE exit_begins
  BY <1>19 DEF exit_begins
<1>20. CASE Restart
  BY <1>20 DEF Restart
<1> QED
  BY <1>1, <1>2, <1>3, <1>4, <1>5, <1>6, <1>7, <1>8, <1>9, <1>10, <1>11, <1>12, <1>13, <1>14,
      <1>15, <1>16, <1>17, <1>18, <1>19, <1>20
  DEF Next, client_thread, main_thread, main_returns, db_query_fails, process_dies

(* Who links, flags and frees a client: its own thread, or main after      *)
(* another thread has flagged it.                                          *)
LEMMA LifetimesStep ==
  ASSUME TypeOK, Lifetimes, [Next]_vars
  PROVE  Lifetimes'
<1> USE ConnsAssumption DEF Step, ClearWorker, TypeOK, Lifetimes, Sourced, Unlinked, FlaggedWhy,
    FreedWhy, EvictedWhere, objVars, rowVars, history
<1>1. ASSUME NEW c \in Conns, connect(c) PROVE Lifetimes'
  BY <1>1 DEF connect
<1>2. ASSUME NEW c \in Conns, client_find_notify_id(c) PROVE Lifetimes'
  <2>1. /\ pc[c] = "loop" /\ pc'[c] \in {"resume", "copy"} /\ source'[c] \in Conns
        /\ \A d \in Conns \ {c} : pc'[d] = pc[d] /\ source'[d] = source[d]
    BY <1>2, Finds
  <2>2. /\ g_list_client' = g_list_client /\ freed' = freed /\ deleted' = deleted /\ evicted' = evicted
    BY <1>2, Finds
  <2>3. Sourced' /\ Unlinked'
    BY <2>1, <2>2
  <2>4. FlaggedWhy'
    BY <2>1, <2>2
  <2>5. FreedWhy' /\ EvictedWhere'
    BY <2>1, <2>2
  <2> QED
    BY <2>3, <2>4, <2>5
<1>3. ASSUME NEW c \in Conns, client_subscribe(c) PROVE Lifetimes'
  <2>1. /\ pc[c] \in {"resume", "copy"} /\ pc'[c] \in {"loop", "find"}
        /\ \A d \in Conns \ {c} : pc'[d] = pc[d] /\ source'[d] = source[d]
    BY <1>3, Subscribes
  <2>2. /\ g_list_client' = g_list_client /\ freed' = freed
        /\ deleted' = deleted /\ evicted' = evicted
    BY <1>3, Subscribes
  <2>3. Sourced' /\ Unlinked'
    BY <2>1, <2>2
  <2>4. FlaggedWhy'
    BY <2>1, <2>2
  <2>5. FreedWhy' /\ EvictedWhere'
    BY <2>1, <2>2
  <2> QED
    BY <2>3, <2>4, <2>5
<1>4. ASSUME NEW c \in Conns, client_authorize(c) PROVE Lifetimes'
  <2>1. /\ pc[c] = "loop" /\ pc'[c] \in {"find", "add worker"}
        /\ pc'[c] = "add worker" => c \notin g_list_client
        /\ \A d \in Conns \ {c} : pc'[d] = pc[d]
    BY <1>4, Authorizes
  <2>2. UNCHANGED <<g_list_client, deleted, freed, evicted, source>>
    BY <1>4 DEF client_authorize
  <2> QED
    BY <2>1, <2>2
<1>5. ASSUME NEW c \in Conns, db_add_worker(c) PROVE Lifetimes'
  BY <1>5 DEF db_add_worker, KeepWorker
<1>6. ASSUME NEW c \in Conns, client_validate_user_address(c) PROVE Lifetimes'
  <2>1. /\ pc[c] = "validate" /\ pc'[c] \in {"find", "loop"}
        /\ \A d \in Conns \ {c} : pc'[d] = pc[d]
    BY <1>6, Validates
  <2>2. /\ g_list_client' \in {g_list_client, g_list_client \cup {c}}
        /\ UNCHANGED <<deleted, freed, evicted, source>>
    BY <1>6 DEF client_validate_user_address
  <2>3. c \notin freed \ evicted
    BY <2>1
  <2> QED
    BY <2>1, <2>2, <2>3
<1>7. ASSUME NEW c \in Conns, leave_loop(c) PROVE Lifetimes'
  BY <1>7 DEF leave_loop
<1>8. ASSUME NEW c \in Conns, find_self(c) PROVE Lifetimes'
  <2>1. CASE Step(c, "find", "clear") /\ c \in g_list_client
    BY <1>8, <2>1 DEF find_self
  <2>2. CASE Step(c, "find", "free") /\ c \notin g_list_client
    BY <1>8, <2>2 DEF find_self
  <2> QED
    BY <1>8, <2>1, <2>2 DEF find_self
<1>9. ASSUME NEW c \in Conns, clear_worker(c) PROVE Lifetimes'
  BY <1>9 DEF clear_worker, KeepWorker
<1>10. ASSUME NEW c \in Conns, object_delete(c) PROVE Lifetimes'
  BY <1>10 DEF object_delete
<1>11. ASSUME NEW c \in Conns, delete_self(c) PROVE Lifetimes'
  BY <1>11 DEF delete_self
<1>12. ASSUME NEW c \in Conns, job_assign_reconnect(c) PROVE Lifetimes'
  BY <1>12 DEF job_assign_reconnect
<1>13. ASSUME NEW c \in Conns, job_broadcast_timeout(c) PROVE Lifetimes'
  BY <1>13 DEF job_broadcast_timeout, KeepWorker, Evict
<1>14. CASE db_update_workers
  BY <1>14 DEF db_update_workers, Evict
<1>15. CASE object_prune
  BY <1>15 DEF object_prune
<1>16. CASE UNCHANGED vars
  BY <1>16 DEF vars
<1>17. ASSUME NEW c \in Conns, has_worker(c) PROVE Lifetimes'
  BY <1>17 DEF has_worker
<1>18. ASSUME NEW c \in Conns, mysql_insert_id(c) PROVE Lifetimes'
  BY <1>18 DEF mysql_insert_id
<1>19. CASE exit_begins
  BY <1>19 DEF exit_begins
<1>20. CASE Restart
  BY <1>20 DEF Restart
<1> QED
  BY <1>1, <1>2, <1>3, <1>4, <1>5, <1>6, <1>7, <1>8, <1>9, <1>10, <1>11, <1>12, <1>13, <1>14,
      <1>15, <1>16, <1>17, <1>18, <1>19, <1>20
  DEF Next, client_thread, main_thread, main_returns, db_query_fails, process_dies

(* The name NoRow is not one of a connection.                               *)
LEMMA NotARow == NoRow \notin Conns
  BY ConnsAssumption

(* Rows survives the clearing of a client's row, by its own thread or by    *)
(* another that flags it.                                                   *)
LEMMA RowCleared ==
  ASSUME TypeOK, Lifetimes, Rows, NEW c \in Conns, ClearWorker(c),
         pc[c] # "insert id" /\ pc'[c] # "insert id",
         \A d \in Conns \ {c} : pc'[d] = pc[d],
         evicted \subseteq evicted', evicted' \subseteq evicted \cup {c},
         UNCHANGED <<g_list_client, freed, reconnecting>>
  PROVE  Rows'
<1>1. /\ workerid'[c] = NoRow /\ \A d \in Conns \ {c} : workerid'[d] = workerid[d]
      /\ workers' \subseteq workers /\ detached \subseteq detached'
      /\ \A d \in workers \ workers' : d = workerid[c]
      /\ workerid[c] \notin workers' \ detached'
      /\ insert_id' \in {insert_id, NoRow}
  BY Clears
<1> USE <1>1, NotARow DEF Rows
<1>2. OwnRow'
  BY DEF OwnRow
<1>3. TakenOver'
  BY DEF TakenOver
<1>4. Inserting'
  BY DEF Inserting, TakenOver
<1>5. c \in workers' \ detached' => c \in freed
  BY DEF RowFollowsClient
<1>6. RowGone'
  BY <1>5 DEF RowGone
<1>7. RowFollowsClient'
  <2> SUFFICES ASSUME NEW d \in Conns \ detached'
               PROVE  /\ d \in workers' /\ d \in freed' => d \in reconnecting' \cup evicted'
                      /\ d \in workers' /\ d \in evicted' => d \in reconnecting' \cup freed'
                      /\ d \notin freed' /\ pc'[d] # "insert id" =>
                             (d \in workers' <=> workerid'[d] = d)
    BY DEF RowFollowsClient
  <2>1. CASE d = c
    BY <1>5, <2>1 DEF RowFollowsClient
  <2>2. CASE d # c
    <3>1. d \notin detached
      OBVIOUS
    <3>2. workerid[c] \in {c, NoRow} \cup detached
      BY DEF TakenOver
    <3>3. workerid[c] # d
      BY <2>2, <3>1, <3>2
    <3>4. d \in workers' <=> d \in workers
      BY <1>1, <3>3
    <3> QED
      BY <2>2, <3>1, <3>4 DEF RowFollowsClient
  <2> QED
    BY <2>1, <2>2
<1> QED
  BY <1>2, <1>3, <1>4, <1>6, <1>7

(* A row goes with the client it was added for, unless it is detached.      *)
LEMMA RowsStep ==
  ASSUME TypeOK, Lifetimes, Rows, [Next]_vars
  PROVE  Rows'
<1>1. ASSUME NEW c \in Conns, connect(c) PROVE Rows'
  <2>1. /\ pc[c] = "start" /\ pc'[c] \in {"loop"}
        /\ \A d \in Conns \ {c} : pc'[d] = pc[d]
    BY <1>1 DEF connect, Step, TypeOK
  <2>2. UNCHANGED <<rowVars, detached, g_list_client, freed, deleted, reconnecting, evicted>>
    BY <1>1 DEF connect, objVars, history
  <2> QED
    BY <2>1, <2>2, NotARow
    DEF rowVars, Lifetimes, Unlinked, FlaggedWhy, FreedWhy, EvictedWhere, Rows, OwnRow,
        TakenOver, Inserting, RowGone, RowFollowsClient
<1>2. ASSUME NEW c \in Conns, client_find_notify_id(c) PROVE Rows'
  <2>1. /\ pc[c] = "loop" /\ pc'[c] \in {"resume", "copy"}
        /\ \A d \in Conns \ {c} : pc'[d] = pc[d]
    BY <1>2, Finds
  <2>2. UNCHANGED <<rowVars, detached, g_list_client, freed, deleted, reconnecting, evicted>>
    BY <1>2 DEF client_find_notify_id, objVars, history
  <2> QED
    BY <2>1, <2>2, NotARow
    DEF rowVars, Lifetimes, Unlinked, FlaggedWhy, FreedWhy, EvictedWhere, Rows, OwnRow,
        TakenOver, Inserting, RowGone, RowFollowsClient
<1>3. ASSUME NEW c \in Conns, client_subscribe(c) PROVE Rows'
  <2>1. /\ pc[c] \in {"resume", "copy"} /\ pc'[c] \in {"loop", "find"}
        /\ \A d \in Conns \ {c} : pc'[d] = pc[d]
    BY <1>3, Subscribes
  <2>2. /\ \A d \in Conns \ {c} : workerid'[d] = workerid[d]
        /\ \/ workerid'[c] = workerid[c] /\ UNCHANGED detached
           \/ /\ workerid'[c] \in {NoRow} \cup detached' /\ detached \subseteq detached'
              /\ workerid[c] \in {NoRow} \cup detached'
        /\ UNCHANGED <<workers, insert_id, g_list_client, freed, deleted, reconnecting, evicted>>
    <3>1. /\ workerid \in [Conns -> Conns \cup {NoRow}]
          /\ UNCHANGED <<workers, insert_id, g_list_client, freed, deleted, reconnecting, evicted>>
      BY <1>3 DEF client_subscribe, TypeOK
    <3>2. CASE UNCHANGED <<workerid, detached>>
      BY <3>1, <3>2
    <3>3. CASE /\ workerid' = [workerid EXCEPT ![c] = workerid[source[c]]]
               /\ detached' = detached \cup IF workerid[source[c]] = workerid[c] THEN {}
                                         ELSE {workerid[source[c]], workerid[c]} \ {NoRow}
      BY <3>1, <3>3
    <3> QED
      BY <1>3, <3>2, <3>3 DEF client_subscribe
  <2> USE <2>1, <2>2, NotARow DEF Rows
  <2>4. OwnRow'
    BY DEF OwnRow
  <2>5. TakenOver'
    BY DEF TakenOver
  <2>6. Inserting'
    BY DEF Inserting
  <2>7. RowGone'
    BY DEF RowGone
  <2>8. RowFollowsClient'
    BY DEF RowFollowsClient
  <2> QED
    BY <2>4, <2>5, <2>6, <2>7, <2>8
<1>4. ASSUME NEW c \in Conns, client_authorize(c) PROVE Rows'
  <2>1. /\ pc[c] = "loop" /\ pc'[c] \in {"find", "add worker"}
        /\ \A d \in Conns \ {c} : pc'[d] = pc[d]
    BY <1>4, Authorizes
  <2>2. UNCHANGED <<rowVars, detached, g_list_client, freed, deleted, reconnecting, evicted>>
    BY <1>4 DEF client_authorize, objVars, history
  <2> QED
    BY <2>1, <2>2, NotARow
    DEF rowVars, Lifetimes, Unlinked, FlaggedWhy, FreedWhy, EvictedWhere, Rows, OwnRow,
        TakenOver, Inserting, RowGone, RowFollowsClient
<1>5. ASSUME NEW c \in Conns, db_add_worker(c) PROVE Rows'
  <2>1. /\ pc[c] = "add worker" /\ pc'[c] = "insert id"
        /\ \A d \in Conns \ {c} : pc'[d] = pc[d] /\ pc[d] # "insert id"
        /\ workerid'[c] = NoRow /\ \A d \in Conns \ {c} : workerid'[d] = workerid[d]
        /\ workers' \subseteq workers \cup {c} /\ detached \subseteq detached'
        /\ \A d \in (workers \ workers') \ {c} : d = workerid[c]
        /\ insert_id' = c => c \in workers'
        /\ c \in workers' \/ workers' = workers
        /\ UNCHANGED <<g_list_client, freed, deleted, reconnecting, evicted>>
    BY <1>5, Inserts
  <2> USE <2>1, NotARow DEF Rows
  <2>2. OwnRow'
    BY DEF OwnRow
  <2>3. TakenOver'
    BY DEF TakenOver
  <2>4. Inserting'
    BY DEF Inserting
  <2>5. RowGone'
    BY DEF RowGone
  <2>6. c \notin g_list_client /\ (c \in freed => c \in evicted) /\ (c \in evicted => c \in freed)
    BY DEF Lifetimes, Unlinked, FreedWhy, EvictedWhere
  <2>7. \A d \in Conns \ (detached \cup {c}) : d \in workers' <=> d \in workers
    BY DEF TakenOver
  <2>8. RowFollowsClient'
    BY <2>6, <2>7 DEF RowFollowsClient
  <2> QED
    BY <2>2, <2>3, <2>4, <2>5, <2>8
<1>6. ASSUME NEW c \in Conns, client_validate_user_address(c) PROVE Rows'
  <2>1. /\ pc[c] = "validate" /\ pc'[c] \in {"find", "loop"}
        /\ \A d \in Conns \ {c} : pc'[d] = pc[d]
        /\ UNCHANGED <<freed, deleted, reconnecting, evicted>>
    BY <1>6, Validates DEF client_validate_user_address, objVars
  <2>2. CASE pc'[c] = "find" /\ ClearWorker(c) /\ UNCHANGED g_list_client
    BY <2>1, <2>2, RowCleared
  <2>3. CASE g_list_client' = g_list_client \cup {c} /\ KeepWorker
    BY <2>1, <2>3, NotARow
    DEF KeepWorker, rowVars, Lifetimes, Unlinked, FlaggedWhy, FreedWhy, EvictedWhere, Rows,
        OwnRow, TakenOver, Inserting, RowGone, RowFollowsClient
  <2>4. \/ pc'[c] = "find" /\ ClearWorker(c) /\ UNCHANGED g_list_client
        \/ g_list_client' = g_list_client \cup {c} /\ KeepWorker
    BY <1>6 DEF client_validate_user_address, Step, TypeOK
  <2> QED
    BY <2>2, <2>3, <2>4
<1>7. ASSUME NEW c \in Conns, leave_loop(c) PROVE Rows'
  <2>1. /\ pc[c] = "loop" /\ pc'[c] \in {"find"}
        /\ \A d \in Conns \ {c} : pc'[d] = pc[d]
    BY <1>7 DEF leave_loop, Step, TypeOK
  <2>2. UNCHANGED <<rowVars, detached, g_list_client, freed, deleted, reconnecting, evicted>>
    BY <1>7 DEF leave_loop, objVars, history
  <2> QED
    BY <2>1, <2>2, NotARow
    DEF rowVars, Lifetimes, Unlinked, FlaggedWhy, FreedWhy, EvictedWhere, Rows, OwnRow,
        TakenOver, Inserting, RowGone, RowFollowsClient
<1>8. ASSUME NEW c \in Conns, find_self(c) PROVE Rows'
  <2>1. /\ pc[c] = "find" /\ pc'[c] \in {"clear", "free"}
        /\ \A d \in Conns \ {c} : pc'[d] = pc[d]
    BY <1>8 DEF find_self, Step, TypeOK
  <2>2. UNCHANGED <<rowVars, detached, g_list_client, freed, deleted, reconnecting, evicted>>
    BY <1>8 DEF find_self, objVars, history
  <2> QED
    BY <2>1, <2>2, NotARow
    DEF rowVars, Lifetimes, Unlinked, FlaggedWhy, FreedWhy, EvictedWhere, Rows, OwnRow,
        TakenOver, Inserting, RowGone, RowFollowsClient
<1>9. ASSUME NEW c \in Conns, clear_worker(c) PROVE Rows'
  <2>1. /\ pc[c] = "clear" /\ pc'[c] = "flag"
        /\ \A d \in Conns \ {c} : pc'[d] = pc[d]
        /\ UNCHANGED <<g_list_client, freed, deleted, reconnecting, evicted>>
    BY <1>9 DEF clear_worker, Step, TypeOK, objVars
  <2>2. CASE ClearWorker(c)
    BY <2>1, <2>2, RowCleared
  <2>3. CASE KeepWorker /\ (workerid[c] = NoRow \/ c \in reconnecting)
    BY <2>1, <2>3, NotARow
    DEF KeepWorker, rowVars, Lifetimes, Unlinked, FlaggedWhy, FreedWhy, EvictedWhere, Rows,
        OwnRow, TakenOver, Inserting, RowGone, RowFollowsClient
  <2> QED
    BY <1>9, <2>2, <2>3 DEF clear_worker
<1>10. ASSUME NEW c \in Conns, object_delete(c) PROVE Rows'
  <2>1. /\ pc[c] = "flag" /\ pc'[c] = "exited"
        /\ \A d \in Conns \ {c} : pc'[d] = pc[d]
    BY <1>10 DEF object_delete, Step, TypeOK
  <2>2. UNCHANGED <<rowVars, detached, g_list_client, freed, reconnecting, evicted>>
    BY <1>10 DEF object_delete, history
  <2> QED
    BY <2>1, <2>2, NotARow
    DEF rowVars, Lifetimes, Unlinked, FlaggedWhy, FreedWhy, EvictedWhere, Rows, OwnRow,
        TakenOver, Inserting, RowGone, RowFollowsClient
<1>11. ASSUME NEW c \in Conns, delete_self(c) PROVE Rows'
  <2>1. /\ pc[c] = "free" /\ pc'[c] = "exited"
        /\ \A d \in Conns \ {c} : pc'[d] = pc[d]
    BY <1>11 DEF delete_self, Step, TypeOK
  <2>2. /\ freed' = freed \cup {c}
        /\ UNCHANGED <<rowVars, detached, g_list_client, deleted, reconnecting, evicted>>
    BY <1>11 DEF delete_self, history
  <2> QED
    BY <2>1, <2>2, NotARow
    DEF rowVars, Lifetimes, Unlinked, FlaggedWhy, FreedWhy, EvictedWhere, Rows, OwnRow,
        TakenOver, Inserting, RowGone, RowFollowsClient
<1>12. ASSUME NEW c \in Conns, job_assign_reconnect(c) PROVE Rows'
  <2>1. /\ reconnecting' = reconnecting \cup {c}
        /\ UNCHANGED <<pc, rowVars, detached, g_list_client, freed, deleted, evicted>>
    BY <1>12 DEF job_assign_reconnect, history
  <2> QED
    BY <2>1
    DEF rowVars, Lifetimes, Unlinked, FlaggedWhy, FreedWhy, EvictedWhere, Rows, OwnRow,
        TakenOver, Inserting, RowGone, RowFollowsClient
<1>13. ASSUME NEW c \in Conns, job_broadcast_timeout(c) PROVE Rows'
  <2>1. /\ c \in g_list_client /\ pc[c] # "insert id"
        /\ evicted \subseteq evicted' /\ evicted' \subseteq evicted \cup {c}
        /\ UNCHANGED <<pc, g_list_client, freed, reconnecting>>
    BY <1>13 DEF job_broadcast_timeout, Evict, Lifetimes, Unlinked
  <2>2. CASE ClearWorker(c)
    BY <2>1, <2>2, RowCleared
  <2>3. CASE KeepWorker /\ c \in reconnecting
    BY <2>1, <2>3
    DEF KeepWorker, rowVars, Lifetimes, Unlinked, FlaggedWhy, FreedWhy, EvictedWhere, Rows,
        OwnRow, TakenOver, Inserting, RowGone, RowFollowsClient
  <2> QED
    BY <1>13, <2>2, <2>3 DEF job_broadcast_timeout
<1>14. CASE db_update_workers
  <2>1. PICK C \in SUBSET {c \in g_list_client \ deleted : workerid[c] # NoRow} :
          /\ \E X \in SUBSET C :
               /\ workers' = workers \ {workerid[c] : c \in X}
               /\ detached' = detached \cup {workerid[c] : c \in C \ X}
          /\ workerid' = [c \in Conns |-> IF c \in C THEN NoRow ELSE workerid[c]]
          /\ Evict(C)
    BY <1>14 DEF db_update_workers
  <2>2. C \subseteq Conns /\ \A c \in C : pc[c] # "insert id" /\ c \in g_list_client
    BY <2>1 DEF TypeOK, Lifetimes, Unlinked
  <2>3. /\ \A c \in Conns : workerid'[c] = IF c \in C THEN NoRow ELSE workerid[c]
        /\ \A c \in workers \ workers' : \E d \in C : workerid[d] = c
        /\ workers' \subseteq workers /\ detached \subseteq detached'
        /\ evicted \subseteq evicted' /\ evicted' \subseteq evicted \cup C
        /\ UNCHANGED <<pc, g_list_client, freed, reconnecting, insert_id>>
    BY <1>14, <2>1 DEF db_update_workers, Evict
  <2>4. \A c \in C : workerid[c] \notin workers' \ detached'
    BY <2>1
  <2>5. \A c \in Conns \ (C \cup detached') : c \in workers' <=> c \in workers
    <3>1. \A d \in C : workerid[d] \in {d, NoRow} \cup detached
      BY <2>2 DEF Rows, TakenOver
    <3>2. ASSUME NEW c \in Conns \ (C \cup detached'), NEW d \in C PROVE workerid[d] # c
      <4>1. c \notin detached /\ c # d /\ c # NoRow
        BY <2>3, NotARow
      <4> QED
        BY <3>1, <4>1
    <3> QED
      BY <2>2, <2>3, <3>2
  <2> USE <2>2, <2>3, <2>4, <2>5, NotARow DEF Rows
  <2>6. OwnRow'
    BY DEF OwnRow
  <2>7. TakenOver'
    BY DEF TakenOver
  <2>8. Inserting'
    BY DEF Inserting, TakenOver
  <2>9. ASSUME NEW c \in C, c \in workers' \ detached' PROVE c \in freed
    <3>1. c \in workers /\ c \notin detached /\ c \in Conns
      BY <2>9
    <3>2. workerid[c] # c
      <4>1. workerid[c] \notin workers' \ detached'
        BY <2>4
      <4> QED
        BY <2>9, <4>1, Zenon
    <3> QED
      BY <3>1, <3>2 DEF RowFollowsClient
  <2>10. RowGone'
    BY <2>9 DEF RowGone
  <2>11. RowFollowsClient'
    <3> SUFFICES ASSUME NEW d \in Conns \ detached'
                 PROVE  /\ d \in workers' /\ d \in freed' => d \in reconnecting' \cup evicted'
                        /\ d \in workers' /\ d \in evicted' => d \in reconnecting' \cup freed'
                        /\ d \notin freed' /\ pc'[d] # "insert id" =>
                               (d \in workers' <=> workerid'[d] = d)
      BY DEF RowFollowsClient
    <3>1. CASE d \in C
      BY <2>9, <3>1 DEF RowFollowsClient
    <3>2. CASE d \notin C
      BY <3>2 DEF RowFollowsClient
    <3> QED
      BY <3>1, <3>2
  <2> QED
    BY <2>6, <2>7, <2>8, <2>10, <2>11
<1>15. CASE object_prune
  <2>1. PICK D \in SUBSET (g_list_client \cap deleted) :
          /\ g_list_client' = g_list_client \ D /\ freed' = freed \cup D
          /\ UNCHANGED <<pc, rowVars, detached, deleted, reconnecting, evicted>>
    BY <1>15 DEF object_prune, history
  <2> QED
    BY <2>1
    DEF rowVars, TypeOK, Lifetimes, Unlinked, FlaggedWhy, FreedWhy, EvictedWhere, Rows, OwnRow,
        TakenOver, Inserting, RowGone, RowFollowsClient
<1>16. CASE UNCHANGED vars
  BY <1>16
  DEF vars, objVars, rowVars, history, Lifetimes, Unlinked, FlaggedWhy, FreedWhy, EvictedWhere,
      Rows, OwnRow, TakenOver, Inserting, RowGone, RowFollowsClient
<1>17. ASSUME NEW c \in Conns, has_worker(c) PROVE Rows'
  <2>1. /\ pc[c] = "add worker" /\ pc'[c] = "validate"
        /\ \A d \in Conns \ {c} : pc'[d] = pc[d]
    BY <1>17 DEF has_worker, Step, TypeOK
  <2>2. UNCHANGED <<rowVars, detached, g_list_client, freed, deleted, reconnecting, evicted>>
    BY <1>17 DEF has_worker, objVars, history
  <2> QED
    BY <2>1, <2>2, NotARow
    DEF rowVars, Lifetimes, Unlinked, FlaggedWhy, FreedWhy, EvictedWhere, Rows, OwnRow,
        TakenOver, Inserting, RowGone, RowFollowsClient
<1>18. ASSUME NEW c \in Conns, mysql_insert_id(c) PROVE Rows'
  <2>1. /\ pc[c] = "insert id" /\ pc'[c] = "validate"
        /\ \A d \in Conns \ {c} : pc'[d] = pc[d]
    BY <1>18 DEF mysql_insert_id, Step, TypeOK
  <2>2. /\ workerid'[c] = insert_id /\ \A d \in Conns \ {c} : workerid'[d] = workerid[d]
        /\ insert_id' = NoRow /\ detached \subseteq detached'
        /\ insert_id # c => c \in detached' /\ insert_id \in {c, NoRow} \cup detached'
        /\ UNCHANGED <<workers, g_list_client, freed, deleted, reconnecting, evicted>>
    BY <1>18, NotARow DEF mysql_insert_id, TypeOK, objVars
  <2> USE <2>1, <2>2, NotARow DEF Rows
  <2>3. OwnRow'
    BY DEF OwnRow
  <2>4. TakenOver'
    BY DEF TakenOver
  <2>5. Inserting'
    BY DEF Inserting
  <2>6. RowGone'
    BY DEF RowGone
  <2>7. c \in detached' \/ (workerid'[c] = c /\ c \in workers)
    BY DEF Inserting
  <2>8. RowFollowsClient'
    BY <2>7 DEF RowFollowsClient
  <2> QED
    BY <2>3, <2>4, <2>5, <2>6, <2>8
<1>19. CASE exit_begins
  BY <1>19
  DEF exit_begins, objVars, rowVars, history, Lifetimes, Unlinked, FlaggedWhy, FreedWhy,
      EvictedWhere, Rows, OwnRow, TakenOver, Inserting, RowGone, RowFollowsClient
<1>20. CASE Restart
  <2>1. /\ \A c \in Conns : workerid'[c] = NoRow /\ pc'[c] \in {"start", "exited"}
        /\ detached' = workers /\ workers' = workers
    BY <1>20 DEF Restart
  <2> QED
    BY <2>1, NotARow DEF Rows, OwnRow, TakenOver, Inserting, RowGone, RowFollowsClient
<1> QED
  BY <1>1, <1>2, <1>3, <1>4, <1>5, <1>6, <1>7, <1>8, <1>9, <1>10, <1>11, <1>12, <1>13, <1>14,
      <1>15, <1>16, <1>17, <1>18, <1>19, <1>20
  DEF Next, client_thread, main_thread, main_returns, db_query_fails, process_dies

LEMMA IInvInit == Init => IInv
<1> SUFFICES ASSUME Init PROVE IInv
  OBVIOUS
<1> USE DEF Init
<1>1. TypeOK
  <2>1. PlacesOK
    BY DEF PlacesOK
  <2>2. LocksOK
    BY BoundAssumption DEF LocksOK
  <2>3. RowsOK
    BY DEF RowsOK
  <2> QED
    BY <2>1, <2>2, <2>3 DEF TypeOK, PlacesOK, LocksOK, RowsOK
<1>2. Lifetimes
  BY DEF Lifetimes, Sourced, Unlinked, FlaggedWhy, FreedWhy, EvictedWhere
<1>3. Rows
  BY ConnsAssumption DEF Rows, OwnRow, TakenOver, Inserting, RowGone, RowFollowsClient
<1> QED
  BY <1>1, <1>2, <1>3 DEF IInv

LEMMA IInvStep == IInv /\ [Next]_vars => IInv'
<1> SUFFICES ASSUME IInv, [Next]_vars PROVE IInv'
  OBVIOUS
<1>1. TypeOK /\ Lifetimes /\ Sourced /\ Rows
  BY DEF IInv, Lifetimes
<1>2. TypeOK'
  BY <1>1, PlacesStep, LocksStep, RowsOKStep DEF TypeOK, PlacesOK, LocksOK, RowsOK
<1> QED
  BY <1>1, <1>2, LifetimesStep, RowsStep DEF IInv

-----------------------------------------------------------------------------
(* Every variable keeps its type, whatever the connections send and in     *)
(* whatever order their threads, the job thread and main go on.            *)
THEOREM TypeCorrect == Spec => []TypeOK
<1>1. IInv => TypeOK
  BY DEF IInv
<1> QED
  BY <1>1, IInvInit, IInvStep, PTL DEF Spec

(* find_self, object_prune and the reconnect locks free an object only     *)
(* after its thread has ended and it is out of the list, as long as no     *)
(* other thread has flagged it.                                            *)
THEOREM OwnerFrees == Spec => []ThreadOwnsObject
<1>1. IInv => ThreadOwnsObject
  BY DEF IInv, Lifetimes, FreedWhy, ThreadOwnsObject, Running
<1> QED
  BY <1>1, IInvInit, IInvStep, PTL DEF Spec

(* db_add_worker and db_clear_worker keep the table workers in step with   *)
(* the clients, but for the detached rows, named at RowFollowsClient, and  *)
(* those of clients told to reconnect or evicted.                          *)
THEOREM RowsFollow == Spec => []RowFollowsClient
<1>1. IInv => RowFollowsClient
  BY DEF IInv, Rows
<1> QED
  BY <1>1, IInvInit, IInvStep, PTL DEF Spec
=============================================================================
