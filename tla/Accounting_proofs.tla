-------------------------- MODULE Accounting_proofs --------------------------
(***************************************************************************)
(* Proofs about Accounting, for any clients, any number of shares and any  *)
(* size of a statement.                                                    *)
(***************************************************************************)
EXTENDS Accounting, TLAPS

(* What SharesKept rests on: a linked record, flagged or not, has a        *)
(* credited share's name, so that a new record replaces none, and the      *)
(* statement is empty except while it is being sent.                       *)
RecordsNamed == g_list_worker \subseteq Credited
BufferSent == ~Querying => buffer = {}

SharesInv == TypeOK /\ RecordsNamed /\ BufferSent /\ SharesKept

(* What ToItsMiner rests on: who has inserted a row and has not asked for  *)
(* its id owns g_db_mutex, and only an eviction comes between.             *)
IdAsked ==
    \A c \in Clients : pc[c] = "insert_id" =>
        /\ g_db_mutex = c
        /\ insert_id = c \/ (insert_id = NoId /\ c \in anonymous)
IdKnown ==
    \A c \in Clients : Listed(c) =>
        workerid[c] = c \/ (workerid[c] = NoId /\ c \in anonymous)
EvictedNoted == evicting # Nobody => evicting \in anonymous

MinersInv == SharesInv /\ IdAsked /\ IdKnown /\ EvictedNoted /\ ToItsMiner

-----------------------------------------------------------------------------
LEMMA TypeInit == Init => TypeOK
<1> SUFFICES ASSUME Init PROVE TypeOK
  OBVIOUS
<1>1. rows \in [Shares -> 0..2] /\ finder \in [Shares -> Clients \cup {NoId}]
  BY DEF Init
<1>2. pc \in [Clients -> {"new", "insert_id", "ready", "create", "gone"}]
  BY DEF Init
<1>3. workerid \in [Clients -> Clients \cup {NoId}]
  BY DEF Init
<1>4. key \in [Shares -> Clients \cup {NoId}] /\ sum \in [Shares -> SUBSET Shares]
  BY DEF Init
<1> QED
  BY <1>1, <1>2, <1>3, <1>4 DEF Init, TypeOK

LEMMA TypeStep == TypeOK /\ [Next]_vars => TypeOK'
<1> SUFFICES ASSUME TypeOK, [Next]_vars PROVE TypeOK'
  OBVIOUS
<1> USE DEF TypeOK, Goto, Live, Unnamed, SharesOf, NoId, Nobody, Main
<1>1. ASSUME NEW c \in Clients, db_add_worker(c) PROVE TypeOK'
  BY <1>1 DEF db_add_worker, recordVars, mainVars, history
<1>2. ASSUME NEW c \in Clients, mysql_insert_id(c) PROVE TypeOK'
  BY <1>2 DEF mysql_insert_id, recordVars, mainVars, history
<1>3. ASSUME NEW c \in Clients, client_thread_end(c) PROVE TypeOK'
  BY <1>3 DEF client_thread_end, recordVars, mainVars, history
<1>4. ASSUME NEW c \in Clients, share_add_worker(c) PROVE TypeOK'
  BY <1>4 DEF share_add_worker, Credit, rowVars, mainVars, history
<1>5. ASSUME NEW c \in Clients, share_find_worker_none(c) PROVE TypeOK'
  BY <1>5 DEF share_find_worker_none, rowVars, mainVars, history
<1>6. ASSUME NEW c \in Clients, share_new_worker(c) PROVE TypeOK'
  BY <1>6 DEF share_new_worker, Credit, rowVars, mainVars, history
<1>7. ASSUME NEW c \in Clients, job_broadcast_delete(c) PROVE TypeOK'
  BY <1>7 DEF job_broadcast_delete, recordVars, mainVars, history
<1>8. CASE job_broadcast_clear
  BY <1>8 DEF job_broadcast_clear, recordVars, mainVars, history
<1>9. ASSUME NEW c \in Clients, db_update_workers(c) PROVE TypeOK'
  BY <1>9 DEF db_update_workers, recordVars, mainVars, history
<1>10. CASE share_write
  BY <1>10 DEF share_write, rowVars, history
<1>11. CASE share_write_chunk
  BY <1>11 DEF share_write_chunk, rowVars
<1>12. CASE share_write_rest
  BY <1>12 DEF share_write_rest, rowVars
<1>13. CASE db_query
  BY <1>13 DEF db_query, Querying, QueryReturns, Execute, rowVars, recordVars, history
<1>14. CASE db_query_answer_lost
  BY <1>14 DEF db_query_answer_lost, Querying, Execute, rowVars, recordVars, mainVars
<1>15. CASE db_query_exiting
  BY <1>15 DEF db_query_exiting, Querying, QueryReturns, InTable, rowVars, recordVars
<1>16. CASE object_prune
  BY <1>16 DEF object_prune, rowVars, history
<1>17. CASE exit_begins
  BY <1>17 DEF exit_begins, rowVars, recordVars, mainVars, history
<1>18. CASE Restart
  BY <1>18 DEF Restart, InTable
<1>19. CASE UNCHANGED vars
  BY <1>19 DEF vars, rowVars, recordVars, mainVars, history
<1> QED
  BY <1>1, <1>2, <1>3, <1>4, <1>5, <1>6, <1>7, <1>8, <1>9, <1>10, <1>11, <1>12, <1>13, <1>14,
     <1>15, <1>16, <1>17, <1>18, <1>19
     DEF Next, client_thread, main_thread, main_returns, db_query_fails, process_dies

(* No credited share is ever forgotten, and none is in two places.         *)
LEMMA SharesInit == Init => SharesInv
<1> SUFFICES ASSUME Init PROVE SharesInv
  OBVIOUS
<1>1. TypeOK
  BY TypeInit
<1> QED
  BY <1>1 DEF Init, SharesInv, RecordsNamed, BufferSent, SharesKept, Credited, SharesOf, InTable, Live

LEMMA SharesStep == SharesInv /\ [Next]_vars => SharesInv'
<1> SUFFICES ASSUME SharesInv, [Next]_vars PROVE SharesInv'
  OBVIOUS
<1>0. TypeOK'
  BY TypeStep DEF SharesInv
<1> USE <1>0, ClientsAssumption DEF SharesInv, TypeOK, RecordsNamed, BufferSent, SharesKept, Credited,
        SharesOf, InTable, Live, Querying, Goto
<1>1. ASSUME NEW c \in Clients, db_add_worker(c) PROVE SharesInv'
  BY <1>1 DEF db_add_worker, recordVars, mainVars, history
<1>2. ASSUME NEW c \in Clients, mysql_insert_id(c) PROVE SharesInv'
  BY <1>2 DEF mysql_insert_id, recordVars, mainVars, history
<1>3. ASSUME NEW c \in Clients, client_thread_end(c) PROVE SharesInv'
  BY <1>3 DEF client_thread_end, recordVars, mainVars, history
<1>4. ASSUME NEW c \in Clients, share_add_worker(c) PROVE SharesInv'
  BY <1>4 DEF share_add_worker, Credit, rowVars, mainVars, history
<1>5. ASSUME NEW c \in Clients, share_find_worker_none(c) PROVE SharesInv'
  BY <1>5 DEF share_find_worker_none, rowVars, mainVars, history
<1>6. ASSUME NEW c \in Clients, share_new_worker(c) PROVE SharesInv'
  BY <1>6 DEF share_new_worker, Credit, rowVars, mainVars, history
<1>7. ASSUME NEW c \in Clients, job_broadcast_delete(c) PROVE SharesInv'
  BY <1>7 DEF job_broadcast_delete, recordVars, mainVars, history
<1>8. CASE job_broadcast_clear
  BY <1>8 DEF job_broadcast_clear, recordVars, mainVars, history
<1>9. ASSUME NEW c \in Clients, db_update_workers(c) PROVE SharesInv'
  BY <1>9 DEF db_update_workers, recordVars, mainVars, history
<1>10. CASE share_write
  BY <1>10 DEF share_write, rowVars, history
<1>11. CASE share_write_chunk
  BY <1>11 DEF share_write_chunk, Unnamed, rowVars
<1>12. CASE share_write_rest
  BY <1>12 DEF share_write_rest, Unnamed, rowVars
<1>13. CASE db_query
  BY <1>13 DEF db_query, QueryReturns, Execute, rowVars, recordVars, history
<1>14. CASE db_query_answer_lost
  BY <1>14 DEF db_query_answer_lost, Execute, rowVars, recordVars, mainVars
<1>15. CASE db_query_exiting
  BY <1>15 DEF db_query_exiting, QueryReturns, rowVars, recordVars
<1>16. CASE object_prune
  BY <1>16 DEF object_prune, rowVars, history
<1>17. CASE exit_begins
  BY <1>17 DEF exit_begins, rowVars, recordVars, mainVars, history
<1>18. CASE Restart
  BY <1>18 DEF Restart
<1>19. CASE UNCHANGED vars
  BY <1>19 DEF vars, rowVars, recordVars, mainVars, history
<1> QED
  BY <1>1, <1>2, <1>3, <1>4, <1>5, <1>6, <1>7,
     <1>8, <1>9, <1>10, <1>11, <1>12, <1>13, <1>14, <1>15, <1>16, <1>17, <1>18, <1>19
     DEF Next, client_thread, main_thread, main_returns, db_query_fails, process_dies

(* A live record's shares were found by the client it is booked on, unless *)
(* an eviction is to blame.                                                *)
LEMMA MinersInit == Init => MinersInv
<1> SUFFICES ASSUME Init PROVE MinersInv
  OBVIOUS
<1>1. SharesInv
  BY SharesInit
<1> QED
  BY <1>1 DEF Init, MinersInv, IdAsked, IdKnown, EvictedNoted, ToItsMiner, Listed, Live

LEMMA MinersStep == MinersInv /\ [Next]_vars => MinersInv'
<1> SUFFICES ASSUME MinersInv, [Next]_vars PROVE MinersInv'
  OBVIOUS
<1>0. SharesInv /\ SharesInv'
  BY SharesStep DEF MinersInv
<1> USE <1>0, ClientsAssumption DEF SharesInv, TypeOK, RecordsNamed, SharesKept, Credited, SharesOf, InTable,
        MinersInv, IdAsked, IdKnown, EvictedNoted, ToItsMiner, Listed, Live, Goto, NoId, Nobody
<1>1. ASSUME NEW c \in Clients, db_add_worker(c) PROVE MinersInv'
  BY <1>1 DEF db_add_worker, recordVars, mainVars, history
<1>2. ASSUME NEW c \in Clients, mysql_insert_id(c) PROVE MinersInv'
  BY <1>2 DEF mysql_insert_id, recordVars, mainVars, history
<1>3. ASSUME NEW c \in Clients, client_thread_end(c) PROVE MinersInv'
  BY <1>3 DEF client_thread_end, recordVars, mainVars, history
<1>4. ASSUME NEW c \in Clients, share_add_worker(c) PROVE MinersInv'
  BY <1>4 DEF share_add_worker, Credit, rowVars, mainVars, history
<1>5. ASSUME NEW c \in Clients, share_find_worker_none(c) PROVE MinersInv'
  BY <1>5 DEF share_find_worker_none, rowVars, mainVars, history
<1>6. ASSUME NEW c \in Clients, share_new_worker(c) PROVE MinersInv'
  BY <1>6 DEF share_new_worker, Credit, rowVars, mainVars, history
<1>7. ASSUME NEW c \in Clients, job_broadcast_delete(c) PROVE MinersInv'
  BY <1>7 DEF job_broadcast_delete, recordVars, mainVars, history
<1>8. CASE job_broadcast_clear
  BY <1>8 DEF job_broadcast_clear, recordVars, mainVars, history
<1>9. ASSUME NEW c \in Clients, db_update_workers(c) PROVE MinersInv'
  BY <1>9 DEF db_update_workers, recordVars, mainVars, history
<1>10. CASE share_write
  BY <1>10 DEF share_write, rowVars, history
<1>11. CASE share_write_chunk
  BY <1>11 DEF share_write_chunk, Unnamed, rowVars
<1>12. CASE share_write_rest
  BY <1>12 DEF share_write_rest, Unnamed, rowVars
<1>13. CASE db_query
  BY <1>13 DEF db_query, QueryReturns, Execute, rowVars, recordVars, history
<1>14. CASE db_query_answer_lost
  BY <1>14 DEF db_query_answer_lost, Execute, rowVars, recordVars, mainVars
<1>15. CASE db_query_exiting
  BY <1>15 DEF db_query_exiting, QueryReturns, rowVars, recordVars
<1>16. CASE object_prune
  <2>1. /\ pc' = pc /\ workerid' = workerid /\ g_db_mutex' = g_db_mutex
        /\ insert_id' = insert_id /\ evicting' = evicting /\ anonymous' = anonymous
    BY <1>16 DEF object_prune, rowVars
  <2>2. IdAsked' /\ IdKnown' /\ EvictedNoted'
    BY <2>1
  <2>3. /\ g_list_worker' = Live /\ deleted' = {} /\ finder' = finder
        /\ \A r \in Live : key'[r] = key[r] /\ sum'[r] = sum[r]
    BY <1>16 DEF object_prune
  <2>4. ToItsMiner'
    BY <2>1, <2>3
  <2> QED
    BY <2>2, <2>4
<1>17. CASE exit_begins
  BY <1>17 DEF exit_begins, rowVars, recordVars, mainVars, history
<1>18. CASE Restart
  BY <1>18 DEF Restart
<1>19. CASE UNCHANGED vars
  BY <1>19 DEF vars, rowVars, recordVars, mainVars, history
<1> QED
  BY <1>1, <1>2, <1>3, <1>4, <1>5, <1>6, <1>7,
     <1>8, <1>9, <1>10, <1>11, <1>12, <1>13, <1>14, <1>15, <1>16, <1>17, <1>18, <1>19
     DEF Next, client_thread, main_thread, main_returns, db_query_fails, process_dies

-----------------------------------------------------------------------------
(* Every variable keeps its type.                                          *)
THEOREM TypeCorrect == Spec => []TypeOK
  BY TypeInit, TypeStep, PTL DEF Spec

(* share_add_worker, share_write, db_query and object_prune pass each      *)
(* share on (share.cpp:38-159), through evictions, retries and restarts,   *)
(* for any number of clients and shares and any size of a statement.       *)
THEOREM EveryShareKept == Spec => []SharesKept
<1>1. SharesInv => SharesKept
  BY DEF SharesInv
<1> QED
  BY <1>1, SharesInit, SharesStep, PTL DEF Spec

(* A record's workerid is that of the finder of its shares, or 0 after an  *)
(* eviction (share.cpp:49-50, user.cpp:199, job_send.cpp:196).             *)
THEOREM EveryMinerBooked == Spec => []ToItsMiner
<1>1. MinersInv => ToItsMiner
  BY DEF MinersInv
<1> QED
  BY <1>1, MinersInit, MinersStep, PTL DEF Spec
=============================================================================
