--------------------------- MODULE JobRefs_proofs ---------------------------
(***************************************************************************)
(* Proofs about JobRefs, for every set of connections, daemons and nonces  *)
(* and every number of jobs.                                               *)
(***************************************************************************)
EXTENDS JobRefs, FiniteSetTheorems, TLAPS

(* A thread that is not idle works on a job of the list, and the share it  *)
(* would record is a share.                                                *)
LEMMA MyShareType ==
  ASSUME TypeOK, NEW c \in Clients, pc[c] # "idle"
  PROVE  mine[c].job \in JobIds /\ MyShare(c) \in Share
<1>1. mine[c] \in [job : 0..MaxJob, nonce : Nonces]
  BY DEF TypeOK
<1>2. mine[c].job \in JobIds
  BY <1>1, MaxJobAssumption DEF TypeOK, JobIds, NoJob
<1> QED
  BY <1>1, <1>2 DEF MyShare, Share

(* Initial states are well typed, and so is the successor of a well-typed  *)
(* state.                                                                  *)
LEMMA TypeInit == Init => TypeOK
<1> USE MaxJobAssumption
<1> SUFFICES ASSUME Init PROVE TypeOK
  OBVIOUS
<1>1. PICK n \in Nonces : mine = [c \in Clients |-> [job |-> NoJob, nonce |-> n]]
  BY DEF Init
<1> QED
  <2>1. mine \in [Clients -> [job : 0..MaxJob, nonce : Nonces]]
    BY <1>1 DEF NoJob
  <2>2. /\ pc \in [Clients -> ClientPoints]
        /\ \A c \in Clients : pc[c] # "idle" => mine[c].job # NoJob
    BY DEF Init, ClientPoints
  <2>3. /\ deleted \in [JobIds -> BOOLEAN] /\ lock_count \in [JobIds -> Int]
        /\ coind_job \in [Coinds -> 0..MaxJob] /\ reg \in [Clients -> Int]
        /\ credits \in [Share -> Nat]
    BY DEF Init, NoJob
  <2>4. g_list_job = {} /\ to_visit = {} /\ g_list_share = {} /\ building = {}
    BY DEF Init
  <2>5. lastid \in 0..MaxJob /\ main_pc \in MainPoints
    BY DEF Init, MainPoints
  <2>6. lost \in BOOLEAN /\ list_mutex \in Clients \cup {Main, Nobody} /\ live_coind \in SUBSET Coinds
    BY DEF Init
  <2> QED
    BY <2>1, <2>2, <2>3, <2>4, <2>5, <2>6 DEF TypeOK

LEMMA TypeStep == TypeOK /\ [Next]_vars => TypeOK'
<1> USE MaxJobAssumption, ClientsAssumption
<1> SUFFICES ASSUME TypeOK, [Next]_vars PROVE TypeOK'
  OBVIOUS
<1> USE DEF TypeOK, JobIds, ClientPoints, HoldPoints, MainPoints, NoJob,
        jobVars, coindVars, clientVars, mainVars, shareVars, Goto
<1>1. ASSUME NEW c \in Clients, object_find(c) PROVE TypeOK'
  BY <1>1 DEF object_find
<1>2. ASSUME NEW c \in Clients, object_lock(c) PROVE TypeOK'
  <2>1. lost' \in BOOLEAN
    BY <1>2, Zenon DEF object_lock, StoreCount
  <2>2. lock_count' \in [JobIds -> Int] /\ reg' \in [Clients -> Int]
    BY <1>2 DEF object_lock, StoreCount
  <2> QED
    BY <1>2, <2>1, <2>2 DEF object_lock
<1>3. ASSUME NEW c \in Clients, job_send_jobid(c) PROVE TypeOK'
  BY <1>3 DEF job_send_jobid
<1>4. ASSUME NEW c \in Clients, client_submit_check(c) PROVE TypeOK'
  <2>1. CASE client_submit_error(c)
    BY <1>4, <2>1, MyShareType DEF client_submit_check, client_submit_error
  <2> QED
    BY <1>4, <2>1 DEF client_submit_check
<1>5. ASSUME NEW c \in Clients, client_submit_dup(c) PROVE TypeOK'
  <2>1. CASE client_submit_error(c)
    BY <1>5, <2>1, MyShareType DEF client_submit_dup, client_submit_error
  <2> QED
    BY <1>5, <2>1 DEF client_submit_dup
<1>6. ASSUME NEW c \in Clients, client_submit_verify(c) PROVE TypeOK'
  <2>1. CASE client_submit_error(c)
    BY <1>6, <2>1, MyShareType DEF client_submit_verify, client_submit_error
  <2> QED
    BY <1>6, <2>1 DEF client_submit_verify
<1>7. ASSUME NEW c \in Clients, client_do_submit(c) PROVE TypeOK'
  BY <1>7 DEF client_do_submit
<1>8. ASSUME NEW c \in Clients, share_add(c) PROVE TypeOK'
  <2>1. credits' \in [Share -> Nat]
    BY <1>8, MyShareType DEF share_add
  <2> QED
    BY <1>8, <2>1, MyShareType DEF share_add
<1>9. ASSUME NEW c \in Clients, object_unlock(c) PROVE TypeOK'
  BY <1>9 DEF object_unlock
<1>10. ASSUME NEW c \in Clients, object_unlock_store(c) PROVE TypeOK'
  <2>1. lost' \in BOOLEAN
    BY <1>10, Zenon DEF object_unlock_store, StoreCount
  <2>2. lock_count' \in [JobIds -> Int] /\ reg' \in [Clients -> Int]
    BY <1>10 DEF object_unlock_store, StoreCount
  <2>3. mine' \in [Clients -> [job : 0..MaxJob, nonce : Nonces]]
    BY <1>10 DEF object_unlock_store
  <2>4. \A k \in Clients : pc'[k] # "idle" => mine'[k].job # NoJob
    BY <1>10 DEF object_unlock_store
  <2>5. pc' \in [Clients -> ClientPoints]
    BY <1>10 DEF object_unlock_store
  <2>6. UNCHANGED <<g_list_job, list_mutex, deleted, lastid, coindVars, mainVars, shareVars>>
    BY <1>10 DEF object_unlock_store
  <2> QED
    BY <2>1, <2>2, <2>3, <2>4, <2>5, <2>6
<1>11. ASSUME NEW d \in Coinds, coind_create_job(d) PROVE TypeOK'
  BY <1>11 DEF coind_create_job, object_delete
<1>12. ASSUME NEW d \in Coinds, coind_link_job(d) PROVE TypeOK'
  BY <1>12 DEF coind_link_job
<1>13. CASE share_prune
  BY <1>13 DEF share_prune
<1>14. CASE prune_coind
  BY <1>14 DEF prune_coind
<1>15. CASE prune_enter
  BY <1>15 DEF prune_enter
<1>16. CASE prune_visit
  BY <1>16 DEF prune_visit
<1>17. CASE prune_leave
  BY <1>17 DEF prune_leave
<1>18. CASE UNCHANGED vars
  BY <1>18 DEF vars
<1> QED
  BY <1>1, <1>2, <1>3, <1>4, <1>5, <1>6, <1>7, <1>8, <1>9, <1>10, <1>11, <1>12,
     <1>13, <1>14, <1>15, <1>16, <1>17, <1>18
     DEF Next, client_thread, creator, main_thread

(* Every variable keeps its type: no thread ever works on, links or        *)
(* counts a job whose id job_get_jobid could not have returned.            *)
THEOREM TypeCorrect == Spec => []TypeOK
  BY TypeInit, TypeStep, PTL DEF Spec

-----------------------------------------------------------------------------
(* The steps of a client thread between object_find and the end of         *)
(* object_unlock: it keeps its job, and only shares change.                *)
UsesJob(c) ==
    \/ job_send_jobid(c) \/ client_submit_check(c) \/ client_submit_dup(c)
    \/ client_submit_verify(c) \/ client_do_submit(c) \/ share_add(c) \/ object_unlock(c)

LEMMA UsesJobStep ==
  ASSUME TypeOK, NEW c \in Clients, UsesJob(c)
  PROVE  /\ pc[c] \in HoldPoints
         /\ \E p \in HoldPoints : pc' = [pc EXCEPT ![c] = p]
         /\ UNCHANGED <<jobVars, coindVars, mine, mainVars, lost>>
<1> USE DEF Goto, HoldPoints
<1>1. CASE job_send_jobid(c)
  BY <1>1 DEF job_send_jobid
<1>2. CASE client_submit_check(c)
  BY <1>2 DEF client_submit_check, client_submit_error, shareVars
<1>3. CASE client_submit_dup(c)
  BY <1>3 DEF client_submit_dup, client_submit_error, shareVars
<1>4. CASE client_submit_verify(c)
  BY <1>4 DEF client_submit_verify, client_submit_error, shareVars
<1>5. CASE client_do_submit(c)
  BY <1>5 DEF client_do_submit
<1>6. CASE share_add(c)
  BY <1>6 DEF share_add
<1>7. CASE object_unlock(c)
  BY <1>7 DEF object_unlock
<1> QED
  BY <1>1, <1>2, <1>3, <1>4, <1>5, <1>6, <1>7 DEF UsesJob

(* The mutex of g_list_job has one owner.                                  *)
LEMMA MutexStep == TypeOK /\ MutexHeld /\ [Next]_vars => MutexHeld'
<1> SUFFICES ASSUME TypeOK, MutexHeld, [Next]_vars PROVE MutexHeld'
  OBVIOUS
<1> USE ClientsAssumption DEF MutexHeld, Main, Nobody, TypeOK
<1>1. ASSUME NEW c \in Clients, object_find(c) PROVE MutexHeld'
  BY <1>1 DEF object_find, Goto, mainVars
<1>2. ASSUME NEW c \in Clients, object_lock(c) PROVE MutexHeld'
  BY <1>2 DEF object_lock, Goto, mainVars
<1>3. ASSUME NEW c \in Clients, UsesJob(c) PROVE MutexHeld'
  BY <1>3, UsesJobStep DEF jobVars, mainVars, HoldPoints
<1>4. ASSUME NEW c \in Clients, object_unlock_store(c) PROVE MutexHeld'
  BY <1>4 DEF object_unlock_store, Goto, mainVars
<1>5. ASSUME NEW d \in Coinds, creator(d) PROVE MutexHeld'
  BY <1>5 DEF creator, coind_create_job, coind_link_job, clientVars, mainVars
<1>6. CASE share_prune \/ prune_coind
  BY <1>6 DEF share_prune, prune_coind, clientVars, jobVars
<1>7. CASE prune_enter
  BY <1>7 DEF prune_enter, clientVars
<1>8. CASE prune_visit
  BY <1>8 DEF prune_visit, clientVars
<1>9. CASE prune_leave
  BY <1>9 DEF prune_leave, clientVars
<1>10. CASE UNCHANGED vars
  BY <1>10 DEF vars, clientVars, jobVars, mainVars
<1> QED
  BY <1>1, <1>2, <1>3, <1>4, <1>5, <1>6, <1>7, <1>8, <1>9, <1>10
     DEF Next, client_thread, creator, main_thread, UsesJob

(* Counting one more, and one less, holder.                                *)
LEMMA HoldersFinite == \A j : IsFiniteSet(Holders(j))
<1> TAKE j
<1>1. Holders(j) \in SUBSET Clients
  BY DEF Holders
<1> QED
  BY <1>1, FS_Subset, ClientsAssumption

(* A count changes only together with the set it counts.                   *)
LEMMA RefsStep == TypeOK /\ MutexHeld /\ RefsExact /\ [Next]_vars => RefsExact'
<1> SUFFICES ASSUME TypeOK, MutexHeld, RefsExact, [Next]_vars, ~lost' PROVE RefsExact'
  BY DEF RefsExact
<1>a. ASSUME ~lost, UNCHANGED lock_count, \A j \in JobIds : Holders(j)' = Holders(j)
      PROVE  RefsExact'
  BY <1>a DEF RefsExact
<1>1. ASSUME NEW c \in Clients, object_find(c) PROVE RefsExact'
  <2>1. \A j \in JobIds : Holders(j)' = Holders(j)
    BY <1>1 DEF object_find, Goto, Holders, HoldPoints, TypeOK
  <2> QED
    BY <1>1, <2>1, <1>a DEF object_find
<1>2. ASSUME NEW c \in Clients, object_lock(c) PROVE RefsExact'
  <2>1. PICK i \in JobIds : i = mine[c].job
    BY <1>2, MyShareType DEF object_lock
  <2>2. /\ ~lost /\ lock_count[i] = reg[c] /\ pc[c] = "store_inc"
        /\ lock_count' = [lock_count EXCEPT ![i] = lock_count[i] + 1]
        /\ pc' = [pc EXCEPT ![c] = "check"] /\ mine' = mine
    BY <1>2, <2>1 DEF object_lock, StoreCount, Goto
  <2>3. Holders(i)' = Holders(i) \cup {c} /\ c \notin Holders(i)
    BY <2>1, <2>2 DEF Holders, HoldPoints, TypeOK
  <2>4. \A j \in JobIds \ {i} : Holders(j)' = Holders(j)
    BY <2>1, <2>2 DEF Holders, HoldPoints, TypeOK
  <2>5. Cardinality(Holders(i)') = Cardinality(Holders(i)) + 1
    BY <2>3, HoldersFinite, FS_AddElement
  <2> QED
    BY <2>2, <2>4, <2>5 DEF RefsExact, TypeOK
<1>3. ASSUME NEW c \in Clients, UsesJob(c) PROVE RefsExact'
  <2>1. PICK p \in HoldPoints : pc' = [pc EXCEPT ![c] = p]
    BY <1>3, UsesJobStep
  <2>2. pc[c] \in HoldPoints /\ mine' = mine /\ lock_count' = lock_count /\ lost' = lost
    BY <1>3, UsesJobStep DEF jobVars
  <2>3. \A j \in JobIds : Holders(j)' = Holders(j)
    BY <2>1, <2>2 DEF Holders, TypeOK
  <2> QED
    BY <2>2, <2>3, <1>a
<1>4. ASSUME NEW c \in Clients, object_unlock_store(c) PROVE RefsExact'
  <2>1. PICK i \in JobIds : i = mine[c].job
    BY <1>4, MyShareType DEF object_unlock_store
  <2>2. /\ ~lost /\ lock_count[i] = reg[c] /\ pc[c] = "store_dec"
        /\ lock_count' = [lock_count EXCEPT ![i] = lock_count[i] - 1]
        /\ pc' = [pc EXCEPT ![c] = "idle"]
        /\ mine' = [mine EXCEPT ![c] = [job |-> NoJob, nonce |-> mine[c].nonce]]
    BY <1>4, <2>1 DEF object_unlock_store, StoreCount, Goto
  <2>3. Holders(i)' = Holders(i) \ {c} /\ c \in Holders(i)
    BY <2>1, <2>2 DEF Holders, HoldPoints, TypeOK
  <2>4. \A j \in JobIds \ {i} : Holders(j)' = Holders(j)
    BY <2>1, <2>2 DEF Holders, HoldPoints, TypeOK
  <2>5. Cardinality(Holders(i)') = Cardinality(Holders(i)) - 1
    BY <2>3, HoldersFinite, FS_RemoveElement
  <2> QED
    BY <2>2, <2>4, <2>5 DEF RefsExact, TypeOK
<1>5. ASSUME NEW d \in Coinds, creator(d) PROVE RefsExact'
  BY <1>5, <1>a DEF creator, coind_create_job, coind_link_job, clientVars, Holders
<1>6. CASE main_thread
  BY <1>6, <1>a DEF main_thread, share_prune, prune_coind, prune_enter, prune_visit, prune_leave,
     clientVars, jobVars, Holders
<1>7. CASE UNCHANGED vars
  BY <1>7, <1>a DEF vars, clientVars, jobVars, Holders
<1> QED
  BY <1>1, <1>2, <1>3, <1>4, <1>5, <1>6, <1>7 DEF Next, client_thread, UsesJob

(* No job is linked, worked on or credited before its id is handed out.    *)
LEMMA IdsStep == TypeOK /\ IdsHandedOut /\ [Next]_vars => IdsHandedOut'
<1> SUFFICES ASSUME TypeOK, IdsHandedOut, [Next]_vars PROVE IdsHandedOut'
  OBVIOUS
<1> USE MaxJobAssumption DEF IdsHandedOut, TypeOK
<1>1. ASSUME NEW c \in Clients, object_find(c) PROVE IdsHandedOut'
  BY <1>1 DEF object_find, shareVars
<1>2. ASSUME NEW c \in Clients, object_lock(c) PROVE IdsHandedOut'
  BY <1>2 DEF object_lock, shareVars
<1>3. ASSUME NEW c \in Clients, UsesJob(c), credits' = credits PROVE IdsHandedOut'
  BY <1>3, UsesJobStep DEF jobVars
<1>4. ASSUME NEW c \in Clients, share_add(c) PROVE IdsHandedOut'
  <2>1. UNCHANGED <<g_list_job, lastid, mine>>
    BY <1>4 DEF share_add, jobVars
  <2>2. \A s \in Share \ {MyShare(c)} : credits'[s] = credits[s]
    BY <1>4 DEF share_add
  <2>3. MyShare(c).jobid <= lastid
    BY DEF MyShare
  <2> QED
    BY <2>1, <2>2, <2>3
<1>5. ASSUME NEW c \in Clients, object_unlock_store(c) PROVE IdsHandedOut'
  BY <1>5 DEF object_unlock_store, shareVars, NoJob
<1>6. ASSUME NEW d \in Coinds, coind_create_job(d) PROVE IdsHandedOut'
  BY <1>6 DEF coind_create_job, shareVars, clientVars
<1>7. ASSUME NEW d \in Coinds, coind_link_job(d) PROVE IdsHandedOut'
  <2>1. g_list_job' \subseteq 1..lastid'
    BY <1>7 DEF coind_link_job
  <2>2. UNCHANGED <<mine, credits>> /\ lastid' = lastid + 1
    BY <1>7 DEF coind_link_job, clientVars, shareVars
  <2>3. \A s \in Share : s.jobid \in Nat
    BY DEF Share, JobIds
  <2>4. \A k \in Clients : mine[k].job \in Nat
    OBVIOUS
  <2> QED
    BY <2>1, <2>2, <2>3, <2>4
<1>8. CASE main_thread
  <2>1. g_list_job' \subseteq g_list_job /\ UNCHANGED <<mine, credits, lastid>>
    BY <1>8 DEF main_thread, share_prune, prune_coind, prune_enter, prune_visit, prune_leave,
       clientVars, jobVars, shareVars
  <2> QED
    BY <2>1
<1>9. CASE UNCHANGED vars
  BY <1>9 DEF vars, clientVars, jobVars, shareVars
<1>10. ASSUME NEW c \in Clients, UsesJob(c) PROVE share_add(c) \/ credits' = credits
  BY <1>10 DEF UsesJob, job_send_jobid, client_submit_check, client_submit_dup, client_submit_error,
     client_submit_verify, client_do_submit, object_unlock, shareVars
<1> QED
  BY <1>1, <1>2, <1>3, <1>4, <1>5, <1>6, <1>7, <1>8, <1>9, <1>10
     DEF Next, client_thread, creator, UsesJob

(* Only prune_visit unlinks, and it finds lock_count 0 only if the job has *)
(* no holder; a thread in object_find has the mutex prune_visit needs.     *)
LEMMA LiveStep ==
  TypeOK /\ MutexHeld /\ RefsExact /\ NoUseAfterFree /\ [Next]_vars => NoUseAfterFree'
<1> SUFFICES ASSUME TypeOK, MutexHeld, RefsExact, NoUseAfterFree, [Next]_vars, ~lost'
             PROVE  NoUseAfterFree'
  BY DEF NoUseAfterFree
<1> DEFINE Using == HoldPoints \cup {"store_inc"}
<1>a. ASSUME ~lost, g_list_job \subseteq g_list_job',
             \A c \in Clients : pc'[c] \in Using =>
                 mine'[c].job \in g_list_job \/ (pc[c] \in Using /\ mine'[c] = mine[c])
      PROVE  NoUseAfterFree'
  BY <1>a DEF NoUseAfterFree
<1>1. ASSUME NEW c \in Clients, object_find(c) PROVE NoUseAfterFree'
  <2>1. PICK j \in g_list_job, n \in Nonces : mine' = [mine EXCEPT ![c] = [job |-> j, nonce |-> n]]
    BY <1>1 DEF object_find
  <2>2. mine'[c].job \in g_list_job
    BY <2>1 DEF TypeOK
  <2>3. ~lost /\ UNCHANGED g_list_job /\ \A k \in Clients \ {c} : pc'[k] = pc[k] /\ mine'[k] = mine[k]
    BY <1>1, <2>1 DEF object_find, Goto, TypeOK
  <2> QED
    BY <2>2, <2>3, <1>a
<1>2. ASSUME NEW c \in Clients, object_lock(c) PROVE NoUseAfterFree'
  <2>1. ~lost /\ pc[c] = "store_inc" /\ UNCHANGED <<g_list_job, mine>>
        /\ \A k \in Clients \ {c} : pc'[k] = pc[k]
    BY <1>2 DEF object_lock, StoreCount, Goto, TypeOK
  <2> QED
    BY <2>1, <1>a
<1>3. ASSUME NEW c \in Clients, UsesJob(c) PROVE NoUseAfterFree'
  <2>1. ~lost /\ pc[c] \in HoldPoints /\ UNCHANGED <<g_list_job, mine>>
        /\ \A k \in Clients \ {c} : pc'[k] = pc[k]
    BY <1>3, UsesJobStep DEF jobVars, TypeOK
  <2> QED
    BY <2>1, <1>a
<1>4. ASSUME NEW c \in Clients, object_unlock_store(c) PROVE NoUseAfterFree'
  <2>1. ~lost /\ pc'[c] = "idle" /\ UNCHANGED g_list_job
        /\ \A k \in Clients \ {c} : pc'[k] = pc[k] /\ mine'[k] = mine[k]
    BY <1>4 DEF object_unlock_store, StoreCount, Goto, TypeOK
  <2> QED
    BY <2>1, <1>a DEF HoldPoints
<1>5. ASSUME NEW d \in Coinds, creator(d) PROVE NoUseAfterFree'
  BY <1>5, <1>a DEF creator, coind_create_job, coind_link_job, clientVars
<1>6. CASE prune_visit
  <2>1. PICK j \in to_visit :
          g_list_job' = IF deleted[j] /\ lock_count[j] = 0 THEN g_list_job \ {j} ELSE g_list_job
    BY <1>6 DEF prune_visit
  <2>2. ~lost /\ UNCHANGED clientVars /\ j \in JobIds /\ list_mutex = Main
    BY <1>6 DEF prune_visit, TypeOK, MutexHeld
  <2>3. \A c \in Clients : pc[c] # "store_inc"
    BY <2>2, ClientsAssumption DEF MutexHeld
  <2>4. CASE lock_count[j] = 0
    <3>1. Holders(j) = {}
      BY <2>2, <2>4, HoldersFinite, FS_EmptySet DEF RefsExact
    <3>2. \A c \in Clients : pc[c] \in HoldPoints => mine[c].job # j
      BY <3>1 DEF Holders
    <3> QED
      BY <2>1, <2>2, <2>3, <3>2 DEF NoUseAfterFree, clientVars
  <2>5. CASE lock_count[j] # 0
    BY <2>1, <2>2, <2>5, <1>a DEF clientVars
  <2> QED
    BY <2>4, <2>5
<1>7. CASE share_prune \/ prune_coind \/ prune_enter \/ prune_leave
  BY <1>7, <1>a DEF share_prune, prune_coind, prune_enter, prune_leave, clientVars, jobVars
<1>8. CASE UNCHANGED vars
  BY <1>8, <1>a DEF vars, clientVars, jobVars
<1> QED
  BY <1>1, <1>2, <1>3, <1>4, <1>5, <1>6, <1>7, <1>8 DEF Next, client_thread, main_thread, UsesJob

(* A share is forgotten only when its job cannot be found, and the thread  *)
(* that looked for it in vain is the only one to add it: it belongs to its *)
(* connection.                                                             *)
CreditInv == CreditRecorded /\ NoDoubleCredit

LEMMA CreditStep ==
  TypeOK /\ IdsHandedOut /\ NoUseAfterFree /\ CreditInv /\ [Next]_vars => CreditInv'
<1> SUFFICES ASSUME TypeOK, IdsHandedOut, NoUseAfterFree, CreditInv, [Next]_vars, ~lost'
             PROVE  CreditInv'
  BY DEF CreditInv, CreditRecorded, NoDoubleCredit
<1> DEFINE Past == {"verify", "submit", "credit"}
<1>a. ASSUME ~lost, UNCHANGED credits,
             \A s \in g_list_share : s.jobid \in g_list_job' => s \in g_list_share',
             \A s \in Share : s.jobid \in g_list_job' /\ credits[s] > 0 => s.jobid \in g_list_job,
             \A c \in Clients : pc'[c] \in Past =>
                 /\ mine'[c] = mine[c]
                 /\ pc[c] \in Past \/ credits[MyShare(c)] = 0
      PROVE  CreditInv'
  <2>1. \A s \in Share : credits'[s] > 0 /\ s.jobid \in g_list_job' => s \in g_list_share'
    BY <1>a DEF CreditInv, CreditRecorded
  <2>2. \A c \in Clients : pc'[c] \in Past => credits'[MyShare(c)'] = 0
    BY <1>a DEF CreditInv, CreditRecorded, MyShare
  <2>3. \A s \in Share : credits'[s] <= 1
    BY <1>a DEF CreditInv, NoDoubleCredit
  <2> QED
    BY <2>1, <2>2, <2>3 DEF CreditInv, CreditRecorded, NoDoubleCredit
<1>1. ASSUME NEW c \in Clients, object_find(c) PROVE CreditInv'
  <2>1. \A k \in Clients : pc'[k] \in Past => pc[k] \in Past /\ mine'[k] = mine[k]
    BY <1>1 DEF object_find, Goto, TypeOK
  <2> QED
    BY <1>1, <2>1, <1>a DEF object_find, shareVars
<1>2. ASSUME NEW c \in Clients, object_lock(c) PROVE CreditInv'
  <2>1. \A k \in Clients : pc'[k] \in Past => pc[k] \in Past /\ mine'[k] = mine[k]
    BY <1>2 DEF object_lock, Goto, TypeOK
  <2> QED
    BY <1>2, <2>1, <1>a DEF object_lock, StoreCount, shareVars
<1>3. ASSUME NEW c \in Clients, UsesJob(c), ~client_submit_dup(c), ~share_add(c) PROVE CreditInv'
  <2>1. \A k \in Clients : pc'[k] \in Past => pc[k] \in Past
    BY <1>3 DEF UsesJob, job_send_jobid, client_submit_check, client_submit_error,
       client_submit_verify, client_do_submit, object_unlock, Goto, TypeOK
  <2>2. g_list_share \subseteq g_list_share' /\ UNCHANGED credits
    BY <1>3 DEF UsesJob, job_send_jobid, client_submit_check, client_submit_error,
       client_submit_verify, client_do_submit, object_unlock, shareVars
  <2>3. ~lost /\ UNCHANGED <<g_list_job, mine>>
    BY <1>3, UsesJobStep DEF jobVars
  <2> QED
    BY <2>1, <2>2, <2>3, <1>a
<1>4. ASSUME NEW c \in Clients, client_submit_dup(c) PROVE CreditInv'
  <2>0. ~lost /\ pc[c] = "dup" /\ UNCHANGED <<g_list_job, mine, credits>>
    BY <1>4 DEF client_submit_dup, client_submit_error, jobVars, shareVars
  <2>1. CASE client_submit_error(c)
    <3>1. \A k \in Clients : pc'[k] \in Past => pc[k] \in Past
      BY <2>1 DEF client_submit_error, Goto, TypeOK
    <3>2. g_list_share \subseteq g_list_share'
      BY <2>1 DEF client_submit_error
    <3> QED
      BY <2>0, <3>1, <3>2, <1>a
  <2>2. CASE MyShare(c) \notin g_list_share /\ UNCHANGED shareVars /\ Goto(c, "verify")
    <3>1. mine[c].job \in g_list_job /\ MyShare(c) \in Share
      BY <2>0, MyShareType DEF NoUseAfterFree, HoldPoints
    <3>2. credits[MyShare(c)] = 0
      <4>1. MyShare(c).jobid \in g_list_job
        BY <3>1 DEF MyShare
      <4>2. ~(credits[MyShare(c)] > 0)
        BY <2>0, <2>2, <3>1, <4>1 DEF CreditInv, CreditRecorded
      <4> QED
        BY <3>1, <4>2 DEF TypeOK
    <3>3. \A k \in Clients : pc'[k] \in Past => pc[k] \in Past \/ k = c
      BY <2>2 DEF Goto, TypeOK
    <3> QED
      BY <2>0, <2>2, <3>2, <3>3, <1>a DEF shareVars
  <2> QED
    BY <1>4, <2>1, <2>2 DEF client_submit_dup, share_find
<1>5. ASSUME NEW c \in Clients, share_add(c) PROVE CreditInv'
  <2>1. /\ ~lost /\ pc[c] = "credit" /\ UNCHANGED <<g_list_job, mine>>
        /\ g_list_share' = g_list_share \cup {MyShare(c)}
        /\ credits' = [credits EXCEPT ![MyShare(c)] = credits[MyShare(c)] + 1]
        /\ pc' = [pc EXCEPT ![c] = "unlock"]
    BY <1>5 DEF share_add, jobVars, Goto
  <2>2. MyShare(c) \in Share /\ credits[MyShare(c)] = 0
    BY <2>1, MyShareType DEF CreditInv, CreditRecorded
  <2>3. credits'[MyShare(c)] = 1 /\ \A s \in Share \ {MyShare(c)} : credits'[s] = credits[s]
    BY <2>1, <2>2 DEF TypeOK
  <2>4. \A s \in Share : credits'[s] > 0 /\ s.jobid \in g_list_job' => s \in g_list_share'
    BY <2>1, <2>3 DEF CreditInv, CreditRecorded
  <2>5. \A k \in Clients \ {c} : pc'[k] \in Past => credits'[MyShare(k)'] = 0
    <3> SUFFICES ASSUME NEW k \in Clients \ {c}, pc'[k] \in Past PROVE credits'[MyShare(k)'] = 0
      OBVIOUS
    <3>1. pc[k] \in Past /\ MyShare(k)' = MyShare(k) /\ MyShare(k) # MyShare(c)
      BY <2>1 DEF MyShare, TypeOK
    <3>2. MyShare(k) \in Share
      BY <3>1, MyShareType
    <3> QED
      BY <2>1, <2>3, <3>1, <3>2 DEF CreditInv, CreditRecorded
  <2>6. pc'[c] \notin Past
    BY <2>1 DEF TypeOK
  <2>7. \A s \in Share : credits'[s] <= 1
    BY <2>1, <2>3 DEF CreditInv, NoDoubleCredit
  <2> QED
    BY <2>4, <2>5, <2>6, <2>7 DEF CreditInv, CreditRecorded, NoDoubleCredit
<1>6. ASSUME NEW c \in Clients, object_unlock_store(c) PROVE CreditInv'
  <2>1. \A k \in Clients : pc'[k] \in Past => pc[k] \in Past /\ mine'[k] = mine[k]
    BY <1>6 DEF object_unlock_store, Goto, TypeOK
  <2> QED
    BY <1>6, <2>1, <1>a DEF object_unlock_store, StoreCount, shareVars
<1>7. ASSUME NEW d \in Coinds, coind_create_job(d) PROVE CreditInv'
  BY <1>7, <1>a DEF coind_create_job, clientVars, shareVars
<1>8. ASSUME NEW d \in Coinds, coind_link_job(d) PROVE CreditInv'
  <2>1. \A s \in Share : credits[s] > 0 => s.jobid # lastid + 1
    BY DEF IdsHandedOut, Share, JobIds, TypeOK
  <2>2. g_list_job' = g_list_job \cup {lastid + 1} /\ ~lost /\ UNCHANGED <<clientVars, shareVars>>
    BY <1>8 DEF coind_link_job
  <2> QED
    BY <2>1, <2>2, <1>a DEF clientVars, shareVars
<1>9. CASE main_thread
  <2>1. g_list_job' \subseteq g_list_job /\ ~lost /\ UNCHANGED <<clientVars, credits>>
    BY <1>9 DEF main_thread, share_prune, prune_coind, prune_enter, prune_visit, prune_leave,
       jobVars, shareVars
  <2>2. \A s \in g_list_share : s.jobid \in g_list_job' => s \in g_list_share'
    BY <1>9, <2>1 DEF main_thread, share_prune, prune_coind, prune_enter, prune_visit, prune_leave,
       shareVars
  <2> QED
    BY <2>1, <2>2, <1>a DEF clientVars
<1>10. CASE UNCHANGED vars
  BY <1>10, <1>a DEF vars, clientVars, jobVars, shareVars
<1> QED
  BY <1>1, <1>2, <1>3, <1>4, <1>5, <1>6, <1>7, <1>8, <1>9, <1>10
     DEF Next, client_thread, creator, UsesJob

-----------------------------------------------------------------------------
(* The initial states satisfy the inductive invariant.                     *)
LEMMA InvInit == Init => IInv
<1> SUFFICES ASSUME Init PROVE IInv
  OBVIOUS
<1>1. TypeOK
  BY TypeInit
<1>2. MutexHeld
  BY ClientsAssumption DEF Init, MutexHeld, Main, Nobody
<1>3. IdsHandedOut
  <2>1. \A c \in Clients : mine[c].job = 0
    BY DEF Init, NoJob
  <2> QED
    BY <2>1 DEF Init, IdsHandedOut
<1>4. RefsExact
  <2>1. \A j \in JobIds : Holders(j) = {}
    BY DEF Init, Holders, HoldPoints
  <2> QED
    BY <2>1, FS_EmptySet DEF Init, RefsExact
<1>5. NoUseAfterFree /\ CreditRecorded /\ NoDoubleCredit
  BY DEF Init, NoUseAfterFree, CreditRecorded, NoDoubleCredit, HoldPoints
<1> QED
  BY <1>1, <1>2, <1>3, <1>4, <1>5 DEF IInv

(* What every step of every thread preserves.                              *)
THEOREM Inductive == Spec => []IInv
<1>1. IInv /\ [Next]_vars => IInv'
  BY TypeStep, MutexStep, IdsStep, RefsStep, LiveStep, CreditStep DEF IInv, CreditInv
<1> QED
  BY <1>1, InvInit, PTL DEF Spec

(* Every lock_count is the number of threads using the job, or two         *)
(* unsynchronised updates of a lock_count have overlapped.                 *)
THEOREM CountsExact == Spec => []RefsExact
<1>1. IInv => RefsExact
  BY DEF IInv
<1> QED
  BY <1>1, Inductive, PTL

(* object_prune frees no job a client thread is using, or two              *)
(* unsynchronised updates of a lock_count have overlapped.                 *)
THEOREM JobsSafe == Spec => []NoUseAfterFree
<1>1. IInv => NoUseAfterFree
  BY DEF IInv
<1> QED
  BY <1>1, Inductive, PTL

(* share_find, share_add and share_prune together credit no share twice,   *)
(* with the same proviso.                                                  *)
THEOREM SharesOnce == Spec => []NoDoubleCredit
<1>1. IInv => NoDoubleCredit
  BY DEF IInv
<1> QED
  BY <1>1, Inductive, PTL

(* An id is linked once, and only main's walk unlinks it, when flagged.    *)
THEOREM FreedOnce == Spec => FreedForGood
<1> DEFINE A == /\ \A j \in 1..lastid : j \notin g_list_job => j \notin g_list_job'
                /\ \A j \in g_list_job \ g_list_job' : list_mutex = Main /\ deleted[j]
<1>1. ASSUME IInv, [Next]_vars PROVE [A]_vars
  <2>a. ASSUME g_list_job' = g_list_job PROVE A
    BY <2>a
  <2>1. ASSUME NEW c \in Clients, client_thread(c) PROVE A
    BY <1>1, <2>1, <2>a, UsesJobStep DEF client_thread, UsesJob, object_find, object_lock, object_unlock_store,
       jobVars, IInv
  <2>2. ASSUME NEW d \in Coinds, creator(d) PROVE A
    <3>1. lastid + 1 \notin 1..lastid
      BY <1>1 DEF IInv, TypeOK
    <3> QED
      BY <2>2, <3>1 DEF creator, coind_create_job, coind_link_job
  <2>3. ASSUME prune_visit PROVE A
    BY <1>1, <2>3 DEF prune_visit, IInv, MutexHeld
  <2>4. ASSUME share_prune \/ prune_coind \/ prune_enter \/ prune_leave PROVE A
    BY <2>4, <2>a DEF share_prune, prune_coind, prune_enter, prune_leave, jobVars
  <2> QED
    BY <1>1, <2>1, <2>2, <2>3, <2>4 DEF Next, main_thread
<1> QED
  BY <1>1, Inductive, PTL DEF Spec, FreedForGood
=============================================================================
