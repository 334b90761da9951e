--------------------------- MODULE Coinds_proofs ---------------------------
(***************************************************************************)
(* Proofs about Coinds, for any threads that create jobs and any memory:   *)
(* who touches a freed object, and which job of the coin can be mined.     *)
(***************************************************************************)
EXTENDS Coinds, TLAPS, FiniteSetTheorems

(* The parts of TypeOK.                                                    *)
ObjectsOK ==
    /\ daemon \in {"up", "busy", "down"} /\ selected \in BOOLEAN
    /\ g_list_coind \subseteq allocated /\ allocated \subseteq Objs
    /\ deleted \subseteq Objs /\ auto_ready \subseteq Objs /\ touch \subseteq Objs
    /\ sock \in [Objs -> {"open", "stale", "closed"}]
JobsOK ==
    /\ coind_job \in [Objs -> Jobs \cup {None}]
    /\ g_list_job \subseteq Jobs /\ job_deleted \subseteq Jobs
    /\ job_coind \in [Jobs -> Objs \cup {None}]
    /\ submit_job \in Jobs \cup {None}
MutexOK == mutex \in [Objs -> Creators \cup {Nobody, Destroyed}]
PlacesOK ==
    /\ main_pc \in {"auto_ready", "update", "create", "terminate", "prune_coind", "prune_job"}
    /\ create_pc \in [Creators -> {"out", "connected", "lock", "template", "error", "delete",
                                   "compare", "return"}]
    /\ object \in [Creators -> Objs \cup {None}] /\ counted \subseteq Callers
    /\ undefined \subseteq Creators \cup {Submitter}

(* Every object in memory is in the list, which holds one at most.         *)
OneObject == allocated = g_list_coind /\ \A o \in Objs : o \in g_list_coind => g_list_coind = {o}

(* Whoever is counted, and main, uses the object of the list.              *)
CountedListed ==
    \A t \in Callers : t \in counted => create_pc[t] # "out" /\ object[t] \in g_list_coind
MainListed ==
    create_pc[Main] # "out" => main_pc = "create" /\ object[Main] \in g_list_coind
Listed == CountedListed /\ MainListed

IInv ==
    /\ TypeOK /\ OneObject /\ Listed
    /\ CountedIsLive /\ OneMineableJob

-----------------------------------------------------------------------------
(* The state of a socket after a call.                                     *)
LEMMA RpcSocket ==
  ASSUME ObjectsOK, NEW o \in Objs, NEW answer \in rpc_call(o)
  PROVE  answer[2] \in {"open", "stale", "closed"}
<1>1. CASE sock[o] = "closed"
  BY <1>1 DEF rpc_call
<1>2. CASE sock[o] = "open" /\ daemon = "up"
  BY <1>2 DEF rpc_call
<1>3. CASE sock[o] = "open" /\ daemon # "up"
  BY <1>3 DEF rpc_call
<1>4. CASE sock[o] = "stale"
  BY <1>4 DEF rpc_call
<1> QED
  BY <1>1, <1>2, <1>3, <1>4 DEF ObjectsOK

(* The daemon, the row, and the objects' flags and sockets.                *)
LEMMA ObjectsStep ==
  ASSUME ObjectsOK, [Next]_vars
  PROVE  ObjectsOK'
<1> USE DEF ObjectsOK
<1>1. ASSUME NEW t \in Creators, coind_create_template(t) PROVE ObjectsOK'
  <2>1. PICK answer \in rpc_call(object[t]) : sock' = [sock EXCEPT ![object[t]] = answer[2]]
    BY <1>1 DEF coind_create_template
  <2>2. object[t] \in Objs
    BY <1>1 DEF coind_create_template, At
  <2>3. answer[2] \in {"open", "stale", "closed"}
    BY <2>2, RpcSocket
  <2> QED
    BY <1>1, <2>1, <2>3 DEF coind_create_template, envVars
<1>2. ASSUME NEW t \in Creators, error_auto_ready(t) PROVE ObjectsOK'
  BY <1>2 DEF error_auto_ready, envVars
<1>3. ASSUME NEW t \in Creators, coind_error(t) PROVE ObjectsOK'
  BY <1>3 DEF coind_error, envVars, At
<1>4. CASE daemon_changes
  BY <1>4 DEF daemon_changes
<1>5. CASE row_edited
  BY <1>5 DEF row_edited, objVars
<1>6. CASE coind_submit
  <2> DEFINE o == job_coind[submit_job]
  <2>1. PICK answer \in rpc_call(o) :
            sock' = IF o \in allocated THEN [sock EXCEPT ![o] = answer[2]] ELSE sock
    BY <1>6 DEF coind_submit
  <2>2. o \in allocated => answer[2] \in {"open", "stale", "closed"}
    BY RpcSocket
  <2>3. sock' \in [Objs -> {"open", "stale", "closed"}]
    BY <2>1, <2>2
  <2> QED
    BY <1>6, <2>3 DEF coind_submit, envVars
<1>7. CASE update_auto_ready
  BY <1>7 DEF update_auto_ready, objVars
<1>8. CASE update_coind
  BY <1>8 DEF update_coind, New, Known, envVars, objVars
<1>9. CASE coind_terminate
  BY <1>9 DEF coind_terminate, envVars
<1>10. CASE prune_coind
  BY <1>10 DEF prune_coind, Prune, Freed, envVars
<1>11. CASE UNCHANGED <<daemon, selected, g_list_coind, allocated, deleted, auto_ready, touch, sock>>
  BY <1>11
<1> QED
  BY <1>1, <1>2, <1>3, <1>4, <1>5, <1>6, <1>7, <1>8, <1>9, <1>10, <1>11
  DEF Next, vars, envVars, objVars, jobVars, createVars, coind_create_job, main_thread, Prune,
      create_freed, create_connected, create_lock, create_compare, create_return,
      client_update_block, job_update, client_submit, prune_job

(* Jobs and what points to them.                                           *)
LEMMA JobsStep ==
  ASSUME ObjectsOK, JobsOK, [Next]_vars
  PROVE  JobsOK'
<1> USE DEF ObjectsOK, JobsOK
<1>1. ASSUME NEW t \in Creators, create_compare(t) PROVE JobsOK'
  BY <1>1 DEF create_compare, At, FreeJobs, Lowest, jobVars
<1>2. CASE client_submit
  BY <1>2 DEF client_submit, objVars, jobVars
<1>3. CASE coind_submit
  BY <1>3 DEF coind_submit, jobVars
<1>4. CASE update_coind
  BY <1>4 DEF update_coind, New, Known, objVars, jobVars
<1>5. CASE prune_coind
  BY <1>5 DEF prune_coind, Prune, Freed
<1>6. CASE prune_job
  BY <1>6 DEF prune_job, objVars
<1>7. CASE UNCHANGED <<coind_job, g_list_job, job_deleted, job_coind, submit_job>>
  BY <1>7
<1> QED
  BY <1>1, <1>2, <1>3, <1>4, <1>5, <1>6, <1>7
  DEF Next, vars, envVars, objVars, jobVars, createVars, coind_create_job, main_thread, Prune,
      create_freed, create_connected, create_lock, coind_create_template, error_auto_ready,
      coind_error, create_return, client_update_block, job_update, daemon_changes, row_edited,
      update_auto_ready, coind_terminate

(* Owners of coind->mutex.                                                 *)
LEMMA MutexStep ==
  ASSUME MutexOK, [Next]_vars
  PROVE  MutexOK'
<1> USE DEF MutexOK
<1>1. ASSUME NEW t \in Creators, create_lock(t) PROVE MutexOK'
  BY <1>1 DEF create_lock
<1>2. ASSUME NEW t \in Creators, coind_error(t) PROVE MutexOK'
  BY <1>2 DEF coind_error, Unlock
<1>3. ASSUME NEW t \in Creators, create_compare(t) PROVE MutexOK'
  BY <1>3 DEF create_compare, Unlock
<1>4. CASE coind_terminate
  BY <1>4 DEF coind_terminate
<1>5. CASE prune_coind
  BY <1>5 DEF prune_coind, Prune, Freed
<1>6. CASE UNCHANGED <<mutex>>
  BY <1>6
<1> QED
  BY <1>1, <1>2, <1>3, <1>4, <1>5, <1>6
  DEF Next, vars, envVars, objVars, jobVars, createVars, coind_create_job, main_thread, Prune,
      create_freed, create_connected, coind_create_template, error_auto_ready, create_return,
      client_update_block, job_update, daemon_changes, row_edited, client_submit, coind_submit,
      update_auto_ready, update_coind, prune_job

(* The threads' program points and objects.                                *)
LEMMA PlacesStep ==
  ASSUME ObjectsOK, PlacesOK, [Next]_vars
  PROVE  PlacesOK'
<1> USE DEF ObjectsOK, PlacesOK, Goto
<1>1. ASSUME NEW t \in Creators, create_freed(t) PROVE PlacesOK'
  BY <1>1 DEF create_freed, createVars
<1>2. ASSUME NEW t \in Creators, create_connected(t) PROVE PlacesOK'
  BY <1>2 DEF create_connected
<1>3. ASSUME NEW t \in Creators, create_lock(t) PROVE PlacesOK'
  BY <1>3 DEF create_lock
<1>4. ASSUME NEW t \in Creators, coind_create_template(t) PROVE PlacesOK'
  BY <1>4 DEF coind_create_template
<1>5. ASSUME NEW t \in Creators, error_auto_ready(t) PROVE PlacesOK'
  BY <1>5 DEF error_auto_ready
<1>6. ASSUME NEW t \in Creators, coind_error(t) PROVE PlacesOK'
  BY <1>6 DEF coind_error
<1>7. ASSUME NEW t \in Creators, create_compare(t) PROVE PlacesOK'
  BY <1>7 DEF create_compare
<1>8. ASSUME NEW t \in Creators, create_return(t) PROVE PlacesOK'
  BY <1>8 DEF create_return, Creators
<1>9. ASSUME NEW t \in Callers, client_update_block(t) PROVE PlacesOK'
  BY <1>9 DEF client_update_block, Begin, Creators
<1>10. ASSUME NEW t \in Callers, job_update(t) PROVE PlacesOK'
  BY <1>10 DEF job_update, Begin, Creators
<1>11. CASE coind_submit
  BY <1>11 DEF coind_submit, Touch, createVars
<1>12. CASE update_auto_ready
  BY <1>12 DEF update_auto_ready, createVars
<1>13. CASE update_coind
  BY <1>13 DEF update_coind, Begin, Creators, objVars
<1>14. CASE coind_terminate
  BY <1>14 DEF coind_terminate
<1>15. CASE prune_coind
  BY <1>15 DEF prune_coind, Prune
<1>16. CASE prune_job
  BY <1>16 DEF prune_job, createVars
<1>17. CASE UNCHANGED <<main_pc, create_pc, object, counted, undefined>>
  BY <1>17
<1> QED
  BY <1>1, <1>2, <1>3, <1>4, <1>5, <1>6, <1>7, <1>8, <1>9, <1>10, <1>11, <1>12, <1>13, <1>14,
      <1>15, <1>16, <1>17
  DEF Next, vars, envVars, objVars, jobVars, createVars, coind_create_job, main_thread, Prune,
      daemon_changes, row_edited, client_submit

(* Objects are created one after the other.                                *)
LEMMA OneObjectStep ==
  ASSUME ObjectsOK, OneObject, [Next]_vars
  PROVE  OneObject'
<1> USE DEF ObjectsOK, OneObject
<1>1. CASE update_coind
  BY <1>1 DEF update_coind, New, Known, objVars
<1>2. CASE prune_coind
  BY <1>2 DEF prune_coind, Prune, Freed
<1>3. CASE UNCHANGED <<allocated, g_list_coind>>
  BY <1>3
<1> QED
  BY <1>1, <1>2, <1>3
  DEF Next, vars, envVars, objVars, jobVars, createVars, coind_create_job, main_thread, Prune,
      create_freed, create_connected, create_lock, coind_create_template, error_auto_ready,
      coind_error, create_compare, create_return, client_update_block, job_update,
      daemon_changes, row_edited, client_submit, coind_submit, update_auto_ready,
      coind_terminate, prune_job

(* Main does not free what somebody is counted in on.                      *)
LEMMA LockedStays ==
  ASSUME PlacesOK, NEW t \in counted, object[t] \in Objs
  PROVE  lock_count(object[t]) # 0
<1> DEFINE S == {u \in counted : object[u] = object[t]}
<1>1. IsFiniteSet(S)
  BY PoolsAssumption, FS_Subset DEF PlacesOK
<1>2. t \in S
  OBVIOUS
<1> QED
  BY <1>1, <1>2, FS_EmptySet DEF lock_count

(* Whoever is counted, and main, uses an object that main does not free    *)
(* meanwhile.                                                              *)
LEMMA ListedStep ==
  ASSUME ObjectsOK, PlacesOK, Listed, [Next]_vars
  PROVE  Listed'
<1> USE DEF Listed, CountedListed, MainListed
<1>1. ASSUME NEW t \in Creators, create_connected(t) PROVE Listed'
  <2>1. Main \notin Callers /\ Main \in Creators /\ Callers \subseteq Creators
    BY PoolsAssumption DEF Creators
  <2>2. /\ \A u \in Creators \ {t} : create_pc'[u] = create_pc[u]
        /\ UNCHANGED <<object, g_list_coind, counted, main_pc>>
        /\ create_pc[t] # "out" /\ create_pc'[t] # "out"
    BY <1>1 DEF create_connected, At, Goto, PlacesOK, objVars
  <2> QED
    BY <2>1, <2>2 DEF CountedListed, MainListed, Listed
<1>2. ASSUME NEW t \in Creators, create_lock(t) PROVE Listed'
  <2>1. Main \notin Callers /\ Main \in Creators /\ Callers \subseteq Creators
    BY PoolsAssumption DEF Creators
  <2>2. /\ \A u \in Creators \ {t} : create_pc'[u] = create_pc[u]
        /\ UNCHANGED <<object, g_list_coind, counted, main_pc>>
        /\ create_pc[t] # "out" /\ create_pc'[t] # "out"
    BY <1>2 DEF create_lock, At, Goto, PlacesOK, objVars
  <2> QED
    BY <2>1, <2>2 DEF CountedListed, MainListed, Listed
<1>3. ASSUME NEW t \in Creators, coind_create_template(t) PROVE Listed'
  <2>1. Main \notin Callers /\ Main \in Creators /\ Callers \subseteq Creators
    BY PoolsAssumption DEF Creators
  <2>2. /\ \A u \in Creators \ {t} : create_pc'[u] = create_pc[u]
        /\ UNCHANGED <<object, g_list_coind, counted, main_pc>>
        /\ create_pc[t] # "out" /\ create_pc'[t] # "out"
    BY <1>3 DEF coind_create_template, At, Goto, PlacesOK, objVars
  <2> QED
    BY <2>1, <2>2 DEF CountedListed, MainListed, Listed
<1>4. ASSUME NEW t \in Creators, error_auto_ready(t) PROVE Listed'
  <2>1. Main \notin Callers /\ Main \in Creators /\ Callers \subseteq Creators
    BY PoolsAssumption DEF Creators
  <2>2. /\ \A u \in Creators \ {t} : create_pc'[u] = create_pc[u]
        /\ UNCHANGED <<object, g_list_coind, counted, main_pc>>
        /\ create_pc[t] # "out" /\ create_pc'[t] # "out"
    BY <1>4 DEF error_auto_ready, At, Goto, PlacesOK, objVars
  <2> QED
    BY <2>1, <2>2 DEF CountedListed, MainListed, Listed
<1>5. ASSUME NEW t \in Creators, coind_error(t) PROVE Listed'
  <2>1. Main \notin Callers /\ Main \in Creators /\ Callers \subseteq Creators
    BY PoolsAssumption DEF Creators
  <2>2. /\ \A u \in Creators \ {t} : create_pc'[u] = create_pc[u]
        /\ UNCHANGED <<object, g_list_coind, counted, main_pc>>
        /\ create_pc[t] # "out" /\ create_pc'[t] # "out"
    BY <1>5 DEF coind_error, At, Goto, PlacesOK, objVars
  <2> QED
    BY <2>1, <2>2 DEF CountedListed, MainListed, Listed
<1>6. ASSUME NEW t \in Creators, create_compare(t) PROVE Listed'
  <2>1. Main \notin Callers /\ Main \in Creators /\ Callers \subseteq Creators
    BY PoolsAssumption DEF Creators
  <2>2. /\ \A u \in Creators \ {t} : create_pc'[u] = create_pc[u]
        /\ UNCHANGED <<object, g_list_coind, counted, main_pc>>
        /\ create_pc[t] # "out" /\ create_pc'[t] # "out"
    BY <1>6 DEF create_compare, At, Goto, PlacesOK, objVars
  <2> QED
    BY <2>1, <2>2 DEF CountedListed, MainListed, Listed
<1>7. ASSUME NEW t \in Creators, create_return(t) PROVE Listed'
  <2>1. Main \notin Callers /\ Main \in Creators /\ Callers \subseteq Creators
    BY PoolsAssumption DEF Creators
  <2>2. /\ \A u \in Creators \ {t} : create_pc'[u] = create_pc[u] /\ object'[u] = object[u]
        /\ create_pc'[t] = "out" /\ counted' = counted \ {t} /\ UNCHANGED g_list_coind
        /\ t # Main => UNCHANGED main_pc
    BY <1>7 DEF create_return, Goto, PlacesOK, objVars
  <2> QED
    BY <2>1, <2>2 DEF CountedListed, MainListed, Listed
<1>8. ASSUME NEW t \in Callers, client_update_block(t) PROVE Listed'
  <2>1. Main \notin Callers /\ Main \in Creators /\ Callers \subseteq Creators
    BY PoolsAssumption DEF Creators
  <2>2. PICK o \in g_list_coind : Begin(t, o)
    BY <1>8 DEF client_update_block
  <2>3. /\ \A u \in Creators \ {t} : create_pc'[u] = create_pc[u] /\ object'[u] = object[u]
        /\ create_pc'[t] = "connected" /\ object'[t] = o /\ create_pc[t] = "out"
        /\ counted' = counted \cup {t} /\ UNCHANGED <<g_list_coind, main_pc>>
    BY <1>8, <2>1, <2>2 DEF client_update_block, Begin, PlacesOK, objVars
  <2> QED
    BY <2>1, <2>3 DEF CountedListed, MainListed, Listed
<1>9. ASSUME NEW t \in Callers, job_update(t) PROVE Listed'
  <2>1. Main \notin Callers /\ Main \in Creators /\ Callers \subseteq Creators
    BY PoolsAssumption DEF Creators
  <2>2. PICK o \in g_list_coind : Begin(t, o)
    BY <1>9 DEF job_update
  <2>3. /\ \A u \in Creators \ {t} : create_pc'[u] = create_pc[u] /\ object'[u] = object[u]
        /\ create_pc'[t] = "connected" /\ object'[t] = o /\ create_pc[t] = "out"
        /\ counted' = counted /\ UNCHANGED <<g_list_coind, main_pc>>
    BY <1>9, <2>1, <2>2 DEF job_update, Begin, PlacesOK, objVars
  <2> QED
    BY <2>1, <2>3 DEF CountedListed, MainListed, Listed
<1>10. CASE update_auto_ready
  BY <1>10 DEF update_auto_ready, objVars, createVars
<1>11. CASE update_coind
  <2>1. Main \notin Callers /\ Main \in Creators /\ Callers \subseteq Creators
    BY PoolsAssumption DEF Creators
  <2>2. main_pc = "update" /\ create_pc[Main] = "out" /\ UNCHANGED counted
    BY <1>11 DEF update_coind
  <2>3. CASE main_pc' = "terminate"
    BY <1>11, <2>1, <2>2, <2>3 DEF update_coind, objVars
  <2>4. CASE main_pc' = "create"
    <3>1. PICK o \in Objs : (Known(o) \/ New(o)) /\ Begin(Main, o)
      BY <1>11, <2>4 DEF update_coind
    <3>2. o \in g_list_coind' /\ g_list_coind \subseteq g_list_coind'
      BY <3>1 DEF Known, New
    <3>3. /\ object'[Main] = o
          /\ \A u \in Callers : create_pc'[u] = create_pc[u] /\ object'[u] = object[u]
      BY <2>1, <3>1 DEF Begin, PlacesOK
    <3> QED
      BY <2>2, <2>4, <3>2, <3>3
  <2> QED
    BY <1>11, <2>3, <2>4 DEF update_coind
<1>12. CASE coind_terminate
  BY <1>12 DEF coind_terminate
<1>13. CASE prune_coind
  <2>1. Main \notin Callers /\ Main \in Creators /\ Callers \subseteq Creators
    BY PoolsAssumption DEF Creators
  <2>2. main_pc = "prune_coind" /\ UNCHANGED <<create_pc, object, counted>>
    BY <1>13 DEF prune_coind, Prune
  <2>3. \A o \in g_list_coind : lock_count(o) # 0 => o \in g_list_coind'
    BY <1>13 DEF prune_coind, Prune, Freed
  <2> QED
    BY <2>2, <2>3, LockedStays DEF ObjectsOK
<1>14. CASE prune_job
  BY <1>14 DEF prune_job, objVars, createVars
<1>15. CASE UNCHANGED <<create_pc, object, counted, main_pc, g_list_coind>>
  BY <1>15
<1> QED
  BY <1>1, <1>2, <1>3, <1>4, <1>5, <1>6, <1>7, <1>8, <1>9, <1>10, <1>11, <1>12, <1>13, <1>14,
      <1>15
  DEF Next, vars, envVars, objVars, jobVars, createVars, coind_create_job, main_thread, Prune,
      create_freed, daemon_changes, row_edited, client_submit, coind_submit

(* Only threads that nobody counts touch freed objects.                    *)
LEMMA LiveStep ==
  ASSUME ObjectsOK, PlacesOK, Listed, CountedIsLive, [Next]_vars
  PROVE  CountedIsLive'
<1> USE DEF CountedIsLive
<1>1. ASSUME NEW t \in Creators, create_freed(t) PROVE CountedIsLive'
  <2>1. undefined' \subseteq undefined \cup {t} /\ UNCHANGED counted
    BY <1>1 DEF create_freed, createVars
  <2>2. t \notin counted \cup {Main}
    BY <1>1 DEF create_freed, Listed, CountedListed, MainListed, ObjectsOK, PlacesOK
  <2> QED
    BY <2>1, <2>2 DEF CountedIsLive
<1>2. ASSUME NEW t \in Creators, create_return(t) PROVE CountedIsLive'
  BY <1>2 DEF create_return, CountedIsLive
<1>3. ASSUME NEW t \in Callers, client_update_block(t) PROVE CountedIsLive'
  <2>1. undefined = {} \/ UNCHANGED <<undefined, counted>>
    BY DEF Next, vars, createVars
  <2> QED
    BY <1>3, <2>1 DEF client_update_block, CountedIsLive
<1>4. CASE coind_submit
  <2>1. Main \notin Callers /\ Submitter \notin Callers /\ Main # Submitter
    BY PoolsAssumption DEF Main, Submitter
  <2> QED
    BY <1>4, <2>1 DEF coind_submit, Touch, createVars, CountedIsLive, PlacesOK
<1>5. CASE UNCHANGED <<undefined, counted>>
  BY <1>5
<1> QED
  BY <1>1, <1>2, <1>3, <1>4, <1>5
  DEF Next, vars, envVars, objVars, jobVars, createVars, coind_create_job, main_thread, Prune,
      create_connected, create_lock, coind_create_template, error_auto_ready, coind_error,
      create_compare, job_update, daemon_changes, row_edited, client_submit, update_auto_ready,
      update_coind, coind_terminate, prune_coind, prune_job

(* A new job, like a freed object, flags the job it replaces.              *)
LEMMA MineableStep ==
  ASSUME ObjectsOK, JobsOK, OneObject, OneMineableJob, [Next]_vars
  PROVE  OneMineableJob'
<1> USE DEF OneMineableJob, OneObject, ObjectsOK, JobsOK
<1>1. ASSUME NEW t \in Creators, create_compare(t) PROVE OneMineableJob'
  <2> DEFINE o == object[t]
  <2>1. g_list_coind = {o} /\ o \in Objs /\ UNCHANGED g_list_coind
    BY <1>1 DEF create_compare, At
  <2>2. CASE UNCHANGED <<coind_job, jobVars>>
    BY <2>1, <2>2 DEF jobVars
  <2>3. ASSUME NEW j \in Lowest(FreeJobs),
               /\ job_deleted' = job_deleted \cup ({coind_job[o]} \ {None})
               /\ coind_job' = [coind_job EXCEPT ![o] = j]
               /\ job_coind' = [job_coind EXCEPT ![j] = o]
               /\ g_list_job' = g_list_job \cup {j}
        PROVE  OneMineableJob'
    <3>1. j \in Jobs /\ None \notin Jobs
      BY PoolsAssumption DEF Lowest, FreeJobs
    <3>2. coind_job'[o] = j /\ job_coind'[j] = o
      BY <2>1, <2>3, <3>1
    <3>3. ASSUME NEW k \in g_list_job' \ job_deleted' PROVE k = j
      BY <2>1, <2>3, <3>1, <3>3
    <3> QED
      BY <2>1, <3>2, <3>3
  <2> QED
    BY <1>1, <2>2, <2>3 DEF create_compare
<1>2. CASE update_coind
  BY <1>2 DEF update_coind, New, Known, objVars, jobVars
<1>3. CASE prune_coind
  <2>1. PICK dead \in SUBSET g_list_coind :
            /\ Freed(dead)
            /\ job_deleted' = job_deleted \cup ({coind_job[o] : o \in dead} \ {None})
            /\ UNCHANGED <<g_list_job, job_coind>>
    BY <1>3 DEF prune_coind, Prune
  <2>2. None \notin Jobs
    BY PoolsAssumption
  <2>3. ASSUME NEW j \in g_list_job' \ job_deleted'
        PROVE  g_list_coind' = {job_coind'[j]} /\ coind_job'[job_coind'[j]] = j
    <3>1. /\ j \in g_list_job \ job_deleted /\ j \in Jobs /\ job_coind'[j] = job_coind[j]
          /\ g_list_coind = {job_coind[j]} /\ coind_job[job_coind[j]] = j
      BY <2>1, <2>3
    <3>2. job_coind[j] \notin dead
      BY <2>1, <2>2, <2>3, <3>1
    <3> QED
      BY <2>1, <3>1, <3>2 DEF Freed
  <2> QED
    BY <2>3
<1>4. CASE prune_job
  BY <1>4 DEF prune_job, objVars
<1>5. CASE UNCHANGED <<g_list_job, job_deleted, g_list_coind, job_coind, coind_job>>
  BY <1>5
<1> QED
  BY <1>1, <1>2, <1>3, <1>4, <1>5
  DEF Next, vars, envVars, objVars, jobVars, createVars, coind_create_job, main_thread, Prune,
      create_freed, create_connected, create_lock, coind_create_template, error_auto_ready,
      coind_error, create_return, client_update_block, job_update, daemon_changes, row_edited,
      client_submit, coind_submit, update_auto_ready, coind_terminate

LEMMA IInvInit == Init => IInv
<1> SUFFICES ASSUME Init PROVE IInv
  OBVIOUS
<1> USE DEF Init
<1>1. TypeOK
  BY DEF TypeOK
<1>2. OneObject /\ Listed /\ CountedIsLive /\ OneMineableJob
  BY DEF OneObject, Listed, CountedListed, MainListed, CountedIsLive, OneMineableJob, Creators
<1> QED
  BY <1>1, <1>2 DEF IInv

LEMMA IInvStep == IInv /\ [Next]_vars => IInv'
<1> SUFFICES ASSUME IInv, [Next]_vars PROVE IInv'
  OBVIOUS
<1>1. ObjectsOK /\ JobsOK /\ MutexOK /\ PlacesOK
  BY DEF IInv, TypeOK, ObjectsOK, JobsOK, MutexOK, PlacesOK
<1>2. TypeOK'
  BY <1>1, ObjectsStep, JobsStep, MutexStep, PlacesStep
  DEF TypeOK, ObjectsOK, JobsOK, MutexOK, PlacesOK
<1> QED
  BY <1>1, <1>2, OneObjectStep, ListedStep, LiveStep, MineableStep DEF IInv

-----------------------------------------------------------------------------
(* Every variable keeps its type, in whatever order the daemon, its row,   *)
(* main and the threads that create jobs and submit blocks go on.          *)
THEOREM TypeCorrect == Spec => []TypeOK
<1>1. IInv => TypeOK
  BY DEF IInv
<1> QED
  BY <1>1, IInvInit, IInvStep, PTL DEF Spec

(* A thread that client_update_block has counted in, and main, never touch *)
(* a freed object (object_prune, coind_create_job).                        *)
THEOREM CountedSafe == Spec => []CountedIsLive
<1>1. IInv => CountedIsLive
  BY DEF IInv
<1> QED
  BY <1>1, IInvInit, IInvStep, PTL DEF Spec

(* Of the jobs of coind_create_job one at most can be mined, the current   *)
(* job of the living object, whatever objects and jobs came before.        *)
THEOREM OneJob == Spec => []OneMineableJob
<1>1. IInv => OneMineableJob
  BY DEF IInv
<1> QED
  BY <1>1, IInvInit, IInvStep, PTL DEF Spec
=============================================================================
