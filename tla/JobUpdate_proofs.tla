------------------------- MODULE JobUpdate_proofs -------------------------
(***************************************************************************)
(* Proofs about JobUpdate, for any miners, coins, daemons and jobs: no     *)
(* miner is sent back to an old job of a coin, and none is moved off a     *)
(* coin that can be mined.                                                 *)
(***************************************************************************)
EXTENDS JobUpdate, TLAPS, FiniteSetTheorems, SequenceTheorems

(* The parts of TypeOK.                                                    *)
Flagged == {d \in Coinds : creating[d] = "flagged"}
JobsOK ==
    /\ g_list_job \subseteq 1..lastid /\ deleted \subseteq 1..lastid
    /\ coind \in [JobIds -> Coinds \cup {NoCoin}]
    /\ lastid \in 0..MaxJob /\ lastid + Cardinality(Flagged) <= MaxJob
    /\ coind_job \in [Coinds -> 0..lastid]
    /\ creating \in [Coinds -> {"no", "flagged", "bare", "filled"}]
ClientsOK ==
    /\ status \in [Clients -> {"new", "sent", "listed", "gone"}]
    /\ jobid_next \in [Clients -> 0..lastid] /\ jobid_sent \in [Clients -> 0..lastid]
WalkOK ==
    /\ connected \subseteq Coinds
    /\ job_pc \in {"wait", "assign", "left", "resort", "resort_create", "resort_link",
                   "resort_assign", "broadcast"}
    /\ to_visit \subseteq (IF job_pc = "left" THEN Coinds ELSE g_list_job)
    /\ pass \in 1..Max3Passes
    /\ resort_coind \in Coinds \cup {NoCoin}
    /\ job_pc \in {"resort_create", "resort_link", "resort_assign"} => resort_coind \in Coinds
    /\ crashed \in BOOLEAN /\ entitled \subseteq Clients

(* coind->job: until it is filled in nobody is its coind; it is flagged    *)
(* before there is another; two daemons never share one.                   *)
CurrentJobs ==
    \A d \in Coinds :
        /\ creating[d] \in {"bare", "filled"} => coind_job[d] # NoJob
        /\ coind_job[d] # NoJob =>
              coind[coind_job[d]] = IF creating[d] = "bare" THEN NoCoin ELSE d
        /\ creating[d] = "flagged" => coind_job[d] \in deleted \cup {NoJob}
DistinctJobs ==
    \A d, e \in Coinds : coind_job[d] = coind_job[e] => d = e \/ coind_job[d] = NoJob

(* The current job of a coin is its newest, and the others are flagged.    *)
Newest ==
    \A j \in JobIds :
        coind[j] \in Coinds =>
            /\ j <= coind_job[coind[j]]
            /\ j \in deleted \/ j = coind_job[coind[j]]
LinkedFilled == \A j \in g_list_job : coind[j] \in Coinds

Jobs == CurrentJobs /\ DistinctJobs /\ Newest /\ LinkedFilled

(* job_history holds the last jobs broadcast to the client, each once;     *)
(* the very last of them is jobid_sent.                                    *)
Remembers(c) ==
    LET h == job_history[c] IN
    /\ told[c] \in Seq(JobIds) /\ h \in Seq(JobIds)
    /\ Len(h) = IF Len(told[c]) < MaxHistory THEN Len(told[c]) ELSE MaxHistory
    /\ \A i \in 1..Len(told[c]) : told[c][i] \in g_list_job
    /\ \A i \in 1..Len(h) : h[i] = told[c][i]
    /\ \A i, k \in 1..Len(h) : h[i] = h[k] => i = k
    /\ told[c] # <<>> => jobid_sent[c] = told[c][1] /\ status[c] \notin {"new", "sent"}
History == \A c \in Clients : Remembers(c)

(* The job a client is about to get is none it was moved away from.        *)
InTail(c, j) == \E i \in 2..Len(job_history[c]) : job_history[c][i] = j
NextFresh == \A c \in Clients : ~InTail(c, jobid_next[c])

IInv == JobsOK /\ ClientsOK /\ WalkOK /\ Jobs /\ History /\ NextFresh

-----------------------------------------------------------------------------
(* No miner is without a job after the three passes if its own coin could  *)
(* be mined all along: its coin's job has room for all clients.            *)
RoomForAll == IsFiniteSet(Clients) /\ Cardinality(Clients) <= nethash100

Keeps(c) ==
    LET d == coinid[c] IN
    /\ job_pc # "wait" /\ status[c] = "listed"
    /\ d \in connected /\ creating[d] = "no" /\ coind_job[d] # NoJob
    /\ job_pc # "broadcast" => ~InTail(c, coind_job[d])
    /\ jobid_next[c] # NoJob => coind[jobid_next[c]] = d
    /\ (job_pc = "left" /\ (pass > 1 \/ d \notin to_visit)) \/ job_pc = "resort"
          => jobid_next[c] # NoJob
    /\ job_pc \in {"resort_create", "resort_link", "resort_assign"}
          => jobid_next[c] # NoJob \/ resort_coind = d
EntitledKeep == \A c \in entitled : Keeps(c)

-----------------------------------------------------------------------------
(* An element put in front of a sequence.                                  *)
LEMMA Pushes ==
  ASSUME NEW S, NEW q \in Seq(S), NEW j \in S
  PROVE  /\ <<j>> \o q \in Seq(S) /\ Len(<<j>> \o q) = Len(q) + 1
         /\ (<<j>> \o q)[1] = j
         /\ \A i \in 2..Len(<<j>> \o q) : (<<j>> \o q)[i] = q[i - 1]
<1>1. <<j>> \in Seq(S) /\ Len(<<j>>) = 1 /\ <<j>>[1] = j
  OBVIOUS
<1> QED
  BY <1>1, ConcatProperties, LenProperties

(* client_add_job_history for a job that is not in the history.            *)
LEMMA Adds ==
  ASSUME NEW c \in Clients, NEW j \in JobIds, job_history[c] \in Seq(JobIds),
         \A i \in 1..Len(job_history[c]) : job_history[c][i] # j
  PROVE  LET h == job_history[c]
             a == client_add_job_history(c, j)
         IN  /\ a \in Seq(JobIds) /\ a[1] = j
             /\ Len(a) = IF Len(h) < MaxHistory THEN Len(h) + 1 ELSE MaxHistory
             /\ \A i \in 2..Len(a) : a[i] = h[i - 1]
<1> DEFINE h == job_history[c]
<1> DEFINE n == IF Len(h) < MaxHistory THEN Len(h) + 1 ELSE MaxHistory
<1> DEFINE p == <<j>> \o h
<1>1. p \in Seq(JobIds) /\ Len(p) = Len(h) + 1 /\ p[1] = j
      /\ \A i \in 2..Len(p) : p[i] = h[i - 1]
  BY Pushes
<1>2. n \in 1..Len(p) /\ Len(h) \in Nat
  BY <1>1, ConstantsAssumption, LenProperties
<1>3. client_add_job_history(c, j) = SubSeq(p, 1, n)
  BY DEF client_add_job_history, Seen
<1> HIDE DEF p, n
<1>4. /\ SubSeq(p, 1, n) \in Seq(JobIds) /\ Len(SubSeq(p, 1, n)) = n
      /\ \A i \in 1..n : SubSeq(p, 1, n)[i] = p[i]
  BY <1>1, <1>2
<1>5. /\ SubSeq(p, 1, n)[1] = j
      /\ \A i \in 2..Len(SubSeq(p, 1, n)) : SubSeq(p, 1, n)[i] = h[i - 1]
  BY <1>1, <1>2, <1>4
<1> QED
  BY <1>3, <1>4, <1>5 DEF n

(* The entries client_find_job_history looks at.                           *)
LEMMA HistoryTail ==
  ASSUME History, NEW c \in Clients, NEW j
  PROVE  client_find_job_history(c, j) <=> InTail(c, j)
<1> DEFINE h == job_history[c]
<1>1. h \in Seq(JobIds) /\ Len(h) \in Nat
  BY DEF History, Remembers
<1>2. CASE h = <<>>
  BY <1>1, <1>2 DEF client_find_job_history, InTail
<1>3. CASE h # <<>>
  <2>1. Len(Tail(h)) = Len(h) - 1 /\ \A i \in 1..Len(Tail(h)) : Tail(h)[i] = h[i + 1]
    BY <1>1, <1>3, HeadTailProperties
  <2>2. j \in Seen(Tail(h)) => InTail(c, j)
    <3> SUFFICES ASSUME NEW i \in 1..Len(Tail(h)), j = Tail(h)[i] PROVE InTail(c, j)
      BY DEF Seen
    <3> QED
      BY <1>1, <2>1, i + 1 \in 2..Len(h) DEF InTail
  <2>3. InTail(c, j) => j \in Seen(Tail(h))
    <3> SUFFICES ASSUME NEW i \in 2..Len(h), h[i] = j PROVE j \in Seen(Tail(h))
      BY DEF InTail
    <3>1. i - 1 \in 1..Len(Tail(h)) /\ Tail(h)[i - 1] = j
      BY <1>1, <2>1
    <3> QED
      BY <3>1 DEF Seen
  <2> QED
    BY <1>3, <2>2, <2>3 DEF client_find_job_history
<1> QED
  BY <1>2, <1>3

(* No job is in no history.                                                *)
LEMMA NotNoJob ==
  ASSUME History, NEW c \in Clients
  PROVE  \A i \in 2..Len(job_history[c]) : job_history[c][i] # NoJob
<1>1. job_history[c] \in Seq(JobIds) /\ Len(job_history[c]) \in Nat
  BY DEF History, Remembers
<1> SUFFICES ASSUME NEW i \in 2..Len(job_history[c]) PROVE job_history[c][i] # NoJob
  OBVIOUS
<1>2. job_history[c][i] \in JobIds
  BY <1>1, i \in 1..Len(job_history[c]), ElementOfSeq
<1> QED
  BY <1>2, ConstantsAssumption DEF JobIds, NoJob

(* A job is assigned only to clients that have none, and were not moved    *)
(* away from it.                                                           *)
LEMMA AssignFresh ==
  ASSUME History, NextFresh, NEW c \in Clients,
         \/ \E j \in JobIds : job_assign_clients(j)
         \/ \E d \in Coinds : job_assign_clients_left(d)
  PROVE  ~InTail(c, jobid_next'[c]) /\ job_history' = job_history
<1>1. ASSUME NEW j, NEW d, NEW n, NEW l, AssignUpTo(j, FreeOfCoin(j, d), n, l)
      PROVE  ~InTail(c, jobid_next'[c])
  <2>1. PICK S \in SUBSET FreeOfCoin(j, d) : Give(j, S)
    BY <1>1 DEF AssignUpTo
  <2>2. c \in S => c \in Free(j)
    BY DEF FreeOfCoin
  <2>3. jobid_next'[c] = IF c \in S THEN j ELSE jobid_next[c]
    BY <2>1 DEF Give
  <2> QED
    BY <2>2, <2>3, HistoryTail DEF Free, NextFresh
<1>2. ASSUME NEW j \in JobIds, job_assign_clients(j)
      PROVE  ~InTail(c, jobid_next'[c]) /\ job_history' = job_history
  BY <1>1, <1>2 DEF job_assign_clients, NextFresh
<1>3. ASSUME NEW d \in Coinds, job_assign_clients_left(d)
      PROVE  ~InTail(c, jobid_next'[c]) /\ job_history' = job_history
  BY <1>1, <1>3 DEF job_assign_clients_left, NextFresh
<1> QED
  BY <1>2, <1>3

(* What a broadcast does to a client that receives it, and who that is: it *)
(* was to get this job, which its history does not hold.                   *)
LEMMA Broadcasts ==
  ASSUME WalkOK, History, NextFresh, NEW j \in JobIds, job_broadcast(j), NEW c \in Clients
  PROVE  /\ told'[c] = told[c] => jobid_sent'[c] = jobid_sent[c] /\ job_history'[c] = job_history[c]
         /\ told'[c] # told[c] =>
               LET h == job_history[c] IN
               /\ job_can_mine(j) /\ j \in g_list_job
               /\ status[c] = "listed" /\ jobid_next[c] = j /\ jobid_sent'[c] = j
               /\ told'[c] = <<j>> \o told[c]
               /\ job_history'[c] \in Seq(JobIds)
               /\ Len(job_history'[c]) = IF Len(h) < MaxHistory THEN Len(h) + 1 ELSE MaxHistory
               /\ job_history'[c][1] = j
               /\ \A i \in 2..Len(job_history'[c]) : job_history'[c][i] = h[i - 1]
               /\ \A i \in 1..Len(h) : h[i] # j
<1> DEFINE h == job_history[c]
<1>1. told[c] \in Seq(JobIds) /\ h \in Seq(JobIds) /\ Len(h) \in Nat /\ Len(told[c]) \in Nat
  BY DEF History, Remembers
<1>2. told[c] # <<j>> \o told[c]
  BY <1>1, Pushes
<1>3. CASE ~(job_can_mine(j) /\ c \in Receivers(j))
  BY <1>3 DEF job_broadcast
<1>4. CASE job_can_mine(j) /\ c \in Receivers(j)
  <2>1. /\ jobid_sent'[c] = j /\ told'[c] = <<j>> \o told[c]
        /\ job_history'[c] = client_add_job_history(c, j)
    BY <1>4 DEF job_broadcast
  <2>2. status[c] = "listed" /\ jobid_next[c] = j /\ jobid_sent[c] # j
    BY <1>4 DEF Receivers
  <2>3. j \in g_list_job
    BY DEF job_broadcast, WalkOK
  <2>4. \A i \in 1..Len(h) : h[i] # j
    <3> SUFFICES ASSUME NEW i \in 1..Len(h), h[i] = j PROVE FALSE
      OBVIOUS
    <3>1. CASE i = 1
      BY <3>1, <1>1, <2>2 DEF History, Remembers
    <3>2. CASE i \in 2..Len(h)
      BY <3>2, <2>2 DEF NextFresh, InTail
    <3> QED
      BY <3>1, <3>2, <1>1
  <2>5. /\ job_history'[c] \in Seq(JobIds) /\ job_history'[c][1] = j
        /\ Len(job_history'[c]) = IF Len(h) < MaxHistory THEN Len(h) + 1 ELSE MaxHistory
        /\ \A i \in 2..Len(job_history'[c]) : job_history'[c][i] = h[i - 1]
    <3> DEFINE a == client_add_job_history(c, j)
    <3>1. h \in Seq(JobIds)
      BY <1>1
    <3>2. a \in Seq(JobIds)
      BY <3>1, <2>4, Adds
    <3>3. a[1] = j
      BY <3>1, <2>4, Adds
    <3>4. Len(a) = IF Len(h) < MaxHistory THEN Len(h) + 1 ELSE MaxHistory
      BY <3>1, <2>4, Adds
    <3>5. \A i \in 2..Len(a) : a[i] = h[i - 1]
      BY <3>1, <2>4, Adds
    <3> QED
      BY <2>1, <3>2, <3>3, <3>4, <3>5
  <2> QED
    BY <1>2, <1>4, <2>1, <2>2, <2>3, <2>4, <2>5
<1> QED
  BY <1>2, <1>3, <1>4

(* A creation begins only if there will be an id for it.                   *)
LEMMA Begins ==
  ASSUME JobsOK, NEW d \in Coinds, BeginJob(d)
  PROVE  /\ lastid' + Cardinality(Flagged') <= MaxJob
         /\ deleted' \subseteq 1..lastid
<1> USE ConstantsAssumption
<1>1. IsFiniteSet(Flagged)
  BY FS_Subset, Flagged \subseteq Coinds DEF Flagged
<1>2. Flagged' = Flagged \cup {d} /\ d \notin Flagged /\ lastid' = lastid
  BY DEF BeginJob, Flagged, JobsOK
<1>3. Cardinality(Flagged') = Cardinality(Flagged) + 1 /\ Cardinality(Flagged) \in Nat
  BY <1>1, <1>2, FS_AddElement, FS_CardinalityType
<1>4. lastid + Cardinality(Flagged) < MaxJob
  BY DEF BeginJob, Flagged
<1>5. lastid' + Cardinality(Flagged') <= MaxJob
  <2>1. lastid \in Nat /\ MaxJob \in Nat
    BY DEF JobsOK
  <2> QED
    BY <1>2, <1>3, <1>4, <2>1
<1>6. coind_job[d] \in 0..lastid /\ lastid \in Nat
  BY DEF JobsOK
<1>7. deleted' = deleted \cup ({coind_job[d]} \ {NoJob}) /\ deleted \subseteq 1..lastid
  BY DEF BeginJob, JobsOK
<1>8. coind_job[d] # NoJob => coind_job[d] \in 1..lastid
  BY <1>6 DEF NoJob
<1>9. deleted' \subseteq 1..lastid
  BY <1>7, <1>8
<1> QED
  BY <1>5, <1>9

(* ... and that id is still free when it is handed out.                    *)
LEMMA NewId ==
  ASSUME JobsOK, NEW d \in Coinds, coind_new_job(d)
  PROVE  lastid + 1 <= MaxJob /\ lastid + 1 + Cardinality(Flagged') <= MaxJob
<1> USE ConstantsAssumption DEF JobsOK
<1>1. IsFiniteSet(Flagged)
  BY FS_Subset, Flagged \subseteq Coinds DEF Flagged
<1>2. d \in Flagged /\ Flagged' = Flagged \ {d}
  BY DEF coind_new_job, Flagged
<1>3. Cardinality(Flagged') = Cardinality(Flagged) - 1 /\ Cardinality(Flagged') \in Nat
  BY <1>1, <1>2, FS_RemoveElement, FS_CardinalityType
<1>4. Cardinality(Flagged) \in Nat
  BY <1>1, FS_CardinalityType
<1> QED
  BY <1>3, <1>4

(* What is linked has an id that was handed out.                           *)
LEMMA LinkedId ==
  ASSUME JobsOK, NEW j \in g_list_job
  PROVE  j \in 0..lastid
<1>1. j \in 1..lastid /\ lastid \in Nat
  BY ConstantsAssumption DEF JobsOK
<1> QED
  BY <1>1

(* The clients to which a job is sent, and to which one is assigned.       *)
LEMMA Sends ==
  ASSUME NEW j \in JobIds, job_broadcast(j)
  PROVE  \E R : jobid_sent' = [c \in Clients |-> IF c \in R THEN j ELSE jobid_sent[c]]
<1> DEFINE R == IF job_can_mine(j) THEN Receivers(j) ELSE {}
<1>1. jobid_sent' = [c \in Clients |-> IF c \in R THEN j ELSE jobid_sent[c]]
  BY DEF job_broadcast
<1> HIDE DEF R
<1> QED
  BY <1>1

LEMMA AssignsLeft ==
  ASSUME NEW d \in Coinds, job_assign_clients_left(d)
  PROVE  \E S : \/ jobid_next' = jobid_next
                \/ jobid_next' = [c \in Clients |-> IF c \in S THEN coind_job[d] ELSE jobid_next[c]]
<1> DEFINE E == FreeOfCoin(coind_job[d], d)
<1> DEFINE n == Cardinality({c \in Clients : jobid_next[c] = coind_job[d]})
<1>1. jobid_next' = jobid_next \/ AssignUpTo(coind_job[d], E, n, nethash100)
  BY DEF job_assign_clients_left
<1>2. CASE AssignUpTo(coind_job[d], E, n, nethash100)
  <2>1. PICK S \in SUBSET E : Give(coind_job[d], S)
    BY <1>2 DEF AssignUpTo
  <2> QED
    BY <2>1 DEF Give
<1> QED
  BY <1>1, <1>2

(* Jobs keep their types; a creation that has begun has an id left.        *)
LEMMA JobsOKStep ==
  ASSUME JobsOK, WalkOK, Jobs, [Next]_vars
  PROVE  JobsOK'
<1> USE ConstantsAssumption DEF JobsOK
<1>1. ASSUME NEW d \in Coinds, coind_create_job(d) PROVE JobsOK'
  BY <1>1, Begins DEF coind_create_job, BeginJob, JobIds, NoJob
<1>2. ASSUME NEW d \in Coinds, coind_new_job(d) PROVE JobsOK'
  <2>1. lastid + 1 <= MaxJob /\ lastid + 1 + Cardinality(Flagged') <= MaxJob
    BY <1>2, NewId
  <2> QED
    BY <1>2, <2>1 DEF coind_new_job, JobIds, NoJob
<1>3. ASSUME NEW d \in Coinds, coind_fill_job(d) PROVE JobsOK'
  <2>1. Flagged' = Flagged
    BY <1>3 DEF coind_fill_job, Flagged
  <2> QED
    BY <1>3, <2>1 DEF coind_fill_job
<1>4. ASSUME NEW d \in Coinds, coind_link_job(d) PROVE JobsOK'
  <2>1. Flagged' = Flagged
    BY <1>4 DEF coind_link_job, Flagged
  <2>2. coind_job[d] \in 1..lastid
    BY <1>4 DEF coind_link_job, Jobs, CurrentJobs, NoJob
  <2> QED
    BY <1>4, <2>1, <2>2 DEF coind_link_job
<1>5. CASE resort_create
  <2>1. resort_coind \in Coinds /\ BeginJob(resort_coind)
    BY <1>5 DEF resort_create, WalkOK
  <2> QED
    BY <2>1, Begins DEF BeginJob, JobIds, NoJob
<1>6. CASE UNCHANGED <<g_list_job, deleted, coind, lastid, coind_job, creating>>
  BY <1>6 DEF Flagged
<1> QED
  BY <1>1, <1>2, <1>3, <1>4, <1>5, <1>6
  DEF Next, vars, jobVars, clientVars, threadVars, CreateSteps, job_thread, rpc_flap,
      job_assign_clients_left, resort, job_send_last, client_authorize, client_gone,
      job_assign_clients, job_broadcast, job_update, next_loop, resort_created, resort_assign,
      no_resort, job_update_done

(* So do clients.                                                          *)
LEMMA ClientsOKStep ==
  ASSUME JobsOK, WalkOK, ClientsOK, [Next]_vars
  PROVE  ClientsOK'
<1> USE ConstantsAssumption DEF ClientsOK, JobsOK, WalkOK, NoJob
<1>1. ASSUME NEW d \in Coinds, coind_new_job(d) PROVE ClientsOK'
  BY <1>1 DEF coind_new_job, clientVars
<1>2. ASSUME NEW d \in Coinds, job_assign_clients_left(d) PROVE ClientsOK'
  <2>1. /\ lastid' = lastid /\ status' = status /\ jobid_sent' = jobid_sent
        /\ coind_job[d] \in 0..lastid
    BY <1>2 DEF job_assign_clients_left, jobVars
  <2>2. PICK S :
           \/ jobid_next' = jobid_next
           \/ jobid_next' = [c \in Clients |-> IF c \in S THEN coind_job[d] ELSE jobid_next[c]]
    BY <1>2, AssignsLeft
  <2> QED
    BY <2>1, <2>2
<1>3. ASSUME NEW d \in Coinds, resort(d) PROVE ClientsOK'
  BY <1>3 DEF resort, jobVars
<1>4. ASSUME NEW m \in Clients, job_send_last(m) PROVE ClientsOK'
  BY <1>4 DEF job_send_last, jobVars
<1>5. ASSUME NEW m \in Clients, client_authorize(m) PROVE ClientsOK'
  BY <1>5 DEF client_authorize, jobVars
<1>6. ASSUME NEW m \in Clients, client_gone(m) PROVE ClientsOK'
  BY <1>6 DEF client_gone, jobVars
<1>7. ASSUME NEW j \in JobIds, job_assign_clients(j) PROVE ClientsOK'
  <2>1. /\ lastid' = lastid /\ status' = status /\ jobid_sent' = jobid_sent
        /\ job_pc = "assign" /\ j \in to_visit
        /\ \/ jobid_next' = jobid_next
           \/ AssignUpTo(j, FreeOfCoin(j, coind[j]), 0, maxspeed)
    BY <1>7 DEF job_assign_clients, jobVars
  <2>2. j \in 0..lastid
    <3>1. j \in g_list_job
      BY <2>1
    <3> QED
      BY <3>1, LinkedId
  <2>3. CASE jobid_next' = jobid_next
    BY <2>1, <2>3
  <2>4. CASE AssignUpTo(j, FreeOfCoin(j, coind[j]), 0, maxspeed)
    <3>1. PICK S : jobid_next' = [c \in Clients |-> IF c \in S THEN j ELSE jobid_next[c]]
      BY <2>4 DEF AssignUpTo, Give
    <3> QED
      BY <2>1, <2>2, <3>1
  <2> QED
    BY <2>1, <2>3, <2>4
<1>8. ASSUME NEW j \in JobIds, job_broadcast(j) PROVE ClientsOK'
  <2>1. lastid' = lastid /\ status' = status /\ jobid_next' = jobid_next
    BY <1>8 DEF job_broadcast, jobVars
  <2>2. j \in 0..lastid
    <3>1. j \in g_list_job
      BY <1>8 DEF job_broadcast
    <3> QED
      BY <3>1, LinkedId
  <2>3. PICK R : jobid_sent' = [c \in Clients |-> IF c \in R THEN j ELSE jobid_sent[c]]
    BY <1>8, Sends
  <2> QED
    BY <2>1, <2>2, <2>3
<1>9. CASE job_update
  BY <1>9 DEF job_update, jobVars
<1>10. CASE resort_assign
  BY <1>10 DEF resort_assign, Give, jobVars
<1>11. CASE UNCHANGED <<lastid, status, jobid_next, jobid_sent>>
  BY <1>11
<1> QED
  BY <1>1, <1>2, <1>3, <1>4, <1>5, <1>6, <1>7, <1>8, <1>9, <1>10, <1>11
  DEF Next, vars, jobVars, clientVars, threadVars, CreateSteps, job_thread, coind_create_job,
      coind_fill_job, coind_link_job, rpc_flap, next_loop, resort_create, resort_created,
      no_resort, job_update_done, BeginJob

(* So does the job thread.                                                 *)
LEMMA WalkOKStep ==
  ASSUME JobsOK, WalkOK, [Next]_vars
  PROVE  WalkOK'
<1> USE ConstantsAssumption DEF JobsOK, WalkOK, Max3Passes
<1>1. ASSUME NEW d \in Coinds, coind_create_job(d) PROVE WalkOK'
  BY <1>1 DEF coind_create_job, BeginJob, threadVars
<1>2. ASSUME NEW d \in Coinds, coind_link_job(d) PROVE WalkOK'
  BY <1>2 DEF coind_link_job, threadVars, g_list_job_free
<1>3. ASSUME NEW d \in Coinds, rpc_flap(d) PROVE WalkOK'
  BY <1>3 DEF rpc_flap, jobVars, threadVars
<1>4. ASSUME NEW d \in Coinds, job_assign_clients_left(d) PROVE WalkOK'
  BY <1>4 DEF job_assign_clients_left, jobVars
<1>5. ASSUME NEW d \in Coinds, resort(d) PROVE WalkOK'
  BY <1>5 DEF resort, jobVars
<1>6. ASSUME NEW m \in Clients, client_gone(m) PROVE WalkOK'
  BY <1>6 DEF client_gone, jobVars, threadVars
<1>7. ASSUME NEW j \in JobIds, job_assign_clients(j) PROVE WalkOK'
  BY <1>7 DEF job_assign_clients, jobVars
<1>8. ASSUME NEW j \in JobIds, job_broadcast(j) PROVE WalkOK'
  BY <1>8 DEF job_broadcast, jobVars
<1>9. CASE job_update
  BY <1>9 DEF job_update, jobVars
<1>10. CASE next_loop
  BY <1>10 DEF next_loop, jobVars
<1>11. CASE resort_create
  BY <1>11 DEF resort_create, BeginJob
<1>12. CASE resort_created
  BY <1>12 DEF resort_created, jobVars
<1>13. CASE resort_assign
  BY <1>13 DEF resort_assign, jobVars
<1>14. CASE no_resort
  BY <1>14 DEF no_resort, jobVars
<1>15. CASE job_update_done
  BY <1>15 DEF job_update_done, jobVars
<1>16. CASE UNCHANGED <<connected, job_pc, to_visit, g_list_job, pass, resort_coind, crashed,
    entitled>>
  BY <1>16
<1> QED
  BY <1>1, <1>2, <1>3, <1>4, <1>5, <1>6, <1>7, <1>8, <1>9, <1>10, <1>11, <1>12, <1>13, <1>14,
      <1>15, <1>16
  DEF Next, vars, jobVars, clientVars, threadVars, CreateSteps, job_thread, coind_new_job,
      coind_fill_job, job_send_last, client_authorize

(* A coin's current job is its newest; the ones before it are flagged.     *)
LEMMA JobsStep ==
  ASSUME JobsOK, WalkOK, Jobs, [Next]_vars
  PROVE  Jobs'
<1> USE ConstantsAssumption DEF JobsOK, Jobs, CurrentJobs, DistinctJobs, Newest, LinkedFilled,
    JobIds, NoJob
<1>1. ASSUME NEW d \in Coinds, coind_create_job(d) PROVE Jobs'
  BY <1>1 DEF coind_create_job, BeginJob
<1>2. ASSUME NEW d \in Coinds, coind_new_job(d) PROVE Jobs'
  <2>1. lastid + 1 \in JobIds
    BY <1>2, NewId DEF JobIds
  <2>2. coind' = coind /\ deleted' = deleted /\ g_list_job' = g_list_job
    BY <1>2 DEF coind_new_job
  <2>3. coind_job' = [coind_job EXCEPT ![d] = lastid + 1]
        /\ creating[d] = "flagged" /\ creating' = [creating EXCEPT ![d] = "bare"]
    BY <1>2 DEF coind_new_job
  <2>4. coind[lastid + 1] = NoCoin
    BY <2>1
  <2>5. CurrentJobs'
    BY <2>1, <2>2, <2>3, <2>4
  <2>6. DistinctJobs'
    BY <2>1, <2>2, <2>3
  <2>7. Newest'
    BY <2>1, <2>2, <2>3
  <2> QED
    BY <2>2, <2>5, <2>6, <2>7
<1>3. ASSUME NEW d \in Coinds, coind_fill_job(d) PROVE Jobs'
  BY <1>3 DEF coind_fill_job
<1>4. ASSUME NEW d \in Coinds, coind_link_job(d) PROVE Jobs'
  BY <1>4 DEF coind_link_job
<1>5. CASE resort_create
  BY <1>5 DEF resort_create, BeginJob, WalkOK
<1>6. CASE UNCHANGED <<g_list_job, deleted, coind, coind_job, creating, lastid>>
  BY <1>6
<1> QED
  BY <1>1, <1>2, <1>3, <1>4, <1>5, <1>6
  DEF Next, vars, jobVars, clientVars, threadVars, CreateSteps, job_thread, rpc_flap,
      job_assign_clients_left, resort, job_send_last, client_authorize, client_gone,
      job_assign_clients, job_broadcast, job_update, next_loop, resort_created, resort_assign,
      no_resort, job_update_done

(* The history holds the last jobs broadcast.                              *)
LEMMA HistoryStep ==
  ASSUME JobsOK, ClientsOK, WalkOK, History, NextFresh, [Next]_vars
  PROVE  History'
<1> USE DEF History, Remembers
<1>1. ASSUME NEW d \in Coinds, coind_link_job(d) PROVE History'
  BY <1>1 DEF coind_link_job, clientVars
<1>2. ASSUME NEW m \in Clients, job_send_last(m) PROVE History'
  BY <1>2 DEF job_send_last, jobVars, ClientsOK
<1>3. ASSUME NEW m \in Clients, client_authorize(m) PROVE History'
  BY <1>3 DEF client_authorize, jobVars
<1>4. ASSUME NEW m \in Clients, client_gone(m) PROVE History'
  BY <1>4 DEF client_gone, jobVars
<1>5. ASSUME NEW j \in JobIds, job_broadcast(j) PROVE History'
  <2> SUFFICES ASSUME NEW c \in Clients PROVE Remembers(c)'
    BY DEF History
  <2>1. CASE told'[c] = told[c]
    <3>1. jobid_sent'[c] = jobid_sent[c] /\ job_history'[c] = job_history[c]
      BY <1>5, <2>1, Broadcasts
    <3>2. g_list_job' = g_list_job /\ status' = status
      BY <1>5 DEF job_broadcast, jobVars
    <3> QED
      BY <2>1, <3>1, <3>2
  <2>2. CASE told'[c] # told[c]
    <3> DEFINE h == job_history[c]
    <3>1. /\ j \in g_list_job /\ jobid_sent'[c] = j /\ status[c] = "listed"
          /\ told'[c] = <<j>> \o told[c]
          /\ \A i \in 1..Len(h) : h[i] # j
      BY <1>5, <2>2, Broadcasts
    <3>2. /\ told'[c] \in Seq(JobIds) /\ Len(told'[c]) = Len(told[c]) + 1
          /\ told'[c][1] = j /\ \A i \in 2..Len(told'[c]) : told'[c][i] = told[c][i - 1]
      BY <3>1, Pushes
    <3>3. /\ job_history'[c] \in Seq(JobIds)
          /\ Len(job_history'[c]) = IF Len(h) < MaxHistory THEN Len(h) + 1 ELSE MaxHistory
          /\ job_history'[c][1] = j
          /\ \A i \in 2..Len(job_history'[c]) : job_history'[c][i] = h[i - 1]
      BY <1>5, <2>2, Broadcasts
    <3>4. MaxHistory \in Nat \ {0} /\ Len(told[c]) \in Nat /\ Len(h) \in Nat
      BY ConstantsAssumption
    <3>5. Len(job_history'[c]) = IF Len(told'[c]) < MaxHistory THEN Len(told'[c]) ELSE MaxHistory
      BY <3>2, <3>3, <3>4
    <3>6. \A i \in 1..Len(job_history'[c]) : job_history'[c][i] = told'[c][i]
      <4> TAKE i \in 1..Len(job_history'[c])
      <4>1. CASE i = 1
        BY <4>1, <3>2, <3>3
      <4>2. CASE i \in 2..Len(job_history'[c])
        <5>1. i - 1 \in 1..Len(h) /\ i \in 2..Len(told'[c])
          BY <4>2, <3>2, <3>3, <3>4
        <5> QED
          BY <4>2, <5>1, <3>2, <3>3
      <4> QED
        BY <4>1, <4>2, <3>3, <3>4
    <3>7. \A i, k \in 1..Len(job_history'[c]) : job_history'[c][i] = job_history'[c][k] => i = k
      <4>1. \A i \in 2..Len(job_history'[c]) : i - 1 \in 1..Len(h)
        BY <3>3, <3>4
      <4>2. \A i, k \in 2..Len(job_history'[c]) : job_history'[c][i] = job_history'[c][k] => i = k
        <5> SUFFICES ASSUME NEW i \in 2..Len(job_history'[c]), NEW k \in 2..Len(job_history'[c]),
                            h[i - 1] = h[k - 1]
                     PROVE  i = k
          BY <3>3
        <5>1. i - 1 \in 1..Len(h) /\ k - 1 \in 1..Len(h)
          BY <4>1
        <5>2. i - 1 = k - 1
          BY <5>1
        <5> QED
          BY <5>2
      <4>3. \A i \in 2..Len(job_history'[c]) : job_history'[c][i] # job_history'[c][1]
        <5> SUFFICES ASSUME NEW i \in 2..Len(job_history'[c]) PROVE h[i - 1] # j
          BY <3>3
        <5>1. i - 1 \in 1..Len(h)
          BY <4>1
        <5> QED
          BY <3>1, <5>1
      <4> QED
        BY <4>2, <4>3, <3>3, <3>4
    <3>8. \A i \in 1..Len(told'[c]) : told'[c][i] \in g_list_job
      <4> TAKE i \in 1..Len(told'[c])
      <4>1. CASE i = 1
        BY <4>1, <3>1, <3>2
      <4>2. CASE i \in 2..Len(told'[c])
        <5>1. i - 1 \in 1..Len(told[c])
          BY <4>2, <3>2, <3>4
        <5> QED
          BY <4>2, <5>1, <3>2
      <4> QED
        BY <4>1, <4>2, <3>2, <3>4
    <3>9. g_list_job' = g_list_job /\ status' = status
      BY <1>5 DEF job_broadcast, jobVars
    <3> QED
      BY <3>1, <3>2, <3>3, <3>5, <3>6, <3>7, <3>8, <3>9
  <2> QED
    BY <2>1, <2>2
<1>6. CASE UNCHANGED <<g_list_job, status, jobid_sent, job_history, told>>
  BY <1>6
<1> QED
  BY <1>1, <1>2, <1>3, <1>4, <1>5, <1>6
  DEF Next, vars, jobVars, clientVars, threadVars, CreateSteps, job_thread, coind_create_job,
      coind_new_job, coind_fill_job, rpc_flap, job_assign_clients_left, resort,
      job_assign_clients, job_update, next_loop, resort_create, resort_created, resort_assign,
      no_resort, job_update_done, BeginJob

(* A client is not about to get a job it was moved away from.              *)
LEMMA FreshStep ==
  ASSUME JobsOK, ClientsOK, WalkOK, History, NextFresh, [Next]_vars
  PROVE  NextFresh'
<1> USE DEF NextFresh, InTail
<1>1. ASSUME NEW d \in Coinds, job_assign_clients_left(d) PROVE NextFresh'
  BY <1>1, AssignFresh DEF job_assign_clients_left
<1>2. ASSUME NEW d \in Coinds, resort(d) PROVE NextFresh'
  BY <1>2, NotNoJob DEF resort
<1>3. ASSUME NEW j \in JobIds, job_assign_clients(j) PROVE NextFresh'
  BY <1>3, AssignFresh DEF job_assign_clients
<1>4. ASSUME NEW j \in JobIds, job_broadcast(j) PROVE NextFresh'
  <2> SUFFICES ASSUME NEW c \in Clients PROVE ~InTail(c, jobid_next[c])'
    BY DEF NextFresh
  <2>1. CASE told'[c] = told[c]
    <3>1. job_history'[c] = job_history[c]
      BY <1>4, <2>1, Broadcasts
    <3>2. jobid_next' = jobid_next
      BY <1>4 DEF job_broadcast
    <3> QED
      BY <3>1, <3>2
  <2>2. CASE told'[c] # told[c]
    <3> DEFINE h == job_history[c]
    <3>1. /\ jobid_next[c] = j
          /\ \A i \in 1..Len(h) : h[i] # j
      BY <1>4, <2>2, Broadcasts
    <3>2. h \in Seq(JobIds) /\ Len(h) \in Nat /\ MaxHistory \in Nat \ {0}
      BY ConstantsAssumption DEF History, Remembers
    <3>3. /\ Len(job_history'[c]) = IF Len(h) < MaxHistory THEN Len(h) + 1 ELSE MaxHistory
          /\ \A i \in 2..Len(job_history'[c]) : job_history'[c][i] = h[i - 1]
      BY <1>4, <2>2, Broadcasts
    <3>4. \A i \in 2..Len(job_history'[c]) : i - 1 \in 1..Len(h)
      BY <3>2, <3>3
    <3>5. jobid_next' = jobid_next
      BY <1>4 DEF job_broadcast
    <3> QED
      BY <3>1, <3>3, <3>4, <3>5
  <2> QED
    BY <2>1, <2>2
<1>5. CASE job_update
  BY <1>5, NotNoJob DEF job_update
<1>6. CASE resort_assign
  BY <1>6, HistoryTail DEF resort_assign, Give, Free, InTail
<1>7. CASE UNCHANGED <<jobid_next, job_history>>
  BY <1>7
<1> QED
  BY <1>1, <1>2, <1>3, <1>4, <1>5, <1>6, <1>7
  DEF Next, vars, jobVars, clientVars, threadVars, CreateSteps, job_thread, coind_create_job,
      coind_new_job, coind_fill_job, coind_link_job, rpc_flap, job_send_last, client_authorize,
      client_gone, next_loop, resort_create, resort_created, no_resort, job_update_done,
      BeginJob

-----------------------------------------------------------------------------
(* TypeOK says a history has no entry twice by counting.                   *)
LEMMA HistoryType ==
  ASSUME History, NEW c \in Clients
  PROVE  /\ Len(job_history[c]) = Cardinality(Seen(job_history[c]))
         /\ Len(job_history[c]) <= MaxHistory
         /\ Seen(job_history[c]) \subseteq Seen(told[c]) \cap g_list_job
<1> DEFINE h == job_history[c]
<1> DEFINE f == [i \in 1..Len(h) |-> h[i]]
<1>1. h \in Seq(JobIds) /\ Len(h) \in Nat /\ Len(told[c]) \in Nat /\ MaxHistory \in Nat
  BY ConstantsAssumption DEF History, Remembers
<1>2. f \in Bijection(1..Len(h), Seen(h))
  <2>1. \A i, k \in 1..Len(h) : h[i] = h[k] => i = k
    BY DEF History, Remembers
  <2> QED
    BY <2>1 DEF Bijection, Injection, Surjection, IsInjective, Seen
<1>3. Len(h) = Cardinality(Seen(h))
  BY <1>1, <1>2, FS_CountingElements DEF ExistsBijection
<1>4. Len(h) <= MaxHistory /\ Len(h) <= Len(told[c])
  BY <1>1 DEF History, Remembers
<1>5. Seen(h) \subseteq Seen(told[c]) \cap g_list_job
  <2> SUFFICES ASSUME NEW i \in 1..Len(h) PROVE h[i] \in Seen(told[c]) \cap g_list_job
    BY DEF Seen
  <2>1. i \in 1..Len(told[c]) /\ h[i] = told[c][i] /\ told[c][i] \in g_list_job
    BY <1>1, <1>4 DEF History, Remembers
  <2> QED
    BY <2>1 DEF Seen
<1> QED
  BY <1>3, <1>4, <1>5

(* The parts of TypeOK make it up.                                        *)
LEMMA TypeKept == IInv => TypeOK
<1> SUFFICES ASSUME IInv PROVE TypeOK
  OBVIOUS
<1>1. /\ \A c \in Clients :
          /\ Len(job_history[c]) = Cardinality(Seen(job_history[c]))
          /\ Len(job_history[c]) <= MaxHistory
          /\ Seen(job_history[c]) \subseteq Seen(told[c]) \cap g_list_job
  BY HistoryType DEF IInv
<1>2. /\ g_list_job \subseteq 1..lastid /\ deleted \subseteq 1..lastid
      /\ coind \in [JobIds -> Coinds \cup {NoCoin}]
      /\ lastid \in 0..MaxJob
      /\ coind_job \in [Coinds -> 0..lastid]
      /\ creating \in [Coinds -> {"no", "flagged", "bare", "filled"}]
  BY DEF IInv, JobsOK
<1>3. /\ status \in [Clients -> {"new", "sent", "listed", "gone"}]
      /\ {jobid_next, jobid_sent} \subseteq [Clients -> 0..lastid]
  BY DEF IInv, ClientsOK
<1> QED
  BY <1>1, <1>2, <1>3 DEF TypeOK, IInv, WalkOK

(* Nothing is created, assigned or broadcast at the start.                *)
LEMMA IInvInit == Init => IInv
<1> SUFFICES ASSUME Init PROVE IInv
  OBVIOUS
<1> USE ConstantsAssumption
<1>1. Flagged = {} /\ Cardinality(Flagged) = 0
  BY FS_EmptySet DEF Init, Flagged
<1>2. JobsOK /\ ClientsOK /\ WalkOK
  <2>1. JobsOK
    BY <1>1 DEF Init, JobsOK, NoJob
  <2>2. ClientsOK
    BY DEF Init, ClientsOK, NoJob
  <2>3. WalkOK
    <3>1. crashed \in BOOLEAN /\ job_pc = "wait" /\ to_visit = {} /\ resort_coind = NoCoin
      BY DEF Init
    <3>2. connected = Coinds /\ pass \in 1..Max3Passes /\ entitled = {}
      BY DEF Init, Max3Passes
    <3> QED
      BY <3>1, <3>2 DEF WalkOK
  <2> QED
    BY <2>1, <2>2, <2>3
<1>3. Jobs
  BY DEF Init, Jobs, CurrentJobs, DistinctJobs, Newest, LinkedFilled
<1>4. History /\ NextFresh
  BY DEF Init, History, Remembers, NextFresh, InTail
<1> QED
  BY <1>2, <1>3, <1>4 DEF IInv

(* Every step of every thread preserves the invariant.                     *)
LEMMA IInvStep == IInv /\ [Next]_vars => IInv'
<1> QED
  BY JobsOKStep, ClientsOKStep, WalkOKStep, JobsStep, HistoryStep, FreshStep DEF IInv

(* Only a broadcast tells a miner anything.                                *)
LEMMA OnlyBroadcasts ==
  ASSUME [Next]_vars, told' # told
  PROVE  \E j \in JobIds : job_broadcast(j)
<1> QED
  BY DEF Next, vars, jobVars, clientVars, threadVars, CreateSteps, job_thread, coind_create_job,
    coind_new_job, coind_fill_job, coind_link_job, rpc_flap, job_assign_clients_left, resort,
    job_send_last, client_authorize, client_gone, job_assign_clients, job_update, next_loop,
    resort_create, resort_created, resort_assign, no_resort, job_update_done

(* A job that is broadcast is the newest of its coin and not in the        *)
(* miner's history.                                                        *)
LEMMA ForwardStep ==
  ASSUME IInv, [Next]_vars, NEW c \in Clients, told'[c] # told[c],
         NEW i \in DOMAIN told[c], coind[told[c][i]] = coind[told'[c][1]]
  PROVE  told[c][i] < told'[c][1] \/ i > MaxHistory
<1> DEFINE h == job_history[c]
<1>1. PICK j \in JobIds : job_broadcast(j)
  BY OnlyBroadcasts
<1>2. /\ job_can_mine(j) /\ told'[c] = <<j>> \o told[c]
      /\ \A k \in 1..Len(h) : h[k] # j
  BY <1>1, Broadcasts DEF IInv
<1>3. /\ told[c] \in Seq(JobIds) /\ Len(told[c]) \in Nat /\ MaxHistory \in Nat
      /\ Len(h) = IF Len(told[c]) < MaxHistory THEN Len(told[c]) ELSE MaxHistory
      /\ \A k \in 1..Len(h) : h[k] = told[c][k]
  BY ConstantsAssumption DEF IInv, History, Remembers
<1>4. told'[c][1] = j
  BY <1>2, <1>3, Pushes
<1>5. i \in 1..Len(told[c]) /\ told[c][i] \in JobIds
  BY <1>3, ElementOfSeq
<1>6. told[c][i] <= j
  <2>1. coind[j] \in Coinds /\ j = coind_job[coind[j]]
    BY <1>2 DEF job_can_mine, IInv, WalkOK, Jobs, Newest
  <2> QED
    BY <1>4, <1>5, <2>1 DEF IInv, Jobs, Newest
<1>7. i <= MaxHistory => told[c][i] # j
  BY <1>2, <1>3, <1>5
<1> QED
  BY <1>3, <1>4, <1>5, <1>6, <1>7, ConstantsAssumption DEF JobIds

-----------------------------------------------------------------------------
(* The passes over g_list_coind leave a client of a coin without a job     *)
(* only if the coin's job is full, which with RoomForAll it never is.      *)
LEMMA EveryoneFits ==
  ASSUME RoomForAll, ClientsOK, NEW d \in Coinds, coind_job[d] # NoJob,
         NEW E \in SUBSET {c \in Clients : jobid_next[c] = NoJob},
         AssignUpTo(coind_job[d], E, Cardinality({c \in Clients : jobid_next[c] = coind_job[d]}),
                    nethash100)
  PROVE  \A c \in E : jobid_next'[c] = coind_job[d]
<1> DEFINE j == coind_job[d]
<1> DEFINE Have == {c \in Clients : jobid_next[c] = j}
<1>1. PICK S \in SUBSET E : /\ S = E \/ Cardinality(S) + Cardinality(Have) = nethash100
                            /\ Give(j, S)
  BY DEF AssignUpTo
<1>2. S \cap Have = {} /\ S \subseteq Clients /\ Have \subseteq Clients
  OBVIOUS
<1>3. IsFiniteSet(S) /\ IsFiniteSet(Have) /\ IsFiniteSet(Clients)
  BY <1>2, FS_Subset DEF RoomForAll
<1>4. Cardinality(S \cup Have) = Cardinality(S) + Cardinality(Have)
  <2>1. Cardinality(S \cap Have) = 0
    BY <1>2, FS_EmptySet
  <2>2. Cardinality(S) \in Nat /\ Cardinality(Have) \in Nat
    BY <1>3, FS_CardinalityType
  <2> HIDE DEF Have
  <2>3. Cardinality(S \cup Have) = Cardinality(S) + Cardinality(Have) - Cardinality(S \cap Have)
    BY <1>3, FS_Union
  <2> QED
    BY <2>1, <2>2, <2>3
<1>5. S = E
  <2> SUFFICES ASSUME S # E PROVE FALSE
    OBVIOUS
  <2>1. Cardinality(S \cup Have) = nethash100
    BY <1>1, <1>4
  <2>2. S \cup Have \in SUBSET Clients
    BY <1>2
  <2>3. Cardinality(S \cup Have) <= Cardinality(Clients) /\ Cardinality(Clients) \in Nat
        /\ Cardinality(S \cup Have) \in Nat
    BY <1>3, <2>2, FS_Subset, FS_CardinalityType
  <2>4. Cardinality(S \cup Have) = Cardinality(Clients)
    BY <2>1, <2>3 DEF RoomForAll
  <2>5. S \cup Have = Clients
    BY <1>3, <2>2, <2>4, FS_Subset
  <2> QED
    BY <2>5
<1> QED
  BY <1>1, <1>5 DEF Give

(* job_reset_clients takes a client only the job of that daemon.           *)
LEMMA ResortResets ==
  ASSUME NEW d \in Coinds, resort(d), coind_job[d] # NoJob, NEW c \in Clients
  PROVE  \/ jobid_next'[c] = jobid_next[c]
         \/ jobid_next'[c] = NoJob /\ coind_job[d] = jobid_next[c]
<1>1. jobid_next'[c] = IF status[c] = "listed" /\ coind_job[d] \in {NoJob, jobid_next[c]}
                       THEN NoJob ELSE jobid_next[c]
  BY DEF resort
<1> QED
  BY <1>1

(* Until the broadcast, a client is not kept from the job of its coin by   *)
(* its history.                                                            *)
LEMMA StillFresh ==
  ASSUME EntitledKeep, History, NEW c \in Clients, c \in entitled, job_pc # "broadcast"
  PROVE  ~client_find_job_history(c, coind_job[coinid[c]])
<1>1. ~InTail(c, coind_job[coinid[c]])
  BY DEF EntitledKeep, Keeps
<1> QED
  BY <1>1, HistoryTail

(* A client whose own coin can be mined keeps it throughout job_update.    *)
LEMMA KeepStep ==
  ASSUME RoomForAll, IInv, EntitledKeep, [Next]_vars
  PROVE  EntitledKeep'
<1> USE ConstantsAssumption DEF EntitledKeep, Keeps, InTail, IInv, JobsOK, ClientsOK, WalkOK,
    NoJob
<1>1. ASSUME NEW d \in Coinds, coind_create_job(d) PROVE EntitledKeep'
  BY <1>1 DEF coind_create_job, BeginJob, clientVars, threadVars
<1>2. ASSUME NEW d \in Coinds, coind_new_job(d) PROVE EntitledKeep'
  BY <1>2 DEF coind_new_job, jobVars, clientVars, threadVars
<1>3. ASSUME NEW d \in Coinds, coind_fill_job(d) PROVE EntitledKeep'
  <2> SUFFICES ASSUME NEW c \in entitled PROVE Keeps(c)'
    BY <1>3 DEF coind_fill_job
  <2>1. /\ job_pc' = job_pc /\ status' = status /\ connected' = connected
        /\ coind_job' = coind_job /\ job_history' = job_history /\ jobid_next' = jobid_next
        /\ pass' = pass /\ to_visit' = to_visit /\ resort_coind' = resort_coind
    BY <1>3 DEF coind_fill_job, clientVars, threadVars
  <2>2. coinid[c] \in Coinds /\ c \in Clients /\ coinid[c] # d
    BY <1>3 DEF coind_fill_job
  <2>3. creating'[coinid[c]] = creating[coinid[c]]
    BY <1>3, <2>2 DEF coind_fill_job
  <2>4. jobid_next[c] # NoJob => coind'[jobid_next[c]] = coind[jobid_next[c]]
    BY <1>3, <2>2 DEF coind_fill_job, Jobs, CurrentJobs
  <2> QED
    BY <2>1, <2>2, <2>3, <2>4
<1>4. ASSUME NEW d \in Coinds, coind_link_job(d) PROVE EntitledKeep'
  BY <1>4 DEF coind_link_job, jobVars, clientVars, threadVars
<1>5. ASSUME NEW d \in Coinds, rpc_flap(d) PROVE EntitledKeep'
  BY <1>5 DEF rpc_flap, jobVars, clientVars, threadVars
<1>6. ASSUME NEW d \in Coinds, job_assign_clients_left(d) PROVE EntitledKeep'
  <2> SUFFICES ASSUME NEW c \in entitled PROVE Keeps(c)'
    BY <1>6 DEF job_assign_clients_left
  <2> DEFINE j == coind_job[d]
  <2> DEFINE E == FreeOfCoin(j, d)
  <2>1. /\ job_pc' = "left" /\ job_pc = "left" /\ status' = status /\ connected' = connected
        /\ coind_job' = coind_job /\ job_history' = job_history /\ coind' = coind
        /\ creating' = creating /\ pass' = pass /\ to_visit' = to_visit \ {d}
    BY <1>6 DEF job_assign_clients_left, jobVars
  <2>2. coinid[c] \in Coinds /\ c \in Clients
    OBVIOUS
  <2>3. CASE UNCHANGED jobid_next /\ coinid[c] # d
    BY <2>1, <2>2, <2>3
  <2>4. CASE coinid[c] = d
    <3>1. creating[d] = "no" /\ j # NoJob /\ d \in connected /\ status[c] = "listed" /\ coind[j] = d
      BY <2>2, <2>4 DEF Jobs, CurrentJobs
    <3>2. jobid_next[c] = NoJob => c \in E
      <4>1. ~client_find_job_history(c, j)
        BY <2>1, <2>2, <2>4, StillFresh
      <4> QED
        BY <2>2, <2>4, <3>1, <4>1 DEF FreeOfCoin, Free
    <3>3. CASE E = {}
      <4>1. jobid_next' = jobid_next
        BY <1>6, <3>3 DEF job_assign_clients_left
      <4>2. jobid_next[c] # NoJob
        BY <3>2, <3>3
      <4> QED
        BY <2>1, <2>2, <4>1, <4>2
    <3>4. CASE E # {}
      <4>1. AssignUpTo(j, E, Cardinality({m \in Clients : jobid_next[m] = j}), nethash100)
        BY <1>6, <3>1, <3>4 DEF job_assign_clients_left
      <4>2. E \in SUBSET {m \in Clients : jobid_next[m] = NoJob}
        BY DEF FreeOfCoin, Free
      <4>3. \A m \in E : jobid_next'[m] = j
        BY <3>1, <4>1, <4>2, EveryoneFits
      <4>4. c \in E \/ jobid_next'[c] = jobid_next[c]
        BY <2>2, <4>1 DEF AssignUpTo, Give
      <4>5. jobid_next'[c] # NoJob /\ coind[jobid_next'[c]] = d
        BY <2>2, <2>4, <3>1, <3>2, <4>3, <4>4
      <4> QED
        BY <2>1, <2>2, <2>4, <4>5
    <3> QED
      BY <3>3, <3>4
  <2>5. CASE jobid_next' # jobid_next /\ coinid[c] # d
    <3>1. AssignUpTo(j, E, Cardinality({m \in Clients : jobid_next[m] = j}), nethash100)
      BY <1>6, <2>5 DEF job_assign_clients_left
    <3>2. c \notin E
      BY <2>5 DEF FreeOfCoin
    <3>3. jobid_next'[c] = jobid_next[c]
      BY <2>2, <3>1, <3>2 DEF AssignUpTo, Give
    <3> QED
      BY <2>1, <2>2, <2>5, <3>3
  <2> QED
    BY <2>3, <2>4, <2>5
<1>7. ASSUME NEW d \in Coinds, resort(d) PROVE EntitledKeep'
  <2> SUFFICES ASSUME NEW c \in entitled, coind_job[d] # NoJob PROVE Keeps(c)'
    BY <1>7 DEF resort
  <2>1. c \in Clients /\ coinid[c] \in Coinds /\ job_pc = "resort" /\ jobid_next[c] # NoJob
    BY <1>7 DEF resort
  <2>2. \/ jobid_next'[c] = jobid_next[c]
        \/ jobid_next'[c] = NoJob /\ coind_job[d] = jobid_next[c]
    BY <1>7, <2>1, ResortResets
  <2>3. coind_job[d] = jobid_next[c] => d = coinid[c]
    BY <2>1, ConstantsAssumption DEF Jobs, CurrentJobs
  <2>4. /\ job_pc' = "resort_create" /\ resort_coind' = d /\ status' = status
        /\ connected' = connected /\ creating' = creating /\ coind_job' = coind_job
        /\ job_history' = job_history /\ coind' = coind
    BY <1>7 DEF resort, jobVars
  <2> QED
    BY <2>1, <2>2, <2>3, <2>4
<1>8. ASSUME NEW m \in Clients, job_send_last(m) PROVE EntitledKeep'
  BY <1>8 DEF job_send_last, jobVars, clientVars, threadVars
<1>9. ASSUME NEW m \in Clients, client_authorize(m) PROVE EntitledKeep'
  BY <1>9 DEF client_authorize, jobVars, clientVars, threadVars
<1>10. ASSUME NEW m \in Clients, client_gone(m) PROVE EntitledKeep'
  BY <1>10 DEF client_gone, jobVars, clientVars, threadVars
<1>11. ASSUME NEW j \in JobIds, job_assign_clients(j) PROVE EntitledKeep'
  <2> SUFFICES ASSUME NEW c \in entitled PROVE Keeps(c)'
    BY <1>11 DEF job_assign_clients
  <2>1. PICK S \in SUBSET FreeOfCoin(j, coind[j]) :
           jobid_next' = [m \in Clients |-> IF m \in S THEN j ELSE jobid_next[m]]
    <3>1. CASE job_can_mine(j)
      BY <1>11, <3>1 DEF job_assign_clients, AssignUpTo, Give
    <3>2. CASE ~job_can_mine(j)
      <4>1. jobid_next' = jobid_next /\ jobid_next = [m \in Clients |-> jobid_next[m]]
        BY <1>11, <3>2 DEF job_assign_clients
      <4>2. jobid_next' = [m \in Clients |-> IF m \in {} THEN j ELSE jobid_next[m]]
        BY <4>1
      <4>3. {} \in SUBSET FreeOfCoin(j, coind[j])
        OBVIOUS
      <4> QED
        BY <4>2, <4>3
    <3> QED
      BY <3>1, <3>2
  <2>2. c \in Clients /\ (c \in S => coind[j] = coinid[c])
    BY DEF FreeOfCoin
  <2>3. jobid_next'[c] # NoJob => coind[jobid_next'[c]] = coinid[c]
    BY <2>1, <2>2
  <2>4. job_pc = "assign" /\ job_pc' = "assign"
    BY <1>11 DEF job_assign_clients
  <2> QED
    BY <1>11, <2>2, <2>3, <2>4 DEF job_assign_clients, jobVars
<1>12. ASSUME NEW j \in JobIds, job_broadcast(j) PROVE EntitledKeep'
  BY <1>12 DEF job_broadcast, jobVars, clientVars, threadVars
<1>13. CASE job_update
  BY <1>13, HistoryTail DEF job_update, jobVars
<1>14. CASE next_loop
  BY <1>14 DEF next_loop, jobVars, clientVars, threadVars
<1>15. CASE resort_create
  BY <1>15 DEF resort_create, BeginJob, clientVars
<1>16. CASE resort_created
  BY <1>16 DEF resort_created, jobVars, clientVars, threadVars
<1>17. CASE resort_assign
  <2> SUFFICES ASSUME NEW c \in entitled PROVE Keeps(c)'
    BY <1>17 DEF resort_assign
  <2>1. c \in Clients /\ coinid[c] \in Coinds /\ job_pc = "resort_assign"
    BY <1>17 DEF resort_assign
  <2>2. /\ job_pc' = "broadcast" /\ status' = status /\ connected' = connected
        /\ creating' = creating /\ coind_job' = coind_job /\ coind' = coind
    BY <1>17 DEF resort_assign, jobVars
  <2>3. \/ jobid_next'[c] = jobid_next[c]
        \/ jobid_next'[c] = coind_job[resort_coind] /\ jobid_next[c] = NoJob
    BY <1>17, <2>1 DEF resort_assign, Give, Free
  <2>4. coind[coind_job[coinid[c]]] = coinid[c]
    BY <2>1 DEF Jobs, CurrentJobs
  <2>5. jobid_next'[c] # NoJob => coind[jobid_next'[c]] = coinid[c]
    BY <2>1, <2>3, <2>4
  <2> QED
    BY <2>1, <2>2, <2>5
<1>18. CASE no_resort
  BY <1>18 DEF no_resort, jobVars, clientVars, threadVars
<1>19. CASE job_update_done
  BY <1>19 DEF job_update_done, jobVars, clientVars, threadVars
<1>20. CASE UNCHANGED <<job_pc, to_visit, pass, resort_coind, status, connected, creating,
    coind_job, job_history, jobid_next, coind, entitled>>
  BY <1>20
<1> QED
  BY <1>1, <1>2, <1>3, <1>4, <1>5, <1>6, <1>7, <1>8, <1>9, <1>10, <1>11, <1>12, <1>13, <1>14,
      <1>15, <1>16, <1>17, <1>18, <1>19, <1>20
  DEF Next, vars, jobVars, clientVars, threadVars, CreateSteps, job_thread

(* Whoever hears of a new job and is entitled to its own coin gets its own  *)
(* coin's job.                                                             *)
LEMMA StayStep ==
  ASSUME IInv, EntitledKeep, [Next]_vars, NEW c \in entitled, told'[c] # told[c]
  PROVE  coind[told'[c][1]] = coinid[c]
<1>1. PICK j \in JobIds : job_broadcast(j)
  BY OnlyBroadcasts
<1>2. c \in Clients
  BY DEF IInv, WalkOK
<1>3. jobid_next[c] = j /\ told'[c] = <<j>> \o told[c]
  BY <1>1, <1>2, Broadcasts DEF IInv
<1>4. told'[c][1] = j
  BY <1>2, <1>3, Pushes DEF IInv, History, Remembers
<1> QED
  BY <1>3, <1>4, ConstantsAssumption DEF EntitledKeep, Keeps, JobIds, NoJob

-----------------------------------------------------------------------------
(* What job_update works on keeps its type (job.cpp, job_core.cpp,         *)
(* job_send.cpp), for any daemons, miners and length of the history; a     *)
(* history has no entry twice.                                             *)
THEOREM TypeCorrect == Spec => []TypeOK
<1> QED
  BY IInvInit, IInvStep, TypeKept, PTL DEF Spec

(* No miner is sent back to a job of a coin that is not newer than one it  *)
(* had, as far as its history goes back (job.cpp:19,                       *)
(* client_core.cpp:248-283): for any miners, coins, daemons and jobs.      *)
THEOREM MovesForward == Spec => ForwardOnly
<1>1. IInv /\ [Next]_vars =>
        [\A c \in Clients : told'[c] # told[c] =>
           \A i \in DOMAIN told[c] :
              coind[told[c][i]] = coind[told'[c][1]] =>
                 told[c][i] < told'[c][1] \/ i > MaxHistory]_vars
  BY ForwardStep
<1> QED
  BY <1>1, IInvInit, IInvStep, PTL DEF Spec, ForwardOnly

(* A miner whose coin can be mined throughout a job_update is not moved to *)
(* another coin by it (job.cpp:21-25, 208-218, 313-320), if the coin's job *)
(* has room for all miners.                                                *)
THEOREM KeepsCoin ==
  ASSUME RoomForAll
  PROVE  Spec => StaysOnCoin
<1>1. Init => EntitledKeep
  BY DEF Init, EntitledKeep
<1>2. IInv /\ EntitledKeep /\ [Next]_vars => EntitledKeep'
  BY KeepStep
<1>3. IInv /\ EntitledKeep /\ [Next]_vars =>
        [\A c \in entitled : told'[c] # told[c] => coind[told'[c][1]] = coinid[c]]_vars
  BY StayStep
<1> QED
  BY <1>1, <1>2, <1>3, IInvInit, IInvStep, PTL DEF Spec, StaysOnCoin
=============================================================================
