---------------------------- MODULE Locks_proofs ----------------------------
(***************************************************************************)
(* The threads of this server keep to the order of LockOrder, and threads  *)
(* that do never wait for each other in a circle: for any number of        *)
(* connections and daemons.                                                *)
(***************************************************************************)
EXTENDS Locks, TLAPS

(* Whoever waits was allowed to lock what it waits for.                    *)
OrderTypeOK ==
    /\ held \in [Threads -> SUBSET LO!Mutexes]
    /\ wants \in [Threads -> {LO!None} \cup LO!Mutexes]
Disciplined == \A t \in Threads : wants[t] # LO!None => LO!MayLock(t, wants[t], held[t])

LInv == OrderTypeOK /\ Disciplined

-----------------------------------------------------------------------------
(* The mutexes that the order names are different ones.                    *)
LEMMA Distinct ==
  /\ LO!g_job_mutex # LO!g_list_coind /\ LO!g_job_mutex # LO!g_list_client /\ LO!g_job_mutex # LO!g_list_job
  /\ LO!g_list_coind # LO!g_list_client /\ LO!g_list_coind # LO!g_list_job /\ LO!g_list_client # LO!g_list_job
  /\ \A m \in LO!CoindMutexes :
        m # LO!g_job_mutex /\ m # LO!g_list_coind /\ m # LO!g_list_client /\ m # LO!g_list_job
  BY DEF LO!g_job_mutex, LO!g_list_coind, LO!g_list_client, LO!g_list_job, LO!CoindMutexes, LO!coind_mutex

(* What is allowed to a thread is allowed to it with fewer mutexes.        *)
LEMMA MayLockFewer ==
  ASSUME NEW t, NEW l, NEW H, NEW G \in SUBSET H, LO!MayLock(t, l, H)
  PROVE  LO!MayLock(t, l, G)
  BY DEF LO!MayLock

LEMMA LInvInit == LO!Init => LInv
  BY DEF LO!Init, LInv, OrderTypeOK, Disciplined, LO!MayLock

LEMMA LInvStep == LInv /\ [LO!Next]_(LO!vars) => LInv'
<1> SUFFICES ASSUME LInv, [LO!Next]_(LO!vars) PROVE LInv'
  OBVIOUS
<1>1. ASSUME NEW t \in Threads, LO!Step(t) PROVE LInv'
  <2> USE DEF LInv, OrderTypeOK
  <2>0. held' \in [Threads -> SUBSET LO!Mutexes]
    <3>1. CASE LO!Take(t)
      BY <3>1 DEF LO!Take
    <3>2. CASE LO!Lose
      BY <3>2 DEF LO!Lose
    <3> QED
      BY <1>1, <3>1, <3>2 DEF LO!Step
  <2>1. wants' \in [Threads -> {LO!None} \cup LO!Mutexes] /\ held' \in [Threads -> SUBSET LO!Mutexes]
    BY <1>1, <2>0 DEF LO!Step, LO!Wait
  <2>2. wants'[t] # LO!None => LO!MayLock(t, wants'[t], held'[t])
    BY <1>1, <2>0 DEF LO!Step, LO!Wait
  <2>3. ASSUME NEW u \in Threads \ {t}
        PROVE  wants'[u] = wants[u] /\ held'[u] \subseteq held[u]
    BY <1>1 DEF LO!Step, LO!Take, LO!Lose, LO!Wait
  <2>4. ASSUME NEW u \in Threads \ {t}, wants'[u] # LO!None
        PROVE  LO!MayLock(u, wants'[u], held'[u])
    BY <2>3, <2>4, MayLockFewer DEF Disciplined
  <2> QED
    BY <2>1, <2>2, <2>4 DEF Disciplined
<1>2. CASE UNCHANGED LO!vars
  BY <1>2 DEF LInv, OrderTypeOK, Disciplined, LO!vars
<1> QED
  BY <1>1, <1>2 DEF LO!Next

-----------------------------------------------------------------------------
(* In a set of threads that all wait for each other nobody waits for one   *)
(* of the mutexes, one after the other from the last in the order.         *)
LEMMA NoCircle == LInv => LO!NoCircularWait
<1> SUFFICES ASSUME LInv, NEW S \in SUBSET Threads, S # {},
                    \A t \in S : \E u \in S : LO!Waits(t, u)
             PROVE  FALSE
  BY DEF LO!NoCircularWait
<1> USE DEF LInv, OrderTypeOK, Disciplined, LO!Waits
<1>1. ASSUME NEW t \in S
      PROVE  /\ wants[t] \in LO!Mutexes
             /\ LO!MayLock(t, wants[t], held[t])
             /\ \E u \in S : wants[t] \in held[u]
  OBVIOUS
<1>2. ASSUME NEW t \in S PROVE wants[t] \notin LO!Leaves
  BY <1>1 DEF LO!MayLock
<1>3. ASSUME NEW t \in S PROVE wants[t] # LO!g_list_job
  <2> SUFFICES ASSUME wants[t] = LO!g_list_job PROVE FALSE
    OBVIOUS
  <2>1. PICK u \in S : LO!g_list_job \in held[u]
    BY <1>1
  <2>2. u = Job /\ wants[u] = LO!g_list_client /\ LO!g_list_client \notin held[u]
    BY <1>1, <2>1 DEF LO!MayLock
  <2>3. PICK v \in S : LO!g_list_client \in held[v]
    BY <1>1, <2>2
  <2>4. v = Job
    BY <1>1, <2>3 DEF LO!MayLock
  <2> QED
    BY <2>2, <2>3, <2>4
<1>4. ASSUME NEW t \in S PROVE wants[t] \notin LO!CoindMutexes
  <2> SUFFICES ASSUME wants[t] \in LO!CoindMutexes PROVE FALSE
    OBVIOUS
  <2>1. PICK u \in S : wants[t] \in held[u]
    BY <1>1
  <2>2. wants[u] # LO!g_job_mutex
    BY <1>1, <2>1 DEF LO!MayLock
  <2>3. wants[u] # LO!g_list_coind
    BY <1>1, <2>1, Distinct DEF LO!MayLock
  <2>4. ASSUME wants[u] = LO!g_list_client PROVE FALSE
    <3>1. held[u] \subseteq {LO!g_job_mutex, LO!g_list_coind, LO!g_list_job}
      BY <1>1, <2>1, <2>4 DEF LO!MayLock
    <3> QED
      BY <2>1, <3>1, Distinct
  <2>5. wants[u] \notin LO!CoindMutexes
    BY <1>1, <2>1, Distinct DEF LO!MayLock
  <2> QED
    BY <1>1, <1>2, <1>3, <2>2, <2>3, <2>4, <2>5 DEF LO!Mutexes, LO!Leaves
<1>5. ASSUME NEW t \in S PROVE wants[t] # LO!g_list_client
  <2> SUFFICES ASSUME wants[t] = LO!g_list_client PROVE FALSE
    OBVIOUS
  <2>1. PICK u \in S : LO!g_list_client \in held[u]
    BY <1>1
  <2>2. wants[u] # LO!g_job_mutex /\ wants[u] # LO!g_list_client
    BY <1>1, <2>1 DEF LO!MayLock
  <2>3. wants[u] # LO!g_list_coind
    BY <1>1, <2>1, Distinct DEF LO!MayLock
  <2> QED
    BY <1>1, <1>2, <1>3, <1>4, <2>2, <2>3 DEF LO!Mutexes, LO!Leaves
<1>6. ASSUME NEW t \in S PROVE wants[t] # LO!g_list_coind
  <2> SUFFICES ASSUME wants[t] = LO!g_list_coind PROVE FALSE
    OBVIOUS
  <2>1. PICK u \in S : LO!g_list_coind \in held[u]
    BY <1>1
  <2>2. wants[u] # LO!g_job_mutex /\ wants[u] # LO!g_list_coind
    BY <1>1, <2>1 DEF LO!MayLock
  <2> QED
    BY <1>1, <1>2, <1>3, <1>4, <1>5, <2>2 DEF LO!Mutexes, LO!Leaves
<1>7. ASSUME NEW t \in S PROVE wants[t] # LO!g_job_mutex
  <2> SUFFICES ASSUME wants[t] = LO!g_job_mutex PROVE FALSE
    OBVIOUS
  <2>1. PICK u \in S : LO!g_job_mutex \in held[u]
    BY <1>1
  <2>2. wants[u] # LO!g_job_mutex
    BY <1>1, <2>1 DEF LO!MayLock
  <2> QED
    BY <1>1, <1>2, <1>3, <1>4, <1>5, <1>6, <2>2 DEF LO!Mutexes, LO!Leaves
<1> QED
  BY <1>1, <1>2, <1>3, <1>4, <1>5, <1>6, <1>7 DEF LO!Mutexes, LO!Leaves

-----------------------------------------------------------------------------
THEOREM OrderExcludesCircles == LO!Spec => []LO!NoCircularWait
  BY LInvInit, LInvStep, NoCircle, PTL DEF LO!Spec

-----------------------------------------------------------------------------
(* The instructions that follow the order.  Those that may be visited again*)
(* by their owner:                                                         *)
Reentrant == Mutexes \ ({g_job_mutex} \cup RpcMutexes)

JobSections ==
    {<<"job_update">>, <<"job_assign_clients">>, <<"job_assign_clients_left">>,
     <<"clients left over">>, <<"job_broadcast">>}
Sections(t) ==
    {<<"nothing">>, <<"db_update_coinds">>}
    \cup {<<"visit", l>> : l \in Reentrant}
    \cup {<<n, d>> : n \in {"reconnect", "coind_create_job", "block_confirm"}, d \in Coinds}
    \cup (IF t = Job THEN JobSections ELSE {})
Turns(t) ==
    {"coind_create_job", "rpc_call"} \cup (IF t = Job THEN {"job_assign_clients_left"} ELSE {})

(* What thread t owns at most in section f, and around a loop.             *)
Lists(t) == {g_list_coind} \cup (IF t = Job THEN {g_job_mutex, g_list_client} ELSE {})
Around(t, f) ==
    CASE f[1] \in {"nothing", "reconnect"} -> Mutexes
      [] f[1] = "visit" -> {f[2]}
      [] f[1] = "coind_create_job" -> Lists(t) \cup CoindMutexes
      [] f[1] \in {"db_update_coinds", "block_confirm"} -> {g_list_coind}
      [] f[1] = "job_update" -> {g_job_mutex}
      [] f[1] \in {"job_assign_clients", "job_broadcast"} -> {g_job_mutex, g_list_job}
      [] f[1] = "job_assign_clients_left" -> {g_job_mutex, g_list_coind}
      [] f[1] = "clients left over" -> {g_job_mutex, g_list_client}
AroundLoop(t, f) ==
    CASE f = "coind_create_job" -> Lists(t)
      [] f = "job_assign_clients_left" -> {g_job_mutex, g_list_coind}
      [] f = "rpc_call" -> {}

MayVisit(t, l, H) ==
    LO!MayLock(t, l, H) \/ (l \in Reentrant /\ LO!MayLock(t, l, H \ {l}))
MayHold(t, l, f, H) == LO!MayLock(t, l, H) /\ H \cup {l} \subseteq Around(t, f)

(* The instructions that keep to the order for t if it owns H or less.     *)
Good(t, H) ==
    {<<"visit", l>> : l \in {m \in Mutexes : MayVisit(t, m, H)}}
    \cup {<<"hold", p[1], p[2]>> :
              p \in {q \in Mutexes \X Sections(t) : MayHold(t, q[1], q[2], H)}}
    \cup {<<"reconnect", d>> : d \in Coinds}
    \cup {<<"each", f, D>> : f \in {g \in Turns(t) : H \subseteq AroundLoop(t, g)},
                             D \in SUBSET Coinds}

Unlocks == {<<"unlock", l>> : l \in Mutexes}

(* What is unlocked from the i-th instruction of s on, and the sequences   *)
(* all of whose instructions are good with what is unlocked after them.    *)
PendingFrom(s, i) == {l \in Mutexes : \E j \in i .. Len(s) : s[j] = <<"unlock", l>>}
Pending(s) == PendingFrom(s, 1)
Lawful(t) ==
    {s \in Seq(Good(t, {}) \cup Unlocks) :
        \A i \in 1 .. Len(s) : s[i] \in Unlocks \cup Good(t, PendingFrom(s, i + 1))}

-----------------------------------------------------------------------------
(* The names of LockOrder are those of Locks.                              *)
LEMMA SameMutexes ==
  /\ LO!Mutexes = Mutexes /\ LO!CoindMutexes = CoindMutexes
  /\ LO!g_job_mutex = g_job_mutex /\ LO!g_list_coind = g_list_coind
  /\ LO!g_list_client = g_list_client /\ LO!g_list_job = g_list_job
  /\ LO!Leaves = RpcMutexes \cup Others
  BY DEF LO!Mutexes, Mutexes, LO!CoindMutexes, CoindMutexes, LO!RpcMutexes, RpcMutexes,
     LO!Others, Others, LO!Leaves,
     LO!g_job_mutex, g_job_mutex, LO!g_list_coind, g_list_coind, LO!g_list_client, g_list_client,
     LO!g_list_job, g_list_job, LO!coind_mutex, coind_mutex, LO!rpc_mutex, rpc_mutex,
     LO!g_list_remote, g_list_remote, LO!g_list_block, g_list_block, LO!g_list_worker,
     g_list_worker, LO!g_list_share, g_list_share, LO!g_list_submit, g_list_submit,
     LO!g_db_mutex, g_db_mutex, LO!g_nonce1_mutex, g_nonce1_mutex,
     LO!g_job_create_mutex, g_job_create_mutex

LEMMA GoodFewer ==
  ASSUME NEW t, NEW H, NEW G \in SUBSET H
  PROVE  Good(t, H) \subseteq Good(t, G)
<1>1. ASSUME NEW l, MayVisit(t, l, H) PROVE MayVisit(t, l, G)
  <2>1. LO!MayLock(t, l, H) => LO!MayLock(t, l, G)
    BY MayLockFewer
  <2>2. LO!MayLock(t, l, H \ {l}) => LO!MayLock(t, l, G \ {l})
    BY MayLockFewer
  <2> QED
    BY <1>1, <2>1, <2>2 DEF MayVisit
<1>2. ASSUME NEW l, NEW f, MayHold(t, l, f, H) PROVE MayHold(t, l, f, G)
  BY <1>2, MayLockFewer DEF MayHold
<1>3. ASSUME NEW f, H \subseteq AroundLoop(t, f) PROVE G \subseteq AroundLoop(t, f)
  BY <1>3
<1> QED
  BY <1>1, <1>2, <1>3 DEF Good

LEMMA NoUnlocks ==
  ASSUME NEW t, NEW H
  PROVE  Good(t, H) \cap Unlocks = {}
  BY DEF Good, Unlocks

LEMMA PendingIsMutexes == \A s, i : PendingFrom(s, i) \subseteq Mutexes
  BY DEF PendingFrom

(* A lawful sequence without its first instruction.                        *)
LEMMA Pop ==
  ASSUME NEW t, NEW s \in Lawful(t), s # <<>>
  PROVE  /\ Tail(s) \in Lawful(t)
         /\ Head(s) \in Unlocks \cup Good(t, Pending(Tail(s)))
         /\ \A l \in Pending(s) : l \in Pending(Tail(s)) \/ Head(s) = <<"unlock", l>>
<1>1. /\ s \in Seq(Good(t, {}) \cup Unlocks) /\ Len(s) \in Nat /\ Len(s) > 0
      /\ \A i \in 1 .. Len(s) : s[i] \in Unlocks \cup Good(t, PendingFrom(s, i + 1))
  BY DEF Lawful
<1>2. /\ Tail(s) \in Seq(Good(t, {}) \cup Unlocks) /\ Len(Tail(s)) = Len(s) - 1
      /\ \A i \in 1 .. Len(s) - 1 : Tail(s)[i] = s[i + 1]
      /\ Head(s) = s[1]
  BY <1>1
<1>3. ASSUME NEW i \in Nat, i > 0 PROVE PendingFrom(Tail(s), i) = PendingFrom(s, i + 1)
  <2>1. ASSUME NEW l, NEW j \in i .. Len(Tail(s)), Tail(s)[j] = <<"unlock", l>>
        PROVE  \E k \in i + 1 .. Len(s) : s[k] = <<"unlock", l>>
    <3>1. j + 1 \in i + 1 .. Len(s) /\ s[j + 1] = Tail(s)[j]
      BY <1>1, <1>2, <1>3, <2>1
    <3> QED
      BY <2>1, <3>1
  <2>2. ASSUME NEW l, NEW j \in i + 1 .. Len(s), s[j] = <<"unlock", l>>
        PROVE  \E k \in i .. Len(Tail(s)) : Tail(s)[k] = <<"unlock", l>>
    <3>1. j - 1 \in i .. Len(Tail(s)) /\ Tail(s)[j - 1] = s[j]
      BY <1>1, <1>2, <1>3, <2>2
    <3> QED
      BY <2>2, <3>1
  <2> QED
    BY <2>1, <2>2 DEF PendingFrom
<1>4. Pending(Tail(s)) = PendingFrom(s, 2)
  BY <1>3 DEF Pending
<1>5. Head(s) \in Unlocks \cup Good(t, Pending(Tail(s)))
  BY <1>1, <1>2, <1>4
<1>6. ASSUME NEW i \in 1 .. Len(Tail(s))
      PROVE  Tail(s)[i] \in Unlocks \cup Good(t, PendingFrom(Tail(s), i + 1))
  BY <1>1, <1>2, <1>3
<1>7. ASSUME NEW l \in Pending(s) PROVE l \in PendingFrom(s, 2) \/ Head(s) = <<"unlock", l>>
  BY <1>1, <1>2 DEF Pending, PendingFrom
<1> QED
  BY <1>2, <1>4, <1>5, <1>6, <1>7 DEF Lawful

(* A section, or a function, before a lawful sequence.                     *)
LEMMA Push ==
  ASSUME NEW t, NEW H, NEW b \in Seq(Good(t, H)), NEW s \in Lawful(t), Pending(s) \subseteq H
  PROVE  b \o s \in Lawful(t) /\ Pending(s) \subseteq Pending(b \o s)
<1> DEFINE c == b \o s
<1>1. /\ s \in Seq(Good(t, {}) \cup Unlocks) /\ Len(s) \in Nat /\ Len(b) \in Nat
      /\ \A i \in 1 .. Len(s) : s[i] \in Unlocks \cup Good(t, PendingFrom(s, i + 1))
  BY DEF Lawful
<1>2. Good(t, H) \subseteq Good(t, {})
  BY GoodFewer
<1>3. b \in Seq(Good(t, {}) \cup Unlocks)
  BY <1>2
<1>4. /\ c \in Seq(Good(t, {}) \cup Unlocks) /\ Len(c) = Len(b) + Len(s)
      /\ \A i \in 1 .. Len(b) : c[i] = b[i]
      /\ \A i \in Len(b) + 1 .. Len(b) + Len(s) : c[i] = s[i - Len(b)]
  BY <1>1, <1>3
<1> HIDE DEF c
<1>5. ASSUME NEW i \in Nat, i > 0 PROVE PendingFrom(c, Len(b) + i) = PendingFrom(s, i)
  <2>1. ASSUME NEW l, NEW j \in Len(b) + i .. Len(c), c[j] = <<"unlock", l>>
        PROVE  \E k \in i .. Len(s) : s[k] = <<"unlock", l>>
    <3>1. j - Len(b) \in i .. Len(s) /\ s[j - Len(b)] = c[j]
      BY <1>1, <1>4, <1>5, <2>1
    <3> QED
      BY <2>1, <3>1
  <2>2. ASSUME NEW l, NEW j \in i .. Len(s), s[j] = <<"unlock", l>>
        PROVE  \E k \in Len(b) + i .. Len(c) : c[k] = <<"unlock", l>>
    <3>1. j + Len(b) \in Len(b) + i .. Len(c) /\ c[j + Len(b)] = s[j]
      BY <1>1, <1>4, <1>5, <2>2
    <3> QED
      BY <2>2, <3>1
  <2> QED
    BY <2>1, <2>2 DEF PendingFrom
<1>6. ASSUME NEW i \in 1 .. Len(b) + 1 PROVE PendingFrom(c, i) = Pending(s)
  <2>1. ASSUME NEW l \in Mutexes, NEW j \in i .. Len(c), c[j] = <<"unlock", l>>
        PROVE  j \in Len(b) + 1 .. Len(c)
    <3>1. <<"unlock", l>> \in Unlocks
      BY DEF Unlocks
    <3>2. ASSUME j \in 1 .. Len(b) PROVE FALSE
      <4>1. c[j] \in Good(t, H)
        BY <1>1, <1>4, <3>2
      <4> QED
        BY <2>1, <3>1, <4>1, NoUnlocks
    <3> QED
      BY <1>1, <1>4, <3>2
  <2>2. PendingFrom(c, i) \subseteq PendingFrom(c, Len(b) + 1)
    BY <2>1 DEF PendingFrom
  <2>3. Len(b) + 1 .. Len(c) \subseteq i .. Len(c)
    BY <1>1, <1>4
  <2>4. PendingFrom(c, Len(b) + 1) \subseteq PendingFrom(c, i)
    BY <2>3 DEF PendingFrom
  <2>5. PendingFrom(c, Len(b) + 1) = PendingFrom(s, 1)
    BY <1>5
  <2> QED
    BY <2>2, <2>4, <2>5 DEF Pending
<1>7. ASSUME NEW i \in 1 .. Len(c) PROVE c[i] \in Unlocks \cup Good(t, PendingFrom(c, i + 1))
  <2>1. CASE i \in 1 .. Len(b)
    <3>1. PendingFrom(c, i + 1) = Pending(s) /\ c[i] \in Good(t, H)
      BY <1>1, <1>4, <1>6, <2>1
    <3>2. Good(t, H) \subseteq Good(t, Pending(s))
      BY GoodFewer
    <3> QED
      BY <3>1, <3>2
  <2>2. CASE i \in Len(b) + 1 .. Len(c)
    <3>1. c[i] = s[i - Len(b)] /\ i - Len(b) \in 1 .. Len(s)
      BY <1>1, <1>4, <2>2
    <3>2. PendingFrom(c, Len(b) + (i - Len(b) + 1)) = PendingFrom(s, i - Len(b) + 1)
      BY <1>1, <1>5, <3>1
    <3>3. Len(b) + (i - Len(b) + 1) = i + 1
      BY <1>1
    <3> QED
      BY <1>1, <3>1, <3>2, <3>3
  <2> QED
    BY <1>1, <1>4, <2>1, <2>2
<1>8. PendingFrom(c, 1) = Pending(s)
  BY <1>1, <1>6
<1> QED
  BY <1>4, <1>7, <1>8 DEF Lawful, Pending, c

(* The unlock at the end of a section.                                     *)
LEMMA PushUnlock ==
  ASSUME NEW t, NEW l \in Mutexes, NEW s \in Lawful(t)
  PROVE  /\ <<<<"unlock", l>>>> \o s \in Lawful(t)
         /\ Pending(<<<<"unlock", l>>>> \o s) = Pending(s) \cup {l}
<1> DEFINE u == <<"unlock", l>>
           c == <<u>> \o s
<1>1. /\ s \in Seq(Good(t, {}) \cup Unlocks) /\ Len(s) \in Nat
      /\ \A i \in 1 .. Len(s) : s[i] \in Unlocks \cup Good(t, PendingFrom(s, i + 1))
  BY DEF Lawful
<1>2. u \in Unlocks
  BY DEF Unlocks
<1>3. /\ c \in Seq(Good(t, {}) \cup Unlocks) /\ Len(c) = Len(s) + 1
      /\ c[1] = u
      /\ \A i \in 2 .. Len(s) + 1 : c[i] = s[i - 1]
  BY <1>1, <1>2
<1> HIDE DEF c
<1>4. ASSUME NEW i \in Nat, i > 0 PROVE PendingFrom(c, i + 1) = PendingFrom(s, i)
  <2>1. ASSUME NEW m, NEW j \in i + 1 .. Len(c), c[j] = <<"unlock", m>>
        PROVE  \E k \in i .. Len(s) : s[k] = <<"unlock", m>>
    <3>1. j - 1 \in i .. Len(s) /\ s[j - 1] = c[j]
      BY <1>1, <1>3, <1>4, <2>1
    <3> QED
      BY <2>1, <3>1
  <2>2. ASSUME NEW m, NEW j \in i .. Len(s), s[j] = <<"unlock", m>>
        PROVE  \E k \in i + 1 .. Len(c) : c[k] = <<"unlock", m>>
    <3>1. j + 1 \in i + 1 .. Len(c) /\ j + 1 \in 2 .. Len(s) + 1 /\ (j + 1) - 1 = j
      BY <1>1, <1>3, <1>4, <2>2
    <3>2. c[j + 1] = s[(j + 1) - 1]
      BY <1>3, <3>1
    <3> QED
      BY <2>2, <3>1, <3>2
  <2> QED
    BY <2>1, <2>2 DEF PendingFrom
<1>5. ASSUME NEW i \in 1 .. Len(c) PROVE c[i] \in Unlocks \cup Good(t, PendingFrom(c, i + 1))
  <2>1. CASE i = 1
    BY <1>2, <1>3, <2>1
  <2>2. CASE i \in 2 .. Len(s) + 1
    <3>1. c[i] = s[i - 1] /\ i - 1 \in 1 .. Len(s)
      BY <1>1, <1>3, <2>2
    <3>2. PendingFrom(c, i + 1) = PendingFrom(s, i)
      BY <1>4
    <3>3. s[i - 1] \in Unlocks \cup Good(t, PendingFrom(s, (i - 1) + 1)) /\ (i - 1) + 1 = i
      BY <1>1, <3>1
    <3> QED
      BY <3>1, <3>2, <3>3
  <2> QED
    BY <1>1, <1>3, <2>1, <2>2
<1>6. PendingFrom(c, 1) = PendingFrom(c, 2) \cup {l}
  <2>1. ASSUME NEW m, u = <<"unlock", m>> PROVE m = l
    BY <2>1
  <2> QED
    BY <1>1, <1>3, <2>1 DEF PendingFrom
<1>7. PendingFrom(c, 2) = PendingFrom(s, 1)
  BY <1>4
<1> QED
  BY <1>3, <1>5, <1>6, <1>7 DEF Lawful, Pending, c

-----------------------------------------------------------------------------
(* The programs of this server keep to the order.                          *)
LEMMA Then ==
  ASSUME NEW S, NEW A \in SUBSET Seq(S), NEW B \in SUBSET Seq(S)
  PROVE  A ** B \in SUBSET Seq(S)
<1> SUFFICES ASSUME NEW c \in A ** B PROVE c \in Seq(S)
  OBVIOUS
<1>1. PICK a \in A, b \in B : c = a \o b
  BY DEF **
<1>2. a \in Seq(S) /\ b \in Seq(S)
  OBVIOUS
<1> QED
  BY <1>1, <1>2

LEMMA Option ==
  ASSUME NEW S, NEW A \in SUBSET Seq(S)
  PROVE  Perhaps(A) \in SUBSET Seq(S)
<1>1. <<>> \in Seq(S)
  OBVIOUS
<1> QED
  BY <1>1 DEF Perhaps

LEMMA One ==
  ASSUME NEW S, NEW i \in S
  PROVE  {<<i>>} \in SUBSET Seq(S)
  OBVIOUS

LEMMA DistinctMutexes ==
  /\ g_job_mutex # g_list_coind /\ g_job_mutex # g_list_client /\ g_job_mutex # g_list_job
  /\ g_list_coind # g_list_client /\ g_list_coind # g_list_job /\ g_list_client # g_list_job
  /\ \A l \in {g_job_mutex, g_list_coind, g_list_client, g_list_job} :
        l \notin CoindMutexes \cup RpcMutexes \cup Others
  /\ CoindMutexes \cap (RpcMutexes \cup Others) = {}
  /\ RpcMutexes \cap Others = {}
<1>1. ASSUME NEW d PROVE Len(coind_mutex(d)) = 2 /\ Len(rpc_mutex(d)) = 2
  BY DEF coind_mutex, rpc_mutex
<1>2. ASSUME NEW l \in {g_job_mutex, g_list_coind, g_list_client, g_list_job} \cup Others
      PROVE  Len(l) = 1
  BY DEF g_job_mutex, g_list_coind, g_list_client, g_list_job, Others, g_list_remote,
     g_list_block, g_list_worker, g_list_share, g_list_submit, g_db_mutex, g_nonce1_mutex,
     g_job_create_mutex
<1>3. CoindMutexes \cap RpcMutexes = {}
  BY DEF CoindMutexes, RpcMutexes, coind_mutex, rpc_mutex
<1>4. \A l \in CoindMutexes \cup RpcMutexes : Len(l) = 2
  BY <1>1 DEF CoindMutexes, RpcMutexes
<1>5. ASSUME NEW l \in {g_job_mutex, g_list_coind, g_list_client, g_list_job}
      PROVE  l \notin Others
  BY DEF g_job_mutex, g_list_coind, g_list_client, g_list_job, Others, g_list_remote,
     g_list_block, g_list_worker, g_list_share, g_list_submit, g_db_mutex, g_nonce1_mutex,
     g_job_create_mutex
<1>6. /\ g_job_mutex # g_list_coind /\ g_job_mutex # g_list_client /\ g_job_mutex # g_list_job
      /\ g_list_coind # g_list_client /\ g_list_coind # g_list_job
      /\ g_list_client # g_list_job
  BY DEF g_job_mutex, g_list_coind, g_list_client, g_list_job
<1> QED
  BY <1>2, <1>3, <1>4, <1>5, <1>6

LEMMA MayLockIs ==
  ASSUME NEW t, NEW l, NEW H
  PROVE  LO!MayLock(t, l, H) <=>
           /\ l \notin H
           /\ H \cap (RpcMutexes \cup Others) = {}
           /\ l = g_job_mutex => H = {}
           /\ l = g_list_coind => H \subseteq {g_job_mutex}
           /\ l = g_list_client =>
                 H = {} \/ (t = Job /\ H \subseteq {g_job_mutex, g_list_coind, g_list_job})
           /\ l \in CoindMutexes => H \subseteq {g_job_mutex, g_list_coind, g_list_client}
           /\ g_list_client \in H => t = Job
           /\ g_list_job \in H => t = Job /\ l = g_list_client
  BY SameMutexes DEF LO!MayLock

(* Where only lists other than g_list_job, and daemons, are locked, all    *)
(* that comes after them in the order may be.                              *)
Inner(t, H) ==
    /\ H \subseteq {g_job_mutex, g_list_coind, g_list_client} \cup CoindMutexes
    /\ g_list_client \in H => t = Job

LEMMA Names ==
  /\ \A l \in Others : l \in Mutexes /\ l \in Reentrant
  /\ g_job_mutex \in Mutexes
  /\ \A l \in {g_list_coind, g_list_client, g_list_job} : l \in Mutexes /\ l \in Reentrant
  /\ \A d \in Coinds : rpc_mutex(d) \in RpcMutexes /\ rpc_mutex(d) \in Mutexes
                       /\ coind_mutex(d) \in CoindMutexes /\ coind_mutex(d) \in Mutexes
  BY DistinctMutexes DEF Mutexes, Reentrant, RpcMutexes, CoindMutexes

LEMMA VisitMutex ==
  ASSUME NEW t, NEW H, NEW l \in Mutexes, MayVisit(t, l, H)
  PROVE  Visit(l) \in SUBSET Seq(Good(t, H))
<1>1. <<"visit", l>> \in Good(t, H)
  BY DEF Good
<1> QED
  BY <1>1, One DEF Visit

LEMMA HoldMutex ==
  ASSUME NEW t, NEW H, NEW l \in Mutexes, NEW f \in Sections(t), MayHold(t, l, f, H)
  PROVE  Hold(l, f) \in SUBSET Seq(Good(t, H))
<1>1. <<"hold", l, f>> \in Good(t, H)
  <2>1. <<l, f>> \in {q \in Mutexes \X Sections(t) : MayHold(t, q[1], q[2], H)}
    OBVIOUS
  <2> QED
    BY <2>1 DEF Good
<1> QED
  BY <1>1, One DEF Hold

LEMMA Loop ==
  ASSUME NEW t, NEW H, NEW f \in Turns(t), NEW D \in SUBSET Coinds, H \subseteq AroundLoop(t, f)
  PROVE  ForEach(f, D) \in SUBSET Seq(Good(t, H))
<1>1. <<"each", f, D>> \in Good(t, H)
  BY DEF Good
<1> QED
  BY <1>1, One DEF ForEach

LEMMA VisitInner ==
  ASSUME NEW t, NEW H, Inner(t, H), NEW l \in Others \cup {g_list_job}
  PROVE  Visit(l) \in SUBSET Seq(Good(t, H))
<1>1. LO!MayLock(t, l, H)
  BY MayLockIs, DistinctMutexes DEF Inner
<1> QED
  BY <1>1, Names, VisitMutex DEF MayVisit

LEMMA RpcCall ==
  ASSUME NEW t, NEW H, Inner(t, H), NEW d \in Coinds
  PROVE  rpc_call(d) \in SUBSET Seq(Good(t, H))
<1> DEFINE S == Seq(Good(t, H))
<1>1. LO!MayLock(t, rpc_mutex(d), H)
  BY MayLockIs, DistinctMutexes, Names DEF Inner
<1>2. H \subseteq Mutexes
  BY DEF Inner, Mutexes
<1>3. ASSUME NEW f \in {<<"nothing">>, <<"reconnect", d>>}
      PROVE  Hold(rpc_mutex(d), f) \in SUBSET S
  <2>1. f \in Sections(t)
    BY DEF Sections
  <2>2. Around(t, f) = Mutexes
    <3>1. f[1] \in {"nothing", "reconnect"}
      OBVIOUS
    <3> QED
      BY <3>1 DEF Around
  <2> QED
    BY <1>1, <1>2, <2>1, <2>2, Names, HoldMutex DEF MayHold
<1>4. Reconnect(d) \in SUBSET S
  <2>1. <<"reconnect", d>> \in Good(t, H)
    BY DEF Good
  <2> QED
    BY <2>1, One DEF Reconnect
<1> HIDE DEF S
<1>5. /\ Hold(rpc_mutex(d), <<"nothing">>) \in SUBSET S
      /\ Hold(rpc_mutex(d), <<"reconnect", d>>) \in SUBSET S
  BY <1>3
<1>6. Hold(rpc_mutex(d), <<"nothing">>) ** Perhaps(Reconnect(d)) \in SUBSET S
  BY <1>4, <1>5, Then, Option DEF S
<1>7. (Hold(rpc_mutex(d), <<"nothing">>) ** Perhaps(Reconnect(d))
         \cup Hold(rpc_mutex(d), <<"reconnect", d>>)) \in SUBSET S
  BY <1>5, <1>6
<1> QED
  BY <1>7, Option DEF rpc_call, S

LEMMA CreateJob ==
  ASSUME NEW t, NEW H, H \subseteq Lists(t), NEW d \in Coinds
  PROVE  coind_create_job(d) \in SUBSET Seq(Good(t, H))
<1>1. LO!MayLock(t, coind_mutex(d), H)
  BY MayLockIs, DistinctMutexes, Names DEF Lists
<1>2. <<"coind_create_job", d>> \in Sections(t)
  BY DEF Sections
<1>3. Around(t, <<"coind_create_job", d>>) = Lists(t) \cup CoindMutexes
  BY DEF Around
<1>4. Hold(coind_mutex(d), <<"coind_create_job", d>>) \in SUBSET Seq(Good(t, H))
  BY <1>1, <1>2, <1>3, Names, HoldMutex DEF MayHold
<1> QED
  BY <1>4, Option DEF coind_create_job

LEMMA BlockConfirm ==
  ASSUME NEW t, NEW d \in Coinds
  PROVE  block_confirm(d) \in SUBSET Seq(Good(t, {}))
<1>1. LO!MayLock(t, g_list_coind, {})
  BY MayLockIs
<1>2. <<"block_confirm", d>> \in Sections(t)
  BY DEF Sections
<1>3. Around(t, <<"block_confirm", d>>) = {g_list_coind}
  BY DEF Around
<1> QED
  BY <1>1, <1>2, <1>3, Names, HoldMutex DEF MayHold, block_confirm

(* Outside of all sections anything may be visited, ...                    *)
LEMMA VisitFree ==
  ASSUME NEW t, NEW l \in Mutexes
  PROVE  Visit(l) \in SUBSET Seq(Good(t, {}))
<1>1. LO!MayLock(t, l, {})
  BY MayLockIs
<1> QED
  BY <1>1, VisitMutex DEF MayVisit

(* ... and a list locked in which nothing but it is visited.               *)
LEMMA HoldFree ==
  ASSUME NEW t, NEW l \in Reentrant
  PROVE  Hold(l, <<"visit", l>>) \in SUBSET Seq(Good(t, {}))
<1>1. LO!MayLock(t, l, {}) /\ l \in Mutexes
  BY MayLockIs DEF Reentrant
<1>2. <<"visit", l>> \in Sections(t)
  BY DEF Sections
<1>3. Around(t, <<"visit", l>>) = {l}
  BY DEF Around
<1> QED
  BY <1>1, <1>2, <1>3, HoldMutex DEF MayHold

(* The lists a thread goes through, as job_thread has them.                *)
LEMMA VisitClients ==
  ASSUME NEW H, H \subseteq {g_job_mutex, g_list_coind, g_list_job} \/ H \subseteq {g_job_mutex, g_list_client}
  PROVE  Visit(g_list_client) \in SUBSET Seq(Good(Job, H))
<1>1. LO!MayLock(Job, g_list_client, H \ {g_list_client})
  BY MayLockIs, DistinctMutexes
<1> QED
  BY <1>1, Names, VisitMutex DEF MayVisit

LEMMA SectionsFollow ==
  ASSUME NEW t, NEW f \in Sections(t)
  PROVE  Section(f) \in SUBSET Seq(Good(t, Around(t, f)))
<1> DEFINE S == Seq(Good(t, Around(t, f)))
<1>0. /\ \A A, B \in SUBSET S : A ** B \in SUBSET S
      /\ \A A \in SUBSET S : Perhaps(A) \in SUBSET S
  BY Then, Option
<1>1. CASE f = <<"nothing">>
  <2>1. Section(f) = {<<>>}
    BY <1>1 DEF Section
  <2> QED
    BY <2>1
<1>2. CASE f = <<"db_update_coinds">>
  <2>1. Section(f) = ForEach("coind_create_job", Coinds) /\ Around(t, f) = {g_list_coind}
    BY <1>2 DEF Section, Around, db_update_coinds_section
  <2>2. "coind_create_job" \in Turns(t) /\ {g_list_coind} \subseteq AroundLoop(t, "coind_create_job")
    BY DEF Turns, AroundLoop, Lists
  <2> QED
    BY <2>1, <2>2, Loop
<1>3. ASSUME NEW l \in Reentrant, f = <<"visit", l>> PROVE Section(f) \in SUBSET S
  <2>1. Section(f) = Perhaps(Visit(l)) /\ Around(t, f) = {l}
    BY <1>3 DEF Section, Around
  <2>2. LO!MayLock(t, l, {l} \ {l}) /\ l \in Mutexes
    BY MayLockIs DEF Reentrant
  <2>3. Visit(l) \in SUBSET Seq(Good(t, {l}))
    BY <2>2, VisitMutex DEF MayVisit
  <2> QED
    BY <2>1, <2>3, Option
<1>4. ASSUME NEW d \in Coinds, f = <<"reconnect", d>> PROVE Section(f) \in SUBSET S
  <2>1. Section(f) = {<<<<"reconnect", d>>>>}
    BY <1>4 DEF Section, Reconnect
  <2>2. <<"reconnect", d>> \in Good(t, Around(t, f))
    BY DEF Good
  <2> QED
    BY <2>1, <2>2, One
<1>5. ASSUME NEW d \in Coinds, f = <<"coind_create_job", d>> PROVE Section(f) \in SUBSET S
  <2>1. Section(f) = coind_create_job_section(d) /\ Around(t, f) = Lists(t) \cup CoindMutexes
    BY <1>5 DEF Section, Around
  <2>2. Inner(t, Around(t, f))
    BY <2>1, DistinctMutexes DEF Inner, Lists
  <2>3. g_job_create_mutex \in Others
    BY DEF Others
  <2>4. rpc_call(d) \in SUBSET S /\ Visit(g_job_create_mutex) \in SUBSET S /\ Visit(g_list_job) \in SUBSET S
    BY <2>2, <2>3, RpcCall, VisitInner
  <2> HIDE DEF S
  <2>5. Perhaps(Visit(g_job_create_mutex) ** Visit(g_list_job)) \in SUBSET S
    BY <2>4, <1>0
  <2>6. rpc_call(d) ** Perhaps(rpc_call(d)) \in SUBSET S
    BY <2>4, <1>0
  <2> QED
    BY <2>1, <2>5, <2>6, <1>0 DEF coind_create_job_section
<1>6. ASSUME NEW d \in Coinds, f = <<"block_confirm", d>> PROVE Section(f) \in SUBSET S
  <2>1. Section(f) = Perhaps(rpc_call(d)) /\ Around(t, f) = {g_list_coind}
    BY <1>6 DEF Section, Around, block_confirm_section
  <2>2. Inner(t, {g_list_coind})
    BY DistinctMutexes DEF Inner
  <2> QED
    BY <2>1, <2>2, RpcCall, Option
<1>7. ASSUME t = Job, f \in JobSections PROVE Section(f) \in SUBSET S
  <2> DEFINE V == Visit(g_list_client)
  <2>1. CASE f = <<"job_update">>
    <3>1. Section(f) = job_update /\ Around(t, f) = {g_job_mutex}
      BY <2>1 DEF Section, Around
    <3>2. ASSUME NEW l \in {g_list_client, g_list_coind, g_list_job} PROVE LO!MayLock(Job, l, {g_job_mutex})
      BY MayLockIs, DistinctMutexes
    <3>3. /\ <<"job_assign_clients">> \in Sections(Job)
          /\ <<"job_assign_clients_left">> \in Sections(Job)
          /\ <<"clients left over">> \in Sections(Job) /\ <<"job_broadcast">> \in Sections(Job)
      <4>1. JobSections \subseteq Sections(Job)
        BY DEF Sections
      <4> QED
        BY <4>1 DEF JobSections
    <3>4. /\ Around(Job, <<"job_assign_clients">>) = {g_job_mutex, g_list_job}
          /\ Around(Job, <<"job_assign_clients_left">>) = {g_job_mutex, g_list_coind}
          /\ Around(Job, <<"clients left over">>) = {g_job_mutex, g_list_client}
          /\ Around(Job, <<"job_broadcast">>) = {g_job_mutex, g_list_job}
      BY DEF Around
    <3>5. /\ Hold(g_list_job, <<"job_assign_clients">>) \in SUBSET S
          /\ Hold(g_list_coind, <<"job_assign_clients_left">>) \in SUBSET S
          /\ Hold(g_list_client, <<"clients left over">>) \in SUBSET S
          /\ Hold(g_list_job, <<"job_broadcast">>) \in SUBSET S
      BY <1>7, <3>1, <3>2, <3>3, <3>4, Names, HoldMutex DEF MayHold
    <3>6. V \in SUBSET S
      BY <1>7, <3>1, VisitClients
    <3> DEFINE A == Hold(g_list_job, <<"job_assign_clients">>)
               B == Hold(g_list_coind, <<"job_assign_clients_left">>)
               C == Hold(g_list_client, <<"clients left over">>)
               D == Hold(g_list_job, <<"job_broadcast">>)
    <3>7. Section(f) = V ** A ** B ** C ** D
      BY <3>1 DEF job_update
    <3> HIDE DEF S, V, A, B, C, D
    <3>8. V ** A ** B \in SUBSET S
      BY <3>5, <3>6, <1>0 DEF A, B
    <3>9. C \in SUBSET S /\ D \in SUBSET S
      BY <3>5 DEF C, D
    <3> QED
      BY <3>7, <3>8, <3>9, <1>0
  <2>2. CASE f = <<"job_assign_clients">>
    <3>1. Section(f) = job_assign_clients_section /\ Around(t, f) = {g_job_mutex, g_list_job}
      BY <2>2 DEF Section, Around
    <3>2. V \in SUBSET S
      BY <1>7, <3>1, VisitClients
    <3> HIDE DEF S
    <3> QED
      BY <3>1, <3>2, <1>0 DEF job_assign_clients_section
  <2>3. CASE f = <<"job_assign_clients_left">>
    <3> DEFINE L == ForEach("job_assign_clients_left", Coinds)
    <3>1. /\ Section(f) = L ** L ** L
          /\ Around(t, f) = {g_job_mutex, g_list_coind}
      BY <2>3 DEF Section, Around, job_assign_clients_left_section
    <3>2. /\ "job_assign_clients_left" \in Turns(t)
          /\ AroundLoop(t, "job_assign_clients_left") = {g_job_mutex, g_list_coind}
      BY <1>7 DEF Turns, AroundLoop
    <3>3. L \in SUBSET S
      BY <3>1, <3>2, Loop
    <3> HIDE DEF S, L
    <3> QED
      BY <3>1, <3>3, <1>0
  <2>4. CASE f = <<"clients left over">>
    <3>1. Section(f) = clients_left_over_section /\ Around(t, f) = {g_job_mutex, g_list_client}
      BY <2>4 DEF Section, Around
    <3>2. V \in SUBSET S
      BY <1>7, <3>1, VisitClients
    <3>3. ASSUME NEW d \in Coinds PROVE coind_create_job(d) \in SUBSET S
      BY <1>7, <3>1, CreateJob DEF Lists
    <3> HIDE DEF S
    <3>4. ASSUME NEW d \in Coinds PROVE V ** coind_create_job(d) ** V \in SUBSET S
      BY <3>2, <3>3, <1>0
    <3>5. UNION {V ** coind_create_job(d) ** V : d \in Coinds} \in SUBSET S
      BY <3>4
    <3> QED
      BY <3>1, <3>5, <1>0 DEF clients_left_over_section
  <2>5. CASE f = <<"job_broadcast">>
    <3>1. Section(f) = Perhaps(V) /\ Around(t, f) = {g_job_mutex, g_list_job}
      BY <2>5 DEF Section, Around, job_broadcast_section
    <3>2. V \in SUBSET S
      BY <1>7, <3>1, VisitClients
    <3> QED
      BY <3>1, <3>2, Option
  <2> QED
    BY <1>7, <2>1, <2>2, <2>3, <2>4, <2>5 DEF JobSections
<1> QED
  BY <1>1, <1>2, <1>3, <1>4, <1>5, <1>6, <1>7 DEF Sections

LEMMA TurnsFollow ==
  ASSUME NEW t, NEW f \in Turns(t), NEW d \in Coinds
  PROVE  Turn(f, d) \in SUBSET Seq(Good(t, AroundLoop(t, f)))
<1>1. CASE f = "coind_create_job"
  <2>1. Turn(f, d) = coind_create_job(d) /\ AroundLoop(t, f) = Lists(t)
    BY <1>1 DEF Turn, AroundLoop
  <2> QED
    BY <2>1, CreateJob
<1>2. CASE f = "rpc_call"
  <2>1. Turn(f, d) = rpc_call(d) /\ AroundLoop(t, f) = {}
    BY <1>2 DEF Turn, AroundLoop
  <2>2. Inner(t, {})
    BY DEF Inner
  <2> QED
    BY <2>1, <2>2, RpcCall
<1>3. ASSUME t = Job, f = "job_assign_clients_left"
      PROVE  Turn(f, d) \in SUBSET Seq(Good(t, AroundLoop(t, f)))
  <2>1. Turn(f, d) = job_assign_clients_left(d) /\ AroundLoop(t, f) = {g_job_mutex, g_list_coind}
    BY <1>3 DEF Turn, AroundLoop
  <2>2. Visit(g_list_client) \in SUBSET Seq(Good(t, AroundLoop(t, f)))
    BY <1>3, <2>1, VisitClients
  <2>3. Perhaps(Visit(g_list_client)) \in SUBSET Seq(Good(t, AroundLoop(t, f)))
    BY <2>2, Option
  <2> QED
    BY <2>1, <2>2, <2>3, Then DEF job_assign_clients_left
<1> QED
  BY <1>1, <1>2, <1>3 DEF Turns

LEMMA ProgramsFollow ==
  ASSUME NEW t \in Threads
  PROVE  Programs(t) \in SUBSET Seq(Good(t, {}))
<1> DEFINE S == Seq(Good(t, {}))
<1>0. /\ \A A, B \in SUBSET S : A ** B \in SUBSET S
      /\ \A A \in SUBSET S : Perhaps(A) \in SUBSET S
  BY Then, Option
<1>1. /\ \A l \in Mutexes : Visit(l) \in SUBSET S
      /\ \A l \in Reentrant : Hold(l, <<"visit", l>>) \in SUBSET S
  BY VisitFree, HoldFree
<1>2. /\ \A l \in Others \cup {g_list_coind, g_list_client, g_list_job} :
            l \in Mutexes /\ l \in Reentrant
      /\ g_job_mutex \in Mutexes
  BY Names
<1>3. {g_list_remote, g_list_block, g_list_worker, g_list_share, g_list_submit,
       g_db_mutex, g_nonce1_mutex, g_job_create_mutex} = Others
  BY DEF Others
<1>4. ASSUME NEW d \in Coinds
      PROVE  /\ rpc_call(d) \in SUBSET S /\ block_confirm(d) \in SUBSET S
             /\ coind_create_job(d) \in SUBSET S
  <2>1. Inner(t, {})
    BY DEF Inner
  <2> QED
    BY <2>1, RpcCall, BlockConfirm, CreateJob
<1>5. ForEach("coind_create_job", Coinds) \in SUBSET S /\ ForEach("rpc_call", Coinds) \in SUBSET S
  <2>1. {"coind_create_job", "rpc_call"} \subseteq Turns(t)
    BY DEF Turns
  <2> QED
    BY <2>1, Loop
<1>6. CASE t = Main
  <2>1. db_update_coinds \in SUBSET S
    <3>1. LO!MayLock(t, g_list_coind, {})
      BY MayLockIs
    <3>2. <<"db_update_coinds">> \in Sections(t) /\ Around(t, <<"db_update_coinds">>) = {g_list_coind}
      BY DEF Sections, Around
    <3> QED
      BY <3>1, <3>2, Names, HoldMutex DEF MayHold, db_update_coinds
  <2>2. \A l \in Others \cup {g_list_coind, g_list_client, g_list_job} :
            Visit(l) \in SUBSET S /\ object_prune(l) \in SUBSET S
    BY <1>1, <1>2 DEF object_prune
  <2>3. job_signal \in SUBSET S
    BY <1>1, <1>2 DEF job_signal
  <2> HIDE DEF S
  <2>4. /\ Visit(g_list_client) \in SUBSET S /\ Visit(g_list_worker) \in SUBSET S
        /\ Visit(g_list_share) \in SUBSET S /\ Visit(g_list_block) \in SUBSET S
        /\ Visit(g_list_submit) \in SUBSET S
        /\ object_prune(g_list_coind) \in SUBSET S /\ object_prune(g_list_remote) \in SUBSET S
        /\ object_prune(g_list_job) \in SUBSET S /\ object_prune(g_list_client) \in SUBSET S
        /\ object_prune(g_list_block) \in SUBSET S /\ object_prune(g_list_worker) \in SUBSET S
        /\ object_prune(g_list_share) \in SUBSET S /\ object_prune(g_list_submit) \in SUBSET S
    BY <1>3, <2>2
  <2> DEFINE M1 == Visit(g_list_client) ** Visit(g_list_client) ** db_update_coinds
             M2 == M1 ** Visit(g_list_worker) ** Visit(g_list_share)
             M3 == M2 ** Visit(g_list_block) ** Visit(g_list_submit) ** job_signal
             M4 == M3 ** object_prune(g_list_coind) ** object_prune(g_list_remote)
             M5 == M4 ** object_prune(g_list_job) ** object_prune(g_list_client)
             M6 == M5 ** object_prune(g_list_block) ** object_prune(g_list_worker)
             M7 == M6 ** object_prune(g_list_share) ** object_prune(g_list_submit)
  <2>5. Programs(t) = M7
    BY <1>6, ThreadsAssumption DEF Programs, main_turn
  <2>6. M1 \in SUBSET S
    BY <1>0, <2>1, <2>4
  <2> HIDE DEF M1
  <2>7. M2 \in SUBSET S
    BY <1>0, <2>4, <2>6
  <2> HIDE DEF M2
  <2>8. M3 \in SUBSET S
    BY <1>0, <2>3, <2>4, <2>7
  <2> HIDE DEF M3
  <2>9. M4 \in SUBSET S
    BY <1>0, <2>4, <2>8
  <2> HIDE DEF M4
  <2>10. M5 \in SUBSET S
    BY <1>0, <2>4, <2>9
  <2> HIDE DEF M5
  <2>11. M6 \in SUBSET S
    BY <1>0, <2>4, <2>10
  <2> HIDE DEF M6
  <2>12. M7 \in SUBSET S
    BY <1>0, <2>4, <2>11
  <2> QED
    BY <2>5, <2>12 DEF S
<1>7. CASE t = Job
  <2>1. Programs(t) = Hold(g_job_mutex, <<"job_update">>)
    BY <1>7, ThreadsAssumption DEF Programs, job_thread
  <2>2. LO!MayLock(t, g_job_mutex, {})
    BY MayLockIs
  <2>3. <<"job_update">> \in Sections(t)
    BY <1>7 DEF Sections, JobSections
  <2>4. Around(t, <<"job_update">>) = {g_job_mutex}
    BY DEF Around
  <2> QED
    BY <2>1, <2>2, <2>3, <2>4, Names, HoldMutex DEF MayHold
<1>8. CASE t \in Connections
  <2>1. Programs(t) = client_subscribe \cup client_authorize \cup client_submit
                         \cup client_store_stats \cup client_thread_end
                         \cup UNION {client_update_block(d) : d \in Coinds}
    BY <1>8, ThreadsAssumption DEF Programs
  <2>2. /\ Visit(g_list_client) \in SUBSET S /\ Visit(g_list_job) \in SUBSET S
        /\ Visit(g_list_coind) \in SUBSET S /\ Visit(g_list_block) \in SUBSET S
        /\ Visit(g_list_share) \in SUBSET S /\ Visit(g_db_mutex) \in SUBSET S
        /\ Visit(g_nonce1_mutex) \in SUBSET S /\ Visit(g_job_mutex) \in SUBSET S
        /\ Hold(g_list_worker, <<"visit", g_list_worker>>) \in SUBSET S
    BY <1>1, <1>2, <1>3
  <2> HIDE DEF S
  <2>3. client_subscribe \in SUBSET S
    <3>1. Perhaps(Visit(g_list_client) ** Perhaps(Visit(g_list_client))) \in SUBSET S
      BY <1>0, <2>2
    <3> QED
      BY <1>0, <2>2, <3>1 DEF client_subscribe
  <2>4. client_store_stats \in SUBSET S /\ client_thread_end \in SUBSET S
    BY <1>0, <2>2 DEF client_store_stats, client_thread_end
  <2>5. job_send_last \in SUBSET S /\ job_send_jobid \in SUBSET S
    <3>1. job_send_last \in SUBSET S
      BY <1>0, <2>2 DEF job_get_last, job_send_last
    <3> QED
      BY <1>0, <2>2, <3>1 DEF job_send_jobid
  <2>6. client_validate_user_address \in SUBSET S
    <3>1. Visit(g_list_client) ** Perhaps(Visit(g_list_client)) \in SUBSET S
      BY <1>0, <2>2
    <3> QED
      BY <1>0, <1>5, <2>2, <3>1 DEF client_validate_user_address
  <2>7. client_authorize \in SUBSET S
    <3>1. (job_send_last \cup job_send_jobid) ** Visit(g_list_client) \in SUBSET S
      <4>1. job_send_last \cup job_send_jobid \in SUBSET S
        BY <2>5
      <4> QED
        BY <1>0, <2>2, <4>1
    <3>2. Perhaps(Visit(g_db_mutex)
                  \cup (job_send_last \cup job_send_jobid) ** Visit(g_list_client)) \in SUBSET S
      <4>1. Visit(g_db_mutex) \cup (job_send_last \cup job_send_jobid) ** Visit(g_list_client)
              \in SUBSET S
        BY <2>2, <3>1
      <4> QED
        BY <1>0, <4>1
    <3>3. Perhaps(Visit(g_db_mutex)) ** Perhaps(client_validate_user_address) \in SUBSET S
      BY <1>0, <2>2, <2>6
    <3> QED
      BY <1>0, <2>2, <3>2, <3>3 DEF client_authorize
  <2>8. ASSUME NEW d \in Coinds PROVE client_update_block(d) \in SUBSET S
    <3>1. block_confirm(d) ** coind_create_job(d) \in SUBSET S
      BY <1>0, <1>4
    <3>2. Perhaps(ForEach("coind_create_job", Coinds)) \in SUBSET S /\ job_signal \in SUBSET S
      BY <1>0, <1>5, <2>2 DEF job_signal
    <3>3. Perhaps(block_confirm(d) ** coind_create_job(d)
               ** Perhaps(ForEach("coind_create_job", Coinds)) ** job_signal) \in SUBSET S
      BY <1>0, <3>1, <3>2
    <3> QED
      BY <1>0, <2>2, <3>3 DEF client_update_block
  <2>9. client_submit \in SUBSET S
    <3>1. ASSUME NEW d \in Coinds
          PROVE  rpc_call(d) ** Perhaps(Visit(g_list_block) ** Perhaps(block_confirm(d))) \in SUBSET S
      <4>1. Perhaps(Visit(g_list_block) ** Perhaps(block_confirm(d))) \in SUBSET S
        BY <1>0, <1>4, <2>2
      <4> QED
        BY <1>0, <1>4, <4>1
    <3>2. UNION {rpc_call(d) ** Perhaps(Visit(g_list_block) ** Perhaps(block_confirm(d)))
                    : d \in Coinds} \in SUBSET S
      BY <3>1
    <3>3. share_add \in SUBSET S
      BY <1>0, <2>2 DEF share_add
    <3>4. Visit(g_list_job) ** Perhaps(Visit(g_list_share)) \in SUBSET S
      BY <1>0, <2>2
    <3> QED
      BY <1>0, <3>2, <3>3, <3>4 DEF client_submit
  <2>10. UNION {client_update_block(d) : d \in Coinds} \in SUBSET S
    BY <2>8
  <2> QED
    BY <2>1, <2>3, <2>4, <2>7, <2>9, <2>10 DEF S
<1> QED
  BY <1>6, <1>7, <1>8 DEF Threads

-----------------------------------------------------------------------------
(* The inductive invariant: whatever a thread may still go through is      *)
(* lawful, what it owns it will unlock, and nothing is locked twice.       *)
Instructions == {Idle} \cup Unlocks \cup UNION {Good(t, {}) : t \in Threads}

LocksTypeOK ==
    /\ at \in [Threads -> Instructions]
    /\ todo \in [Threads -> SUBSET Seq(Instructions)]
    /\ owner \in [Mutexes -> Threads \cup {Nobody}]
    /\ depth \in [Mutexes -> Nat]

Fits(t, i, s) == (i = Idle /\ s = <<>>) \/ i \in Unlocks \cup Good(t, Pending(s))
Follows(t) ==
    /\ todo[t] \in SUBSET Lawful(t) /\ todo[t] # {}
    /\ \A s \in todo[t] : Fits(t, at[t], s)
Unlocked(t, l) == \A s \in todo[t] : l \in Pending(s) \/ at[t] = <<"unlock", l>>
Owned == \A l \in Mutexes, t \in Threads : owner[l] = t => Unlocked(t, l)
Counted == \A l \in Mutexes : depth[l] = IF owner[l] = Nobody THEN 0 ELSE 1

IInv == LocksTypeOK /\ (\A t \in Threads : Follows(t)) /\ Owned /\ Counted

-----------------------------------------------------------------------------
(* What an instruction is, by its first component.                         *)
LEMMA IsHold ==
  ASSUME NEW t, NEW s, NEW i, Fits(t, i, s), i[1] = "hold"
  PROVE  /\ i[2] \in Mutexes /\ i[3] \in Sections(t) /\ MayHold(t, i[2], i[3], Pending(s))
  BY DEF Fits, Idle, Unlocks, Good

LEMMA IsVisit ==
  ASSUME NEW t, NEW s, NEW i, Fits(t, i, s), i[1] = "visit"
  PROVE  i[2] \in Mutexes /\ MayVisit(t, i[2], Pending(s))
  BY DEF Fits, Idle, Unlocks, Good

LEMMA IsUnlock ==
  ASSUME NEW t, NEW s, NEW i, Fits(t, i, s), i[1] = "unlock"
  PROVE  i[2] \in Mutexes /\ i = <<"unlock", i[2]>>
  BY DEF Fits, Idle, Unlocks, Good

LEMMA IsReconnect ==
  ASSUME NEW t, NEW s, NEW i, Fits(t, i, s), i[1] = "reconnect"
  PROVE  i[2] \in Coinds
  BY DEF Fits, Idle, Unlocks, Good

LEMMA IsEach ==
  ASSUME NEW t, NEW s, NEW i, Fits(t, i, s), i[1] = "each"
  PROVE  i[2] \in Turns(t) /\ i[3] \in SUBSET Coinds /\ Pending(s) \subseteq AroundLoop(t, i[2])
  BY DEF Fits, Idle, Unlocks, Good

LEMMA IsIdle ==
  ASSUME NEW t, NEW s, NEW i, Fits(t, i, s), i[1] = "idle"
  PROVE  i = Idle /\ s = <<>>
  BY DEF Fits, Idle, Unlocks, Good

LEMMA NothingPending == Pending(<<>>) = {}
  BY DEF Pending, PendingFrom

LEMMA NothingLawful == \A t : <<>> \in Lawful(t)
  BY DEF Lawful

(* Where a thread goes on to, and what it will still unlock.               *)
LEMMA GoesOn ==
  ASSUME LocksTypeOK, NEW t \in Threads, NEW A \in SUBSET Lawful(t), GoOn(t, A)
  PROVE  /\ at' \in [Threads -> Instructions] /\ todo' \in [Threads -> SUBSET Seq(Instructions)]
         /\ \A u \in Threads \ {t} : at'[u] = at[u] /\ todo'[u] = todo[u]
         /\ todo'[t] \in SUBSET Lawful(t) /\ todo'[t] # {}
         /\ \A s \in todo'[t] : Fits(t, at'[t], s)
         /\ \A l : (\A s \in A : l \in Pending(s)) => Unlocked(t, l)'
<1>0. Lawful(t) \subseteq Seq(Instructions)
  <2>1. Good(t, {}) \cup Unlocks \subseteq Instructions
    BY DEF Instructions
  <2>2. Seq(Good(t, {}) \cup Unlocks) \subseteq Seq(Instructions)
    BY <2>1
  <2> QED
    BY <2>2 DEF Lawful
<1>1. CASE /\ <<>> \in A
           /\ at' = [at EXCEPT ![t] = Idle]
           /\ todo' = [todo EXCEPT ![t] = {<<>>}]
  <2>1. \A l : ~(\A s \in A : l \in Pending(s))
    BY <1>1, NothingPending
  <2>2. at'[t] = Idle /\ todo'[t] = {<<>>}
    BY <1>1 DEF LocksTypeOK
  <2>3. at' \in [Threads -> Instructions] /\ todo' \in [Threads -> SUBSET Seq(Instructions)]
    BY <1>1, <1>0, NothingLawful DEF LocksTypeOK, Instructions
  <2>4. \A u \in Threads \ {t} : at'[u] = at[u] /\ todo'[u] = todo[u]
    BY <1>1 DEF LocksTypeOK
  <2> QED
    BY <2>1, <2>2, <2>3, <2>4, NothingLawful DEF Fits
<1>2. ASSUME NEW i \in {Head(s) : s \in A \ {<<>>}},
             at' = [at EXCEPT ![t] = i],
             todo' = [todo EXCEPT ![t] = {Tail(s) : s \in {r \in A \ {<<>>} : Head(r) = i}}]
      PROVE  /\ at' \in [Threads -> Instructions] /\ todo' \in [Threads -> SUBSET Seq(Instructions)]
             /\ \A u \in Threads \ {t} : at'[u] = at[u] /\ todo'[u] = todo[u]
             /\ todo'[t] \in SUBSET Lawful(t) /\ todo'[t] # {}
             /\ \A s \in todo'[t] : Fits(t, at'[t], s)
             /\ \A l : (\A s \in A : l \in Pending(s)) => Unlocked(t, l)'
  <2> DEFINE B == {Tail(s) : s \in {r \in A \ {<<>>} : Head(r) = i}}
  <2>1. at'[t] = i /\ todo'[t] = B
    BY <1>2 DEF LocksTypeOK
  <2>2. ASSUME NEW r \in A, r # <<>>, Head(r) = i
        PROVE  /\ Tail(r) \in Lawful(t) /\ Fits(t, i, Tail(r))
               /\ \A l \in Pending(r) : l \in Pending(Tail(r)) \/ i = <<"unlock", l>>
    BY <2>2, Pop DEF Fits
  <2>3. B # {}
    OBVIOUS
  <2>4. B \in SUBSET Lawful(t)
    BY <2>2
  <2>5. \A s \in B : Fits(t, i, s)
    BY <2>2
  <2>10. ASSUME NEW l, \A s \in A : l \in Pending(s)
         PROVE  \A s \in B : l \in Pending(s) \/ i = <<"unlock", l>>
    BY <2>2, <2>10
  <2>6. i \in Instructions
    <3>1. PICK s \in B : Fits(t, i, s)
      BY <2>3, <2>5
    <3>2. Good(t, Pending(s)) \subseteq Good(t, {})
      BY GoodFewer
    <3> QED
      BY <3>1, <3>2 DEF Fits, Instructions
  <2>7. B \in SUBSET Seq(Instructions)
    BY <1>0, <2>4
  <2> HIDE DEF B
  <2>8. at' \in [Threads -> Instructions] /\ todo' \in [Threads -> SUBSET Seq(Instructions)]
    BY <1>2, <2>6, <2>7 DEF LocksTypeOK, B
  <2>9. \A u \in Threads \ {t} : at'[u] = at[u] /\ todo'[u] = todo[u]
    BY <1>2 DEF LocksTypeOK
  <2> QED
    BY <2>1, <2>3, <2>4, <2>5, <2>8, <2>9, <2>10 DEF Unlocked
<1> QED
  BY <1>1, <1>2 DEF GoOn

(* A sequence of A ** B is one of A before one of B.                       *)
LEMMA InThen ==
  ASSUME NEW A, NEW B, NEW c \in A ** B
  PROVE  \E b \in B : c \in A ** {b}
  BY DEF **

LEMMA InThenOne ==
  ASSUME NEW A, NEW b, NEW c \in A ** {b}
  PROVE  \E a \in A : c = a \o b
  BY DEF **

LEMMA ProgramsLawful ==
  ASSUME NEW t \in Threads
  PROVE  Programs(t) \in SUBSET Lawful(t)
<1> SUFFICES ASSUME NEW p \in Programs(t) PROVE p \in Lawful(t)
  OBVIOUS
<1>1. p \in Seq(Good(t, {}))
  BY ProgramsFollow
<1>2. p \o <<>> \in Lawful(t)
  BY <1>1, Push, NothingLawful, NothingPending
<1>3. p \o <<>> = p
  BY <1>1
<1> QED
  BY <1>2, <1>3

(* A section and the unlock at its end, before what follows.               *)
LEMMA SectionLawful ==
  ASSUME NEW t, NEW s \in Lawful(t), NEW l \in Mutexes, NEW f \in Sections(t),
         Pending(s) \cup {l} \subseteq Around(t, f),
         NEW c \in Section(f) ** {<<<<"unlock", l>>>>} ** {s}
  PROVE  c \in Lawful(t) /\ Pending(s) \cup {l} \subseteq Pending(c)
<1> DEFINE u == <<<<"unlock", l>>>>
<1>1. PICK b \in Section(f) : c = (b \o u) \o s
  <2>1. PICK a \in Section(f) ** {u} : c = a \o s
    BY InThenOne
  <2>2. PICK b \in Section(f) : a = b \o u
    BY InThenOne
  <2> QED
    BY <2>1, <2>2
<1>2. b \in Seq(Good(t, Around(t, f)))
  BY SectionsFollow
<1>3. u \o s \in Lawful(t) /\ Pending(u \o s) = Pending(s) \cup {l}
  BY PushUnlock
<1>4. (b \o u) \o s = b \o (u \o s)
  <2>1. u \in Seq({<<"unlock", l>>}) /\ s \in Seq(Good(t, {}) \cup Unlocks)
    BY DEF Lawful
  <2> QED
    BY <1>2, <2>1
<1>5. b \o (u \o s) \in Lawful(t) /\ Pending(u \o s) \subseteq Pending(b \o (u \o s))
  BY <1>2, <1>3, Push
<1> QED
  BY <1>1, <1>3, <1>4, <1>5

(* A turn of a loop and the rest of it, before what follows.               *)
LEMMA TurnLawful ==
  ASSUME NEW t, NEW s \in Lawful(t), NEW f \in Turns(t), NEW D \in SUBSET Coinds, NEW d \in D,
         Pending(s) \subseteq AroundLoop(t, f),
         NEW c \in Turn(f, d) ** ForEach(f, D \ {d}) ** {s}
  PROVE  c \in Lawful(t) /\ Pending(s) \subseteq Pending(c)
<1> DEFINE S == Seq(Good(t, AroundLoop(t, f)))
<1>1. PICK b \in Turn(f, d) ** ForEach(f, D \ {d}) : c = b \o s
  BY InThenOne
<1>2. Turn(f, d) \in SUBSET S /\ ForEach(f, D \ {d}) \in SUBSET S
  BY TurnsFollow, Loop
<1>3. b \in S
  BY <1>2, Then
<1> QED
  BY <1>1, <1>3, Push

-----------------------------------------------------------------------------
(* An invariant step of thread t, which goes on to A.                      *)
LEMMA StepKeeps ==
  ASSUME IInv, NEW t \in Threads, NEW A \in SUBSET Lawful(t), GoOn(t, A),
         owner' \in [Mutexes -> Threads \cup {Nobody}], depth' \in [Mutexes -> Nat], Counted',
         \A l \in Mutexes : owner'[l] = t => \A s \in A : l \in Pending(s),
         \A l \in Mutexes : \A u \in Threads \ {t} : owner'[l] = u => owner[l] = u
  PROVE  IInv' /\ \A u \in Threads \ {t} : at'[u] = at[u]
<1>1. LocksTypeOK
  BY DEF IInv
<1>2. /\ at' \in [Threads -> Instructions] /\ todo' \in [Threads -> SUBSET Seq(Instructions)]
      /\ \A u \in Threads \ {t} : at'[u] = at[u] /\ todo'[u] = todo[u]
      /\ todo'[t] \in SUBSET Lawful(t) /\ todo'[t] # {}
      /\ \A s \in todo'[t] : Fits(t, at'[t], s)
      /\ \A l : (\A s \in A : l \in Pending(s)) => Unlocked(t, l)'
  BY <1>1, GoesOn
<1>3. LocksTypeOK'
  BY <1>2 DEF LocksTypeOK
<1>4. ASSUME NEW u \in Threads PROVE Follows(u)'
  BY <1>2 DEF IInv, Follows
<1>5. ASSUME NEW l \in Mutexes, NEW u \in Threads, owner'[l] = u PROVE Unlocked(u, l)'
  <2>1. CASE u = t
    BY <1>2, <1>5, <2>1
  <2>2. CASE u # t
    <3>1. Unlocked(u, l)
      BY <1>5, <2>2 DEF IInv, Owned
    <3> QED
      BY <1>2, <2>2, <3>1 DEF Unlocked
  <2> QED
    BY <2>1, <2>2
<1> QED
  BY <1>2, <1>3, <1>4, <1>5 DEF IInv, Owned

(* What a thread owns while it is not at an unlock, it will unlock.        *)
LEMMA OwnsPending ==
  ASSUME IInv, NEW t \in Threads, at[t][1] # "unlock", NEW s \in todo[t], NEW l \in Mutexes,
         owner[l] = t
  PROVE  l \in Pending(s)
<1>1. at[t] # <<"unlock", l>>
  OBVIOUS
<1> QED
  BY <1>1 DEF IInv, Owned, Unlocked

LEMMA StartKeeps ==
  ASSUME IInv, NEW t \in Threads, start(t)
  PROVE  IInv' /\ \A u \in Threads \ {t} : at'[u] = at[u]
<1>1. at[t][1] = "idle" /\ GoOn(t, Programs(t)) /\ UNCHANGED <<owner, depth, forsaken>>
  BY DEF start, Does
<1>2. PICK s \in todo[t] : Fits(t, at[t], s)
  BY DEF IInv, Follows
<1>3. s = <<>>
  BY <1>1, <1>2, IsIdle
<1>4. \A l \in Mutexes : owner[l] # t
  BY <1>1, <1>3, OwnsPending, NothingPending
<1> QED
  BY <1>1, <1>4, ProgramsLawful, StepKeeps DEF IInv, LocksTypeOK, Counted

LEMMA TurnKeeps ==
  ASSUME IInv, NEW t \in Threads, turn(t)
  PROVE  IInv' /\ \A u \in Threads \ {t} : at'[u] = at[u]
<1> DEFINE f == at[t][2]
           D == at[t][3]
<1>1. at[t][1] = "each" /\ UNCHANGED <<owner, depth, forsaken>>
  BY DEF turn, Does
<1>2. PICK d \in D : GoOn(t, Turn(f, d) ** ForEach(f, D \ {d}) ** todo[t])
  BY DEF turn, Object
<1> DEFINE A == Turn(f, d) ** ForEach(f, D \ {d}) ** todo[t]
<1>3. ASSUME NEW s \in todo[t]
      PROVE  /\ s \in Lawful(t) /\ f \in Turns(t) /\ D \in SUBSET Coinds
             /\ Pending(s) \subseteq AroundLoop(t, f)
  <2>1. Fits(t, at[t], s) /\ s \in Lawful(t)
    BY DEF IInv, Follows
  <2> QED
    BY <1>1, <2>1, IsEach
<1>4. ASSUME NEW c \in A
      PROVE  \E s \in todo[t] : c \in Lawful(t) /\ Pending(s) \subseteq Pending(c)
  <2>1. PICK s \in todo[t] : c \in Turn(f, d) ** ForEach(f, D \ {d}) ** {s}
    BY InThen
  <2>2. c \in Lawful(t) /\ Pending(s) \subseteq Pending(c)
    BY <1>3, <2>1, TurnLawful
  <2> QED
    BY <2>2
<1>5. A \in SUBSET Lawful(t)
  BY <1>4
<1>6. ASSUME NEW l \in Mutexes, owner[l] = t, NEW c \in A PROVE l \in Pending(c)
  <2>1. \A s \in todo[t] : l \in Pending(s)
    BY <1>1, <1>6, OwnsPending
  <2> QED
    BY <1>4, <2>1
<1> HIDE DEF A
<1>7. GoOn(t, A)
  BY <1>2 DEF A
<1> QED
  BY <1>1, <1>5, <1>6, <1>7, StepKeeps DEF IInv, LocksTypeOK, Counted

(* ... and then nobody owned the mutex.                                    *)
LEMMA LockKeeps ==
  ASSUME IInv, NEW t \in Threads, lock(t)
  PROVE  /\ IInv' /\ \A u \in Threads \ {t} : at'[u] = at[u]
         /\ at[t][2] \in Mutexes /\ owner[at[t][2]] = Nobody
<1> DEFINE l == at[t][2]
           f == at[t][3]
           A == Section(f) ** {<<<<"unlock", l>>>>} ** todo[t]
<1>1. /\ at[t][1] = "hold" /\ owner' = [owner EXCEPT ![l] = t]
      /\ depth' = [depth EXCEPT ![l] = depth[l] + 1] /\ GoOn(t, A)
      /\ (owner[l] = Nobody \/ (owner[l] = t /\ l # g_job_mutex))
  BY DEF lock, Does, Object, MustWait
<1>2. ASSUME NEW s \in todo[t]
      PROVE  /\ s \in Lawful(t) /\ l \in Mutexes /\ f \in Sections(t)
             /\ LO!MayLock(t, l, Pending(s)) /\ Pending(s) \cup {l} \subseteq Around(t, f)
  <2>1. Fits(t, at[t], s) /\ s \in Lawful(t)
    BY DEF IInv, Follows
  <2> QED
    BY <1>1, <2>1, IsHold DEF MayHold
<1>3. PICK s0 \in todo[t] : TRUE
  BY DEF IInv, Follows
<1>4. l \in Mutexes
  BY <1>2, <1>3
<1>5. owner[l] # t
  <2>1. l \notin Pending(s0)
    BY <1>2, MayLockIs
  <2> QED
    BY <1>1, <1>4, <2>1, OwnsPending
<1>6. owner[l] = Nobody
  BY <1>1, <1>5
<1>7. ASSUME NEW c \in A
      PROVE  \E s \in todo[t] : c \in Lawful(t) /\ Pending(s) \cup {l} \subseteq Pending(c)
  <2>1. PICK s \in todo[t] : c \in Section(f) ** {<<<<"unlock", l>>>>} ** {s}
    BY InThen
  <2>2. s \in Lawful(t) /\ l \in Mutexes /\ f \in Sections(t) /\ Pending(s) \cup {l} \subseteq Around(t, f)
    BY <1>2
  <2> HIDE DEF A, l, f
  <2>3. c \in Lawful(t) /\ Pending(s) \cup {l} \subseteq Pending(c)
    BY <2>1, <2>2, SectionLawful
  <2> QED
    BY <2>3
<1>8. A \in SUBSET Lawful(t)
  BY <1>7
<1>9. owner' \in [Mutexes -> Threads \cup {Nobody}] /\ depth' \in [Mutexes -> Nat] /\ Counted'
  <2>1. /\ owner \in [Mutexes -> Threads \cup {Nobody}] /\ depth \in [Mutexes -> Nat]
        /\ depth[l] = 0 /\ Nobody \notin Threads
    BY <1>4, <1>6, ThreadsAssumption DEF IInv, LocksTypeOK, Counted
  <2>2. \A m \in Mutexes : /\ owner'[m] = IF m = l THEN t ELSE owner[m]
                           /\ depth'[m] = IF m = l THEN 1 ELSE depth[m]
    BY <1>1, <2>1
  <2>3. owner' \in [Mutexes -> Threads \cup {Nobody}]
    BY <1>1, <2>1
  <2>4. depth' \in [Mutexes -> Nat]
    BY <1>1, <1>4, <2>1
  <2>5. Counted'
    BY <2>1, <2>2 DEF IInv, Counted
  <2> QED
    BY <2>3, <2>4, <2>5
<1>10. ASSUME NEW m \in Mutexes, owner'[m] = t, NEW c \in A PROVE m \in Pending(c)
  <2>1. CASE m = l
    BY <1>7, <2>1
  <2>2. CASE m # l
    <3>1. owner[m] = t
      BY <1>1, <1>10, <2>2 DEF IInv, LocksTypeOK
    <3>2. \A s \in todo[t] : m \in Pending(s)
      BY <1>1, <3>1, OwnsPending
    <3> QED
      BY <1>7, <3>2
  <2> QED
    BY <2>1, <2>2
<1>11. ASSUME NEW m \in Mutexes, NEW u \in Threads \ {t}, owner'[m] = u PROVE owner[m] = u
  BY <1>1, <1>11 DEF IInv, LocksTypeOK
<1> HIDE DEF A
<1>12. GoOn(t, A)
  BY <1>1 DEF A
<1>13. IInv' /\ \A u \in Threads \ {t} : at'[u] = at[u]
  BY <1>8, <1>9, <1>10, <1>11, <1>12, StepKeeps
<1> QED
  BY <1>4, <1>6, <1>13

LEMMA VisitKeeps ==
  ASSUME IInv, NEW t \in Threads, visit(t)
  PROVE  IInv' /\ \A u \in Threads \ {t} : at'[u] = at[u]
<1>1. at[t][1] = "visit" /\ GoOn(t, todo[t]) /\ UNCHANGED <<owner, depth, forsaken>>
  BY DEF visit, Does
<1>2. todo[t] \in SUBSET Lawful(t)
  BY DEF IInv, Follows
<1>3. \A l \in Mutexes : owner[l] = t => \A s \in todo[t] : l \in Pending(s)
  BY <1>1, OwnsPending
<1> QED
  BY <1>1, <1>2, <1>3, StepKeeps DEF IInv, LocksTypeOK, Counted

LEMMA UnlockKeeps ==
  ASSUME IInv, NEW t \in Threads, unlock(t)
  PROVE  /\ IInv' /\ \A u \in Threads \ {t} : at'[u] = at[u]
         /\ \A m \in Mutexes : owner'[m] = owner[m] \/ (owner[m] = t /\ owner'[m] = Nobody)
<1> DEFINE l == at[t][2]
<1>1. at[t][1] = "unlock" /\ GoOn(t, todo[t])
  BY DEF unlock, Does
<1>2. l \in Mutexes /\ at[t] = <<"unlock", l>>
  <2>1. PICK s \in todo[t] : Fits(t, at[t], s)
    BY DEF IInv, Follows
  <2> QED
    BY <1>1, <2>1, IsUnlock
<1>3. todo[t] \in SUBSET Lawful(t)
  BY DEF IInv, Follows
<1>4. ASSUME NEW m \in Mutexes, m # l, owner[m] = t, NEW s \in todo[t] PROVE m \in Pending(s)
  <2>1. at[t] # <<"unlock", m>>
    BY <1>2, <1>4
  <2> QED
    BY <1>4, <2>1 DEF IInv, Owned, Unlocked
<1>5. CASE owner[l] # t
  <2>1. UNCHANGED <<owner, depth>>
    BY <1>5 DEF unlock, Object
  <2>2. \A m \in Mutexes : owner'[m] = t => \A s \in todo[t] : m \in Pending(s)
    BY <1>4, <1>5, <2>1
  <2>3. IInv' /\ \A u \in Threads \ {t} : at'[u] = at[u]
    BY <1>1, <1>3, <2>1, <2>2, StepKeeps DEF IInv, LocksTypeOK, Counted
  <2> QED
    BY <2>1, <2>3
<1>6. CASE owner[l] = t
  <2>1. /\ owner \in [Mutexes -> Threads \cup {Nobody}] /\ depth \in [Mutexes -> Nat]
        /\ depth[l] = 1 /\ Nobody \notin Threads
    BY <1>2, <1>6, ThreadsAssumption DEF IInv, LocksTypeOK, Counted
  <2>2. owner' = [owner EXCEPT ![l] = Nobody] /\ depth' = [depth EXCEPT ![l] = depth[l] - 1]
    BY <1>6, <2>1 DEF unlock, Object
  <2>3. \A m \in Mutexes : /\ owner'[m] = IF m = l THEN Nobody ELSE owner[m]
                           /\ depth'[m] = IF m = l THEN 0 ELSE depth[m]
    BY <2>1, <2>2
  <2>4. owner' \in [Mutexes -> Threads \cup {Nobody}] /\ depth' \in [Mutexes -> Nat] /\ Counted'
    <3>1. owner' \in [Mutexes -> Threads \cup {Nobody}]
      BY <2>1, <2>2
    <3>2. depth' \in [Mutexes -> Nat]
      BY <1>2, <2>1, <2>2
    <3>3. Counted'
      BY <2>3 DEF IInv, Counted
    <3> QED
      BY <3>1, <3>2, <3>3
  <2>5. \A m \in Mutexes : owner'[m] = t => \A s \in todo[t] : m \in Pending(s)
    BY <1>4, <2>1, <2>3
  <2>6. \A m \in Mutexes : \A u \in Threads \ {t} : owner'[m] = u => owner[m] = u
    BY <2>1, <2>3
  <2>7. IInv' /\ \A u \in Threads \ {t} : at'[u] = at[u]
    BY <1>1, <1>3, <2>4, <2>5, <2>6, StepKeeps
  <2> QED
    BY <1>6, <2>3, <2>7
<1> QED
  BY <1>5, <1>6

LEMMA ConnectKeeps ==
  ASSUME IInv, NEW t \in Threads, rpc_connect(t)
  PROVE  /\ IInv' /\ \A u \in Threads \ {t} : at'[u] = at[u]
         /\ \A m \in Mutexes : owner'[m] = owner[m] \/ (m \in RpcMutexes /\ owner'[m] = Nobody)
<1> DEFINE l == rpc_mutex(at[t][2])
<1>1. /\ at[t][1] = "reconnect" /\ GoOn(t, todo[t])
      /\ owner' = [owner EXCEPT ![l] = Nobody] /\ depth' = [depth EXCEPT ![l] = 0]
  BY DEF rpc_connect, Does, Object
<1>2. l \in Mutexes /\ l \in RpcMutexes
  <2>1. PICK s \in todo[t] : Fits(t, at[t], s)
    BY DEF IInv, Follows
  <2>2. at[t][2] \in Coinds
    BY <1>1, <2>1, IsReconnect
  <2> QED
    BY <2>2, Names
<1>3. todo[t] \in SUBSET Lawful(t)
  BY DEF IInv, Follows
<1>4. /\ owner \in [Mutexes -> Threads \cup {Nobody}] /\ depth \in [Mutexes -> Nat]
      /\ Nobody \notin Threads
  BY ThreadsAssumption DEF IInv, LocksTypeOK
<1>5. \A m \in Mutexes : /\ owner'[m] = IF m = l THEN Nobody ELSE owner[m]
                         /\ depth'[m] = IF m = l THEN 0 ELSE depth[m]
  BY <1>1, <1>4
<1>6. owner' \in [Mutexes -> Threads \cup {Nobody}] /\ depth' \in [Mutexes -> Nat] /\ Counted'
  BY <1>1, <1>4, <1>5 DEF IInv, Counted
<1>7. \A m \in Mutexes : owner'[m] = t => \A s \in todo[t] : m \in Pending(s)
  BY <1>1, <1>4, <1>5, OwnsPending
<1>8. \A m \in Mutexes : \A u \in Threads \ {t} : owner'[m] = u => owner[m] = u
  BY <1>4, <1>5
<1>9. IInv' /\ \A u \in Threads \ {t} : at'[u] = at[u]
  BY <1>1, <1>3, <1>6, <1>7, <1>8, StepKeeps
<1> QED
  BY <1>2, <1>5, <1>9

LEMMA InitKeeps == Init => IInv
<1> SUFFICES ASSUME Init PROVE IInv
  OBVIOUS
<1>1. LocksTypeOK
  <2>1. <<>> \in Seq(Instructions) /\ Idle \in Instructions
    BY DEF Instructions
  <2> QED
    BY <2>1 DEF Init, LocksTypeOK
<1>2. ASSUME NEW t \in Threads PROVE Follows(t)
  BY NothingLawful DEF Init, Follows, Fits
<1>3. Owned
  BY ThreadsAssumption DEF Init, Owned
<1>4. Counted
  BY DEF Init, Counted
<1> QED
  BY <1>1, <1>2, <1>3, <1>4 DEF IInv

LEMMA StepInv == IInv /\ [Next]_vars => IInv'
<1> SUFFICES ASSUME IInv, [Next]_vars PROVE IInv'
  OBVIOUS
<1>1. ASSUME NEW t \in Threads, Step(t) PROVE IInv'
  BY <1>1, StartKeeps, TurnKeeps, LockKeeps, VisitKeeps, UnlockKeeps, ConnectKeeps DEF Step
<1>2. CASE UNCHANGED vars
  BY <1>2 DEF IInv, LocksTypeOK, Follows, Owned, Unlocked, Counted, vars
<1> QED
  BY <1>1, <1>2 DEF Next

-----------------------------------------------------------------------------
(* What waits for nothing is no mutex.                                     *)
LEMMA NoneIsNoMutex == LO!None = <<"none">> /\ LO!None \notin Mutexes
<1>1. ASSUME NEW l \in CoindMutexes \cup RpcMutexes PROVE l # <<"none">>
  BY DEF CoindMutexes, RpcMutexes, coind_mutex, rpc_mutex
<1>2. ASSUME NEW l \in {g_job_mutex, g_list_coind, g_list_client, g_list_job} \cup Others
      PROVE  l # <<"none">>
  BY DEF g_job_mutex, g_list_coind, g_list_client, g_list_job, Others, g_list_remote,
     g_list_block, g_list_worker, g_list_share, g_list_submit, g_db_mutex, g_nonce1_mutex,
     g_job_create_mutex
<1> QED
  BY <1>1, <1>2 DEF LO!None, Mutexes

(* A thread at a lock or a visit may lock that mutex with what it owns,    *)
(* unless it owns the mutex itself, which then may be locked again.        *)
LEMMA AtLock ==
  ASSUME IInv, NEW t \in Threads, Locking(t)
  PROVE  /\ at[t][2] \in Mutexes
         /\ \/ owner[at[t][2]] # t /\ LO!MayLock(t, at[t][2], held[t])
            \/ at[t][2] \in Reentrant /\ owner[at[t][2]] = t
<1> DEFINE l == at[t][2]
<1>1. at[t][1] \in {"hold", "visit"}
  BY DEF Locking, Does
<1>2. PICK s \in todo[t] : Fits(t, at[t], s)
  BY DEF IInv, Follows
<1>3. l \in Mutexes /\ MayVisit(t, l, Pending(s))
  BY <1>1, <1>2, IsHold, IsVisit DEF MayHold, MayVisit
<1>4. held[t] \subseteq Pending(s)
  BY <1>1, OwnsPending DEF held
<1>5. CASE LO!MayLock(t, l, Pending(s))
  <2>1. LO!MayLock(t, l, held[t])
    BY <1>4, <1>5, MayLockFewer
  <2>2. l \notin held[t]
    BY <2>1, MayLockIs
  <2> QED
    BY <1>3, <2>1, <2>2 DEF held
<1>6. CASE l \in Reentrant /\ LO!MayLock(t, l, Pending(s) \ {l})
  <2>1. CASE owner[l] # t
    <3>1. held[t] \subseteq Pending(s) \ {l}
      BY <1>4, <2>1 DEF held
    <3>2. LO!MayLock(t, l, held[t])
      BY <1>6, <3>1, MayLockFewer
    <3> QED
      BY <1>3, <2>1, <3>2
  <2>2. CASE owner[l] = t
    BY <1>3, <1>6, <2>2
  <2> QED
    BY <2>1, <2>2
<1> QED
  BY <1>3, <1>5, <1>6 DEF MayVisit

(* So the invariant is that of the order.                                  *)
LEMMA Orderly == IInv => LInv
<1> SUFFICES ASSUME IInv PROVE LInv
  OBVIOUS
<1>1. ASSUME NEW t \in Threads
      PROVE  wants[t] = LO!None \/ (wants[t] \in Mutexes /\ LO!MayLock(t, wants[t], held[t]))
  <2>1. CASE Locking(t) /\ (owner[Object(t)] # t \/ Object(t) = g_job_mutex)
    <3>1. wants[t] = at[t][2]
      BY <2>1 DEF wants, Object
    <3>2. g_job_mutex \notin Reentrant
      BY DEF Reentrant
    <3> QED
      BY <2>1, <3>1, <3>2, AtLock DEF Object
  <2>2. CASE ~(Locking(t) /\ (owner[Object(t)] # t \/ Object(t) = g_job_mutex))
    BY <2>2, NoneIsNoMutex DEF wants
  <2> QED
    BY <2>1, <2>2
<1>2. held \in [Threads -> SUBSET Mutexes]
  BY DEF held
<1>3. wants \in [Threads -> {LO!None} \cup Mutexes]
  <2>1. wants = [t \in Threads |-> wants[t]]
    BY DEF wants
  <2> QED
    BY <1>1, <2>1
<1> QED
  BY <1>1, <1>2, <1>3, SameMutexes DEF LInv, OrderTypeOK, Disciplined

-----------------------------------------------------------------------------
(* What a step leaves to the other threads, and what it takes.             *)
LEMMA Effects ==
  ASSUME IInv, NEW t \in Threads, Step(t)
  PROVE  /\ \A u \in Threads \ {t} : at'[u] = at[u]
         /\ \A m \in Mutexes :
               \/ owner'[m] = owner[m]
               \/ owner[m] = t /\ owner'[m] = Nobody
               \/ m \in RpcMutexes /\ owner'[m] = Nobody
               \/ lock(t) /\ m = at[t][2] /\ owner[m] = Nobody /\ owner'[m] = t
<1>1. ASSUME start(t) \/ turn(t) \/ visit(t)
      PROVE  owner' = owner /\ \A u \in Threads \ {t} : at'[u] = at[u]
  BY <1>1, StartKeeps, TurnKeeps, VisitKeeps DEF start, turn, visit
<1>2. CASE lock(t)
  <2>1. /\ at[t][2] \in Mutexes /\ owner[at[t][2]] = Nobody
        /\ \A u \in Threads \ {t} : at'[u] = at[u]
    BY <1>2, LockKeeps
  <2>2. owner' = [owner EXCEPT ![at[t][2]] = t] /\ owner \in [Mutexes -> Threads \cup {Nobody}]
    BY <1>2 DEF lock, Object, IInv, LocksTypeOK
  <2> QED
    BY <1>2, <2>1, <2>2
<1>3. CASE unlock(t)
  BY <1>3, UnlockKeeps
<1>4. CASE rpc_connect(t)
  BY <1>4, ConnectKeeps
<1> QED
  BY <1>1, <1>2, <1>3, <1>4 DEF Step

LEMMA OrderlyNext == IInv' => LInv'
  BY Orderly, PTL

(* A step of this server is one of the order.                              *)
LEMMA StepOrders ==
  ASSUME IInv, IInv', NEW t \in Threads, Step(t)
  PROVE  LO!Step(t)
<1>1. Nobody \notin Threads
  BY ThreadsAssumption
<1>2. /\ held \in [Threads -> SUBSET Mutexes] /\ held' \in [Threads -> SUBSET Mutexes]
      /\ \A u \in Threads : \A m \in Mutexes : /\ m \in held[u] <=> owner[m] = u
                                               /\ m \in held'[u] <=> owner'[m] = u
  BY DEF held
<1>3. ASSUME NEW u \in Threads \ {t} PROVE held'[u] \subseteq held[u]
  BY <1>1, <1>2, Effects
<1>4. LO!Take(t) \/ LO!Lose
  <2>1. CASE lock(t)
    <3> DEFINE l == at[t][2]
    <3>1. l \in Mutexes /\ owner[l] = Nobody
      BY <2>1, LockKeeps
    <3>2. owner' = [owner EXCEPT ![l] = t] /\ owner \in [Mutexes -> Threads \cup {Nobody}]
      BY <2>1 DEF lock, Object, IInv, LocksTypeOK
    <3>3. wants[t] = l
      BY <1>1, <2>1, <3>1 DEF wants, lock, Locking, Object
    <3>4. held' = [held EXCEPT ![t] = held[t] \cup {l}]
      <4>1. ASSUME NEW u \in Threads
            PROVE  held'[u] = IF u = t THEN held[u] \cup {l} ELSE held[u]
        <5>1. \A m \in Mutexes :
                 m \in held'[u] <=> m \in IF u = t THEN held[u] \cup {l} ELSE held[u]
          BY <1>1, <1>2, <3>1, <3>2
        <5>2. held'[u] \subseteq Mutexes /\ held[u] \cup {l} \subseteq Mutexes
          BY <1>2, <3>1
        <5> QED
          BY <5>1, <5>2
      <4> QED
        BY <1>2, <4>1
    <3>5. \A u \in Threads : l \notin held[u]
      BY <1>1, <1>2, <3>1
    <3> QED
      BY <3>1, <3>3, <3>4, <3>5, NoneIsNoMutex DEF LO!Take
  <2>2. CASE ~lock(t)
    <3>1. \A u \in Threads : held'[u] \subseteq held[u]
      BY <1>1, <1>2, <2>2, Effects
    <3> QED
      BY <1>2, <3>1, SameMutexes DEF LO!Lose
  <2> QED
    BY <2>1, <2>2
<1>5. LO!Wait(t)
  <2>1. ASSUME NEW u \in Threads \ {t} PROVE wants'[u] = wants[u]
    <3>1. at'[u] = at[u]
      BY Effects
    <3>2. Locking(u)' = Locking(u) /\ Object(u)' = Object(u)
      BY <3>1 DEF Locking, Does, Object
    <3>3. ASSUME Locking(u) PROVE (owner'[at[u][2]] = u) <=> (owner[at[u][2]] = u)
      <4>1. /\ at[u][2] \in Mutexes
            /\ at[u][2] \in RpcMutexes => owner[at[u][2]] # u
        BY <3>3, AtLock DEF Reentrant
      <4> QED
        BY <1>1, <4>1, Effects
    <3> QED
      BY <3>2, <3>3 DEF wants, Object
  <2>2. wants' = [wants EXCEPT ![t] = wants'[t]]
    <3>1. wants' = [u \in Threads |-> wants'[u]] /\ wants = [u \in Threads |-> wants[u]]
      BY DEF wants
    <3> QED
      BY <2>1, <3>1
  <2>3. wants'[t] = LO!None \/ (wants'[t] \in LO!Mutexes /\ LO!MayLock(t, wants'[t], held'[t]))
    BY OrderlyNext DEF LInv, OrderTypeOK, Disciplined
  <2> QED
    BY <2>2, <2>3 DEF LO!Wait
<1> QED
  BY <1>4, <1>5 DEF LO!Step

LEMMA InitOrders == Init => LO!Init
<1> SUFFICES ASSUME Init PROVE LO!Init
  OBVIOUS
<1>1. held = [t \in Threads |-> {}]
  BY ThreadsAssumption DEF Init, held
<1>2. LInv
  BY InitKeeps, Orderly
<1> QED
  BY <1>1, <1>2 DEF LO!Init, LInv, OrderTypeOK

LEMMA NextOrders == IInv /\ IInv' /\ [Next]_vars => [LO!Next]_(LO!vars)
<1> SUFFICES ASSUME IInv, IInv', [Next]_vars PROVE [LO!Next]_(LO!vars)
  OBVIOUS
<1>1. CASE Next
  BY <1>1, StepOrders DEF Next, LO!Next
<1>2. CASE UNCHANGED vars
  BY <1>2 DEF vars, LO!vars, held, wants, Locking, Does, Object
<1> QED
  BY <1>1, <1>2

-----------------------------------------------------------------------------
THEOREM Inductive == Spec => []IInv
  BY InitKeeps, StepInv, PTL DEF Spec

THEOREM LocksKeepOrder == Spec => KeepsOrder
  BY InitOrders, NextOrders, Inductive, PTL DEF Spec, KeepsOrder, LO!Spec

THEOREM NoDeadlock == Spec => []NoCircularWait
<1>1. IInv => NoCircularWait
  BY Orderly, NoCircle DEF NoCircularWait
<1> QED
  BY <1>1, Inductive, PTL
=============================================================================
