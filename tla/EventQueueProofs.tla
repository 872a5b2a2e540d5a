-------------------------- MODULE EventQueueProofs --------------------------
(***************************************************************************)
(* Proofs about EventQueue, for any finite set of threads and any bounds.  *)
(***************************************************************************)
EXTENDS EventQueue, FiniteSetTheorems, SequenceTheorems, TLAPS

USE DEF NULL, Lists

Core == TypeOK /\ MutexInv /\ PhaseInv /\ ListIntact

LEMMA CoreInit == Init => Core
<1> USE ConstantsAssumption DEF Init
<1>1. Init => TypeOK
  <2> SUFFICES ASSUME Init PROVE TypeOK
    OBVIOUS
  <2>1. Garbage \in Items /\ <<>> \in Seq(Items)
    BY DEF Items, Garbage, Procs
  <2>2. item \in [Lists -> [Nodes -> Items]]
    BY <2>1
  <2>3. delivered \in [Lists -> Seq(Items)]
    BY <2>1
  <2>4. up \in BOOLEAN /\ fault \in BOOLEAN
    OBVIOUS
  <2>5. /\ head \in [Lists -> Nodes \cup {NULL}]
        /\ end \in [Lists -> Nodes \cup {NULL}]
        /\ next \in [Lists -> [Nodes -> Nodes \cup {NULL}]]
        /\ fresh \in [Lists -> 0 .. MaxEvents]
        /\ freed \in [Lists -> SUBSET Nodes]
    BY DEF Nodes
  <2>6. /\ pc \in [Procs -> {"idle", "alloc", "fill", "post"}]
        /\ target \in [Procs -> Lists]
        /\ res \in [Procs -> Nodes \cup {NULL}]
        /\ sent \in [Procs -> [Lists -> Nat]]
    OBVIOUS
  <2>7. QED
    BY <2>2, <2>3, <2>4, <2>5, <2>6 DEF TypeOK
<1>2. Init => MutexInv
  BY DEF MutexInv
<1>3. Init => PhaseInv
  BY DEF PhaseInv
<1>4. Init => ListIntact
  BY DEF ListIntact, Popped, MidPop, Nodes
<1>5. QED
  BY <1>1, <1>2, <1>3, <1>4 DEF Core

LEMMA CallbackLockCore ==
  ASSUME Core, NEW t \in Procs, NEW l \in Lists, CallbackLock(t, l)
  PROVE  Core'
<1> USE ConstantsAssumption DEF Core, listVars, syncVars, producerVars, consumerVars
<1>1. TypeOK'
  BY DEF TypeOK, CallbackLock, Procs
<1>2. MutexInv'
  BY DEF MutexInv, TypeOK, CallbackLock, MayCallBack, Procs
<1>3. PhaseInv'
  BY DEF PhaseInv, TypeOK, CallbackLock, Popped
<1>4. ListIntact'
  BY DEF ListIntact, CallbackLock, Popped, MidPop
<1>5. QED
  BY <1>1, <1>2, <1>3, <1>4

\* What an allocation does to its list, pointer by pointer.
LEMMA AllocFacts ==
  ASSUME Core, NEW t \in Procs, Alloc(t)
  PROVE  LET l == target[t]
             f == fresh[l]
         IN  /\ l \in Lists /\ f \in Nat /\ f + 1 \in Nodes /\ mutex = t
             /\ \A k \in Lists : ~MidPop(k)
             /\ head[l] = NULL <=> end[l] = NULL
             /\ end[l] # NULL => end[l] = f /\ f \in Nodes
             /\ fresh' = [fresh EXCEPT ![l] = f + 1]
             /\ head'[l] = (IF head[l] = NULL THEN f + 1 ELSE head[l])
             /\ \A k \in Lists \ {l} : head'[k] = head[k] /\ end'[k] = end[k]
             /\ end'[l] = f + 1
             /\ \A k \in Lists : Popped(k)' = Popped(k)
             /\ \A k \in Lists, n \in Nodes :
                   next'[k][n] = IF k = l /\ n = f + 1 THEN NULL
                                 ELSE IF k = l /\ n = f /\ head[l] # NULL
                                 THEN f + 1 ELSE next[k][n]
             /\ head' \in [Lists -> Nodes \cup {NULL}]
             /\ next' \in [Lists -> [Nodes -> Nodes \cup {NULL}]]
<1> DEFINE l == target[t]
           f == fresh[l]
<1> USE ConstantsAssumption DEF Core
<1>1. l \in Lists /\ f \in Nat
  BY DEF TypeOK
<1>2. f + 1 \in Nodes /\ mutex = t
  <2>1. f < MaxEvents /\ mutex = t
    BY DEF Alloc, PhaseInv, MutexInv
  <2>2. QED
    BY <2>1, <1>1 DEF Nodes
<1>3. \A k \in Lists : ~MidPop(k)
  BY <1>2 DEF MidPop, MutexInv, Alloc, Procs, TypeOK
<1>4. head[l] = NULL <=> end[l] = NULL
  <2>1. head[l] = NULL => end[l] = NULL
    BY <1>1, <1>3 DEF ListIntact
  <2>2. head[l] # NULL => end[l] # NULL
    BY <1>1 DEF ListIntact, TypeOK, Nodes
  <2>3. QED
    BY <2>1, <2>2
<1>5. end[l] # NULL => end[l] = f /\ f \in Nodes
  BY <1>1, <1>4 DEF ListIntact, TypeOK
<1>6. fresh' = [fresh EXCEPT ![l] = f + 1]
  BY DEF Alloc
<1>7. /\ head'[l] = (IF head[l] = NULL THEN f + 1 ELSE head[l])
      /\ \A k \in Lists \ {l} : head'[k] = head[k] /\ end'[k] = end[k]
      /\ end'[l] = f + 1
      /\ head' \in [Lists -> Nodes \cup {NULL}]
  BY <1>1, <1>2, <1>4 DEF Alloc, TypeOK
<1>8. \A k \in Lists : Popped(k)' = Popped(k)
  BY <1>1, <1>6, <1>7 DEF Popped, TypeOK, Nodes
<1>9. /\ \A k \in Lists, n \in Nodes :
            next'[k][n] = IF k = l /\ n = f + 1 THEN NULL
                          ELSE IF k = l /\ n = f /\ head[l] # NULL
                          THEN f + 1 ELSE next[k][n]
      /\ next' \in [Lists -> [Nodes -> Nodes \cup {NULL}]]
  <2>1. next[l] \in [Nodes -> Nodes \cup {NULL}]
    BY <1>1 DEF TypeOK
  <2>2. CASE end[l] = NULL
    <3> DEFINE nl == [next[l] EXCEPT ![f + 1] = NULL]
    <3>1. next' = [next EXCEPT ![l] = nl]
      BY <2>2 DEF Alloc
    <3>2. /\ nl \in [Nodes -> Nodes \cup {NULL}]
          /\ \A n \in Nodes : nl[n] = IF n = f + 1 THEN NULL ELSE next[l][n]
      BY <2>1
    <3>3. QED
      BY <3>1, <3>2, <2>2, <1>4, <1>1 DEF TypeOK
  <2>3. CASE end[l] # NULL
    <3> DEFINE nl == [next[l] EXCEPT ![f] = f + 1, ![f + 1] = NULL]
    <3>1. next' = [next EXCEPT ![l] = nl]
      BY <2>3, <1>5 DEF Alloc
    <3>2. /\ nl \in [Nodes -> Nodes \cup {NULL}]
          /\ \A n \in Nodes : nl[n] = IF n = f + 1 THEN NULL
                                       ELSE IF n = f THEN f + 1 ELSE next[l][n]
      BY <2>1, <1>2
    <3>3. QED
      BY <3>1, <3>2, <2>3, <1>4, <1>1 DEF TypeOK
  <2>4. QED
    BY <2>2, <2>3
<1>10. QED
  BY <1>1, <1>2, <1>3, <1>4, <1>5, <1>6, <1>7, <1>8, <1>9

LEMMA AllocCore ==
  ASSUME Core, NEW t \in Procs, Alloc(t)
  PROVE  Core'
<1> DEFINE l == target[t]
           f == fresh[l]
<1> USE ConstantsAssumption DEF Core
<1>a. /\ l \in Lists /\ f \in Nat /\ f + 1 \in Nodes /\ mutex = t
      /\ \A k \in Lists : ~MidPop(k)
      /\ head[l] = NULL <=> end[l] = NULL
      /\ fresh' = [fresh EXCEPT ![l] = f + 1]
  BY AllocFacts
<1>b. /\ head'[l] = (IF head[l] = NULL THEN f + 1 ELSE head[l])
      /\ \A k \in Lists \ {l} : head'[k] = head[k] /\ end'[k] = end[k]
      /\ end'[l] = f + 1
      /\ \A k \in Lists : Popped(k)' = Popped(k)
  BY AllocFacts
<1>c. \A k \in Lists, n \in Nodes :
         next'[k][n] = IF k = l /\ n = f + 1 THEN NULL
                       ELSE IF k = l /\ n = f /\ head[l] # NULL
                       THEN f + 1 ELSE next[k][n]
  BY AllocFacts
<1>d. /\ head' \in [Lists -> Nodes \cup {NULL}]
      /\ next' \in [Lists -> [Nodes -> Nodes \cup {NULL}]]
  BY AllocFacts
<1>e. fresh'[l] = f + 1 /\ head'[l] # NULL
  <2>1. fresh'[l] = f + 1
    BY <1>a DEF TypeOK
  <2>2. head'[l] # NULL
    BY <1>a, <1>b
  <2>3. QED
    BY <2>1, <2>2
<1>1. TypeOK'
  <2>1. f + 1 \in 0 .. MaxEvents
    BY <1>a DEF Nodes
  <2>2. fresh' \in [Lists -> 0 .. MaxEvents]
    BY <2>1, <1>a DEF TypeOK
  <2>3. /\ end' \in [Lists -> Nodes \cup {NULL}]
        /\ res' \in [Procs -> Nodes \cup {NULL}]
    BY <1>a DEF Alloc, TypeOK
  <2>4. pc' \in [Procs -> {"idle", "alloc", "fill", "post"}]
    BY DEF Alloc, TypeOK
  <2>5. QED
    BY <2>2, <2>3, <2>4, <1>d DEF Alloc, TypeOK, syncVars, consumerVars
<1>2. MutexInv'
  BY <1>a DEF MutexInv, TypeOK, Alloc, Procs, syncVars, consumerVars
<1>3. PhaseInv'
  <2>1. /\ head'[l] # NULL /\ fresh'[l] = f + 1
        /\ res'[t] = f + 1 /\ target' = target
    BY <1>e DEF Alloc, TypeOK
  <2>2. ASSUME NEW u \in Procs
        PROVE  /\ pc'[u] = "alloc" => fresh'[target'[u]] < MaxEvents
               /\ pc'[u] = "fill" => /\ head'[target'[u]] # NULL
                                     /\ res'[u] = fresh'[target'[u]]
               /\ pc'[u] = "post" => target'[u] = "results"
    <3>1. CASE u = t
      BY <3>1, <2>1 DEF Alloc, TypeOK
    <3>2. CASE u # t
      <4>1. pc'[u] = pc[u] /\ pc[u] \notin {"alloc", "fill"}
        BY <3>2, <1>a DEF Alloc, TypeOK, MutexInv, Procs
      <4>2. QED
        BY <4>1, <2>1 DEF PhaseInv
    <3>3. QED
      BY <3>1, <3>2
  <2>3. cpc' = cpc /\ cres' = cres /\ clist' = clist /\ clist \in Lists
    BY DEF Alloc, consumerVars, TypeOK
  <2>4. QED
    BY <2>2, <2>3, <1>b DEF PhaseInv
<1>4. ListIntact'
  <2> SUFFICES ASSUME NEW k \in Lists
               PROVE  (/\ head[k] <= fresh[k]
                       /\ head[k] # NULL => end[k] = fresh[k]
                       /\ head[k] = NULL => end[k] = (IF MidPop(k) THEN fresh[k] ELSE NULL)
                       /\ \A n \in Nodes :
                             /\ n = fresh[k] => next[k][n] = NULL
                             /\ n < fresh[k] /\ n > Popped(k) => next[k][n] = n + 1
                       /\ \A n \in freed[k] : n <= Popped(k) /\ (clist = k => n # cres))'
    BY DEF ListIntact
  <2>1. freed' = freed /\ cres' = cres /\ clist' = clist /\ cpc' = cpc
    BY DEF Alloc, consumerVars
  <2>2. (\A n \in freed[k] : n <= Popped(k) /\ (clist = k => n # cres))'
    BY <2>1, <1>b DEF ListIntact
  <2>3. CASE k # l
    <3>1. /\ head'[k] = head[k] /\ end'[k] = end[k] /\ fresh'[k] = fresh[k]
          /\ Popped(k)' = Popped(k) /\ MidPop(k)' = MidPop(k)
          /\ \A n \in Nodes : next'[k][n] = next[k][n]
      BY <2>3, <2>1, <1>a, <1>b, <1>c DEF TypeOK, MidPop
    <3>2. QED
      BY <3>1, <2>2 DEF ListIntact
  <2>4. CASE k = l
    <3>1. head'[k] <= fresh'[k] /\ end'[k] = fresh'[k]
      <4>1. head[l] <= f /\ head[l] \in Nat
        BY <1>a DEF ListIntact, TypeOK, Nodes
      <4>2. QED
        BY <4>1, <2>4, <1>a, <1>b, <1>e
    <3>2. ASSUME NEW n \in Nodes
          PROVE  /\ n = fresh'[k] => next'[k][n] = NULL
                 /\ n < fresh'[k] /\ n > Popped(k)' => next'[k][n] = n + 1
      <4>1. next'[l][n] = IF n = f + 1 THEN NULL
                          ELSE IF n = f /\ head[l] # NULL THEN f + 1 ELSE next[l][n]
        BY <1>a, <1>c
      <4>2. CASE n = f + 1
        BY <4>1, <4>2, <2>4, <1>a, <1>e
      <4>3. CASE n = f
        <5>1. n > Popped(l) => head[l] # NULL
          BY <4>3, <1>a DEF Popped
        <5>2. QED
          BY <5>1, <4>1, <4>3, <2>4, <1>a, <1>b, <1>e
      <4>4. CASE n # f /\ n # f + 1
        <5>1. n < f /\ n > Popped(l) => next[l][n] = n + 1
          BY <1>a DEF ListIntact
        <5>2. n \in Nat
          BY DEF Nodes
        <5>3. QED
          BY <5>1, <5>2, <4>1, <4>4, <2>4, <1>a, <1>b, <1>e
      <4>5. QED
        BY <4>2, <4>3, <4>4
    <3>3. QED
      BY <3>1, <3>2, <2>2, <2>4, <1>e
  <2>5. QED
    BY <2>3, <2>4
<1>5. QED
  BY <1>1, <1>2, <1>3, <1>4

LEMMA FillAndUnlockCore ==
  ASSUME Core, NEW t \in Procs, FillAndUnlock(t)
  PROVE  Core'
<1> USE ConstantsAssumption DEF Core, listVars, syncVars, producerVars, consumerVars
<1>1. TypeOK'
  <2>1. sent[t][target[t]] + 1 \in Nat
    <3>1. sent[t] \in [Lists -> Nat] /\ target[t] \in Lists
      BY DEF TypeOK
    <3>2. QED
      BY <3>1
  <2>2. [from |-> t, num |-> sent[t][target[t]] + 1] \in Items
    BY <2>1 DEF Items
  <2>3. item' \in [Lists -> [Nodes -> Items]]
    BY <2>2 DEF FillAndUnlock, TypeOK
  <2>4. sent' \in [Procs -> [Lists -> Nat]]
    BY <2>1 DEF FillAndUnlock, TypeOK
  <2>5. pc' \in [Procs -> {"idle", "alloc", "fill", "post"}]
    BY DEF FillAndUnlock, TypeOK
  <2>6. QED
    BY <2>3, <2>4, <2>5 DEF FillAndUnlock, TypeOK
<1>2. MutexInv'
  BY DEF MutexInv, TypeOK, FillAndUnlock, Procs
<1>3. PhaseInv'
  BY DEF PhaseInv, MutexInv, TypeOK, FillAndUnlock, Popped
<1>4. ListIntact'
  BY DEF ListIntact, FillAndUnlock, Popped, MidPop
<1>5. QED
  BY <1>1, <1>2, <1>3, <1>4

LEMMA PostCore ==
  ASSUME Core, NEW t \in Procs, Post(t)
  PROVE  Core'
<1> USE ConstantsAssumption DEF Core, listVars, syncVars, producerVars, consumerVars
<1>1. TypeOK'
  <2>1. tokens' \in Nat
    BY DEF Post, TypeOK
  <2>2. pc' \in [Procs -> {"idle", "alloc", "fill", "post"}]
    BY DEF Post, TypeOK
  <2>3. QED
    BY <2>1, <2>2 DEF Post, TypeOK
<1>2. MutexInv'
  BY DEF MutexInv, TypeOK, Post, Procs
<1>3. PhaseInv'
  BY DEF PhaseInv, TypeOK, Post, Popped
<1>4. ListIntact'
  BY DEF ListIntact, Post, Popped, MidPop
<1>5. QED
  BY <1>1, <1>2, <1>3, <1>4

LEMMA ProcessEventsCore ==
  ASSUME Core, ProcessEvents
  PROVE  Core'
<1> USE ConstantsAssumption DEF Core, listVars, syncVars, producerVars, consumerVars
<1>1. TypeOK'
  BY DEF TypeOK, ProcessEvents, Procs
<1>2. MutexInv'
  BY DEF MutexInv, TypeOK, ProcessEvents, InProcessEvents, Procs
<1>3. PhaseInv'
  BY DEF PhaseInv, ProcessEvents, Popped
<1>4. ListIntact'
  BY DEF ListIntact, PhaseInv, TypeOK, ProcessEvents, Popped, MidPop, Nodes
<1>5. QED
  BY <1>1, <1>2, <1>3, <1>4

LEMMA TryAcquireCore ==
  ASSUME Core, TryAcquire
  PROVE  Core'
<1> USE ConstantsAssumption DEF Core, listVars, syncVars, producerVars, consumerVars
<1>1. TypeOK'
  <2>1. tokens' \in Nat
    BY DEF TryAcquire, TypeOK
  <2>2. QED
    BY <2>1 DEF TryAcquire, TypeOK
<1>2. MutexInv'
  BY DEF MutexInv, TypeOK, TryAcquire, InProcessEvents, Procs
<1>3. PhaseInv'
  BY DEF PhaseInv, TryAcquire, Popped
<1>4. ListIntact'
  BY DEF ListIntact, TryAcquire, Popped, MidPop
<1>5. QED
  BY <1>1, <1>2, <1>3, <1>4

LEMMA LockCore ==
  ASSUME Core, Lock
  PROVE  Core'
<1> USE ConstantsAssumption DEF Core, listVars, syncVars, producerVars, consumerVars
<1>1. TypeOK'
  BY DEF TypeOK, Lock, Procs
<1>2. MutexInv'
  BY DEF MutexInv, TypeOK, Lock, InProcessEvents, Procs
<1>3. PhaseInv'
  BY DEF PhaseInv, Lock, Popped
<1>4. ListIntact'
  BY DEF ListIntact, Lock, Popped, MidPop
<1>5. QED
  BY <1>1, <1>2, <1>3, <1>4

LEMMA PopCore ==
  ASSUME Core, Pop
  PROVE  Core'
<1> USE ConstantsAssumption DEF Core, listVars, syncVars, producerVars, consumerVars
<1>0. head[clist] # NULL =>
        /\ head[clist] \in Nat /\ head[clist] <= fresh[clist] /\ fresh[clist] \in Nat
        /\ head'[clist] = IF head[clist] = fresh[clist] THEN NULL ELSE head[clist] + 1
  <2> SUFFICES ASSUME head[clist] # NULL
               PROVE  /\ head[clist] \in Nat /\ head[clist] <= fresh[clist]
                      /\ fresh[clist] \in Nat
                      /\ head'[clist] = IF head[clist] = fresh[clist]
                                        THEN NULL ELSE head[clist] + 1
    OBVIOUS
  <2> DEFINE h == head[clist]
  <2>1. /\ clist \in Lists /\ h \in Nodes /\ h \in Nat /\ fresh[clist] \in Nat
        /\ h <= fresh[clist] /\ Popped(clist) = h - 1
    BY DEF TypeOK, ListIntact, Popped, Nodes
  <2>2. next[clist][h] = IF h = fresh[clist] THEN NULL ELSE h + 1
    BY <2>1 DEF ListIntact
  <2>3. head'[clist] = next[clist][h]
    BY <2>1 DEF Pop, TypeOK
  <2>4. QED
    BY <2>1, <2>2, <2>3
<1>1. TypeOK'
  <2>1. head' \in [Lists -> Nodes \cup {NULL}] /\ cres' \in Nodes \cup {NULL}
    BY DEF Pop, TypeOK
  <2>2. QED
    BY <2>1 DEF Pop, TypeOK
<1>2. MutexInv'
  BY DEF MutexInv, TypeOK, Pop, InProcessEvents, Procs
<1>3. PhaseInv'
  <2>1. \A t \in Procs : pc[t] \notin {"alloc", "fill"}
    BY DEF MutexInv, Pop, InProcessEvents, Procs
  <2>2. cres' # NULL => cres' = Popped(clist)'
    <3>1. cres' = head[clist] /\ clist' = clist /\ fresh' = fresh
      BY DEF Pop
    <3>2. QED
      BY <3>1, <1>0 DEF Popped
  <2>3. QED
    BY <2>1, <2>2 DEF PhaseInv, Pop
<1>4. ListIntact'
  <2> SUFFICES ASSUME NEW k \in Lists
               PROVE  (/\ head[k] <= fresh[k]
                       /\ head[k] # NULL => end[k] = fresh[k]
                       /\ head[k] = NULL => end[k] = (IF MidPop(k) THEN fresh[k] ELSE NULL)
                       /\ \A n \in Nodes :
                             /\ n = fresh[k] => next[k][n] = NULL
                             /\ n < fresh[k] /\ n > Popped(k) => next[k][n] = n + 1
                       /\ \A n \in freed[k] : n <= Popped(k) /\ (clist = k => n # cres))'
    BY DEF ListIntact
  <2>1. /\ end' = end /\ next' = next /\ fresh' = fresh /\ freed' = freed
        /\ clist' = clist /\ cres' = head[clist] /\ cpc' = "unlock" /\ cpc = "pop"
    BY DEF Pop
  <2>2. CASE k # clist \/ head[clist] = NULL
    <3>1. head'[k] = head[k]
      BY <2>2 DEF Pop, TypeOK
    <3>2. Popped(k)' = Popped(k) /\ MidPop(k)' = MidPop(k)
      BY <3>1, <2>1, <2>2 DEF Popped, MidPop
    <3>3. \A n \in freed[k] : n # NULL
      BY DEF TypeOK, Nodes
    <3>4. QED
      BY <3>1, <3>2, <3>3, <2>1, <2>2 DEF ListIntact
  <2>3. CASE k = clist /\ head[clist] # NULL
    <3>1. MidPop(k)' /\ end[k] = fresh[k]
      BY <2>1, <2>3 DEF MidPop, ListIntact
    <3>2. /\ head[k] \in Nat /\ head[k] <= fresh[k] /\ fresh[k] \in Nat
          /\ head'[k] = IF head[k] = fresh[k] THEN NULL ELSE head[k] + 1
      BY <2>3, <1>0
    <3>3. Popped(k)' = head[k] /\ Popped(k) = head[k] - 1
      BY <3>2, <2>1, <2>3 DEF Popped
    <3>4. \A n \in freed[k] : n <= head[k] - 1 /\ n \in Nat
      BY <3>3 DEF ListIntact, TypeOK, Nodes
    <3>5. \A n \in Nodes : n \in Nat
      BY DEF Nodes
    <3>6. \A n \in Nodes : /\ n = fresh[k] => next[k][n] = NULL
                           /\ n < fresh[k] /\ n > head[k] - 1 => next[k][n] = n + 1
      BY <3>3 DEF ListIntact
    <3>7. QED
      BY <3>1, <3>2, <3>3, <3>4, <3>5, <3>6, <2>1, <2>3
  <2>4. QED
    BY <2>2, <2>3
<1>5. QED
  BY <1>1, <1>2, <1>3, <1>4

LEMMA UnlockCore ==
  ASSUME Core, Unlock
  PROVE  Core'
<1> USE ConstantsAssumption DEF Core, listVars, syncVars, producerVars, consumerVars
<1>1. TypeOK'
  BY DEF TypeOK, Unlock, Procs
<1>2. MutexInv'
  BY DEF MutexInv, TypeOK, Unlock, InProcessEvents, Procs
<1>3. PhaseInv'
  BY DEF PhaseInv, Unlock, Popped
<1>4. ListIntact'
  BY DEF ListIntact, TypeOK, Unlock, Popped, MidPop, Nodes
<1>5. QED
  BY <1>1, <1>2, <1>3, <1>4

LEMMA DeliverCore ==
  ASSUME Core, Deliver
  PROVE  Core'
<1> USE ConstantsAssumption DEF Core, listVars, syncVars, producerVars, consumerVars
<1>1. TypeOK'
  <2>1. item[clist][cres] \in Items
    BY DEF Deliver, TypeOK, PhaseInv
  <2>2. delivered' \in [Lists -> Seq(Items)]
    BY <2>1 DEF Deliver, TypeOK
  <2>3. QED
    BY <2>2 DEF Deliver, TypeOK
<1>2. MutexInv'
  BY DEF MutexInv, TypeOK, Deliver, InProcessEvents, Procs
<1>3. PhaseInv'
  BY DEF PhaseInv, Deliver, Popped
<1>4. ListIntact'
  BY DEF ListIntact, Deliver, Popped, MidPop
<1>5. QED
  BY <1>1, <1>2, <1>3, <1>4

LEMMA ReturnCore ==
  ASSUME Core, Return
  PROVE  Core'
<1> USE ConstantsAssumption DEF Core, listVars, syncVars, producerVars, consumerVars
<1>1. TypeOK'
  BY DEF TypeOK, Return, PhaseInv
<1>2. MutexInv'
  BY DEF MutexInv, TypeOK, Return, InProcessEvents, Procs
<1>3. PhaseInv'
  BY DEF PhaseInv, TypeOK, Return
<1>4. ListIntact'
  BY DEF ListIntact, PhaseInv, TypeOK, Return, Popped, MidPop, Nodes
<1>5. QED
  BY <1>1, <1>2, <1>3, <1>4

LEMMA InitializeCore ==
  ASSUME Core, Initialize
  PROVE  Core'
<1> USE ConstantsAssumption DEF Core, listVars, syncVars, producerVars, consumerVars
<1>1. TypeOK'
  BY DEF TypeOK, Initialize, Procs
<1>2. MutexInv'
  BY DEF MutexInv, TypeOK, Initialize, InAppCode, InProcessEvents, Procs
<1>3. PhaseInv'
  BY DEF PhaseInv, Initialize, Popped
<1>4. ListIntact'
  BY DEF ListIntact, Initialize, Popped, MidPop
<1>5. QED
  BY <1>1, <1>2, <1>3, <1>4

LEMMA FinalizeCore ==
  ASSUME Core, Finalize
  PROVE  Core'
<1> USE ConstantsAssumption DEF Core, listVars, syncVars, producerVars, consumerVars
<1>1. TypeOK'
  <2>1. finals' \in 0 .. MaxFinalize /\ tokens' \in Nat
    BY DEF Finalize, TypeOK
  <2>2. fault' \in BOOLEAN /\ up' \in BOOLEAN
    BY Zenon DEF Finalize
  <2>3. QED
    BY <2>1, <2>2 DEF Finalize, TypeOK
<1>2. MutexInv'
  BY DEF MutexInv, TypeOK, Finalize, InAppCode, InProcessEvents, Procs
<1>3. PhaseInv'
  BY DEF PhaseInv, Finalize, Popped
<1>4. ListIntact'
  BY DEF ListIntact, Finalize, Popped, MidPop
<1>5. QED
  BY <1>1, <1>2, <1>3, <1>4

LEMMA NullLockCore ==
  ASSUME Core, NEW t \in Procs, NullLock(t)
  PROVE  Core'
<1> USE ConstantsAssumption DEF Core, listVars, syncVars, producerVars, consumerVars
<1>1. TypeOK'
  BY DEF TypeOK, NullLock, Procs
<1>2. MutexInv'
  BY DEF MutexInv, TypeOK, NullLock, Procs
<1>3. PhaseInv'
  BY DEF PhaseInv, NullLock, Popped
<1>4. ListIntact'
  BY DEF ListIntact, NullLock, Popped, MidPop
<1>5. QED
  BY <1>1, <1>2, <1>3, <1>4

-----------------------------------------------------------------------------
(***************************************************************************)
(* Tokens. Every step changes the two sides of the account by the same     *)
(* amount, except Initialize and Finalize, which discard tokens.           *)
(***************************************************************************)

Left == fresh["results"] - Popped("results")

LEMMA OwingFinite == IsFiniteSet(Procs) /\ IsFiniteSet(Owing) /\ Cardinality(Owing) \in Nat
<1>1. IsFiniteSet(Procs)
  BY ConstantsAssumption, FS_AddElement DEF Procs
<1>2. Owing \subseteq Procs
  BY DEF Owing
<1>3. QED
  BY <1>1, <1>2, FS_Subset, FS_CardinalityType

LEMMA LeftType == Core => Left \in Nat
  BY ConstantsAssumption DEF Core, TypeOK, ListIntact, Left, Popped, Nodes

\* A step that changes neither the account nor the list.
LEMMA TokenFrame ==
  ASSUME TokenInv, Owing' = Owing, tokens' = tokens, Taken' = Taken,
         fresh["results"]' = fresh["results"], Popped("results")' = Popped("results"),
         finals' = finals, up' = up
  PROVE  TokenInv'
  BY DEF TokenInv, OneTokenPerItem, Accounted

LEMMA TokenInit == Init => TokenInv
<1> SUFFICES ASSUME Init PROVE TokenInv
  OBVIOUS
<1>1. Owing = {}
  BY DEF Init, Owing
<1>2. Cardinality(Owing) = 0
  BY <1>1, FS_EmptySet
<1>3. QED
  BY <1>2 DEF Init, TokenInv, OneTokenPerItem, Accounted, Taken, Popped

LEMMA TokenStep ==
  ASSUME Core, TokenInv, TokenFindsNode, [Next]_vars, Core'
  PROVE  TokenInv' /\ TokenFindsNode'
<1> USE ConstantsAssumption, OwingFinite DEF Core
<1>0. tokens \in Nat /\ Left \in Nat /\ Taken \in {0, 1}
  BY LeftType DEF TypeOK, Taken
<1>1. ASSUME NEW t \in Procs, NEW l \in Lists, CallbackLock(t, l)
      PROVE  TokenInv' /\ TokenFindsNode'
  <2>1. Owing' = Owing
    BY <1>1 DEF CallbackLock, Owing, TypeOK
  <2>2. QED
    BY <1>1, <2>1, TokenFrame
       DEF CallbackLock, Taken, Popped, listVars, consumerVars, TokenFindsNode
<1>2. ASSUME NEW t \in Procs, Alloc(t)
      PROVE  TokenInv' /\ TokenFindsNode'
  <2>1. /\ \A k \in Lists : Popped(k)' = Popped(k)
        /\ fresh' = [fresh EXCEPT ![target[t]] = fresh[target[t]] + 1]
    BY <1>2, AllocFacts
  <2>2. /\ tokens' = tokens /\ up' = up /\ finals' = finals
        /\ cpc' = cpc /\ clist' = clist /\ cres' = cres /\ Taken' = Taken
    BY <1>2 DEF Alloc, syncVars, consumerVars, Taken
  <2>3. CASE target[t] = "dcs"
    <3>1. Owing' = Owing
      BY <1>2, <2>3 DEF Alloc, Owing, TypeOK
    <3>2. fresh'["results"] = fresh["results"]
      BY <2>1, <2>3 DEF TypeOK
    <3>3. QED
      BY <3>1, <3>2, <2>1, <2>2, TokenFrame DEF TokenFindsNode
  <2>4. CASE target[t] = "results"
    <3>1. t \notin Owing /\ Owing' = Owing \cup {t}
      BY <1>2, <2>4 DEF Alloc, Owing, TypeOK
    <3>2. Cardinality(Owing') = Cardinality(Owing) + 1
      BY <3>1, FS_AddElement
    <3>3. fresh'["results"] = fresh["results"] + 1
      BY <2>1, <2>4 DEF TypeOK
    <3>4. fresh["results"] \in Nat /\ Popped("results") \in Int
      BY DEF TypeOK, Popped, Nodes
    <3>5. QED
      BY <3>2, <3>3, <3>4, <2>1, <2>2, <1>0
         DEF TokenInv, OneTokenPerItem, Accounted, TokenFindsNode
  <2>5. QED
    BY <2>3, <2>4 DEF TypeOK
<1>3. ASSUME NEW t \in Procs, FillAndUnlock(t)
      PROVE  TokenInv' /\ TokenFindsNode'
  <2>1. Owing' = Owing
    BY <1>3 DEF FillAndUnlock, Owing, TypeOK
  <2>2. QED
    BY <1>3, <2>1, TokenFrame
       DEF FillAndUnlock, Taken, Popped, listVars, consumerVars, TokenFindsNode
<1>4. ASSUME NEW t \in Procs, Post(t)
      PROVE  TokenInv' /\ TokenFindsNode'
  <2>1. t \in Owing /\ Owing' = Owing \ {t}
    BY <1>4 DEF Post, Owing, TypeOK, PhaseInv
  <2>2. Cardinality(Owing') = Cardinality(Owing) - 1
    BY <2>1, FS_RemoveElement
  <2>3. /\ tokens' = tokens + 1 /\ Taken' = Taken /\ finals' = finals /\ up' = up
        /\ fresh' = fresh /\ Popped("results")' = Popped("results")
    BY <1>4 DEF Post, Taken, Popped, listVars, consumerVars
  <2>4. Accounted' = Accounted
    BY <2>2, <2>3, <1>0 DEF Accounted
  <2>5. QED
    BY <1>4, <2>3, <2>4
       DEF Post, TokenInv, OneTokenPerItem, consumerVars, TokenFindsNode
<1>5. CASE ProcessEvents
  BY <1>5, TokenFrame
     DEF ProcessEvents, Taken, Popped, listVars, syncVars, producerVars, Owing,
         TokenFindsNode
<1>6. CASE TryAcquire
  <2>1. /\ Owing' = Owing /\ finals' = finals /\ up' = up /\ fresh' = fresh
        /\ Popped("results")' = Popped("results")
    BY <1>6 DEF TryAcquire, Owing, Popped, listVars, producerVars
  <2>2. Taken = 0
    BY <1>6 DEF TryAcquire, Taken
  <2>3. Accounted' = Accounted
    <3>1. Cardinality(Owing') = Cardinality(Owing)
      BY <2>1
    <3>2. CASE tokens = 0
      <4>1. tokens' = tokens /\ Taken' = 0
        BY <1>6, <3>2 DEF TryAcquire, Taken
      <4>2. QED
        BY <4>1, <3>1, <2>2 DEF Accounted
    <3>3. CASE tokens > 0
      <4>1. tokens' = tokens - 1 /\ Taken' = 1
        BY <1>6, <3>3, <1>0 DEF TryAcquire, Taken, PhaseInv
      <4>2. QED
        BY <4>1, <3>1, <2>2, <1>0 DEF Accounted
    <3>4. QED
      BY <3>2, <3>3, <1>0
  <2>4. QED
    BY <1>6, <2>1, <2>3 DEF TryAcquire, TokenInv, OneTokenPerItem, TokenFindsNode
<1>7. CASE Lock
  BY <1>7, TokenFrame
     DEF Lock, Taken, Popped, listVars, producerVars, Owing, TokenFindsNode
<1>8. CASE Pop
  <2>1. /\ Owing' = Owing /\ finals' = finals /\ up' = up /\ fresh' = fresh
        /\ tokens' = tokens /\ clist' = clist /\ cpc' = "unlock" /\ Taken' = 0
        /\ cres' = head[clist]
    BY <1>8 DEF Pop, Owing, syncVars, producerVars, Taken
  <2>2. CASE clist = "dcs"
    <3>1. head'["results"] = head["results"] /\ Taken = 0
      BY <2>2, <1>8 DEF Pop, TypeOK, Taken
    <3>2. Popped("results")' = Popped("results")
      BY <3>1, <2>1 DEF Popped
    <3>3. QED
      BY <3>1, <3>2, <2>1, <2>2, TokenFrame DEF TokenFindsNode
  <2>3. CASE clist = "results"
    <3>1. Taken = 1
      BY <2>3, <1>8 DEF Pop, Taken
    <3>2. Left >= 1
      BY <3>1, <1>0 DEF TokenInv, Accounted, Left
    <3>3. head["results"] # NULL
      BY <3>2 DEF Left, Popped, TypeOK, Nodes
    <3>4. cres' # NULL /\ cres' = Popped("results")' /\ Popped("results") = cres' - 1
      BY <3>3, <2>1, <2>3 DEF PhaseInv, Popped
    <3>5. Left' = Left - 1
      BY <3>4, <2>1 DEF Left, TypeOK, Nodes
    <3>6. Accounted' = Accounted - 1
      BY <3>1, <2>1, <1>0 DEF Accounted
    <3>7. Accounted \in Int
      BY <1>0 DEF Accounted
    <3>8. QED
      BY <3>4, <3>5, <3>6, <3>7, <2>1, <2>3, <1>0
         DEF TokenInv, OneTokenPerItem, Left, TokenFindsNode
  <2>4. QED
    BY <2>2, <2>3 DEF TypeOK
<1>9. CASE Unlock
  BY <1>9, TokenFrame DEF Unlock, Taken, Popped, producerVars, Owing, TokenFindsNode
<1>10. CASE Deliver
  BY <1>10, TokenFrame
     DEF Deliver, Taken, Popped, listVars, syncVars, producerVars, Owing, TokenFindsNode
<1>11. CASE Return
  BY <1>11, TokenFrame
     DEF Return, Taken, Popped, listVars, syncVars, producerVars, Owing, TokenFindsNode
<1>12. CASE Initialize
  <2>1. Accounted' <= Accounted /\ Left' = Left
    BY <1>12, <1>0
       DEF Initialize, Accounted, Left, Taken, Owing, Popped, listVars, producerVars, consumerVars
  <2>2. Accounted \in Nat /\ Accounted' \in Nat
    BY <1>12, <1>0
       DEF Initialize, Accounted, Taken, Owing, producerVars, consumerVars
  <2>3. QED
    BY <1>12, <2>1, <2>2, <1>0
       DEF Initialize, TokenInv, Left, consumerVars, TokenFindsNode
<1>13. CASE Finalize
  <2>1. Accounted' <= Accounted /\ Left' = Left
    BY <1>13, <1>0
       DEF Finalize, Accounted, Left, Taken, Owing, Popped, listVars, producerVars, consumerVars
  <2>2. Accounted \in Nat /\ Accounted' \in Nat
    BY <1>13, <1>0
       DEF Finalize, Accounted, Taken, Owing, producerVars, consumerVars
  <2>3. finals' # 0
    BY <1>13 DEF Finalize, TypeOK
  <2>4. QED
    BY <1>13, <2>1, <2>2, <2>3, <1>0
       DEF Finalize, TokenInv, Left, consumerVars, TokenFindsNode
<1>14. ASSUME NEW t \in Procs, NullLock(t)
       PROVE  TokenInv' /\ TokenFindsNode'
  BY <1>14, TokenFrame
     DEF NullLock, Taken, Popped, listVars, syncVars, producerVars, consumerVars, Owing,
         TokenFindsNode
<1>15. CASE UNCHANGED vars
  BY <1>15, TokenFrame
     DEF vars, Taken, Popped, listVars, syncVars, producerVars, consumerVars, Owing,
         TokenFindsNode
<1>16. QED
  BY <1>1, <1>2, <1>3, <1>4, <1>5, <1>6, <1>7, <1>8, <1>9, <1>10, <1>11, <1>12,
     <1>13, <1>14, <1>15 DEF Next, Continue, Consume

LEMMA CoreStep == Core /\ [Next]_vars => Core'
<1> SUFFICES ASSUME Core, [Next]_vars PROVE Core'
  OBVIOUS
<1>1. CASE UNCHANGED vars
  BY <1>1 DEF vars, listVars, syncVars, producerVars, consumerVars, Core, TypeOK, MutexInv,
              PhaseInv, ListIntact, Popped, MidPop
<1>2. CASE Next
  BY <1>2, CallbackLockCore, AllocCore, FillAndUnlockCore, PostCore, ProcessEventsCore,
     TryAcquireCore, LockCore, PopCore, UnlockCore, DeliverCore, ReturnCore,
     InitializeCore, FinalizeCore, NullLockCore DEF Next, Continue, Consume
<1>3. QED
  BY <1>1, <1>2

-----------------------------------------------------------------------------
(***************************************************************************)
(* History. Only FillAndUnlock writes a payload and only Deliver reads one.*)
(***************************************************************************)

LEMMA HistoryInit == Init => HistoryInv
<1> SUFFICES ASSUME Init, NEW l \in Lists
             PROVE  DeliveredPrefix(l) /\ AllKept(l) /\ KeptInOrder(l)
  BY DEF HistoryInv
<1>1. Filled(l) = 0
  BY DEF Init, Filled
<1>2. DeliveredPrefix(l)
  BY DEF Init, DeliveredPrefix, Popped, InHand
<1>3. AllKept(l)
  BY DEF Init, AllKept
<1>4. KeptInOrder(l)
  BY <1>1 DEF KeptInOrder
<1>5. QED
  BY <1>2, <1>3, <1>4

LEMMA FilledType ==
  ASSUME Core, NEW l \in Lists
  PROVE  /\ Filled(l) \in Nat /\ Filled(l) <= fresh[l] /\ fresh[l] \in Nat
         /\ Filled(l) <= MaxEvents
         /\ Popped(l) \in Nat /\ Popped(l) <= Filled(l)
<1>1. fresh[l] \in Nat /\ fresh[l] <= MaxEvents /\ head[l] \in Nat /\ head[l] <= fresh[l]
  BY ConstantsAssumption DEF Core, TypeOK, ListIntact, Nodes
<1>2. (\E t \in Procs : pc[t] = "fill" /\ target[t] = l) => head[l] # NULL
  BY DEF Core, PhaseInv
<1>3. QED
  BY <1>1, <1>2, ConstantsAssumption DEF Filled, Popped

\* A step that touches neither payloads nor deliveries.
LEMMA HistoryFrame ==
  ASSUME HistoryInv, item' = item, delivered' = delivered, sent' = sent,
         \A l \in Lists : /\ Filled(l)' = Filled(l)
                          /\ (Popped(l) - InHand(l))' = Popped(l) - InHand(l)
  PROVE  HistoryInv'
<1> SUFFICES ASSUME NEW l \in Lists
             PROVE  (DeliveredPrefix(l) /\ AllKept(l) /\ KeptInOrder(l))'
  BY DEF HistoryInv
<1>1. DeliveredPrefix(l) /\ AllKept(l) /\ KeptInOrder(l)
  BY DEF HistoryInv
<1>2. DeliveredPrefix(l)'
  BY <1>1 DEF DeliveredPrefix
<1>3. AllKept(l)'
  BY <1>1 DEF AllKept
<1>4. KeptInOrder(l)'
  BY <1>1 DEF KeptInOrder
<1>5. QED
  BY <1>2, <1>3, <1>4

LEMMA FillHistory ==
  ASSUME Core, HistoryInv, NEW t \in Procs, FillAndUnlock(t)
  PROVE  HistoryInv'
<1>0. PICK l \in Lists : l = target[t]
  BY DEF Core, TypeOK
<1> DEFINE f == fresh[l]
           k == sent[t][l] + 1
           e == [from |-> t, num |-> k]
<1> USE ConstantsAssumption DEF Core
<1>1. /\ l \in Lists /\ f \in Nat /\ sent[t][l] \in Nat
      /\ res[t] = f /\ head[l] # NULL /\ mutex = t
  <2>1. l \in Lists /\ f \in Nat /\ sent[t] \in [Lists -> Nat]
    BY <1>0 DEF TypeOK
  <2>2. res[t] = f /\ head[l] # NULL /\ mutex = t
    BY <1>0 DEF FillAndUnlock, PhaseInv, MutexInv
  <2>3. QED
    BY <2>1, <2>2
<1>2. f \in Nodes /\ Popped(l) \in Nat /\ Popped(l) < f
  BY <1>1 DEF TypeOK, ListIntact, Popped, Nodes
<1>3. /\ \A u \in Procs \ {t} : pc[u] # "fill"
      /\ \A u \in Procs : pc'[u] # "fill"
  BY <1>1 DEF MutexInv, FillAndUnlock, TypeOK
<1>4. Filled(l) = f - 1 /\ Filled(l)' = f
  BY <1>0, <1>1, <1>3 DEF Filled, FillAndUnlock, listVars
<1>5. /\ item'[l] = [item[l] EXCEPT ![f] = e]
      /\ \A m \in Lists \ {l} : item'[m] = item[m]
      /\ sent'[t] = [sent[t] EXCEPT ![l] = k]
      /\ \A u \in Procs \ {t} : sent'[u] = sent[u]
  BY <1>0, <1>1 DEF FillAndUnlock, TypeOK
<1>6. item'[l][f] = e /\ \A i \in Nodes \ {f} : item'[l][i] = item[l][i]
  <2>1. item[l] \in [Nodes -> Items]
    BY <1>1 DEF TypeOK
  <2>2. QED
    BY <2>1, <1>2, <1>5
<1>7. /\ sent'[t][l] = k
      /\ \A m \in Lists \ {l} : sent'[t][m] = sent[t][m]
  <2>1. sent[t] \in [Lists -> Nat]
    BY DEF TypeOK
  <2>2. QED
    BY <2>1, <1>1, <1>5
<1>8. /\ delivered' = delivered
      /\ \A m \in Lists : Popped(m)' = Popped(m) /\ InHand(m)' = InHand(m)
  BY DEF FillAndUnlock, Popped, InHand, listVars, consumerVars
<1>9. ASSUME NEW m \in Lists, m # l
      PROVE  (DeliveredPrefix(m) /\ AllKept(m) /\ KeptInOrder(m))'
  <2>1. Filled(m)' = Filled(m)
    <3>1. ~ \E u \in Procs : pc[u] = "fill" /\ target[u] = m
      BY <1>0, <1>3, <1>9
    <3>2. ~ \E u \in Procs : pc'[u] = "fill" /\ target'[u] = m
      BY <1>3
    <3>3. QED
      BY <3>1, <3>2 DEF Filled, FillAndUnlock, listVars
  <2>2. item'[m] = item[m] /\ \A u \in Procs : sent'[u][m] = sent[u][m]
    BY <1>5, <1>7, <1>9
  <2>3. DeliveredPrefix(m) /\ AllKept(m) /\ KeptInOrder(m)
    BY DEF HistoryInv
  <2>4. DeliveredPrefix(m)'
    BY <2>2, <2>3, <1>8 DEF DeliveredPrefix
  <2>5. AllKept(m)'
    BY <2>1, <2>2, <2>3 DEF AllKept
  <2>6. KeptInOrder(m)'
    <3>1. \A i \in 1 .. Filled(m) : item[m][i].from \in Procs
      <4>1. \A i \in Nodes : item[m][i] \in Items
        BY DEF TypeOK
      <4>2. QED
        BY <4>1, FilledType DEF Items, Nodes
    <3>2. QED
      BY <3>1, <2>1, <2>2, <2>3 DEF KeptInOrder
  <2>7. QED
    BY <2>4, <2>5, <2>6
<1>10. DeliveredPrefix(l) /\ AllKept(l) /\ KeptInOrder(l)
  BY <1>1 DEF HistoryInv
<1>11. DeliveredPrefix(l)'
  <2>1. Len(delivered[l]) \in Nat /\ Len(delivered[l]) < f
    <3>1. Len(delivered[l]) \in Nat
      BY <1>1 DEF TypeOK
    <3>2. InHand(l) \in {0, 1}
      BY DEF InHand
    <3>3. QED
      BY <3>1, <3>2, <1>2, <1>1, <1>10 DEF DeliveredPrefix
  <2>2. \A i \in 1 .. Len(delivered[l]) : i \in Nodes \ {f}
    BY <2>1, <1>1, <1>2 DEF Nodes
  <2>3. QED
    BY <2>2, <1>6, <1>8, <1>10, <1>1 DEF DeliveredPrefix
<1>12. \A i \in 1 .. f - 1 : i \in Nodes \ {f}
  BY <1>1, <1>2 DEF Nodes
<1>13. AllKept(l)'
  <2> SUFFICES ASSUME NEW u \in Procs, NEW m \in 1 .. sent'[u][l]
               PROVE  \E i \in 1 .. f : item'[l][i] = [from |-> u, num |-> m]
    BY <1>4 DEF AllKept
  <2>1. CASE u = t /\ m = k
    BY <2>1, <1>6, <1>2 DEF Nodes
  <2>2. CASE u # t \/ m # k
    <3>1. m \in 1 .. sent[u][l]
      BY <2>2, <1>1, <1>5, <1>7
    <3>2. PICK i \in 1 .. f - 1 : item[l][i] = [from |-> u, num |-> m]
      BY <3>1, <1>4, <1>10 DEF AllKept
    <3>3. item'[l][i] = item[l][i] /\ i \in 1 .. f
      BY <1>6, <1>12, <1>1
    <3>4. QED
      BY <3>2, <3>3
  <2>3. QED
    BY <2>1, <2>2
<1>14. KeptInOrder(l)'
  <2>1. \A i \in 1 .. f - 1 : /\ item[l][i].num \in Nat
                               /\ item[l][i].from \in Procs
                               /\ sent[item[l][i].from][l] \in Nat
    <3>1. \A i \in Nodes : item[l][i] \in Items
      BY <1>1 DEF TypeOK
    <3>2. \A u \in Procs : sent[u][l] \in Nat
      <4>1. \A u \in Procs : sent[u] \in [Lists -> Nat]
        BY DEF TypeOK
      <4>2. QED
        BY <4>1, <1>1
    <3>3. QED
      BY <3>1, <3>2, <1>12 DEF Items
  <2>2. \A i \in 1 .. f - 1 : item[l][i].num \in 1 .. sent[item[l][i].from][l]
    BY <1>10, <1>4 DEF KeptInOrder
  <2>3. ASSUME NEW i \in 1 .. f
        PROVE  item'[l][i].num \in 1 .. sent'[item'[l][i].from][l]
    <3>1. CASE i = f
      BY <3>1, <1>6, <1>7, <1>1
    <3>2. CASE i # f
      <4>1. i \in 1 .. f - 1 /\ item'[l][i] = item[l][i]
        BY <3>2, <1>6, <1>12, <1>1
      <4>2. sent'[item[l][i].from][l] >= sent[item[l][i].from][l]
        BY <4>1, <2>1, <1>5, <1>7
      <4>3. sent'[item[l][i].from][l] \in Nat
        BY <4>1, <2>1, <1>5, <1>7
      <4>4. QED
        BY <4>1, <4>2, <4>3, <2>1, <2>2
    <3>3. QED
      BY <3>1, <3>2
  <2>4. ASSUME NEW i \in 1 .. f, NEW j \in 1 .. f, i < j,
               item'[l][i].from = item'[l][j].from
        PROVE  item'[l][i].num < item'[l][j].num
    <3>1. i \in 1 .. f - 1 /\ item'[l][i] = item[l][i]
      BY <2>4, <1>6, <1>12, <1>1
    <3>2. CASE j = f
      <4>1. item[l][i].from = t /\ item'[l][j].num = k
        BY <3>1, <3>2, <2>4, <1>6
      <4>2. QED
        BY <4>1, <3>1, <2>1, <2>2, <1>1
    <3>3. CASE j # f
      <4>1. j \in 1 .. f - 1 /\ item'[l][j] = item[l][j]
        BY <3>3, <1>6, <1>12, <1>1
      <4>2. QED
        BY <4>1, <3>1, <2>4, <1>4, <1>10 DEF KeptInOrder
    <3>4. QED
      BY <3>2, <3>3
  <2>5. QED
    BY <2>3, <2>4, <1>4 DEF KeptInOrder
<1>15. QED
  BY <1>9, <1>11, <1>13, <1>14 DEF HistoryInv

LEMMA DeliverHistory ==
  ASSUME Core, HistoryInv, Deliver
  PROVE  HistoryInv'
<1> USE ConstantsAssumption DEF Core
<1> SUFFICES ASSUME NEW l \in Lists
             PROVE  (DeliveredPrefix(l) /\ AllKept(l) /\ KeptInOrder(l))'
  BY DEF HistoryInv
<1>1. DeliveredPrefix(l) /\ AllKept(l) /\ KeptInOrder(l)
  BY DEF HistoryInv
<1>2. /\ item' = item /\ sent' = sent /\ Filled(l)' = Filled(l)
      /\ Popped(l)' = Popped(l) /\ InHand(l)' = 0
  BY DEF Deliver, Filled, Popped, InHand, listVars, producerVars
<1>3. AllKept(l)'
  BY <1>1, <1>2 DEF AllKept
<1>4. KeptInOrder(l)'
  BY <1>1, <1>2 DEF KeptInOrder
<1>5. CASE l # clist
  <2>1. delivered'[l] = delivered[l] /\ InHand(l) = 0
    BY <1>5 DEF Deliver, InHand, TypeOK
  <2>2. DeliveredPrefix(l)'
    BY <2>1, <1>1, <1>2 DEF DeliveredPrefix
  <2>3. QED
    BY <2>2, <1>3, <1>4
<1>6. CASE l = clist
  <2>1. /\ InHand(l) = 1 /\ cres = Popped(l) /\ Popped(l) \in Nat
    BY <1>6, FilledType DEF Deliver, InHand, PhaseInv
  <2>2. delivered[l] \in Seq(Items) /\ item[l][cres] \in Items
    BY <1>6 DEF TypeOK, Deliver, PhaseInv
  <2>3. delivered'[l] = Append(delivered[l], item[l][cres])
    BY <1>6 DEF Deliver, TypeOK
  <2>4. Len(delivered[l]) = cres - 1 /\ cres \in Nat
    BY <2>1, <1>1 DEF DeliveredPrefix
  <2>5. Len(delivered'[l]) = cres
    BY <2>2, <2>3, <2>4
  <2>6. ASSUME NEW i \in 1 .. cres
        PROVE  delivered'[l][i] = item[l][i]
    <3>1. CASE i = cres
      BY <3>1, <2>2, <2>3, <2>4
    <3>2. CASE i # cres
      <4>1. i \in 1 .. Len(delivered[l])
        BY <3>2, <2>4
      <4>2. delivered'[l][i] = delivered[l][i]
        BY <4>1, <2>2, <2>3
      <4>3. QED
        BY <4>1, <4>2, <1>1 DEF DeliveredPrefix
    <3>3. QED
      BY <3>1, <3>2
  <2>7. DeliveredPrefix(l)'
    BY <2>1, <2>5, <2>6, <1>2 DEF DeliveredPrefix
  <2>8. QED
    BY <2>7, <1>3, <1>4
<1>7. QED
  BY <1>5, <1>6

LEMMA AllocFilled ==
  ASSUME Core, NEW t \in Procs, Alloc(t)
  PROVE  \A m \in Lists : Filled(m)' = Filled(m)
<1>0. PICK l \in Lists : l = target[t]
  BY DEF Core, TypeOK
<1>1. /\ \A u \in Procs : pc[u] # "fill"
      /\ \A u \in Procs : pc'[u] = "fill" <=> u = t
      /\ target' = target
  BY AllocFacts DEF Core, MutexInv, Alloc, TypeOK
<1>2. fresh[l] \in Nat /\ fresh' = [fresh EXCEPT ![l] = fresh[l] + 1]
  BY <1>0, AllocFacts
<1>3. \A m \in Lists : Filled(m) = fresh[m]
  BY <1>1 DEF Filled
<1>4. ASSUME NEW m \in Lists
      PROVE  Filled(m)' = fresh[m]
  <2>1. CASE m = l
    <3>1. Filled(m)' = fresh'[m] - 1
      BY <2>1, <1>0, <1>1 DEF Filled
    <3>2. QED
      BY <3>1, <2>1, <1>2 DEF Core, TypeOK
  <2>2. CASE m # l
    <3>1. Filled(m)' = fresh'[m]
      BY <2>2, <1>0, <1>1 DEF Filled
    <3>2. QED
      BY <3>1, <2>2, <1>2 DEF Core, TypeOK
  <2>3. QED
    BY <2>1, <2>2
<1>5. QED
  BY <1>3, <1>4

\* process_events moves a node from the list into its hand.
LEMMA PopHistory ==
  ASSUME Core, HistoryInv, Pop, Core'
  PROVE  HistoryInv'
<1>1. /\ item' = item /\ delivered' = delivered /\ sent' = sent
      /\ fresh' = fresh /\ clist' = clist /\ cpc' = "unlock" /\ cpc = "pop"
      /\ cres' = head[clist]
      /\ \A l \in Lists : Filled(l)' = Filled(l)
  BY DEF Pop, Filled, producerVars
<1>2. ASSUME NEW l \in Lists
      PROVE  (Popped(l) - InHand(l))' = Popped(l) - InHand(l)
  <2>1. InHand(l) = 0
    BY <1>1 DEF InHand
  <2>2. CASE l # clist \/ head[clist] = NULL
    <3>1. head'[l] = head[l]
      BY <2>2 DEF Pop, Core, TypeOK
    <3>2. InHand(l)' = 0
      BY <2>2, <1>1 DEF InHand
    <3>3. QED
      BY <3>1, <3>2, <2>1, <1>1 DEF Popped
  <2>3. CASE l = clist /\ head[clist] # NULL
    <3>1. InHand(l)' = 1 /\ Popped(l)' = head[l] /\ Popped(l) = head[l] - 1
      BY <2>3, <1>1 DEF InHand, Core, PhaseInv, Popped
    <3>2. head[l] \in Int
      BY DEF Core, TypeOK, Nodes
    <3>3. QED
      BY <3>1, <3>2, <2>1
  <2>4. QED
    BY <2>2, <2>3
<1>3. QED
  BY <1>1, <1>2, HistoryFrame

LEMMA HistoryStep ==
  ASSUME Core, HistoryInv, [Next]_vars, Core'
  PROVE  HistoryInv'
<1> USE HistoryFrame DEF listVars, syncVars, producerVars, consumerVars, Popped, InHand, Filled
<1>1. ASSUME NEW t \in Procs, NEW l \in Lists, CallbackLock(t, l)
      PROVE  HistoryInv'
  <2>1. \A u \in Procs, m \in Lists :
          (pc'[u] = "fill" /\ target'[u] = m) <=> (pc[u] = "fill" /\ target[u] = m)
    BY <1>1 DEF CallbackLock, Core, TypeOK
  <2>2. QED
    BY <1>1, <2>1 DEF CallbackLock
<1>2. ASSUME NEW t \in Procs, Alloc(t)
      PROVE  HistoryInv'
  <2> HIDE DEF Popped, Filled
  <2>1. \A m \in Lists : Filled(m)' = Filled(m)
    BY <1>2, AllocFilled
  <2>2. \A m \in Lists : Popped(m)' = Popped(m)
    BY <1>2, AllocFacts
  <2>3. QED
    BY <1>2, <2>1, <2>2 DEF Alloc
<1>3. ASSUME NEW t \in Procs, FillAndUnlock(t)
      PROVE  HistoryInv'
  BY <1>3, FillHistory
<1>4. ASSUME NEW t \in Procs, Post(t)
      PROVE  HistoryInv'
  <2>1. \A u \in Procs, m \in Lists :
          (pc'[u] = "fill" /\ target'[u] = m) <=> (pc[u] = "fill" /\ target[u] = m)
    BY <1>4 DEF Post, Core, TypeOK
  <2>2. QED
    BY <1>4, <2>1 DEF Post
<1>5. CASE ProcessEvents
  BY <1>5 DEF ProcessEvents
<1>6. CASE TryAcquire
  BY <1>6 DEF TryAcquire
<1>7. CASE Lock
  BY <1>7 DEF Lock
<1>8. CASE Pop
  BY <1>8, PopHistory
<1>9. CASE Unlock
  <2>1. \A l \in Lists : InHand(l)' = InHand(l)
    BY <1>9 DEF Unlock
  <2>2. QED
    BY <1>9, <2>1 DEF Unlock
<1>10. CASE Deliver
  BY <1>10, DeliverHistory
<1>11. CASE Return
  BY <1>11 DEF Return
<1>12. CASE Initialize
  BY <1>12 DEF Initialize
<1>13. CASE Finalize
  BY <1>13 DEF Finalize
<1>14. ASSUME NEW t \in Procs, NullLock(t)
       PROVE  HistoryInv'
  BY <1>14 DEF NullLock
<1>15. CASE UNCHANGED vars
  BY <1>15 DEF vars
<1>16. QED
  BY <1>1, <1>2, <1>3, <1>4, <1>5, <1>6, <1>7, <1>8, <1>9, <1>10, <1>11, <1>12,
     <1>13, <1>14, <1>15 DEF Next, Continue, Consume

-----------------------------------------------------------------------------
(***************************************************************************)
(* The theorems.                                                           *)
(***************************************************************************)

\* The inductive invariant: types, mutual exclusion, the local variables, the
\* pointers, the token account and the histories (datachannel.c, the
\* callbacks, process_events, initialize and finalize).
THEOREM Invariance == Spec => []IInv
<1>1. Init => IInv
  BY CoreInit, TokenInit, HistoryInit DEF IInv, Core, TokenFindsNode, Init
<1>2. IInv /\ [Next]_vars => IInv'
  <2> SUFFICES ASSUME IInv, [Next]_vars PROVE IInv'
    OBVIOUS
  <2>1. Core /\ TokenInv /\ TokenFindsNode /\ HistoryInv
    BY DEF IInv, Core
  <2>2. Core'
    BY <2>1, CoreStep
  <2>3. TokenInv' /\ TokenFindsNode'
    BY <2>1, <2>2, TokenStep
  <2>4. HistoryInv'
    BY <2>1, <2>2, HistoryStep
  <2>5. QED
    BY <2>2, <2>3, <2>4 DEF IInv, Core
<1>3. QED
  BY <1>1, <1>2, PTL DEF Spec

\* Every variable keeps its type.
THEOREM TypeCorrect == Spec => []TypeOK
<1>1. IInv => TypeOK
  BY DEF IInv
<1>2. QED
  BY <1>1, Invariance, PTL

\* The linked lists of datachannel.c are intact at every step: no pointer the
\* code may follow or write through is dangling.
THEOREM ListsIntact == Spec => []ListIntact
<1>1. IInv => ListIntact
  BY DEF IInv
<1>2. QED
  BY <1>1, Invariance, PTL

\* A token taken by process_events finds a node, finalize or not.
THEOREM TokenAlwaysFindsNode == Spec => []TokenFindsNode
<1>1. IInv => TokenFindsNode
  BY DEF IInv
<1>2. QED
  BY <1>1, Invariance, PTL

\* Until the first finalize there is one token per queued item.
THEOREM TokensMatchItems == Spec => []TokensMatch
<1>1. IInv => TokensMatch
  BY DEF IInv, TokenInv, TokensMatch
<1>2. QED
  BY <1>1, Invariance, PTL

LEMMA HistoryDelivers == IInv => DeliveredInOrder
<1> SUFFICES ASSUME IInv, NEW l \in Lists
             PROVE  /\ \A i \in DOMAIN delivered[l] :
                         /\ delivered[l][i].num \in 1 .. sent[delivered[l][i].from][l]
                         /\ \A m \in 1 .. delivered[l][i].num - 1 :
                               \E j \in 1 .. i - 1 :
                                   delivered[l][j] = [from |-> delivered[l][i].from, num |-> m]
                    /\ \A i, j \in DOMAIN delivered[l] :
                         i < j /\ delivered[l][i].from = delivered[l][j].from
                           => delivered[l][i].num < delivered[l][j].num
  BY DEF DeliveredInOrder
<1> DEFINE d == delivered[l]
<1>1. Core /\ DeliveredPrefix(l) /\ AllKept(l) /\ KeptInOrder(l)
  BY DEF IInv, Core, HistoryInv
<1>2. d \in Seq(Items) /\ Len(d) \in Nat /\ DOMAIN d = 1 .. Len(d)
  BY <1>1 DEF Core, TypeOK
<1>3. Filled(l) \in Nat /\ Len(d) <= Filled(l)
  <2>1. InHand(l) \in {0, 1}
    BY DEF InHand
  <2>2. QED
    BY <2>1, <1>1, <1>2, FilledType DEF DeliveredPrefix
<1>4. \A i \in 1 .. Len(d) : i \in 1 .. Filled(l) /\ d[i] = item[l][i]
  BY <1>1, <1>2, <1>3 DEF DeliveredPrefix
<1>5. \A i \in 1 .. Len(d) : d[i].num \in 1 .. sent[d[i].from][l]
  BY <1>1, <1>4 DEF KeptInOrder
<1>6. \A i \in 1 .. Len(d) : d[i].from \in Procs /\ d[i].num \in Nat
  <2>1. \A i \in 1 .. Len(d) : d[i] \in Items
    BY <1>2
  <2>2. QED
    BY <2>1 DEF Items
<1>7. \A u \in Procs : sent[u][l] \in Nat
  <2>1. \A u \in Procs : sent[u] \in [Lists -> Nat]
    BY <1>1 DEF Core, TypeOK
  <2>2. QED
    BY <2>1
<1>8. \A i, j \in 1 .. Len(d) : i < j /\ d[i].from = d[j].from => d[i].num < d[j].num
  BY <1>1, <1>4 DEF KeptInOrder
<1>9. ASSUME NEW i \in 1 .. Len(d), NEW m \in 1 .. d[i].num - 1
      PROVE  \E j \in 1 .. i - 1 : d[j] = [from |-> d[i].from, num |-> m]
  <2>1. m \in 1 .. sent[d[i].from][l] /\ m < d[i].num /\ d[i].from \in Procs
    BY <1>5, <1>6, <1>7
  <2>2. PICK j \in 1 .. Filled(l) : item[l][j] = [from |-> d[i].from, num |-> m]
    BY <2>1, <1>1 DEF AllKept
  <2>3. item[l][j].from = item[l][i].from /\ item[l][j].num = m /\ item[l][i].num > m
    BY <2>1, <2>2, <1>4
  <2>4. ~(i < j) /\ i # j
    <3>1. i \in 1 .. Filled(l)
      BY <1>4
    <3>2. i < j => item[l][i].num < item[l][j].num
      BY <3>1, <2>3, <1>1 DEF KeptInOrder
    <3>3. item[l][i].num \in Nat /\ m \in Nat
      BY <1>4, <1>6
    <3>4. QED
      BY <3>2, <3>3, <2>3
  <2>5. j \in 1 .. i - 1 /\ j \in 1 .. Len(d)
    BY <2>4, <1>2, <1>3
  <2>6. QED
    BY <2>2, <2>5, <1>4
<1>10. QED
  BY <1>2, <1>5, <1>8, <1>9

\* The closures see each thread's callbacks complete, once and in order.
THEOREM DeliveryInOrder == Spec => []DeliveredInOrder
  BY HistoryDelivers, Invariance, PTL

-----------------------------------------------------------------------------
(***************************************************************************)
(* Refinement: FillAndUnlock is a Submit, Deliver is a HandOver, every     *)
(* other step leaves the abstract state alone.                             *)
(***************************************************************************)

\* A step that writes no payload and delivers nothing leaves Pending alone.
LEMMA PendingFrame ==
  ASSUME item' = item, delivered' = delivered, sent' = sent,
         \A l \in Lists : Filled(l)' = Filled(l)
  PROVE  UNCHANGED Channel!vars
<1>1. \A l \in Lists : Pending(l)' = Pending(l)
  BY DEF Pending
<1>2. QED
  BY <1>1 DEF Channel!vars

LEMMA PendingLen ==
  ASSUME IInv, NEW l \in Lists
  PROVE  /\ Len(delivered[l]) \in Nat /\ Filled(l) \in Nat
         /\ Len(delivered[l]) + InHand(l) <= Filled(l)
         /\ Pending(l) \in Seq(Items)
         /\ Len(Pending(l)) = Filled(l) - Len(delivered[l])
<1>1. Core /\ DeliveredPrefix(l)
  BY DEF IInv, Core, HistoryInv
<1>2. Len(delivered[l]) \in Nat /\ Filled(l) \in Nat /\ Filled(l) <= MaxEvents
  BY <1>1, FilledType DEF Core, TypeOK
<1>3. Len(delivered[l]) + InHand(l) <= Filled(l)
  <2>1. InHand(l) \in {0, 1}
    BY DEF InHand
  <2>2. QED
    BY <2>1, <1>1, <1>2, FilledType DEF DeliveredPrefix
<1> DEFINE n == Filled(l) - Len(delivered[l])
<1>4. n \in Nat
  <2>1. InHand(l) \in {0, 1}
    BY DEF InHand
  <2>2. QED
    BY <2>1, <1>2, <1>3
<1>5. \A i \in 1 .. n : item[l][i + Len(delivered[l])] \in Items
  <2>1. \A i \in 1 .. n : i + Len(delivered[l]) \in Nodes
    BY <1>2, <1>4, ConstantsAssumption DEF Nodes
  <2>2. QED
    BY <2>1, <1>1 DEF Core, TypeOK
<1>6. Pending(l) \in [1 .. n -> Items]
  BY <1>5 DEF Pending
<1>7. Pending(l) \in Seq(Items) /\ Len(Pending(l)) = n
  BY <1>4, <1>6
<1>8. QED
  BY <1>2, <1>3, <1>7

LEMMA FillSubmits ==
  ASSUME IInv, IInv', NEW t \in Procs, FillAndUnlock(t)
  PROVE  \E l \in Lists : Channel!Submit(t, l)
<1>0. PICK l \in Lists : l = target[t]
  BY DEF IInv, TypeOK
<1> DEFINE f == fresh[l]
           k == sent[t][l] + 1
           e == [from |-> t, num |-> k]
           n == Len(delivered[l])
<1>1. f \in Nat /\ res[t] = f /\ mutex = t /\ f \in Nodes
  BY <1>0 DEF IInv, FillAndUnlock, PhaseInv, MutexInv, TypeOK, ListIntact, Nodes
<1>2. /\ \A u \in Procs \ {t} : pc[u] # "fill"
      /\ \A u \in Procs : pc'[u] # "fill"
  BY <1>1 DEF IInv, MutexInv, FillAndUnlock, TypeOK
<1>3. Filled(l) = f - 1 /\ Filled(l)' = f
  BY <1>0, <1>1, <1>2 DEF Filled, FillAndUnlock, listVars
<1>4. ASSUME NEW m \in Lists, m # l
      PROVE  Filled(m)' = Filled(m)
  <2>1. ~ \E u \in Procs : pc[u] = "fill" /\ target[u] = m
    BY <1>0, <1>2, <1>4
  <2>2. ~ \E u \in Procs : pc'[u] = "fill" /\ target'[u] = m
    BY <1>2
  <2>3. QED
    BY <2>1, <2>2 DEF Filled, FillAndUnlock, listVars
<1>5. /\ item'[l] = [item[l] EXCEPT ![f] = e]
      /\ \A m \in Lists \ {l} : item'[m] = item[m]
      /\ delivered' = delivered
  BY <1>0, <1>1 DEF IInv, FillAndUnlock, TypeOK
<1>6. item'[l][f] = e /\ \A i \in Nodes \ {f} : item'[l][i] = item[l][i]
  <2>1. item[l] \in [Nodes -> Items]
    BY DEF IInv, TypeOK
  <2>2. QED
    BY <2>1, <1>1, <1>5
<1>7. n \in Nat /\ n <= f - 1 /\ Pending(l) \in Seq(Items) /\ Len(Pending(l)) = f - 1 - n
  <2>1. InHand(l) \in {0, 1}
    BY DEF InHand
  <2>2. QED
    BY <2>1, <1>1, <1>3, PendingLen
<1>8. Pending(l)' \in Seq(Items') /\ Len(Pending(l)') = f - n
  <2>1. Len(delivered'[l]) = n
    BY <1>5
  <2>2. Len(Pending(l)') = f - n
    <3>1. Pending(l)' = [i \in 1 .. f - n |-> item'[l][i + n]]
      BY <1>3, <1>5 DEF Pending
    <3>2. f - n \in Nat
      BY <1>1, <1>7
    <3>3. QED
      BY <3>1, <3>2
  <2>3. Pending(l)' \in Seq(Items')
    <3>1. Pending(l)' = [i \in 1 .. f - n |-> item'[l][i + n]]
      BY <1>3, <1>5 DEF Pending
    <3>2. \A i \in 1 .. f - n : item'[l][i + n] \in Items
      <4>1. \A i \in 1 .. f - n : i + n \in Nodes
        BY <1>1, <1>7, ConstantsAssumption DEF Nodes
      <4>2. item'[l] \in [Nodes -> Items]
        BY DEF IInv, TypeOK, Items, Nodes, Procs
      <4>3. QED
        BY <4>1, <4>2
    <3>3. f - n \in Nat /\ Items' = Items
      BY <1>1, <1>7 DEF Items, Procs
    <3>4. QED
      BY <3>1, <3>2, <3>3
  <2>4. QED
    BY <2>2, <2>3
<1>9. Pending(l)' = Append(Pending(l), e)
  <2>1. Pending(l)' = [i \in 1 .. f - n |-> item'[l][i + n]]
    BY <1>3, <1>5 DEF Pending
  <2>2. Pending(l) = [i \in 1 .. f - 1 - n |-> item[l][i + n]]
    BY <1>3 DEF Pending
  <2>3. e \in Items
    <3>1. sent[t] \in [Lists -> Nat]
      BY DEF IInv, TypeOK
    <3>2. QED
      BY <3>1 DEF Items
  <2>4. /\ Append(Pending(l), e) \in Seq(Items)
        /\ Len(Append(Pending(l), e)) = f - n
    BY <2>3, <1>1, <1>7
  <2>5. ASSUME NEW i \in 1 .. f - n
        PROVE  Pending(l)'[i] = Append(Pending(l), e)[i]
    <3>1. CASE i = f - n
      <4>1. Pending(l)'[i] = e
        BY <3>1, <2>1, <1>6, <1>1, <1>7
      <4>2. Append(Pending(l), e)[i] = e
        BY <3>1, <2>3, <1>1, <1>7
      <4>3. QED
        BY <4>1, <4>2
    <3>2. CASE i # f - n
      <4>1. i \in 1 .. f - 1 - n /\ i + n \in Nodes \ {f}
        <5>1. i \in Nat /\ i >= 1 /\ i < f - n
          BY <3>2, <1>1, <1>7
        <5>2. i + n \in Nat /\ i + n >= 1 /\ i + n < f
          BY <5>1, <1>1, <1>7
        <5>3. f <= MaxEvents
          BY <1>1 DEF Nodes
        <5>4. i \in 1 .. f - 1 - n
          BY <5>1, <1>1, <1>7
        <5>5. i + n \in Nodes
          BY <5>2, <5>3, <1>1, ConstantsAssumption DEF Nodes
        <5>6. QED
          BY <5>2, <5>4, <5>5, <1>1
      <4>2. Append(Pending(l), e)[i] = Pending(l)[i]
        BY <4>1, <2>3, <1>7
      <4>3. Pending(l)'[i] = item[l][i + n] /\ Pending(l)[i] = item[l][i + n]
        BY <4>1, <2>1, <2>2, <1>6
      <4>4. QED
        BY <4>2, <4>3
    <3>3. QED
      BY <3>1, <3>2
  <2>6. DOMAIN Append(Pending(l), e) = 1 .. f - n
    BY <2>4
  <2>7. DOMAIN Pending(l)' = 1 .. f - n
    BY <2>1
  <2>8. Pending(l)' = [i \in 1 .. f - n |-> Pending(l)'[i]]
    BY <2>1
  <2>9. Append(Pending(l), e) = [i \in 1 .. f - n |-> Append(Pending(l), e)[i]]
    BY <2>4, <2>6
  <2>10. QED
    BY <2>5, <2>8, <2>9
<1>10. \A m \in Lists \ {l} : Pending(m)' = Pending(m)
  BY <1>4, <1>5 DEF Pending
<1>11. sent' = [sent EXCEPT ![t][l] = sent[t][l] + 1] /\ sent'[t][l] = k
  <2>1. sent[t] \in [Lists -> Nat]
    BY DEF IInv, TypeOK
  <2>2. sent' = [sent EXCEPT ![t] = [sent[t] EXCEPT ![l] = k]]
    BY <1>0 DEF FillAndUnlock
  <2>3. sent'[t] = [sent[t] EXCEPT ![l] = k]
    BY <2>2 DEF IInv, TypeOK
  <2>4. QED
    BY <2>1, <2>2, <2>3
<1>12. [m \in Lists |-> Pending(m)]'
         = [[m \in Lists |-> Pending(m)] EXCEPT ![l] = Append(Pending(l), e)]
  BY <1>9, <1>10
<1>13. QED
  BY <1>5, <1>11, <1>12 DEF Channel!Submit

LEMMA TailFunction ==
  ASSUME NEW S, NEW q \in Seq(S), q # <<>>
  PROVE  Tail(q) = [i \in 1 .. Len(q) - 1 |-> q[i + 1]]
<1>1. /\ Tail(q) \in Seq(S) /\ Len(Tail(q)) = Len(q) - 1
      /\ \A i \in 1 .. Len(Tail(q)) : Tail(q)[i] = q[i + 1]
  BY HeadTailProperties
<1> DEFINE r == Tail(q)
<1>2. r \in Seq(S)
  BY <1>1
<1>3. r = [i \in 1 .. Len(r) |-> r[i]]
  <2> HIDE DEF r
  <2>1. QED
    BY <1>2
<1>4. QED
  BY <1>1, <1>3

LEMMA DeliverHandsOver ==
  ASSUME IInv, Deliver
  PROVE  \E l \in Lists : Channel!HandOver(l)
<1>0. PICK l \in Lists : l = clist
  BY DEF IInv, TypeOK
<1> DEFINE n == Len(delivered[l])
           q == Pending(l)
<1>1. /\ item' = item /\ sent' = sent
      /\ \A m \in Lists : Filled(m)' = Filled(m)
      /\ delivered' = [delivered EXCEPT ![l] = Append(delivered[l], item[l][cres])]
  BY <1>0 DEF Deliver, Filled, listVars, producerVars
<1>2. InHand(l) = 1 /\ cres = Popped(l) /\ cres \in Nodes
  BY <1>0 DEF Deliver, InHand, IInv, PhaseInv, TypeOK
<1>3. n \in Nat /\ n + 1 <= Filled(l) /\ Filled(l) \in Nat
      /\ q \in Seq(Items) /\ Len(q) = Filled(l) - n
  BY <1>2, PendingLen
<1>4. cres = n + 1
  BY <1>2, <1>3 DEF IInv, HistoryInv, DeliveredPrefix, Nodes
<1>5. q = [i \in 1 .. Filled(l) - n |-> item[l][i + n]]
  BY DEF Pending
<1>6. q # <<>> /\ Head(q) = item[l][cres]
  <2>1. Len(q) > 0 /\ 1 \in 1 .. Filled(l) - n
    BY <1>3
  <2>2. q # <<>> /\ Head(q) = q[1]
    BY <2>1, <1>3
  <2>3. q[1] = item[l][1 + n]
    BY <2>1, <1>5
  <2>4. QED
    BY <2>2, <2>3, <1>3, <1>4
<1>7. Len(delivered'[l]) = n + 1 /\ \A m \in Lists \ {l} : delivered'[m] = delivered[m]
  <2>1. delivered[l] \in Seq(Items) /\ item[l][cres] \in Items
    BY <1>2 DEF IInv, TypeOK
  <2>2. delivered'[l] = Append(delivered[l], item[l][cres])
    BY <1>1 DEF IInv, TypeOK
  <2>3. QED
    BY <2>1, <2>2, <1>1 DEF IInv, TypeOK
<1>8. Pending(l)' = Tail(q)
  <2>1. Pending(l)' = [i \in 1 .. Filled(l) - (n + 1) |-> item[l][i + (n + 1)]]
    BY <1>1, <1>7 DEF Pending
  <2>2. Len(q) > 0 /\ Len(q) - 1 = Filled(l) - (n + 1)
    BY <1>3
  <2>3. Tail(q) = [i \in 1 .. Len(q) - 1 |-> q[i + 1]]
    BY <1>3, <1>6, TailFunction
  <2>4. \A i \in 1 .. Len(q) - 1 : q[i + 1] = item[l][i + (n + 1)]
    <3>1. ASSUME NEW i \in 1 .. Len(q) - 1
          PROVE  i + 1 \in 1 .. Filled(l) - n /\ (i + 1) + n = i + (n + 1)
      <4>1. i \in Nat /\ i >= 1 /\ i <= Filled(l) - n - 1
        BY <1>3
      <4>2. n \in Int /\ Filled(l) \in Int
        BY <1>3
      <4> HIDE DEF n
      <4>3. i + 1 \in 1 .. Filled(l) - n
        BY <4>1, <4>2
      <4>4. (i + 1) + n = i + (n + 1)
        BY <4>1, <4>2
      <4>5. QED
        BY <4>3, <4>4
    <3>2. QED
      BY <3>1, <1>5
  <2>5. QED
    BY <2>1, <2>2, <2>3, <2>4
<1>9. \A m \in Lists \ {l} : Pending(m)' = Pending(m)
  BY <1>1, <1>7 DEF Pending
<1>10. [m \in Lists |-> Pending(m)]'
         = [[m \in Lists |-> Pending(m)] EXCEPT ![l] = Tail(q)]
  BY <1>8, <1>9
<1>11. QED
  BY <1>1, <1>6, <1>10 DEF Channel!HandOver

LEMMA ChannelStep ==
  ASSUME IInv, IInv', [Next]_vars
  PROVE  [Channel!Next]_(Channel!vars)
<1>0. Core /\ Core'
  BY DEF IInv, Core
<1> USE PendingFrame DEF listVars, syncVars, producerVars, consumerVars, Filled
<1>1. ASSUME NEW t \in Procs, NEW l \in Lists, CallbackLock(t, l)
      PROVE  UNCHANGED Channel!vars
  <2>1. \A u \in Procs, m \in Lists :
          (pc'[u] = "fill" /\ target'[u] = m) <=> (pc[u] = "fill" /\ target[u] = m)
    BY <1>0, <1>1 DEF CallbackLock, Core, TypeOK
  <2>2. QED
    BY <1>1, <2>1 DEF CallbackLock
<1>2. ASSUME NEW t \in Procs, Alloc(t)
      PROVE  UNCHANGED Channel!vars
  <2> HIDE DEF Filled
  <2>1. \A m \in Lists : Filled(m)' = Filled(m)
    BY <1>0, <1>2, AllocFilled
  <2>2. QED
    BY <1>2, <2>1 DEF Alloc
<1>3. ASSUME NEW t \in Procs, FillAndUnlock(t)
      PROVE  Channel!Next
  BY <1>3, FillSubmits DEF Channel!Next
<1>4. ASSUME NEW t \in Procs, Post(t)
      PROVE  UNCHANGED Channel!vars
  <2>1. \A u \in Procs, m \in Lists :
          (pc'[u] = "fill" /\ target'[u] = m) <=> (pc[u] = "fill" /\ target[u] = m)
    BY <1>0, <1>4 DEF Post, Core, TypeOK
  <2>2. QED
    BY <1>4, <2>1 DEF Post
<1>5. CASE ProcessEvents
  BY <1>5 DEF ProcessEvents
<1>6. CASE TryAcquire \/ Lock \/ Pop \/ Unlock \/ Return
  BY <1>6 DEF TryAcquire, Lock, Pop, Unlock, Return
<1>7. CASE Deliver
  BY <1>7, DeliverHandsOver DEF Channel!Next
<1>8. CASE Initialize \/ Finalize
  BY <1>8 DEF Initialize, Finalize
<1>9. ASSUME NEW t \in Procs, NullLock(t)
      PROVE  UNCHANGED Channel!vars
  BY <1>9 DEF NullLock
<1>10. CASE UNCHANGED vars
  BY <1>10 DEF vars
<1>11. QED
  BY <1>1, <1>2, <1>3, <1>4, <1>5, <1>6, <1>7, <1>8, <1>9, <1>10
     DEF Next, Continue, Consume

\* The queue of datachannel.c implements two lossless FIFO channels.
THEOREM Refinement == Spec => RefinesChannel
<1>1. Init => Channel!Init
  <2> SUFFICES ASSUME Init PROVE Channel!Init
    OBVIOUS
  <2>1. \A l \in Lists : Filled(l) = 0 /\ Len(delivered[l]) = 0
    BY DEF Init, Filled
  <2>2. \A l \in Lists : Pending(l) = <<>>
    BY <2>1 DEF Pending
  <2>3. QED
    BY <2>2 DEF Init, Channel!Init
<1>2. IInv /\ IInv' /\ [Next]_vars => [Channel!Next]_(Channel!vars)
  BY ChannelStep
<1>3. QED
  BY <1>1, <1>2, Invariance, PTL DEF Spec, RefinesChannel, Channel!Spec
=============================================================================
