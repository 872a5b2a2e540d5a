---------------------------- MODULE HandlesProofs ----------------------------
(***************************************************************************)
(* Proofs about Handles, for any set of library threads, any number of     *)
(* handles, and with or without callbacks that race rtcCleanup.            *)
(***************************************************************************)
EXTENDS Handles, TLAPS

Kinds == {"pc", "dc", "tr", "ws", "srv"}

Threads == [at : {"idle", "emplace", "lookup", "set", "call"}, id : 0 .. MaxId,
            what : {"event", "child", "closed"}, child : 0 .. MaxId, p : 0 .. Absent]

TypeOK ==
  /\ lastId \in 0 .. MaxId
  /\ kind \in [Ids -> Kinds \cup {"none"}]
  /\ map \in SUBSET Ids /\ cb \in SUBSET Ids
  /\ ptr \in [Ids -> 0 .. Absent]
  /\ slot \in [Ids -> Libs \cup {Nobody}]
  /\ media \in [Ids -> SUBSET {"config", "session", "reporter"}]
  /\ fresh \in SUBSET Ids /\ wrapped \in SUBSET Ids
  /\ fin \in [Ids -> SUBSET {"reset", "erase", "free"}]
  /\ reg \in {"free", "cleanup"} /\ cleaned \in BOOLEAN
  /\ thr \in [Libs -> Threads]

\* A handle beyond the last one has left no trace.
UnusedInv ==
  \A i \in Ids : i > lastId =>
    i \notin map \cup cb \cup fresh \cup wrapped /\ ptr[i] = Absent /\ media[i] = {}

\* A thread in a callback holds the slot of an object that has callbacks, and
\* what it read as user pointer is the pointer of that object.
ThreadOK(t) ==
  /\ thr[t].at = "idle" => thr[t] = Idle
  /\ thr[t].at # "idle" => thr[t].id \in cb /\ slot[thr[t].id] = t
  /\ thr[t].at \in {"set", "call"} =>
       \/ thr[t].p = thr[t].id
       \/ thr[t].p = 0 /\ kind[thr[t].id] = "srv"
  /\ thr[t].child # 0 =>
       /\ thr[t].child \in 1 .. lastId /\ kind[thr[t].id] \in {"pc", "srv"}
       /\ thr[t].child \notin cb \cup fresh \cup wrapped
  /\ thr[t].at = "set" => thr[t].child # 0
  /\ thr[t].at = "emplace" => thr[t].child = 0 /\ kind[thr[t].id] \in {"pc", "srv"}

ThreadInv == \A t \in Libs : ThreadOK(t)

\* No two threads report the same child.
ChildInv ==
  \A t, u \in Libs : thr[t].child # 0 /\ thr[t].child = thr[u].child => t = u

\* Where a handle stands: reported, then wrapped, then finalized, its callbacks
\* gone first unless it is a track.
OwnerInv ==
  \A i \in Ids :
    /\ i \in cb => "reset" \notin fin[i]
    /\ i \in cb => i \in wrapped \/ (kind[i] = "srv" /\ i \in fresh)
    /\ i \in fresh => i \notin wrapped
    /\ i \in cb => ptr[i] \in {i, Absent} \/ (ptr[i] = 0 /\ kind[i] = "srv")
    /\ fin[i] # {} => i \in wrapped
    /\ "free" \in fin[i] => fin[i] = {"reset", "erase", "free"}
    /\ "erase" \in fin[i] /\ kind[i] # "tr" => "reset" \in fin[i]

\* Until rtcCleanup the registry is what the finalizers have left of it.
RegistryInv ==
  /\ reg = "cleanup" => ~cleaned
  /\ ~cleaned =>
       \A i \in 1 .. lastId :
         /\ ptr[i] # Absent <=> "erase" \notin fin[i]
         /\ reg = "free" => (i \in map <=> "erase" \notin fin[i])
         /\ media[i] # {} => "erase" \notin fin[i]
         /\ \/ i \in fresh \cup wrapped
            \/ \E t \in Libs : thr[t].child = i

IInv == TypeOK /\ UnusedInv /\ ThreadInv /\ ChildInv /\ OwnerInv /\ RegistryInv
LEMMA CreatePeerConnectionInv ==
  ASSUME IInv, CreatePeerConnection
  PROVE  IInv'
<1> USE HandlesAssumption DEF IInv, TypeOK, CreatePeerConnection, Emplace, MakePeerConnection
<1>1. TypeOK'
  BY DEF Threads, Kinds, Idle, Ids, Absent
<1>2. UnusedInv'
  BY DEF UnusedInv, Ids, Absent
<1>3. ThreadInv'
  BY DEF ThreadInv, ThreadOK, UnusedInv, OwnerInv, Threads, Idle, Ids, Absent
<1>4. ChildInv'
  BY DEF ChildInv, ThreadInv, ThreadOK, Threads, Idle, Ids
<1>5. OwnerInv'
  BY DEF OwnerInv, UnusedInv, ThreadInv, ThreadOK, Threads, Ids, Absent
<1>6. RegistryInv'
  BY DEF RegistryInv, OwnerInv, UnusedInv, ThreadInv, ThreadOK, Threads, Idle, Ids, Absent
<1>7. QED
  BY <1>1, <1>2, <1>3, <1>4, <1>5, <1>6

LEMMA CreateWebSocketServerInv ==
  ASSUME IInv, CreateWebSocketServer
  PROVE  IInv'
<1> USE HandlesAssumption DEF IInv, TypeOK, CreateWebSocketServer, Emplace
<1>1. TypeOK'
  BY DEF Threads, Kinds, Idle, Ids, Absent
<1>2. UnusedInv'
  BY DEF UnusedInv, Ids, Absent
<1>3. ThreadInv'
  BY DEF ThreadInv, ThreadOK, UnusedInv, OwnerInv, Threads, Idle, Ids, Absent
<1>4. ChildInv'
  BY DEF ChildInv, ThreadInv, ThreadOK, Threads, Idle, Ids
<1>5. OwnerInv'
  BY DEF OwnerInv, UnusedInv, ThreadInv, ThreadOK, Threads, Ids, Absent
<1>6. RegistryInv'
  BY DEF RegistryInv, OwnerInv, UnusedInv, ThreadInv, ThreadOK, Threads, Idle, Ids, Absent
<1>7. QED
  BY <1>1, <1>2, <1>3, <1>4, <1>5, <1>6

LEMMA CreateWebSocketInv ==
  ASSUME IInv, CreateWebSocket
  PROVE  IInv'
<1> USE HandlesAssumption DEF IInv, TypeOK, CreateWebSocket, Emplace
<1>1. TypeOK'
  BY DEF Threads, Kinds, Idle, Ids, Absent
<1>2. UnusedInv'
  BY DEF UnusedInv, Ids, Absent
<1>3. ThreadInv'
  BY DEF ThreadInv, ThreadOK, UnusedInv, OwnerInv, Threads, Idle, Ids, Absent
<1>4. ChildInv'
  BY DEF ChildInv, ThreadInv, ThreadOK, Threads, Idle, Ids
<1>5. OwnerInv'
  BY DEF OwnerInv, UnusedInv, ThreadInv, ThreadOK, Threads, Ids, Absent
<1>6. RegistryInv'
  BY DEF RegistryInv, OwnerInv, UnusedInv, ThreadInv, ThreadOK, Threads, Idle, Ids, Absent
<1>7. QED
  BY <1>1, <1>2, <1>3, <1>4, <1>5, <1>6

LEMMA CreateDataChannelInv ==
  ASSUME IInv, NEW i \in Ids, CreateDataChannel(i)
  PROVE  IInv'
<1> USE HandlesAssumption DEF IInv, TypeOK, CreateDataChannel, Emplace, Get, Inherited
<1>1. TypeOK'
  BY DEF Threads, Kinds, Idle, Ids, Absent
<1>2. UnusedInv'
  BY DEF UnusedInv, Ids, Absent
<1>3. ThreadInv'
  BY DEF ThreadInv, ThreadOK, UnusedInv, OwnerInv, Threads, Idle, Ids, Absent
<1>4. ChildInv'
  BY DEF ChildInv, ThreadInv, ThreadOK, Threads, Idle, Ids
<1>5. OwnerInv'
  BY DEF OwnerInv, UnusedInv, ThreadInv, ThreadOK, Threads, Ids, Absent
<1>6. RegistryInv'
  BY DEF RegistryInv, OwnerInv, UnusedInv, ThreadInv, ThreadOK, Threads, Idle, Ids, Absent
<1>7. QED
  BY <1>1, <1>2, <1>3, <1>4, <1>5, <1>6

LEMMA AddTrackInv ==
  ASSUME IInv, NEW i \in Ids, AddTrack(i)
  PROVE  IInv'
<1> USE HandlesAssumption DEF IInv, TypeOK, AddTrack, Emplace, Get, Inherited
<1>1. TypeOK'
  BY DEF Threads, Kinds, Idle, Ids, Absent
<1>2. UnusedInv'
  BY DEF UnusedInv, Ids, Absent
<1>3. ThreadInv'
  BY DEF ThreadInv, ThreadOK, UnusedInv, OwnerInv, Threads, Idle, Ids, Absent
<1>4. ChildInv'
  BY DEF ChildInv, ThreadInv, ThreadOK, Threads, Idle, Ids
<1>5. OwnerInv'
  BY DEF OwnerInv, UnusedInv, ThreadInv, ThreadOK, Threads, Ids, Absent
<1>6. RegistryInv'
  BY DEF RegistryInv, OwnerInv, UnusedInv, ThreadInv, ThreadOK, Threads, Idle, Ids, Absent
<1>7. QED
  BY <1>1, <1>2, <1>3, <1>4, <1>5, <1>6

LEMMA WrapInv ==
  ASSUME IInv, NEW i \in Ids, Wrap(i)
  PROVE  IInv'
<1> USE HandlesAssumption DEF IInv, TypeOK, Wrap
<1>1. TypeOK'
  BY DEF Threads, Kinds, Idle, Ids, Absent
<1>2. UnusedInv'
  BY DEF UnusedInv, Ids, Absent
<1>3. ThreadInv'
  BY DEF ThreadInv, ThreadOK, UnusedInv, OwnerInv, Threads, Idle, Ids, Absent
<1>4. ChildInv'
  BY DEF ChildInv, ThreadInv, ThreadOK, Threads, Idle, Ids
<1>5. OwnerInv'
  BY DEF OwnerInv, UnusedInv, ThreadInv, ThreadOK, Threads, Ids, Absent
<1>6. RegistryInv'
  BY DEF RegistryInv, OwnerInv, UnusedInv, ThreadInv, ThreadOK, Threads, Idle, Ids, Absent
<1>7. QED
  BY <1>1, <1>2, <1>3, <1>4, <1>5, <1>6

LEMMA SetPacketizerInv ==
  ASSUME IInv, NEW i \in Ids, SetPacketizer(i)
  PROVE  IInv'
<1> USE HandlesAssumption DEF IInv, TypeOK, SetPacketizer, Get, EmplaceMedia
<1>1. TypeOK'
  BY DEF Threads, Kinds, Idle, Ids, Absent
<1>2. UnusedInv'
  BY DEF UnusedInv, Ids, Absent
<1>3. ThreadInv'
  BY DEF ThreadInv, ThreadOK, UnusedInv, OwnerInv, Threads, Idle, Ids, Absent
<1>4. ChildInv'
  BY DEF ChildInv, ThreadInv, ThreadOK, Threads, Idle, Ids
<1>5. OwnerInv'
  BY DEF OwnerInv, UnusedInv, ThreadInv, ThreadOK, Threads, Ids, Absent
<1>6. RegistryInv'
  BY DEF RegistryInv, OwnerInv, UnusedInv, ThreadInv, ThreadOK, Threads, Idle, Ids, Absent
<1>7. QED
  BY <1>1, <1>2, <1>3, <1>4, <1>5, <1>6

LEMMA ChainHandlerInv ==
  ASSUME IInv, NEW i \in Ids, NEW h \in {"session", "reporter"}, ChainHandler(i, h)
  PROVE  IInv'
<1> USE HandlesAssumption DEF IInv, TypeOK, ChainHandler, Get, EmplaceMedia
<1>1. TypeOK'
  BY DEF Threads, Kinds, Idle, Ids, Absent
<1>2. UnusedInv'
  BY DEF UnusedInv, Ids, Absent
<1>3. ThreadInv'
  BY DEF ThreadInv, ThreadOK, UnusedInv, OwnerInv, Threads, Idle, Ids, Absent
<1>4. ChildInv'
  BY DEF ChildInv, ThreadInv, ThreadOK, Threads, Idle, Ids
<1>5. OwnerInv'
  BY DEF OwnerInv, UnusedInv, ThreadInv, ThreadOK, Threads, Ids, Absent
<1>6. RegistryInv'
  BY DEF RegistryInv, OwnerInv, UnusedInv, ThreadInv, ThreadOK, Threads, Idle, Ids, Absent
<1>7. QED
  BY <1>1, <1>2, <1>3, <1>4, <1>5, <1>6

LEMMA EnterInv ==
  ASSUME IInv, NEW t \in Libs, NEW i \in Ids,
         NEW what \in {"event", "child", "closed"}, Enter(t, i, what)
  PROVE  IInv'
<1> USE HandlesAssumption DEF IInv
<1> DEFINE at == IF what = "child" THEN "emplace" ELSE "lookup"
<1>a. /\ thr' \in [Libs -> Threads]
      /\ thr'[t] = [Idle EXCEPT !.at = at, !.id = i, !.what = what]
      /\ \A u \in Libs \ {t} : thr'[u] = thr[u]
  <2> DEFINE r == [Idle EXCEPT !.at = at, !.id = i, !.what = what]
  <2>1. r \in Threads
    <3>1. at \in {"emplace", "lookup"} /\ i \in 0 .. MaxId /\ 0 \in 0 .. MaxId /\ 0 \in 0 .. Absent
      BY DEF Ids, Absent
    <3>2. Idle \in Threads
      BY <3>1 DEF Idle, Threads
    <3> HIDE DEF at
    <3>3. QED
      BY <3>1, <3>2 DEF Threads
  <2>3. thr' = [thr EXCEPT ![t] = r]
    BY DEF Enter
  <2>4. QED
    BY <2>1, <2>3 DEF TypeOK
<1>b. /\ thr[t].at = "idle" /\ thr[t].child = 0 /\ i \in cb /\ slot[i] = Nobody
      /\ what = "child" => kind[i] \in {"pc", "srv"}
      /\ slot' = [slot EXCEPT ![i] = t]
      /\ thr'[t].at = at /\ thr'[t].id = i /\ thr'[t].child = 0
      /\ UNCHANGED <<media, lastId, kind, map, ptr, cb, fresh, wrapped, fin, reg, cleaned>>
  BY <1>a DEF Enter, Idle
<1>1. TypeOK'
  BY <1>a, <1>b DEF TypeOK
<1>2. UnusedInv'
  BY <1>b DEF UnusedInv
<1>3. ThreadInv'
  <2>1. ASSUME NEW u \in Libs \ {t} PROVE thr[u].at # "idle" => thr[u].id # i
    BY <1>b DEF ThreadInv, ThreadOK, Nobody
  <2>2. ThreadOK(t)'
    BY <1>b DEF ThreadOK, TypeOK
  <2>3. ASSUME NEW u \in Libs \ {t} PROVE ThreadOK(u)'
    BY <1>a, <1>b, <2>1 DEF ThreadInv, ThreadOK, TypeOK
  <2>4. QED
    BY <2>2, <2>3 DEF ThreadInv
<1>4. ChildInv'
  <2>1. \A u \in Libs : thr'[u].child = thr[u].child
    BY <1>a, <1>b
  <2>2. QED
    BY <2>1 DEF ChildInv
<1>5. OwnerInv'
  BY <1>b DEF OwnerInv
<1>6. RegistryInv'
  <2>1. \A u \in Libs : thr'[u].child = thr[u].child
    BY <1>a, <1>b
  <2>2. QED
    BY <1>b, <2>1 DEF RegistryInv
<1>7. QED
  BY <1>1, <1>2, <1>3, <1>4, <1>5, <1>6

LEMMA EmplaceChildInv ==
  ASSUME IInv, NEW t \in Libs, EmplaceChild(t)
  PROVE  IInv'
<1> USE HandlesAssumption DEF IInv
<1> DEFINE n == lastId + 1
<1>a. /\ thr' \in [Libs -> Threads]
      /\ thr'[t] = [thr[t] EXCEPT !.at = "lookup", !.child = n]
      /\ \A u \in Libs \ {t} : thr'[u] = thr[u]
      /\ n \in Ids /\ lastId' = n /\ n > lastId
  <2> DEFINE r == [thr[t] EXCEPT !.at = "lookup", !.child = n]
  <2>1. n \in Ids /\ lastId' = n /\ n > lastId
    BY DEF TypeOK, EmplaceChild, Emplace, Ids
  <2>2. r \in Threads
    <3>1. thr[t] \in Threads /\ n \in 0 .. MaxId
      BY <2>1 DEF TypeOK, Ids
    <3>2. QED
      BY <3>1 DEF Threads
  <2>3. thr' = [thr EXCEPT ![t] = r]
    BY DEF EmplaceChild
  <2>4. QED
    BY <2>1, <2>2, <2>3 DEF TypeOK
<1>b. /\ thr'[t].at = "lookup" /\ thr'[t].id = thr[t].id /\ thr'[t].child = n
      /\ thr[t].at = "emplace" /\ thr[t].child = 0 /\ kind[thr[t].id] \in {"pc", "srv"}
      /\ thr[t].id \in cb /\ reg = "free"
      /\ n \notin map \cup cb \cup fresh \cup wrapped /\ media[n] = {} /\ fin[n] = {}
  BY <1>a DEF TypeOK, EmplaceChild, Emplace, Threads, ThreadInv, ThreadOK, UnusedInv, OwnerInv
<1>c. PICK k \in Channels : kind' = [kind EXCEPT ![n] = k]
  BY DEF EmplaceChild, Emplace
<1>d. /\ map' = map \cup {n} /\ ptr' = [ptr EXCEPT ![n] = 0]
      /\ UNCHANGED <<media, cb, slot, fresh, wrapped, fin, reg, cleaned>>
  BY DEF EmplaceChild, Emplace
<1>1. TypeOK'
  BY <1>a, <1>c, <1>d DEF TypeOK, Kinds, Channels, Ids, Absent
<1>2. UnusedInv'
  BY <1>a, <1>d DEF UnusedInv, TypeOK, Ids
<1>3. ThreadInv'
  <2>1. \A j \in cb : j \in Ids /\ kind'[j] = kind[j]
    BY <1>b, <1>c DEF TypeOK
  <2>2. ThreadOK(t)'
    BY <1>a, <1>b, <1>d, <2>1 DEF ThreadInv, ThreadOK, TypeOK, Ids
  <2>3. ASSUME NEW u \in Libs \ {t} PROVE ThreadOK(u)'
    <3>1. ThreadOK(u) /\ thr'[u] = thr[u]
      BY <1>a DEF ThreadInv
    <3>2. thr[u].child # 0 => thr[u].at # "idle"
      BY <3>1 DEF ThreadOK, Idle
    <3>3. QED
      BY <1>a, <1>d, <2>1, <3>1, <3>2 DEF ThreadOK, TypeOK
  <2>4. QED
    BY <2>2, <2>3 DEF ThreadInv
<1>4. ChildInv'
  <2>1. \A u \in Libs : thr[u].child # n
    BY <1>a DEF ThreadInv, ThreadOK, TypeOK, Threads
  <2>2. \A u \in Libs : thr'[u].child = IF u = t THEN n ELSE thr[u].child
    BY <1>a, <1>b
  <2>3. QED
    BY <2>1, <2>2 DEF ChildInv
<1>5. OwnerInv'
  BY <1>a, <1>b, <1>c, <1>d DEF OwnerInv, TypeOK
<1>6. RegistryInv'
  <2>1. \A j \in 1 .. n : j \in 1 .. lastId \/ j = n
    BY DEF TypeOK
  <2>2. \A j \in 1 .. lastId : (\E u \in Libs : thr[u].child = j) => (\E u \in Libs : thr'[u].child = j)
    BY <1>a, <1>b DEF TypeOK
  <2>3. \A j \in 1 .. lastId : ptr'[j] = ptr[j] /\ (j \in map' <=> j \in map)
    BY <1>a, <1>d DEF TypeOK, Ids
  <2>4. ptr'[n] # Absent /\ n \in map' /\ fin'[n] = {} /\ media'[n] = {} /\ thr'[t].child = n
    BY <1>a, <1>b, <1>d DEF TypeOK, Absent, Ids
  <2>5. QED
    BY <1>a, <1>d, <2>1, <2>2, <2>3, <2>4 DEF RegistryInv
<1>7. QED
  BY <1>1, <1>2, <1>3, <1>4, <1>5, <1>6

\* The end of a callback, with nothing to report or nobody left to report to.
LEMMA LeaveInv ==
  ASSUME IInv, NEW t \in Libs, thr[t].at # "idle", thr[t].child # 0 => cleaned, Leave(t),
         UNCHANGED <<media, lastId, kind, map, ptr, fresh, wrapped, fin, reg, cleaned>>
  PROVE  IInv'
<1> USE HandlesAssumption DEF IInv
<1> DEFINE i == thr[t].id
<1>a. /\ i \in cb /\ i \in Ids /\ slot[i] = t
  BY DEF ThreadInv, ThreadOK, TypeOK
<1>b. /\ slot' = [slot EXCEPT ![i] = Nobody]
      /\ cb' \subseteq cb /\ cb \ {i} \subseteq cb'
      /\ thr' \in [Libs -> Threads]
      /\ thr'[t] = Idle /\ \A u \in Libs \ {t} : thr'[u] = thr[u]
  BY DEF Leave, TypeOK, Threads, Idle, Absent
<1>c. \A u \in Libs \ {t} : thr[u].at # "idle" => thr[u].id # i
  BY <1>a DEF ThreadInv, ThreadOK
<1>1. TypeOK'
  BY <1>a, <1>b DEF TypeOK
<1>2. UnusedInv'
  BY <1>a, <1>b DEF UnusedInv
<1>3. ThreadInv'
  <2>1. \A u \in Libs \ {t} : thr[u].at # "idle" => slot'[thr[u].id] = slot[thr[u].id]
    BY <1>b, <1>c DEF ThreadInv, ThreadOK, TypeOK
  <2>2. QED
    BY <1>a, <1>b, <1>c, <2>1 DEF ThreadInv, ThreadOK, Idle
<1>4. ChildInv'
  BY <1>b DEF ChildInv, Idle
<1>5. OwnerInv'
  BY <1>a, <1>b DEF OwnerInv
<1>6. RegistryInv'
  <2>1. \A j \in 1 .. lastId : (\E u \in Libs : thr[u].child = j) => (cleaned \/ \E u \in Libs : thr'[u].child = j)
    BY <1>a, <1>b
  <2>2. QED
    BY <1>a, <1>b, <2>1 DEF RegistryInv
<1>7. QED
  BY <1>1, <1>2, <1>3, <1>4, <1>5, <1>6

LEMMA LookupInv ==
  ASSUME IInv, NEW t \in Libs, Lookup(t)
  PROVE  IInv'
<1> USE HandlesAssumption DEF IInv
<1> DEFINE i == thr[t].id
<1>a. /\ thr[t].at = "lookup" /\ reg = "free" /\ i \in cb /\ i \in Ids /\ slot[i] = t
      /\ UNCHANGED <<media, lastId, kind, map, ptr, fresh, wrapped, fin, reg, cleaned>>
  BY DEF Lookup, ThreadInv, ThreadOK, TypeOK
<1>1. CASE ptr[i] = Absent
  <2>1. Leave(t)
    BY <1>1 DEF Lookup
  <2>2. thr[t].child # 0 => cleaned
    BY <1>1, <1>a DEF ThreadInv, ThreadOK, OwnerInv, RegistryInv, UnusedInv, TypeOK, Ids
  <2>3. QED
    BY <1>a, <2>1, <2>2, LeaveInv
<1>2. CASE ptr[i] # Absent
  <2> DEFINE at == IF thr[t].child # 0 THEN "set" ELSE "call"
  <2>a. /\ thr' \in [Libs -> Threads]
        /\ thr'[t] = [thr[t] EXCEPT !.at = at, !.p = ptr[i]]
        /\ \A u \in Libs \ {t} : thr'[u] = thr[u]
        /\ UNCHANGED <<cb, slot>>
    <3> DEFINE r == [thr[t] EXCEPT !.at = at, !.p = ptr[i]]
    <3>1. r \in Threads
      BY <1>a DEF TypeOK, Threads
    <3>2. thr' = [thr EXCEPT ![t] = r] /\ UNCHANGED <<cb, slot>>
      BY <1>a, <1>2 DEF Lookup
    <3>3. QED
      BY <3>1, <3>2 DEF TypeOK
  <2>b. /\ thr'[t].at = at /\ thr'[t].id = i /\ thr'[t].child = thr[t].child
        /\ thr'[t].p = ptr[i]
    BY <2>a DEF TypeOK, Threads
  <2>c. ptr[i] = i \/ (ptr[i] = 0 /\ kind[i] = "srv")
    BY <1>a, <1>2 DEF OwnerInv
  <2>1. TypeOK'
    BY <1>a, <2>a DEF TypeOK
  <2>2. UnusedInv'
    BY <1>a, <2>a DEF UnusedInv
  <2>d. \A u \in Libs : thr'[u].child = thr[u].child
    BY <2>a, <2>b
  <2>3. ThreadInv'
    <3>1. ThreadOK(t)'
      BY <1>a, <2>a, <2>b, <2>c DEF ThreadInv, ThreadOK
    <3>2. ASSUME NEW u \in Libs \ {t} PROVE ThreadOK(u)'
      BY <1>a, <2>a DEF ThreadInv, ThreadOK
    <3>3. QED
      BY <3>1, <3>2 DEF ThreadInv
  <2>4. ChildInv'
    BY <2>d DEF ChildInv
  <2>5. OwnerInv'
    BY <1>a, <2>a DEF OwnerInv
  <2>6. RegistryInv'
    BY <1>a, <2>a, <2>d DEF RegistryInv
  <2>7. QED
    BY <2>1, <2>2, <2>3, <2>4, <2>5, <2>6
<1>3. QED
  BY <1>1, <1>2

LEMMA SetChildPointerInv ==
  ASSUME IInv, NEW t \in Libs, SetChildPointer(t)
  PROVE  IInv'
<1> USE HandlesAssumption DEF IInv
<1> DEFINE i == thr[t].id
           target == IF kind[i] = "srv" THEN i ELSE thr[t].child
<1>a. /\ thr[t].at = "set" /\ reg = "free" /\ i \in cb /\ i \in Ids /\ slot[i] = t
      /\ thr[t].child \in 1 .. lastId /\ thr[t].child \notin cb \cup fresh \cup wrapped
      /\ thr[t].p = i \/ (thr[t].p = 0 /\ kind[i] = "srv")
      /\ UNCHANGED <<media, lastId, kind, map, cb, slot, fresh, wrapped, fin, reg, cleaned>>
  BY DEF SetChildPointer, ThreadInv, ThreadOK, TypeOK
<1>b. target \in 1 .. lastId /\ target \in Ids
  BY <1>a DEF UnusedInv, TypeOK, Ids
<1>c. ptr' = [ptr EXCEPT ![target] = thr[t].p]
  BY DEF SetChildPointer
<1>d. /\ thr' \in [Libs -> Threads]
      /\ thr'[t] = [thr[t] EXCEPT !.at = "call"]
      /\ \A u \in Libs \ {t} : thr'[u] = thr[u]
  BY DEF SetChildPointer, TypeOK, Threads
<1>e. /\ thr'[t].at = "call" /\ thr'[t].id = i /\ thr'[t].child = thr[t].child
      /\ thr'[t].p = thr[t].p /\ thr[t].p \in 0 .. MaxId
  BY <1>a, <1>d DEF TypeOK, Threads, Ids
<1>f. "erase" \notin fin[target]
  <2>1. CASE kind[i] = "srv"
    BY <2>1, <1>a DEF OwnerInv
  <2>2. CASE kind[i] # "srv"
    BY <2>2, <1>a, <1>b DEF OwnerInv, TypeOK
  <2>3. QED
    BY <2>1, <2>2
<1>g. \A u \in Libs : thr'[u].child = thr[u].child
  BY <1>d, <1>e
<1>1. TypeOK'
  <2>1. thr[t].p \in 0 .. Absent
    BY <1>e DEF Absent
  <2>2. QED
    BY <1>a, <1>b, <1>c, <1>d, <2>1 DEF TypeOK
<1>2. UnusedInv'
  BY <1>a, <1>b, <1>c DEF UnusedInv, TypeOK
<1>3. ThreadInv'
  <2>1. ThreadOK(t)'
    BY <1>a, <1>d, <1>e DEF ThreadInv, ThreadOK
  <2>2. ASSUME NEW u \in Libs \ {t} PROVE ThreadOK(u)'
    BY <1>a, <1>d DEF ThreadInv, ThreadOK
  <2>3. QED
    BY <2>1, <2>2 DEF ThreadInv
<1>4. ChildInv'
  BY <1>g DEF ChildInv
<1>5. OwnerInv'
  <2>1. target \in cb => target = i /\ kind[i] = "srv"
    BY <1>a
  <2>2. \A j \in Ids : ptr'[j] = IF j = target THEN thr[t].p ELSE ptr[j]
    BY <1>c DEF TypeOK
  <2>3. QED
    BY <1>a, <2>1, <2>2 DEF OwnerInv
<1>6. RegistryInv'
  <2>1. thr[t].p # Absent
    BY <1>e DEF Absent
  <2>2. \A j \in 1 .. lastId : ptr'[j] = IF j = target THEN thr[t].p ELSE ptr[j]
    BY <1>c DEF TypeOK, Ids
  <2>3. \A j : (\E u \in Libs : thr[u].child = j) => (\E u \in Libs : thr'[u].child = j)
    BY <1>d, <1>e
  <2>4. QED
    BY <1>a, <1>f, <2>1, <2>2, <2>3 DEF RegistryInv
<1>7. QED
  BY <1>1, <1>2, <1>3, <1>4, <1>5, <1>6

LEMMA CallInv ==
  ASSUME IInv, NEW t \in Libs, Call(t)
  PROVE  IInv'
<1> USE HandlesAssumption DEF IInv
<1> DEFINE i == thr[t].id
           c == thr[t].child
<1>a. /\ i \in cb /\ i \in Ids /\ slot[i] = t
      /\ fresh' = IF c = 0 THEN fresh ELSE fresh \cup {c}
      /\ c # 0 => c \in 1 .. lastId /\ c \notin cb \cup fresh \cup wrapped
      /\ UNCHANGED <<media, lastId, kind, map, ptr, wrapped, fin, reg, cleaned>>
  BY DEF Call, ThreadInv, ThreadOK, TypeOK
<1>b. /\ slot' = [slot EXCEPT ![i] = Nobody]
      /\ cb' \subseteq cb /\ cb \ {i} \subseteq cb'
      /\ thr' \in [Libs -> Threads]
      /\ thr'[t] = Idle /\ \A u \in Libs \ {t} : thr'[u] = thr[u]
  BY DEF Call, Leave, TypeOK, Threads, Idle, Absent
<1>c. \A u \in Libs \ {t} : thr[u].at # "idle" => thr[u].id # i
  BY <1>a DEF ThreadInv, ThreadOK
<1>1. TypeOK'
  BY <1>a, <1>b DEF TypeOK, Ids
<1>2. UnusedInv'
  BY <1>a, <1>b DEF UnusedInv, TypeOK, Ids
<1>3. ThreadInv'
  <2>1. \A u \in Libs \ {t} : thr[u].child # 0 => thr[u].child # c
    BY DEF ChildInv
  <2>2. \A u \in Libs \ {t} : thr[u].at # "idle" => slot'[thr[u].id] = slot[thr[u].id]
    BY <1>b, <1>c DEF ThreadInv, ThreadOK, TypeOK
  <2>3. QED
    BY <1>a, <1>b, <1>c, <2>1, <2>2 DEF ThreadInv, ThreadOK, Idle
<1>4. ChildInv'
  BY <1>b DEF ChildInv, Idle
<1>5. OwnerInv'
  BY <1>a, <1>b DEF OwnerInv
<1>6. RegistryInv'
  <2>1. \A j \in 1 .. lastId : (\E u \in Libs : thr[u].child = j) => (j \in fresh' \/ \E u \in Libs : thr'[u].child = j)
    BY <1>a, <1>b
  <2>2. QED
    BY <1>a, <1>b, <2>1 DEF RegistryInv
<1>7. QED
  BY <1>1, <1>2, <1>3, <1>4, <1>5, <1>6

LEMMA ResetInv ==
  ASSUME IInv, NEW i \in Ids, Reset(i)
  PROVE  IInv'
<1> USE HandlesAssumption DEF IInv, TypeOK, Reset
<1>1. TypeOK'
  BY DEF Threads, Kinds, Idle, Ids, Absent
<1>2. UnusedInv'
  BY DEF UnusedInv, Ids, Absent
<1>3. ThreadInv'
  BY DEF ThreadInv, ThreadOK, UnusedInv, OwnerInv, Threads, Idle, Ids, Absent, Nobody
<1>4. ChildInv'
  BY DEF ChildInv, ThreadInv, ThreadOK, Threads, Idle, Ids
<1>5. OwnerInv'
  BY DEF OwnerInv, UnusedInv, ThreadInv, ThreadOK, Threads, Ids, Absent
<1>6. RegistryInv'
  BY DEF RegistryInv, OwnerInv, UnusedInv, ThreadInv, ThreadOK, Threads, Idle, Ids, Absent
<1>7. QED
  BY <1>1, <1>2, <1>3, <1>4, <1>5, <1>6

LEMMA EraseInv ==
  ASSUME IInv, NEW i \in Ids, Erase(i)
  PROVE  IInv'
<1> USE HandlesAssumption DEF IInv, TypeOK, Erase, EraseChannel
<1>1. TypeOK'
  BY DEF Threads, Kinds, Idle, Ids, Absent
<1>2. UnusedInv'
  BY DEF UnusedInv, Ids, Absent
<1>3. ThreadInv'
  BY DEF ThreadInv, ThreadOK, UnusedInv, OwnerInv, Threads, Idle, Ids, Absent
<1>4. ChildInv'
  BY DEF ChildInv, ThreadInv, ThreadOK, Threads, Idle, Ids
<1>5. OwnerInv'
  BY DEF OwnerInv, UnusedInv, ThreadInv, ThreadOK, Threads, Ids, Absent
<1>6. RegistryInv'
  BY DEF RegistryInv, OwnerInv, UnusedInv, ThreadInv, ThreadOK, Threads, Idle, Ids, Absent
<1>7. QED
  BY <1>1, <1>2, <1>3, <1>4, <1>5, <1>6

LEMMA FinalizedInv ==
  ASSUME IInv, NEW i \in Ids, Finalized(i)
  PROVE  IInv'
<1> USE HandlesAssumption DEF IInv, TypeOK, Finalized
<1>1. TypeOK'
  BY DEF Threads, Kinds, Idle, Ids, Absent
<1>2. UnusedInv'
  BY DEF UnusedInv, Ids, Absent
<1>3. ThreadInv'
  BY DEF ThreadInv, ThreadOK, UnusedInv, OwnerInv, Threads, Idle, Ids, Absent
<1>4. ChildInv'
  BY DEF ChildInv, ThreadInv, ThreadOK, Threads, Idle, Ids
<1>5. OwnerInv'
  BY DEF OwnerInv, UnusedInv, ThreadInv, ThreadOK, Threads, Ids, Absent
<1>6. RegistryInv'
  BY DEF RegistryInv, OwnerInv, UnusedInv, ThreadInv, ThreadOK, Threads, Idle, Ids, Absent
<1>7. QED
  BY <1>1, <1>2, <1>3, <1>4, <1>5, <1>6

LEMMA CleanupBeginsInv ==
  ASSUME IInv, CleanupBegins
  PROVE  IInv'
<1> USE HandlesAssumption DEF IInv, TypeOK, CleanupBegins
<1>1. TypeOK'
  BY DEF Threads, Kinds, Idle, Ids, Absent
<1>2. UnusedInv'
  BY DEF UnusedInv, Ids, Absent
<1>3. ThreadInv'
  BY DEF ThreadInv, ThreadOK, UnusedInv, OwnerInv, Threads, Idle, Ids, Absent
<1>4. ChildInv'
  BY DEF ChildInv, ThreadInv, ThreadOK, Threads, Idle, Ids
<1>5. OwnerInv'
  BY DEF OwnerInv, UnusedInv, ThreadInv, ThreadOK, Threads, Ids, Absent
<1>6. RegistryInv'
  BY DEF RegistryInv, OwnerInv, UnusedInv, ThreadInv, ThreadOK, Threads, Idle, Ids, Absent
<1>7. QED
  BY <1>1, <1>2, <1>3, <1>4, <1>5, <1>6

LEMMA CleanupDropsInv ==
  ASSUME IInv, NEW i \in Ids, CleanupDrops(i)
  PROVE  IInv'
<1> USE HandlesAssumption DEF IInv, TypeOK, CleanupDrops
<1>1. TypeOK'
  BY DEF Threads, Kinds, Idle, Ids, Absent
<1>2. UnusedInv'
  BY DEF UnusedInv, Ids, Absent
<1>3. ThreadInv'
  BY DEF ThreadInv, ThreadOK, UnusedInv, OwnerInv, Threads, Idle, Ids, Absent, Nobody
<1>4. ChildInv'
  BY DEF ChildInv, ThreadInv, ThreadOK, Threads, Idle, Ids
<1>5. OwnerInv'
  BY DEF OwnerInv, UnusedInv, ThreadInv, ThreadOK, Threads, Ids, Absent
<1>6. RegistryInv'
  BY DEF RegistryInv, OwnerInv, UnusedInv, ThreadInv, ThreadOK, Threads, Idle, Ids, Absent
<1>7. QED
  BY <1>1, <1>2, <1>3, <1>4, <1>5, <1>6

LEMMA CleanupEndsInv ==
  ASSUME IInv, CleanupEnds
  PROVE  IInv'
<1> USE HandlesAssumption DEF IInv, TypeOK, CleanupEnds
<1>1. TypeOK'
  BY DEF Threads, Kinds, Idle, Ids, Absent
<1>2. UnusedInv'
  BY DEF UnusedInv, Ids, Absent
<1>3. ThreadInv'
  BY DEF ThreadInv, ThreadOK, UnusedInv, OwnerInv, Threads, Idle, Ids, Absent
<1>4. ChildInv'
  BY DEF ChildInv, ThreadInv, ThreadOK, Threads, Idle, Ids
<1>5. OwnerInv'
  BY DEF OwnerInv, UnusedInv, ThreadInv, ThreadOK, Threads, Ids, Absent
<1>6. RegistryInv'
  BY DEF RegistryInv, OwnerInv, UnusedInv, ThreadInv, ThreadOK, Threads, Idle, Ids, Absent
<1>7. QED
  BY <1>1, <1>2, <1>3, <1>4, <1>5, <1>6

LEMMA Inductive == IInv /\ [Next]_vars => IInv'
<1> SUFFICES ASSUME IInv, [Next]_vars PROVE IInv'
  OBVIOUS
<1>1. CASE UNCHANGED vars
  BY <1>1 DEF vars, IInv, TypeOK, UnusedInv, ThreadInv, ThreadOK, ChildInv, OwnerInv, RegistryInv
<1>2. CASE Next
  BY <1>2, CreatePeerConnectionInv, CreateWebSocketServerInv, CreateWebSocketInv,
     CreateDataChannelInv, AddTrackInv, WrapInv, SetPacketizerInv, ChainHandlerInv, EnterInv,
     EmplaceChildInv, LookupInv, SetChildPointerInv, CallInv, ResetInv, EraseInv, FinalizedInv,
     CleanupBeginsInv, CleanupDropsInv, CleanupEndsInv
     DEF Next
<1>3. QED
  BY <1>1, <1>2

LEMMA InitInv == Init => IInv
<1> USE HandlesAssumption DEF Init, Ids, Absent
<1>1. Init => TypeOK
  <2>1. 0 \in 0 .. MaxId /\ 0 \in 0 .. Absent /\ Absent \in 0 .. Absent
    OBVIOUS
  <2>2. Idle \in Threads
    BY <2>1 DEF Idle, Threads
  <2>3. QED
    BY <2>1, <2>2 DEF TypeOK
<1>2. Init => UnusedInv /\ ThreadInv /\ ChildInv /\ OwnerInv /\ RegistryInv
  BY DEF UnusedInv, ThreadInv, ThreadOK, ChildInv, OwnerInv, RegistryInv, Idle
<1>3. QED
  BY <1>1, <1>2 DEF IInv

\* The inductive invariant holds of the registry, its threads and its
\* finalizers in every reachable state.
THEOREM HandlesInvariant == Spec => []IInv
  BY InitInv, Inductive, PTL DEF Spec

\* No callback of the library ever runs with the pointer to a wrapper that has
\* been freed, for any number of threads and handles, also when rtcCleanup
\* races callbacks (capi.cpp, hl_rtc_datachannel_finalize).
THEOREM NeverFreed == Spec => []NoFreedPointer
<1>1. IInv => NoFreedPointer
  BY DEF IInv, TypeOK, ThreadInv, ThreadOK, OwnerInv, NoFreedPointer, Freed, Ids
<1>2. QED
  BY <1>1, HandlesInvariant, PTL

\* The callback of a peer connection or a channel gets its own wrapper, never
\* the one a channel inherited from its peer connection.
THEOREM OwnPointer == Spec => []PointerIsOwn
<1>1. IInv => PointerIsOwn
  BY DEF IInv, ThreadInv, ThreadOK, PointerIsOwn
<1>2. QED
  BY <1>1, HandlesInvariant, PTL

\* Every handle in the registry has somebody who will delete it, and until
\* rtcCleanup user pointers and media entries are there exactly for the handles
\* that name an object.
THEOREM NothingOrphaned == Spec => []NoOrphan
<1>1. IInv => NoOrphan
  <2> SUFFICES ASSUME IInv PROVE NoOrphan
    OBVIOUS
  <2>1. \A i \in Ids : i \in 1 .. lastId \/ i > lastId
    BY HandlesAssumption DEF IInv, TypeOK, Ids
  <2>2. ASSUME NEW i \in map
        PROVE  i \in fresh \cup wrapped \/ (\E t \in Libs : thr[t].child = i) \/ cleaned
    BY <2>1 DEF IInv, TypeOK, UnusedInv, RegistryInv
  <2>3. ASSUME ~cleaned, reg = "free", NEW i \in Ids
        PROVE  (ptr[i] # Absent <=> i \in map) /\ (media[i] # {} => i \in map)
    BY <2>1, <2>3 DEF IInv, UnusedInv, RegistryInv
  <2>4. QED
    BY <2>2, <2>3 DEF NoOrphan
<1>2. QED
  BY <1>1, HandlesInvariant, PTL
=============================================================================
