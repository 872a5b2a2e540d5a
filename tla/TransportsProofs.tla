-------------------------- MODULE TransportsProofs --------------------------
(***************************************************************************)
(* Proofs about Transports, for any number of handshake timers: what the   *)
(* application hears last, that no callback points to a transport that is  *)
(* gone, and that no packet waits in DTLS without a doRecv to come.        *)
(***************************************************************************)
EXTENDS Transports, TLAPS

Lives == {"none", "live", "dying", "dead"}
TransportStates == {"disconnected", "connecting", "connected", "failed"}
Packets == {"none", "data", "bye", "end"}
Waiting == {"testing", "falling", "asleep", "awake"}

States ==
  [state : TransportStates \cup {"new", "closed"}, closing : BOOLEAN, callback : BOOLEAN,
   tasks : SUBSET Tasks, reported : {"open", "closed", "late"}, member : SUBSET Layers,
   life : [Layers -> Lives], st : [Layers -> TransportStates], cb : SUBSET Layers,
   recv : SUBSET Layers, held : [Layers -> Packets], tear : SUBSET Layers,
   app : {"idle", "checkIce", "close"},
   ice : {"idle", "loadIce", "newDtls", "startDtls", "checkDtls"},
   worker : {"idle", "handshake", "read", "loadDtls", "newSctp", "startSctp", "checkSctp"} \cup Waiting,
   inq : Packets, inqOpen : BOOLEAN, jobs : Nat, pending : Int, timers : Nat, set : Nat,
   written : BOOLEAN, answered : BOOLEAN, flushing : BOOLEAN, shut : BOOLEAN,
   missed : BOOLEAN, threw : BOOLEAN]

\* Closed takes the callback away.
ReportOK(y) == y.reported # "late" /\ (y.reported = "closed" => ~y.callback)

\* Whoever holds a transport keeps it alive; the worker holds DTLS.
LifeOK(y) ==
  /\ \A l \in y.member : y.life[l] = "live"
  /\ \A l \in y.tear : y.life[l] = "live"
  /\ y.life["sctp"] \in {"live", "dying"} => y.life["dtls"] = "live"
  /\ y.worker # "idle" => y.life["dtls"] = "live"
  /\ y.ice \in {"startDtls", "checkDtls"} => y.life["dtls"] = "live"
  /\ y.worker \in {"startSctp", "checkSctp"} => y.life["sctp"] = "live"

RecvOK(y) ==
  /\ "ice" \in y.recv => y.life["dtls"] = "live"
  /\ "dtls" \in y.recv => y.life["sctp"] \in {"live", "dying"}

\* mPendingRecvCount may be too small, after a timer, but never too large.
CountOK(y) ==
  /\ y.pending <= y.jobs
  /\ y.life["dtls"] # "live" => y.jobs = 0 /\ y.timers = 0

\* The handshake starts once, and no worker is in doRecv by then.
FreshOK(y) ==
  /\ y.st["ice"] \in {"disconnected", "connecting"} \/ y.ice \in {"loadIce", "newDtls"}
       => y.life["dtls"] = "none"
  /\ y.ice \in {"loadIce", "newDtls", "startDtls"} => y.st["ice"] = "connected"
  /\ y.life["dtls"] = "none" \/ y.ice = "startDtls" => y.st["dtls"] = "disconnected"
  /\ y.ice = "startDtls" => y.worker = "idle"

\* A worker past the handshake does not see Connecting again; one that brings
\* SCTP the end of DTLS has seen that end.
WorkerOK(y) ==
  /\ y.worker \notin {"idle", "handshake"} => y.st["dtls"] # "connecting"
  /\ y.worker \in Waiting /\ y.held["sctp"] = "end" => y.st["dtls"] \in {"disconnected", "failed"}

QueueOK(y) ==
  y.inq # "none" /\ y.life["dtls"] = "live" /\ y.st["dtls"] \in {"connecting", "connected"}
    => y.jobs > 0 \/ y.timers > 0 \/ y.worker # "idle"

CoreOK(y) ==
  LifeOK(y) /\ RecvOK(y) /\ CountOK(y) /\ FreshOK(y) /\ WorkerOK(y) /\ QueueOK(y)

OK(y) == y \in States /\ ReportOK(y) /\ CoreOK(y)

IInv == OK(x)

\* The property, without what EnqueueRecv is about to restore.
AlmostOK(y) ==
  /\ y \in States /\ ReportOK(y)
  /\ LifeOK(y) /\ RecvOK(y) /\ CountOK(y) /\ FreshOK(y) /\ WorkerOK(y)

-----------------------------------------------------------------------------
(* Steps that change nothing the invariant speaks of.                      *)

SameReport(y, z) == z.reported = y.reported /\ z.callback = y.callback

\* Everything but the receive side of DTLS.
SameThreads(y, z) ==
  /\ z.member = y.member /\ z.tear = y.tear /\ z.life = y.life
  /\ z.worker = y.worker /\ z.ice = y.ice /\ z.st = y.st

SameReceive(y, z) ==
  /\ z.recv = y.recv /\ z.held = y.held /\ z.inq = y.inq
  /\ z.jobs = y.jobs /\ z.timers = y.timers /\ z.pending = y.pending

Same(y, z) == SameThreads(y, z) /\ SameReceive(y, z)

LEMMA SameOK ==
  ASSUME NEW y, NEW z \in States, OK(y), Same(y, z), ReportOK(z)
  PROVE  OK(z)
BY DEF OK, CoreOK, LifeOK, RecvOK, CountOK, FreshOK, WorkerOK, QueueOK, Same, SameThreads, SameReceive

LEMMA SameAlmostOK ==
  ASSUME NEW y, NEW z \in States, AlmostOK(y), Same(y, z), ReportOK(z)
  PROVE  AlmostOK(z)
BY DEF AlmostOK, LifeOK, RecvOK, CountOK, FreshOK, WorkerOK, Same, SameThreads, SameReceive

\* r is y, as far as the invariant goes.
Alike(y, r) == r \in States /\ Same(y, r) /\ SameReport(y, r)

LEMMA AlikeOK ==
  ASSUME NEW y, NEW r, Alike(y, r)
  PROVE  /\ OK(y) => OK(r)
         /\ AlmostOK(y) => AlmostOK(r)
<1>1. ReportOK(y) => ReportOK(r)
  BY DEF Alike, SameReport, ReportOK
<1> QED BY <1>1, SameOK, SameAlmostOK DEF Alike, OK, AlmostOK

LEMMA Flags ==
  ASSUME NEW y \in States, NEW b \in BOOLEAN
  PROVE  /\ Alike(y, [y EXCEPT !.closing = b])
         /\ Alike(y, [y EXCEPT !.flushing = b])
         /\ Alike(y, [y EXCEPT !.missed = b])
         /\ Alike(y, [y EXCEPT !.answered = b])
         /\ Alike(y, [y EXCEPT !.threw = b])
         /\ Alike(y, [y EXCEPT !.written = b])
         /\ Alike(y, [y EXCEPT !.inqOpen = b])
<1>1. Alike(y, [y EXCEPT !.closing = b])
  BY DEF States, Alike, Same, SameThreads, SameReceive, SameReport
<1>2. Alike(y, [y EXCEPT !.flushing = b])
  BY DEF States, Alike, Same, SameThreads, SameReceive, SameReport
<1>3. Alike(y, [y EXCEPT !.missed = b])
  BY DEF States, Alike, Same, SameThreads, SameReceive, SameReport
<1>4. Alike(y, [y EXCEPT !.answered = b])
  BY DEF States, Alike, Same, SameThreads, SameReceive, SameReport
<1>5. Alike(y, [y EXCEPT !.threw = b])
  BY DEF States, Alike, Same, SameThreads, SameReceive, SameReport
<1>6. Alike(y, [y EXCEPT !.written = b])
  BY DEF States, Alike, Same, SameThreads, SameReceive, SameReport
<1>7. Alike(y, [y EXCEPT !.inqOpen = b])
  BY DEF States, Alike, Same, SameThreads, SameReceive, SameReport
<1> QED BY <1>1, <1>2, <1>3, <1>4, <1>5, <1>6, <1>7

LEMMA Marks ==
  ASSUME NEW y \in States
  PROVE  /\ \A t \in SUBSET Tasks : Alike(y, [y EXCEPT !.tasks = t])
         /\ \A c \in SUBSET Layers : Alike(y, [y EXCEPT !.cb = c])
         /\ \A a \in {"idle", "checkIce", "close"} : Alike(y, [y EXCEPT !.app = a])
         /\ \A n \in Nat : Alike(y, [y EXCEPT !.set = n])
<1>1. ASSUME NEW t \in SUBSET Tasks PROVE Alike(y, [y EXCEPT !.tasks = t])
  BY DEF States, Alike, Same, SameThreads, SameReceive, SameReport
<1>2. ASSUME NEW c \in SUBSET Layers PROVE Alike(y, [y EXCEPT !.cb = c])
  BY DEF States, Alike, Same, SameThreads, SameReceive, SameReport
<1>3. ASSUME NEW a \in {"idle", "checkIce", "close"} PROVE Alike(y, [y EXCEPT !.app = a])
  BY DEF States, Alike, Same, SameThreads, SameReceive, SameReport
<1>4. ASSUME NEW n \in Nat PROVE Alike(y, [y EXCEPT !.set = n])
  BY DEF States, Alike, Same, SameThreads, SameReceive, SameReport
<1> QED BY <1>1, <1>2, <1>3, <1>4

LEMMA Enqueued ==
  ASSUME NEW y \in States, NEW t \in Tasks
  PROVE  Alike(y, Enqueue(y, t))
<1>1. y.tasks \cup {t} \in SUBSET Tasks
  BY DEF States
<1>2. Enqueue(y, t) = [y EXCEPT !.tasks = y.tasks \cup {t}]
  BY DEF Enqueue
<1> QED BY <1>1, <1>2, Marks

LEMMA ChangedState ==
  ASSUME NEW y \in States, NEW s \in TransportStates \cup {"closed"}, ReportOK(y)
  PROVE  /\ ChangeState(y, s) \in States /\ Same(y, ChangeState(y, s)) /\ ReportOK(ChangeState(y, s))
         /\ ChangeState(y, s).cb = y.cb
<1> DEFINE rep == IF y.callback THEN "closed" ELSE y.reported
           a == [y EXCEPT !.state = s, !.callback = FALSE, !.reported = rep]
           b == [y EXCEPT !.state = s]
<1>1. rep \in {"open", "closed", "late"} /\ rep # "late"
  BY DEF States, ReportOK
<1> HIDE DEF rep
<1>2. a \in States /\ Same(y, a) /\ ReportOK(a) /\ a.cb = y.cb
  <2>1. a \in States
    BY <1>1 DEF States
  <2>2. Same(y, a) /\ a.cb = y.cb
    BY DEF States, Same, SameThreads, SameReceive
  <2>3. a.callback = FALSE /\ a.reported = rep
    BY DEF States
  <2> QED BY <1>1, <2>1, <2>2, <2>3 DEF ReportOK
<1>3. Alike(y, b) /\ b.cb = y.cb
  BY DEF States, Alike, Same, SameThreads, SameReceive, SameReport
<1>4. Alike(b, Enqueue(b, "report")) /\ Enqueue(b, "report").cb = b.cb
  <2>1. b \in States
    BY <1>3 DEF Alike
  <2> HIDE DEF b
  <2> QED BY <2>1, Enqueued DEF Tasks, Enqueue, States
<1>5. /\ Enqueue(b, "report") \in States /\ Same(y, Enqueue(b, "report"))
      /\ ReportOK(Enqueue(b, "report")) /\ Enqueue(b, "report").cb = y.cb
  <2> HIDE DEF b
  <2> QED BY <1>3, <1>4 DEF Alike, Same, SameThreads, SameReceive, SameReport, ReportOK
<1>6. Same(y, y)
  BY DEF Same, SameThreads, SameReceive
<1>7. \/ ChangeState(y, s) = y \/ ChangeState(y, s) = a \/ ChangeState(y, s) = Enqueue(b, "report")
  BY DEF ChangeState, rep
<1> HIDE DEF a, b
<1> QED BY <1>2, <1>5, <1>6, <1>7

-----------------------------------------------------------------------------
(* The receive side of DTLS.                                               *)

LEMMA Weaken == \A y : OK(y) => AlmostOK(y)
BY DEF OK, AlmostOK, CoreOK

\* A doRecv is under way after enqueueRecv, whatever mPendingRecvCount was.
LEMMA EnqueuedRecv ==
  ASSUME NEW y \in States, AlmostOK(y), y.life["dtls"] = "live"
  PROVE  OK(EnqueueRecv(y)) /\ SameThreads(y, EnqueueRecv(y))
<1> DEFINE p == y.pending + 1
           j == y.jobs + 1
           r == [y EXCEPT !.pending = p, !.jobs = j]
<1>1. y.pending \in Int /\ y.jobs \in Nat /\ y.pending <= y.jobs
  BY DEF States, AlmostOK, CountOK
<1>2. CASE y.pending > 0
  <2>1. EnqueueRecv(y) = y
    BY <1>2 DEF EnqueueRecv
  <2>2. QueueOK(y)
    BY <1>1, <1>2 DEF QueueOK
  <2> QED BY <2>1, <2>2 DEF AlmostOK, OK, CoreOK, SameThreads
<1>3. CASE ~(y.pending > 0)
  <2>1. EnqueueRecv(y) = r
    BY <1>3 DEF EnqueueRecv
  <2>2. p \in Int /\ j \in Nat /\ p <= j /\ j > 0
    BY <1>1
  <2> HIDE DEF p, j
  <2>3. r \in States
    BY <2>2 DEF States
  <2>4. /\ SameThreads(y, r) /\ SameReport(y, r) /\ r.pending = p /\ r.jobs = j
        /\ r.recv = y.recv /\ r.held = y.held /\ r.inq = y.inq /\ r.timers = y.timers
    BY DEF States, SameThreads, SameReport
  <2> HIDE DEF r
  <2>5. ReportOK(r) /\ LifeOK(r) /\ RecvOK(r) /\ FreshOK(r) /\ WorkerOK(r)
    BY <2>4 DEF AlmostOK, SameThreads, SameReport, ReportOK, LifeOK, RecvOK, FreshOK, WorkerOK
  <2>6. CountOK(r) /\ QueueOK(r)
    BY <2>2, <2>4 DEF CountOK, QueueOK, SameThreads
  <2> QED BY <2>1, <2>3, <2>4, <2>5, <2>6 DEF OK, CoreOK
<1> QED BY <1>2, <1>3

LEMMA Unregistered ==
  ASSUME NEW y, OK(y), NEW l \in Layers
  PROVE  /\ OK(Unregister(y, l)) /\ SameThreads(y, Unregister(y, l))
         /\ Unregister(y, l).recv = y.recv \ {l}
<1> DEFINE c == y.recv \ {l}
           h == [y.held EXCEPT ![l] = "none"]
           r == [y EXCEPT !.recv = c, !.held = h]
<1>0. y \in States
  BY DEF OK
<1>1. Unregister(y, l) = r
  BY <1>0 DEF Unregister, States
<1>2. c \in SUBSET Layers /\ h \in [Layers -> Packets] /\ c \subseteq y.recv
  BY <1>0 DEF States, Packets
<1>3. h["sctp"] \in {"none", y.held["sctp"]}
  BY <1>0 DEF States, Layers
<1> HIDE DEF h
<1>4. c = y.recv \ {l}
  OBVIOUS
<1> HIDE DEF c
<1>5. r \in States
  BY <1>0, <1>2 DEF States
<1>6. /\ SameThreads(y, r) /\ SameReport(y, r) /\ r.recv = c /\ r.held = h
      /\ r.inq = y.inq /\ r.jobs = y.jobs /\ r.timers = y.timers /\ r.pending = y.pending
  BY <1>0 DEF States, SameThreads, SameReport
<1> HIDE DEF r
<1>7. ReportOK(r) /\ LifeOK(r) /\ RecvOK(r) /\ CountOK(r) /\ FreshOK(r) /\ QueueOK(r)
  BY <1>2, <1>6 DEF OK, CoreOK, SameThreads, SameReport, ReportOK, LifeOK, RecvOK, CountOK, FreshOK, QueueOK
<1>8. WorkerOK(r)
  BY <1>3, <1>6 DEF OK, CoreOK, SameThreads, WorkerOK
<1> QED BY <1>1, <1>4, <1>5, <1>6, <1>7, <1>8 DEF OK, CoreOK

LEMMA StoppedDtls ==
  ASSUME NEW y, OK(y), y.life["dtls"] = "live"
  PROVE  OK(StopDtls(y)) /\ SameThreads(y, StopDtls(y))
<1> DEFINE u == Unregister(y, "ice")
           v == [u EXCEPT !.inqOpen = FALSE]
<1>1. OK(u) /\ SameThreads(y, u)
  BY Unregistered DEF Layers
<1> HIDE DEF u
<1>2. Alike(u, v)
  BY <1>1, Flags DEF OK
<1>3. AlmostOK(v) /\ SameThreads(y, v)
  BY <1>1, <1>2, AlikeOK, Weaken DEF Alike, Same, SameThreads
<1> HIDE DEF v
<1>4. v \in States /\ v.life["dtls"] = "live"
  BY <1>3 DEF AlmostOK, SameThreads
<1>5. OK(EnqueueRecv(v)) /\ SameThreads(v, EnqueueRecv(v))
  BY <1>3, <1>4, EnqueuedRecv
<1>6. StopDtls(y) = EnqueueRecv(v)
  BY DEF StopDtls, u, v
<1> QED BY <1>3, <1>5, <1>6 DEF SameThreads

-----------------------------------------------------------------------------
(* Threads go on, and states of transports change.                         *)

Places == {"idle", "handshake", "read", "loadDtls", "newSctp", "startSctp", "checkSctp"} \cup Waiting

\* All but where the worker is.
LEMMA WorkerMoves ==
  ASSUME NEW y \in States, NEW w \in Places, NEW r, r = [y EXCEPT !.worker = w]
  PROVE  /\ r \in States /\ SameReport(y, r) /\ SameReceive(y, r) /\ r.worker = w
         /\ r.member = y.member /\ r.tear = y.tear /\ r.life = y.life
         /\ r.ice = y.ice /\ r.st = y.st
BY DEF States, SameReport, SameReceive, Places

\* A worker in doRecv goes on there.
LEMMA WorkerGoesOn ==
  ASSUME NEW y, OK(y), NEW w \in Places \ {"idle", "handshake"}, NEW r, r = [y EXCEPT !.worker = w],
         y.worker # "idle", y.st["dtls"] # "connecting",
         w \in {"startSctp", "checkSctp"} => y.life["sctp"] = "live",
         w \in Waiting /\ y.held["sctp"] = "end" => y.st["dtls"] \in {"disconnected", "failed"}
  PROVE  OK(r)
<1>1. /\ r \in States /\ SameReport(y, r) /\ SameReceive(y, r) /\ r.worker = w
      /\ r.member = y.member /\ r.tear = y.tear /\ r.life = y.life
      /\ r.ice = y.ice /\ r.st = y.st
  BY WorkerMoves DEF OK
<1>2. ReportOK(r) /\ LifeOK(r) /\ RecvOK(r) /\ CountOK(r)
  BY <1>1 DEF OK, CoreOK, SameReport, SameReceive, ReportOK, LifeOK, RecvOK, CountOK
<1>3. FreshOK(r) /\ WorkerOK(r) /\ QueueOK(r)
  BY <1>1 DEF OK, CoreOK, SameReceive, FreshOK, WorkerOK, QueueOK
<1> QED BY <1>1, <1>2, <1>3 DEF OK, CoreOK

\* It leaves once there is nothing for it in the queue.
LEMMA WorkerEnds ==
  ASSUME NEW y, OK(y), NEW r, r = [y EXCEPT !.worker = "idle"],
         \/ y.inq = "none" \/ y.st["dtls"] \notin {"connecting", "connected"} \/ y.worker = "idle"
         \/ y.timers > 0
  PROVE  OK(r)
<1>1. /\ r \in States /\ SameReport(y, r) /\ SameReceive(y, r) /\ r.worker = "idle"
      /\ r.member = y.member /\ r.tear = y.tear /\ r.life = y.life
      /\ r.ice = y.ice /\ r.st = y.st
  BY WorkerMoves DEF OK, Places
<1>2. ReportOK(r) /\ LifeOK(r) /\ RecvOK(r) /\ CountOK(r)
  BY <1>1 DEF OK, CoreOK, SameReport, SameReceive, ReportOK, LifeOK, RecvOK, CountOK
<1>3. FreshOK(r) /\ WorkerOK(r) /\ QueueOK(r)
  BY <1>1 DEF OK, CoreOK, SameReceive, FreshOK, WorkerOK, QueueOK, Waiting
<1> QED BY <1>1, <1>2, <1>3 DEF OK, CoreOK

\* The ICE agent's thread goes on.
LEMMA IceMoves ==
  ASSUME NEW y, OK(y), NEW i \in {"idle", "loadIce", "newDtls", "checkDtls"}, NEW r, r = [y EXCEPT !.ice = i],
         i \in {"loadIce", "newDtls"} => y.life["dtls"] = "none" /\ y.st["ice"] = "connected",
         i = "checkDtls" => y.life["dtls"] = "live"
  PROVE  OK(r)
<1>1. /\ r \in States /\ SameReport(y, r) /\ SameReceive(y, r) /\ r.worker = y.worker
      /\ r.member = y.member /\ r.tear = y.tear /\ r.life = y.life
      /\ r.ice = i /\ r.st = y.st
  BY DEF OK, States, SameReport, SameReceive
<1>2. ReportOK(r) /\ LifeOK(r) /\ RecvOK(r) /\ CountOK(r)
  BY <1>1 DEF OK, CoreOK, SameReport, SameReceive, ReportOK, LifeOK, RecvOK, CountOK
<1>3. FreshOK(r) /\ WorkerOK(r) /\ QueueOK(r)
  BY <1>1 DEF OK, CoreOK, SameReceive, FreshOK, WorkerOK, QueueOK
<1> QED BY <1>1, <1>2, <1>3 DEF OK, CoreOK

\* The worker is in doRecv or not, as before.
SameWork(y, z) ==
  /\ z.life = y.life /\ z.st["dtls"] = y.st["dtls"] /\ z.inq = y.inq
  /\ (z.worker = "idle" <=> y.worker = "idle")

LEMMA Woken ==
  ASSUME NEW y, OK(y)
  PROVE  OK(Wake(y)) /\ SameWork(y, Wake(y))
<1> DEFINE r == [y EXCEPT !.worker = "awake"]
<1>1. CASE y.worker = "asleep"
  <2>1. Wake(y) = r
    BY <1>1 DEF Wake
  <2>2. OK(r)
    BY <1>1, WorkerGoesOn DEF OK, CoreOK, WorkerOK, Places, Waiting
  <2>3. SameWork(y, r)
    BY <1>1, WorkerMoves DEF OK, Places, Waiting, SameWork, SameReceive
  <2> QED BY <2>1, <2>2, <2>3
<1>2. CASE y.worker = "falling"
  <2>1. Wake(y) = [y EXCEPT !.missed = TRUE]
    BY <1>2 DEF Wake
  <2>2. Alike(y, Wake(y))
    BY <2>1, Flags DEF OK
  <2> QED BY <2>2, AlikeOK DEF Alike, Same, SameThreads, SameReceive, SameWork
<1>3. CASE y.worker \notin {"asleep", "falling"}
  <2>1. Wake(y) = y
    BY <1>3 DEF Wake
  <2> QED BY <2>1 DEF SameWork
<1> QED BY <1>1, <1>2, <1>3

LEMMA StateSet ==
  ASSUME NEW y \in States, NEW l \in Layers, NEW s \in TransportStates
  PROVE  LET r == [y EXCEPT !.st[l] = s] IN
         /\ r \in States /\ SameReport(y, r) /\ SameReceive(y, r)
         /\ r.member = y.member /\ r.tear = y.tear /\ r.life = y.life /\ r.worker = y.worker
         /\ r.ice = y.ice /\ r.st[l] = s /\ \A k \in Layers \ {l} : r.st[k] = y.st[k]
<1> DEFINE v == [y.st EXCEPT ![l] = s]
           r == [y EXCEPT !.st = v]
<1>1. [y EXCEPT !.st[l] = s] = r
  OBVIOUS
<1>2. v \in [Layers -> TransportStates] /\ v[l] = s /\ \A k \in Layers \ {l} : v[k] = y.st[k]
  BY DEF States
<1> HIDE DEF v
<1>3. r \in States
  BY <1>2 DEF States
<1>4. /\ SameReport(y, r) /\ SameReceive(y, r)
      /\ r.member = y.member /\ r.tear = y.tear /\ r.life = y.life /\ r.worker = y.worker
      /\ r.ice = y.ice /\ r.st = v
  BY DEF States, SameReport, SameReceive
<1> HIDE DEF r
<1> QED BY <1>1, <1>2, <1>3, <1>4

\* SCTP's state matters to the application only.
LEMMA SctpStateSet ==
  ASSUME NEW y, OK(y), NEW s \in TransportStates
  PROVE  /\ OK(SetState(y, "sctp", s)) /\ SetState(y, "sctp", s).worker = y.worker
         /\ SetState(y, "sctp", s).inq = y.inq /\ SetState(y, "sctp", s).held = y.held
         /\ SetState(y, "sctp", s).life = y.life
         /\ SetState(y, "sctp", s).st["dtls"] = y.st["dtls"]
<1> DEFINE r == [y EXCEPT !.st["sctp"] = s]
           Fine(z) == /\ OK(z) /\ z.worker = y.worker /\ z.inq = y.inq /\ z.held = y.held /\ z.life = y.life
                      /\ z.st["dtls"] = y.st["dtls"]
<1>1. /\ r \in States /\ SameReport(y, r) /\ SameReceive(y, r)
      /\ r.member = y.member /\ r.tear = y.tear /\ r.life = y.life /\ r.worker = y.worker
      /\ r.ice = y.ice /\ r.st["ice"] = y.st["ice"] /\ r.st["dtls"] = y.st["dtls"]
  BY StateSet DEF OK, Layers
<1> HIDE DEF r
<1>2. Fine(r)
  BY <1>1 DEF OK, CoreOK, SameReport, SameReceive, ReportOK, LifeOK, RecvOK, CountOK, FreshOK, WorkerOK, QueueOK
<1>3. r \in States /\ ReportOK(r)
  BY <1>2 DEF OK
<1>4. Fine(ChangeState(r, s))
  BY <1>2, <1>3, ChangedState, SameOK DEF Same, SameThreads, SameReceive
<1>5. Fine(Enqueue(ChangeState(r, s), "remoteClose"))
  <2> DEFINE u == ChangeState(r, s)
  <2> HIDE DEF u
  <2>1. Fine(u)
    BY <1>4 DEF u
  <2>2. Alike(u, Enqueue(u, "remoteClose"))
    BY <2>1, Enqueued DEF OK, Tasks
  <2> HIDE DEF Fine
  <2>3. Fine(Enqueue(u, "remoteClose"))
    BY <2>1, <2>2, AlikeOK DEF Fine, Alike, Same, SameThreads, SameReceive
  <2> QED BY <2>3 DEF u
<1>6. OnTransportState(r, "sctp", s) \in {r, ChangeState(r, s), Enqueue(ChangeState(r, s), "remoteClose")}
  BY DEF OnTransportState
<1>7. SetState(y, "sctp", s) \in {y, r, OnTransportState(r, "sctp", s)}
  BY DEF SetState, r
<1> QED BY <1>2, <1>4, <1>5, <1>6, <1>7

LEMMA StoppedSctp ==
  ASSUME NEW y, OK(y)
  PROVE  OK(StopSctp(y)) /\ SameWork(y, StopSctp(y))
<1> DEFINE u == SetState(y, "sctp", "failed")
           v == [y EXCEPT !.flushing = TRUE]
<1>1. Alike(y, v)
  BY Flags DEF OK
<1>2. OK(v) /\ SameWork(y, v)
  BY <1>1, AlikeOK DEF Alike, Same, SameThreads, SameReceive, SameWork
<1>3. OK(u) /\ SameWork(y, u)
  BY SctpStateSet DEF TransportStates, SameWork
<1>4. StopSctp(y) \in {y, v, Wake(u)}
  BY DEF StopSctp
<1> HIDE DEF u, v
<1>5. OK(Wake(u)) /\ SameWork(y, Wake(u))
  BY <1>3, Woken DEF SameWork
<1>6. SameWork(y, y)
  BY DEF SameWork
<1> QED BY <1>2, <1>4, <1>5, <1>6

LEMMA Stopped ==
  ASSUME NEW y, OK(y), NEW l \in Layers, l = "dtls" => y.life["dtls"] = "live"
  PROVE  OK(Stop(y, l))
BY StoppedSctp, StoppedDtls DEF Stop, Layers

-----------------------------------------------------------------------------
(* Destructors: they run when nobody holds the transport any more.         *)

LEMMA LifeSet ==
  ASSUME NEW y \in States, NEW l \in Layers, NEW v \in Lives
  PROVE  LET f == [y.life EXCEPT ![l] = v] IN
         /\ f \in [Layers -> Lives] /\ f[l] = v /\ \A k \in Layers \ {l} : f[k] = y.life[k]
BY DEF States

\* ~SctpTransport: it holds DTLS while it waits.
LEMMA SctpReaped ==
  ASSUME NEW y, OK(y)
  PROVE  OK(Reap(y, "sctp"))
<1> DEFINE f == [y.life EXCEPT !["sctp"] = "dying"]
           c == y.cb \ {"sctp"}
           r == [y EXCEPT !.life = f, !.cb = c, !.written = TRUE]
<1>0. y \in States
  BY DEF OK
<1>1. CASE y.life["sctp"] = "live" /\ ~Held(y, "sctp")
  <2>1. Reap(y, "sctp") = Wake(r)
    BY <1>1 DEF Reap, Destroy
  <2>2. f \in [Layers -> Lives] /\ f["sctp"] = "dying" /\ f["ice"] = y.life["ice"] /\ f["dtls"] = y.life["dtls"]
    BY <1>0, LifeSet DEF Layers, Lives
  <2>3. c \in SUBSET Layers
    BY <1>0 DEF States
  <2> HIDE DEF f, c
  <2>4. r \in States
    BY <1>0, <2>2, <2>3 DEF States
  <2>5. /\ SameReport(y, r) /\ SameReceive(y, r) /\ r.life = f
        /\ r.member = y.member /\ r.tear = y.tear /\ r.worker = y.worker /\ r.ice = y.ice /\ r.st = y.st
    BY <1>0 DEF States, SameReport, SameReceive
  <2> HIDE DEF r
  <2>6. "sctp" \notin y.member /\ "sctp" \notin y.tear /\ y.worker \notin {"startSctp", "checkSctp"}
    BY <1>1 DEF Held
  <2>7. y.member \subseteq Layers /\ y.tear \subseteq Layers
    BY <1>0 DEF States
  <2>8. \A l \in Layers : l # "sctp" => r.life[l] = y.life[l]
    BY <2>2, <2>5 DEF Layers
  <2>9. LifeOK(r)
    BY <1>1, <2>2, <2>5, <2>6, <2>7, <2>8 DEF OK, CoreOK, LifeOK
  <2>10. ReportOK(r) /\ RecvOK(r) /\ CountOK(r)
    BY <1>1, <2>2, <2>5 DEF OK, CoreOK, ReportOK, RecvOK, CountOK, SameReport, SameReceive
  <2>11. FreshOK(r) /\ WorkerOK(r) /\ QueueOK(r)
    BY <2>2, <2>5 DEF OK, CoreOK, FreshOK, WorkerOK, QueueOK, SameReceive
  <2>12. OK(r)
    BY <2>4, <2>9, <2>10, <2>11 DEF OK, CoreOK
  <2> QED BY <2>1, <2>12, Woken
<1>2. CASE ~(y.life["sctp"] = "live" /\ ~Held(y, "sctp"))
  BY <1>2 DEF Reap
<1> QED BY <1>1, <1>2

LEMMA CountsSet ==
  ASSUME NEW y \in States, NEW j \in Nat, NEW t \in Nat, NEW n \in Nat, NEW p \in Int
  PROVE  [y EXCEPT !.jobs = j, !.timers = t, !.set = n, !.pending = p] \in States
BY DEF States

\* ~DtlsTransport and ~IceTransport: with DTLS its jobs are gone.
LEMMA LowerReaped ==
  ASSUME NEW y, OK(y), NEW l \in {"dtls", "ice"}
  PROVE  OK(Reap(y, l))
<1>1. CASE y.life[l] = "live" /\ ~Held(y, l)
  <2> DEFINE u == Unregister(y, "ice")
             f == [u.life EXCEPT ![l] = "dead"]
             c == u.cb \ {l}
             r == [u EXCEPT !.life = f, !.cb = c, !.inqOpen = FALSE, !.inq = "none",
                            !.jobs = 0, !.timers = 0, !.set = 0, !.pending = 0]
  <2>1. OK(u) /\ SameThreads(y, u) /\ "ice" \notin u.recv
    BY Unregistered DEF Layers
  <2>2. Reap(y, l) = r
    BY <1>1 DEF Reap, Destroy
  <2>3. u.life[l] = "live" /\ u.life = y.life
    BY <1>1, <2>1 DEF SameThreads
  <2>4. /\ l \notin u.member /\ l \notin u.tear
        /\ l = "ice" => y.life["dtls"] # "live"
        /\ l = "dtls" => /\ u.life["sctp"] \notin {"live", "dying"} /\ u.worker = "idle"
                         /\ u.ice \notin {"startDtls", "checkDtls"}
    BY <1>1, <2>1 DEF Held, SameThreads
  <2> HIDE DEF u
  <2>5. u \in States
    BY <2>1 DEF OK
  <2>6. f \in [Layers -> Lives] /\ f[l] = "dead" /\ \A k \in Layers \ {l} : f[k] = u.life[k]
    BY <2>5, LifeSet DEF Layers, Lives
  <2>7. c \in SUBSET Layers
    BY <2>5 DEF States
  <2> HIDE DEF f, c
  <2>8. r \in States
    <3> DEFINE e == [u EXCEPT !.life = f, !.cb = c, !.inqOpen = FALSE, !.inq = "none"]
               g == [e EXCEPT !.jobs = 0, !.timers = 0, !.set = 0, !.pending = 0]
    <3>1. e \in States
      BY <2>5, <2>6, <2>7 DEF States, Packets
    <3>2. g = r
      BY <2>5 DEF States
    <3> HIDE DEF e
    <3>3. \A j, t, n \in Nat, p \in Int :
            [e EXCEPT !.jobs = j, !.timers = t, !.set = n, !.pending = p] \in States
      BY <3>1, CountsSet
    <3>4. 0 \in Nat /\ 0 \in Int
      OBVIOUS
    <3>5. g \in States
      BY <3>3, <3>4, Zenon
    <3> HIDE DEF r, g
    <3> QED BY <3>2, <3>5
  <2>9. /\ SameReport(u, r) /\ r.recv = u.recv /\ r.held = u.held /\ r.inq = "none"
        /\ r.jobs = 0 /\ r.timers = 0 /\ r.pending = 0 /\ r.life = f
        /\ r.member = u.member /\ r.tear = u.tear /\ r.worker = u.worker /\ r.ice = u.ice /\ r.st = u.st
    BY <2>5 DEF States, SameReport
  <2> HIDE DEF r
  <2>10. u.member \subseteq Layers /\ u.tear \subseteq Layers
    BY <2>5 DEF States
  <2>11. r.life["dtls"] # "live"
    BY <2>3, <2>4, <2>6, <2>9 DEF Layers
  <2>12. r.life["sctp"] = u.life["sctp"] /\ (u.life["dtls"] = "none" <=> r.life["dtls"] = "none")
    BY <2>3, <2>6, <2>9 DEF Layers
  <2>13. l = "ice" => u.life["dtls"] # "live" /\ u.life["dtls"] = r.life["dtls"]
    BY <2>3, <2>4, <2>6, <2>9 DEF Layers
  <2>14. LifeOK(r)
    <3>1. \A k \in r.member : r.life[k] = "live"
      BY <2>1, <2>4, <2>6, <2>9, <2>10 DEF OK, CoreOK, LifeOK
    <3>2. \A k \in r.tear : r.life[k] = "live"
      BY <2>1, <2>4, <2>6, <2>9, <2>10 DEF OK, CoreOK, LifeOK
    <3> QED BY <2>1, <2>4, <2>9, <2>12, <2>13, <3>1, <3>2 DEF OK, CoreOK, LifeOK
  <2>15. ReportOK(r) /\ RecvOK(r) /\ CountOK(r) /\ QueueOK(r)
    BY <2>1, <2>9, <2>12 DEF OK, CoreOK, ReportOK, RecvOK, CountOK, QueueOK, SameReport
  <2>16. FreshOK(r) /\ WorkerOK(r)
    BY <2>1, <2>9, <2>12 DEF OK, CoreOK, FreshOK, WorkerOK
  <2> QED BY <2>2, <2>8, <2>14, <2>15, <2>16 DEF OK, CoreOK
<1>2. CASE ~(y.life[l] = "live" /\ ~Held(y, l))
  BY <1>2 DEF Reap
<1> QED BY <1>1, <1>2

\* It is enough that a step is right before its destructors.
LEMMA StepOK ==
  ASSUME NEW y, OK(y), Step(y)
  PROVE  IInv'
<1> DEFINE b == Reap(y, "sctp")
           c == Reap(b, "dtls")
           d == Reap(c, "ice")
<1>1. x' = d
  BY DEF Step
<1>2. OK(b)
  BY SctpReaped
<1> HIDE DEF b
<1>3. OK(c)
  BY <1>2, LowerReaped
<1> HIDE DEF c
<1>4. OK(d)
  BY <1>3, LowerReaped
<1> HIDE DEF d
<1> QED BY <1>1, <1>4 DEF IInv

-----------------------------------------------------------------------------
(* Closing.                                                                *)

LEMMA ClosedTransports ==
  ASSUME NEW y, OK(y)
  PROVE  OK(CloseTransports(y)) /\ OK(FinishClose(y))
<1> DEFINE u == ChangeState(y, "closed")
           c == u.cb \ y.member
           r == [u EXCEPT !.tear = y.member, !.member = {}, !.cb = c]
<1>0. y \in States /\ ReportOK(y)
  BY DEF OK
<1>1. u \in States /\ Same(y, u) /\ ReportOK(u)
  BY <1>0, ChangedState
<1>2. OK(u)
  BY <1>1, SameOK
<1>3. CloseTransports(y) \in {y, r}
  BY DEF CloseTransports
<1> HIDE DEF u
<1>4. c \in SUBSET Layers /\ y.member \in SUBSET Layers
  BY <1>0, <1>1 DEF States
<1> HIDE DEF c
<1>5. r \in States
  BY <1>1, <1>4 DEF States
<1>6. /\ SameReport(u, r) /\ SameReceive(u, r) /\ r.tear = y.member /\ r.member = {}
      /\ r.life = u.life /\ r.worker = u.worker /\ r.ice = u.ice /\ r.st = u.st
  BY <1>1 DEF States, SameReport, SameReceive
<1> HIDE DEF r
<1>7. LifeOK(r)
  BY <1>1, <1>2, <1>6 DEF Same, SameThreads, OK, CoreOK, LifeOK
<1>8. ReportOK(r) /\ RecvOK(r) /\ CountOK(r)
  BY <1>2, <1>6 DEF OK, CoreOK, ReportOK, RecvOK, CountOK, SameReport, SameReceive
<1>9. FreshOK(r) /\ WorkerOK(r) /\ QueueOK(r)
  BY <1>2, <1>6 DEF OK, CoreOK, FreshOK, WorkerOK, QueueOK, SameReceive
<1>10. OK(r)
  BY <1>5, <1>7, <1>8, <1>9 DEF OK, CoreOK
<1>11. FinishClose(y) \in {y, CloseTransports(y)}
  BY DEF FinishClose
<1> QED BY <1>3, <1>10, <1>11

LEMMA RemoteClosed ==
  ASSUME NEW y, OK(y)
  PROVE  OK(RemoteClose(y))
<1> DEFINE z == [y EXCEPT !.closing = TRUE]
<1>1. OK(z)
  BY Flags, AlikeOK DEF OK
<1> HIDE DEF z
<1>2. OK(Stop(z, "sctp")) /\ OK(FinishClose(z))
  BY <1>1, Stopped, ClosedTransports DEF Layers
<1>3. Close(y) \in {y, Stop(z, "sctp"), FinishClose(z)}
  BY DEF Close, z
<1>4. OK(Close(y))
  BY <1>2, <1>3
<1> QED BY <1>4, ClosedTransports DEF RemoteClose

-----------------------------------------------------------------------------
(* Constructors, and what emplaceTransport undoes.                         *)

\* The application or the worker makes a transport and goes on to start it.
LEMMA NewMade ==
  ASSUME NEW y, OK(y), NEW l \in Layers
  PROVE  LET r == New(y, l) IN
         /\ r \in States /\ SameReport(y, r) /\ SameReceive(y, r) /\ r.tear = y.tear /\ r.worker = y.worker
         /\ r.ice = y.ice /\ r.st = y.st /\ r.member = y.member \cup {l}
         /\ r.life[l] = "live" /\ \A k \in Layers \ {l} : r.life[k] = y.life[k]
<1> DEFINE f == [y.life EXCEPT ![l] = "live"]
           c == y.cb \cup {l}
           m == y.member \cup {l}
           r == [y EXCEPT !.life = f, !.cb = c, !.member = m]
<1>1. y \in States
  BY DEF OK
<1>2. New(y, l) = r
  BY DEF New
<1>3. f \in [Layers -> Lives] /\ f[l] = "live" /\ \A k \in Layers \ {l} : f[k] = y.life[k]
  BY <1>1, LifeSet DEF Lives
<1>4. c \in SUBSET Layers /\ m \in SUBSET Layers
  BY <1>1 DEF States
<1>5. m = y.member \cup {l}
  OBVIOUS
<1> HIDE DEF f, c, m
<1>6. r \in States
  BY <1>1, <1>3, <1>4 DEF States
<1>7. /\ SameReport(y, r) /\ SameReceive(y, r) /\ r.tear = y.tear /\ r.worker = y.worker
      /\ r.ice = y.ice /\ r.st = y.st /\ r.member = m /\ r.life = f
  BY <1>1 DEF States, SameReport, SameReceive
<1> HIDE DEF r
<1> QED BY <1>2, <1>3, <1>5, <1>6, <1>7

LEMMA NewIceOK ==
  ASSUME NEW y, OK(y), NEW z \in NewIce(y)
  PROVE  OK(z)
<1> DEFINE u == New(y, "ice")
<1>1. z = [u EXCEPT !.app = "checkIce"] \/ z = ChangeState(y, "failed")
  BY DEF NewIce
<1>2. /\ u \in States /\ SameReport(y, u) /\ SameReceive(y, u) /\ u.tear = y.tear /\ u.worker = y.worker
      /\ u.ice = y.ice /\ u.st = y.st /\ u.member = y.member \cup {"ice"}
      /\ u.life["ice"] = "live" /\ \A k \in Layers \ {"ice"} : u.life[k] = y.life[k]
  BY NewMade DEF Layers
<1> HIDE DEF u
<1>3. u.life["dtls"] = y.life["dtls"] /\ u.life["sctp"] = y.life["sctp"]
  BY <1>2 DEF Layers
<1>4. y \in States /\ y.member \subseteq Layers /\ y.tear \subseteq Layers
  BY DEF OK, States
<1>5. OK(u)
  <2>1. LifeOK(u)
    BY <1>2, <1>3, <1>4 DEF OK, CoreOK, LifeOK
  <2>2. ReportOK(u) /\ RecvOK(u) /\ CountOK(u)
    BY <1>2, <1>3 DEF OK, CoreOK, ReportOK, RecvOK, CountOK, SameReport, SameReceive
  <2>3. FreshOK(u) /\ WorkerOK(u) /\ QueueOK(u)
    BY <1>2, <1>3 DEF OK, CoreOK, FreshOK, WorkerOK, QueueOK, SameReceive
  <2> QED BY <1>2, <2>1, <2>2, <2>3 DEF OK, CoreOK
<1>6. OK([u EXCEPT !.app = "checkIce"])
  BY <1>5, Marks, AlikeOK DEF OK
<1>7. OK(ChangeState(y, "failed"))
  BY ChangedState, SameOK DEF OK, TransportStates
<1> QED BY <1>1, <1>6, <1>7

LEMMA NewDtlsOK ==
  ASSUME NEW y, OK(y), y.ice = "newDtls", NEW z \in NewDtls(y)
  PROVE  OK(z)
<1> DEFINE u == New(y, "dtls")
           r == [u EXCEPT !.ice = "startDtls"]
           v == Unregister(y, "ice")
           w == ChangeState(v, "failed")
<1>1. z = r \/ z = [w EXCEPT !.ice = "idle"]
  BY DEF NewDtls
<1>2. /\ u \in States /\ SameReport(y, u) /\ SameReceive(y, u) /\ u.tear = y.tear /\ u.worker = y.worker
      /\ u.ice = y.ice /\ u.st = y.st /\ u.member = y.member \cup {"dtls"}
      /\ u.life["dtls"] = "live" /\ \A k \in Layers \ {"dtls"} : u.life[k] = y.life[k]
  BY NewMade DEF Layers
<1>3. OK(v)
  BY Unregistered DEF Layers
<1> HIDE DEF u, v
<1>4. OK(w)
  BY <1>3, ChangedState, SameOK DEF OK, TransportStates
<1> HIDE DEF w
<1>5. OK([w EXCEPT !.ice = "idle"])
  BY <1>4, IceMoves
<1>6. r \in States /\ r.ice = "startDtls" /\ SameReport(u, r) /\ SameReceive(u, r) /\ r.tear = u.tear
      /\ r.worker = u.worker /\ r.st = u.st /\ r.member = u.member /\ r.life = u.life
  BY <1>2 DEF States, SameReport, SameReceive
<1> HIDE DEF r
<1>7. /\ y.life["dtls"] = "none" /\ y.st["ice"] = "connected" /\ y.st["dtls"] = "disconnected"
      /\ y.worker = "idle" /\ y.life["sctp"] \notin {"live", "dying"}
  BY DEF OK, CoreOK, FreshOK, LifeOK
<1>8. r.life["dtls"] = "live" /\ r.life["sctp"] = y.life["sctp"] /\ r.life["ice"] = y.life["ice"]
  BY <1>2, <1>6 DEF Layers
<1>9. LifeOK(r)
  <2>1. \A k \in r.member : r.life[k] = "live"
    BY <1>2, <1>6, <1>8 DEF OK, CoreOK, LifeOK, States
  <2>2. \A k \in r.tear : r.life[k] = "live"
    BY <1>2, <1>6, <1>8 DEF OK, CoreOK, LifeOK, States
  <2> QED BY <1>2, <1>6, <1>7, <1>8, <2>1, <2>2 DEF LifeOK
<1>10. ReportOK(r) /\ RecvOK(r) /\ CountOK(r)
  BY <1>2, <1>6, <1>7, <1>8 DEF OK, CoreOK, ReportOK, RecvOK, CountOK, SameReport, SameReceive
<1>11. FreshOK(r) /\ WorkerOK(r) /\ QueueOK(r)
  BY <1>2, <1>6, <1>7, <1>8 DEF OK, CoreOK, FreshOK, WorkerOK, QueueOK, Waiting
<1> QED BY <1>1, <1>5, <1>6, <1>9, <1>10, <1>11 DEF OK, CoreOK

LEMMA NewSctpOK ==
  ASSUME NEW y, OK(y), y.worker = "newSctp", NEW z \in NewSctp(y)
  PROVE  OK(z)
<1> DEFINE u == New(y, "sctp")
           r == [u EXCEPT !.worker = "startSctp"]
           v == Unregister(y, "dtls")
           w == StopDtls(v)
           a == ChangeState(w, "failed")
<1>1. z = r \/ z = [a EXCEPT !.worker = "read"]
  BY DEF NewSctp
<1>2. y.life["dtls"] = "live" /\ y.st["dtls"] # "connecting"
  BY DEF OK, CoreOK, LifeOK, WorkerOK
<1>3. OK([a EXCEPT !.worker = "read"])
  <2>1. OK(v) /\ SameThreads(y, v)
    BY Unregistered DEF Layers
  <2> HIDE DEF v
  <2>2. OK(w) /\ SameThreads(y, w)
    BY <1>2, <2>1, StoppedDtls DEF SameThreads
  <2> HIDE DEF w
  <2>3. OK(a) /\ a.worker # "idle" /\ a.st["dtls"] # "connecting"
    BY <1>2, <2>2, ChangedState, SameOK DEF OK, TransportStates, Same, SameThreads
  <2> HIDE DEF a
  <2> QED BY <2>3, WorkerGoesOn DEF Places, Waiting
<1>4. /\ u \in States /\ SameReport(y, u) /\ SameReceive(y, u) /\ u.tear = y.tear /\ u.worker = y.worker
      /\ u.ice = y.ice /\ u.st = y.st /\ u.member = y.member \cup {"sctp"}
      /\ u.life["sctp"] = "live" /\ \A k \in Layers \ {"sctp"} : u.life[k] = y.life[k]
  BY NewMade DEF Layers
<1> HIDE DEF u, a
<1>5. u.life["dtls"] = "live" /\ u.life["ice"] = y.life["ice"]
  BY <1>2, <1>4 DEF Layers
<1>6. OK(u)
  <2>1. \A k \in u.member : u.life[k] = "live"
    BY <1>4, <1>5 DEF OK, CoreOK, LifeOK, States
  <2>2. \A k \in u.tear : u.life[k] = "live"
    BY <1>4, <1>5 DEF OK, CoreOK, LifeOK, States
  <2>3. LifeOK(u)
    BY <1>4, <1>5, <2>1, <2>2 DEF OK, CoreOK, LifeOK
  <2>4. ReportOK(u) /\ RecvOK(u) /\ CountOK(u)
    BY <1>2, <1>4, <1>5 DEF OK, CoreOK, ReportOK, RecvOK, CountOK, SameReport, SameReceive
  <2>5. FreshOK(u) /\ WorkerOK(u) /\ QueueOK(u)
    BY <1>2, <1>4, <1>5 DEF OK, CoreOK, FreshOK, WorkerOK, QueueOK, SameReceive
  <2> QED BY <1>4, <2>3, <2>4, <2>5 DEF OK, CoreOK
<1>7. OK(r)
  BY <1>2, <1>4, <1>6, WorkerGoesOn DEF Places, Waiting
<1> HIDE DEF r
<1> QED BY <1>1, <1>3, <1>7

LEMMA MembersDropped ==
  ASSUME NEW y, OK(y), NEW m \in SUBSET y.member, NEW t \in SUBSET y.tear
  PROVE  LET r == [y EXCEPT !.member = m, !.tear = t] IN
         /\ OK(r) /\ SameWork(y, r) /\ r.ice = y.ice
<1> DEFINE r == [y EXCEPT !.member = m, !.tear = t]
<1>1. y \in States /\ m \in SUBSET Layers /\ t \in SUBSET Layers
  BY DEF OK, States
<1>2. r \in States
  BY <1>1 DEF States
<1>3. /\ SameReport(y, r) /\ SameReceive(y, r) /\ r.member = m /\ r.tear = t
      /\ r.life = y.life /\ r.worker = y.worker /\ r.ice = y.ice /\ r.st = y.st
  BY <1>1 DEF States, SameReport, SameReceive
<1> HIDE DEF r
<1>4. ReportOK(r) /\ LifeOK(r) /\ RecvOK(r) /\ CountOK(r)
  BY <1>3 DEF OK, CoreOK, ReportOK, LifeOK, RecvOK, CountOK, SameReport, SameReceive
<1>5. FreshOK(r) /\ WorkerOK(r) /\ QueueOK(r)
  BY <1>3 DEF OK, CoreOK, FreshOK, WorkerOK, QueueOK, SameReceive
<1> QED BY <1>2, <1>3, <1>4, <1>5 DEF OK, CoreOK, SameWork, SameReceive, r

LEMMA MemberDropped ==
  ASSUME NEW y, OK(y), NEW l
  PROVE  LET r == [y EXCEPT !.member = @ \ {l}] IN
         /\ OK(r) /\ SameWork(y, r) /\ r.ice = y.ice
<1> DEFINE m == y.member \ {l}
           r == [y EXCEPT !.member = m]
           q == [y EXCEPT !.member = m, !.tear = y.tear]
<1>1. m \in SUBSET y.member /\ y.tear \in SUBSET y.tear
  OBVIOUS
<1>2. r = q
  BY DEF OK, States
<1> HIDE DEF m
<1>3. OK(q) /\ SameWork(y, q) /\ q.ice = y.ice
  BY <1>1, MembersDropped
<1> HIDE DEF q, r
<1>4. OK(r) /\ SameWork(y, r) /\ r.ice = y.ice
  BY <1>2, <1>3
<1> QED BY <1>4 DEF r, m

LEMMA Checked ==
  ASSUME NEW y, OK(y), NEW l \in Layers, l = "dtls" => y.life["dtls"] = "live"
  PROVE  OK(Check(y, l)) /\ (l = "sctp" => SameWork(y, Check(y, l)))
<1> DEFINE r == [y EXCEPT !.member = @ \ {l}]
<1>1. OK(r) /\ SameWork(y, r)
  BY MemberDropped
<1>2. Check(y, l) \in {y, Stop(r, l)}
  BY DEF Check
<1> HIDE DEF r
<1>3. OK(Stop(r, l))
  BY <1>1, Stopped DEF SameWork
<1>4. l = "sctp" => SameWork(r, Stop(r, l))
  BY <1>1, StoppedSctp DEF Stop
<1> QED BY <1>1, <1>2, <1>3, <1>4 DEF SameWork

-----------------------------------------------------------------------------
(* The application and the ICE agent's thread.                             *)

LEMMA Present == IInv => OK(x) /\ x \in States
BY DEF IInv, OK

LEMMA InitIceOK == ASSUME IInv, InitIce PROVE IInv'
<1>1. ASSUME NEW y \in NewIce(x), Step(y) PROVE IInv'
  BY <1>1, NewIceOK, StepOK DEF IInv
<1>2. OK([Check(x, "ice") EXCEPT !.app = "idle"])
  <2> DEFINE y == Check(x, "ice")
  <2>1. OK(y)
    BY Checked DEF IInv, Layers
  <2> HIDE DEF y
  <2>2. OK([y EXCEPT !.app = "idle"])
    BY <2>1, Marks, AlikeOK DEF OK
  <2> QED BY <2>2 DEF y
<1> QED BY <1>1, <1>2, StepOK DEF InitIce

LEMMA CallCloseOK == ASSUME IInv, CallClose PROVE IInv'
<1>1. OK([x EXCEPT !.closing = TRUE, !.app = "close"])
  <2> DEFINE r == [x EXCEPT !.closing = TRUE, !.app = "close"]
  <2>1. Alike(x, r)
    BY Present DEF Alike, States, Same, SameThreads, SameReceive, SameReport
  <2> QED BY <2>1, AlikeOK DEF IInv
<1> DEFINE y == IF "sctp" \in x.member THEN StopSctp(x) ELSE FinishClose(x)
<1>2. OK(y)
  BY StoppedSctp, ClosedTransports DEF IInv
<1> HIDE DEF y
<1>3. OK([y EXCEPT !.app = "idle"])
  BY <1>2, Marks, AlikeOK DEF OK
<1>4. CASE Step([x EXCEPT !.closing = TRUE, !.app = "close"])
  BY <1>1, <1>4, StepOK
<1>5. CASE Step([y EXCEPT !.app = "idle"])
  BY <1>3, <1>5, StepOK
<1> QED BY <1>4, <1>5 DEF CallClose, y

LEMMA IceChangesOK ==
  ASSUME IInv, NEW s \in {"connecting", "connected", "failed"}, IceChanges(s)
  PROVE  IInv'
<1> DEFINE r == [x EXCEPT !.st["ice"] = s]
<1>0. x \in States /\ s \in TransportStates
  BY Present DEF TransportStates
<1>1. /\ r \in States /\ SameReport(x, r) /\ SameReceive(x, r)
      /\ r.member = x.member /\ r.tear = x.tear /\ r.life = x.life /\ r.worker = x.worker
      /\ r.ice = x.ice /\ r.st["ice"] = s /\ r.st["dtls"] = x.st["dtls"]
  BY <1>0, StateSet DEF Layers
<1>2. /\ x.ice = "idle" /\ s \in IceFollows(x) /\ Step(SetState(x, "ice", s))
  BY DEF IceChanges
<1>3. /\ s = "connecting" => x.st["ice"] = "disconnected"
      /\ s = "connected" => x.life["dtls"] = "none"
  BY <1>2 DEF IceFollows, IInv, OK, CoreOK, FreshOK
<1>4. SetState(x, "ice", s) \in {x, r, OnTransportState(r, "ice", s)}
  BY DEF SetState
<1> HIDE DEF r
<1>5. OK(r)
  <2>1. ReportOK(r) /\ LifeOK(r) /\ RecvOK(r) /\ CountOK(r)
    BY <1>1 DEF IInv, OK, CoreOK, ReportOK, LifeOK, RecvOK, CountOK, SameReport, SameReceive
  <2>2. FreshOK(r) /\ WorkerOK(r) /\ QueueOK(r)
    BY <1>1, <1>2, <1>3 DEF IInv, OK, CoreOK, FreshOK, WorkerOK, QueueOK, SameReceive
  <2> QED BY <1>1, <2>1, <2>2 DEF OK, CoreOK
<1> DEFINE u == ChangeState(r, s)
<1>6. OK(u)
  BY <1>5, ChangedState, SameOK DEF OK, TransportStates
<1> HIDE DEF u
<1>7. OK(Enqueue(u, "remoteClose"))
  BY <1>6, Enqueued, AlikeOK DEF OK, Tasks
<1>8. s = "connected" => OK([r EXCEPT !.ice = "loadIce"])
  BY <1>1, <1>3, <1>5, IceMoves
<1>9. \/ OnTransportState(r, "ice", s) \in {r, u, Enqueue(u, "remoteClose")}
      \/ s = "connected" /\ OnTransportState(r, "ice", s) = [r EXCEPT !.ice = "loadIce"]
  BY DEF OnTransportState, u
<1>10. OK(SetState(x, "ice", s))
  BY <1>4, <1>5, <1>6, <1>7, <1>8, <1>9 DEF IInv
<1> QED BY <1>2, <1>10, StepOK

\* DtlsTransport::incoming
LEMMA CameIn ==
  ASSUME NEW y, OK(y), y.life["dtls"] = "live", NEW m \in Packets
  PROVE  OK(Incoming(y, m)) /\ SameThreads(y, Incoming(y, m))
<1> DEFINE r == [y EXCEPT !.inq = m]
<1>1. y \in States
  BY DEF OK
<1>2. r \in States /\ SameThreads(y, r) /\ SameReport(y, r) /\ r.recv = y.recv /\ r.held = y.held
      /\ r.jobs = y.jobs /\ r.timers = y.timers /\ r.pending = y.pending
  BY <1>1 DEF States, SameThreads, SameReport
<1>3. Incoming(y, m) \in {y, EnqueueRecv(y), EnqueueRecv(r)}
  BY DEF Incoming
<1> HIDE DEF r
<1>4. ReportOK(r) /\ LifeOK(r) /\ RecvOK(r) /\ CountOK(r) /\ FreshOK(r) /\ WorkerOK(r)
  BY <1>2 DEF OK, CoreOK, ReportOK, LifeOK, RecvOK, CountOK, FreshOK, WorkerOK, SameThreads, SameReport
<1>5. OK(EnqueueRecv(r)) /\ SameThreads(y, EnqueueRecv(r))
  BY <1>2, <1>4, EnqueuedRecv DEF AlmostOK, SameThreads
<1>6. OK(EnqueueRecv(y)) /\ SameThreads(y, EnqueueRecv(y))
  BY <1>1, EnqueuedRecv, Weaken
<1> QED BY <1>3, <1>5, <1>6 DEF SameThreads

\* What a layer keeps for the one above it.
LEMMA HeldSet ==
  ASSUME NEW y, OK(y), NEW l \in Layers, NEW m \in Packets,
         l = "sctp" /\ m = "end" => y.worker \notin Waiting \/ y.st["dtls"] \in {"disconnected", "failed"}
  PROVE  LET r == [y EXCEPT !.held[l] = m] IN
         OK(r) /\ SameThreads(y, r) /\ r.recv = y.recv /\ r.inq = y.inq /\ r.held[l] = m
<1> DEFINE h == [y.held EXCEPT ![l] = m]
           r == [y EXCEPT !.held = h]
<1>1. y \in States
  BY DEF OK
<1>2. h \in [Layers -> Packets] /\ h[l] = m /\ (l # "sctp" => h["sctp"] = y.held["sctp"])
  BY <1>1 DEF States, Layers
<1>3. [y EXCEPT !.held[l] = m] = r
  OBVIOUS
<1> HIDE DEF h
<1>4. r \in States
  BY <1>1, <1>2 DEF States
<1>5. SameThreads(y, r) /\ SameReport(y, r) /\ r.recv = y.recv /\ r.held = h /\ r.inq = y.inq
      /\ r.jobs = y.jobs /\ r.timers = y.timers /\ r.pending = y.pending
  BY <1>1 DEF States, SameThreads, SameReport
<1> HIDE DEF r
<1>6. ReportOK(r) /\ LifeOK(r) /\ RecvOK(r) /\ CountOK(r) /\ FreshOK(r) /\ QueueOK(r)
  BY <1>5 DEF OK, CoreOK, ReportOK, LifeOK, RecvOK, CountOK, FreshOK, QueueOK, SameThreads, SameReport
<1>7. WorkerOK(r)
  BY <1>2, <1>5 DEF OK, CoreOK, WorkerOK, SameThreads
<1> QED BY <1>2, <1>3, <1>4, <1>5, <1>6, <1>7 DEF OK, CoreOK

LEMMA PacketOK ==
  ASSUME IInv, NEW m \in {"data", "bye"}, Packet(m)
  PROVE  IInv'
<1>1. "ice" \in x.recv => OK(Incoming(x, m))
  BY CameIn DEF IInv, OK, CoreOK, RecvOK, Packets
<1>2. OK(Receive(x, "ice", m))
  BY HeldSet DEF IInv, Receive, Layers, Packets
<1> QED BY <1>1, <1>2, StepOK DEF Packet

LEMMA RegisteredDtls ==
  ASSUME NEW y, OK(y), y.life["dtls"] = "live"
  PROVE  LET r == [y EXCEPT !.recv = @ \cup {"ice"}, !.held["ice"] = "none"] IN
         OK(r) /\ SameThreads(y, r)
<1> DEFINE h == [y.held EXCEPT !["ice"] = "none"]
           c == y.recv \cup {"ice"}
           r == [y EXCEPT !.recv = c, !.held = h]
<1>1. y \in States
  BY DEF OK
<1>2. h \in [Layers -> Packets] /\ h["sctp"] = y.held["sctp"] /\ c \in SUBSET Layers
  BY <1>1 DEF States, Layers, Packets
<1>3. [y EXCEPT !.recv = @ \cup {"ice"}, !.held["ice"] = "none"] = r
  BY <1>1 DEF States
<1>4. "dtls" \in c => "dtls" \in y.recv
  OBVIOUS
<1> HIDE DEF h, c
<1>5. r \in States
  BY <1>1, <1>2 DEF States
<1>6. SameThreads(y, r) /\ SameReport(y, r) /\ r.recv = c /\ r.held = h /\ r.inq = y.inq
      /\ r.jobs = y.jobs /\ r.timers = y.timers /\ r.pending = y.pending
  BY <1>1 DEF States, SameThreads, SameReport
<1> HIDE DEF r
<1>7. ReportOK(r) /\ LifeOK(r) /\ CountOK(r) /\ FreshOK(r) /\ QueueOK(r)
  BY <1>6 DEF OK, CoreOK, ReportOK, LifeOK, CountOK, FreshOK, QueueOK, SameThreads, SameReport
<1>8. RecvOK(r) /\ WorkerOK(r)
  BY <1>2, <1>4, <1>6 DEF OK, CoreOK, RecvOK, WorkerOK, SameThreads
<1> QED BY <1>3, <1>5, <1>6, <1>7, <1>8 DEF OK, CoreOK

\* The handshake starts: a doRecv is under way.
LEMMA StartedDtls ==
  ASSUME NEW y, OK(y), y.ice = "startDtls"
  PROVE  OK([StartDtls(y) EXCEPT !.ice = "checkDtls"])
<1> DEFINE a == [y EXCEPT !.recv = @ \cup {"ice"}, !.held["ice"] = "none"]
           m == y.held["ice"]
           z == Incoming(a, m)
           b == [z EXCEPT !.st["dtls"] = "connecting"]
           c == [b EXCEPT !.ice = "checkDtls"]
           d == EnqueueRecv(b)
<1>1. /\ y.life["dtls"] = "live" /\ y.worker = "idle" /\ y.st["dtls"] = "disconnected"
      /\ y.st["ice"] = "connected" /\ m \in Packets
  BY DEF OK, CoreOK, LifeOK, FreshOK, States, Layers
<1>2. OK(a) /\ SameThreads(y, a)
  BY <1>1, RegisteredDtls
<1>3. StartDtls(y) = EnqueueRecv(SetState(z, "dtls", "connecting"))
  BY DEF StartDtls
<1> HIDE DEF a, m
<1>4. OK(z) /\ SameThreads(y, z)
  BY <1>1, <1>2, CameIn DEF SameThreads
<1> HIDE DEF z
<1>5. z \in States /\ z.st["dtls"] = "disconnected" /\ z.life["dtls"] = "live" /\ z.worker = "idle"
      /\ z.st["ice"] = "connected" /\ "connecting" \in TransportStates
  BY <1>1, <1>4 DEF OK, SameThreads, TransportStates
<1>6. SetState(z, "dtls", "connecting") = b
  BY <1>5 DEF SetState, OnTransportState
<1>7. /\ b \in States /\ SameReport(z, b) /\ SameReceive(z, b)
      /\ b.member = z.member /\ b.tear = z.tear /\ b.life = z.life /\ b.worker = z.worker
      /\ b.ice = z.ice /\ b.st["dtls"] = "connecting" /\ b.st["ice"] = z.st["ice"]
  BY <1>5, StateSet DEF Layers
<1> HIDE DEF b
<1>8. /\ c \in States /\ SameReport(b, c) /\ SameReceive(b, c)
      /\ c.member = b.member /\ c.tear = b.tear /\ c.life = b.life /\ c.worker = b.worker
      /\ c.ice = "checkDtls" /\ c.st = b.st
  BY <1>7 DEF States, SameReport, SameReceive
<1>9. [EnqueueRecv(b) EXCEPT !.ice = "checkDtls"] = EnqueueRecv(c)
  <2> DEFINE p == b.pending + 1
             j == b.jobs + 1
  <2>1. c.pending = b.pending /\ c.jobs = b.jobs
    BY <1>8 DEF SameReceive
  <2>2. CASE b.pending > 0
    BY <2>1, <2>2 DEF EnqueueRecv
  <2>3. CASE ~(b.pending > 0)
    <3>1. EnqueueRecv(b) = [b EXCEPT !.pending = p, !.jobs = j]
      BY <2>3 DEF EnqueueRecv
    <3>2. EnqueueRecv(c) = [c EXCEPT !.pending = p, !.jobs = j]
      BY <2>1, <2>3 DEF EnqueueRecv
    <3> HIDE DEF p, j
    <3>3. [[b EXCEPT !.pending = p, !.jobs = j] EXCEPT !.ice = "checkDtls"] = [c EXCEPT !.pending = p, !.jobs = j]
      BY <1>7 DEF States
    <3> QED BY <3>1, <3>2, <3>3
  <2> QED BY <2>2, <2>3
<1> HIDE DEF c
<1>10. AlmostOK(c)
  <2>1. ReportOK(c) /\ LifeOK(c) /\ RecvOK(c) /\ CountOK(c)
    BY <1>4, <1>5, <1>7, <1>8 DEF OK, CoreOK, ReportOK, LifeOK, RecvOK, CountOK, SameReport, SameReceive
  <2>2. FreshOK(c) /\ WorkerOK(c)
    BY <1>4, <1>5, <1>7, <1>8 DEF OK, CoreOK, FreshOK, WorkerOK, SameReceive, Waiting
  <2> QED BY <1>8, <2>1, <2>2 DEF AlmostOK
<1>11. OK(EnqueueRecv(c))
  BY <1>5, <1>7, <1>8, <1>10, EnqueuedRecv
<1> QED BY <1>3, <1>6, <1>9, <1>11

LEMMA InitDtlsOK == ASSUME IInv, InitDtls PROVE IInv'
<1> DEFINE u == ChangeState(x, "failed")
<1>1. OK(x)
  BY DEF IInv
<1>2. OK(u)
  BY <1>1, ChangedState, SameOK DEF OK, TransportStates
<1> HIDE DEF u
<1>3. ASSUME x.ice = "loadIce",
             Step(IF "dtls" \in x.member THEN [x EXCEPT !.ice = "idle"]
                  ELSE IF "ice" \in x.member THEN [x EXCEPT !.ice = "newDtls"]
                  ELSE [u EXCEPT !.ice = "idle"])
      PROVE  IInv'
  <2>1. OK([x EXCEPT !.ice = "idle"]) /\ OK([u EXCEPT !.ice = "idle"])
    BY <1>1, <1>2, IceMoves
  <2>2. OK([x EXCEPT !.ice = "newDtls"])
    <3>1. x.life["dtls"] = "none" /\ x.st["ice"] = "connected"
      BY <1>1, <1>3 DEF OK, CoreOK, FreshOK
    <3> QED BY <1>1, <3>1, IceMoves
  <2> QED BY <1>3, <2>1, <2>2, StepOK
<1>4. ASSUME x.ice = "newDtls", NEW y \in NewDtls(x), Step(y) PROVE IInv'
  BY <1>1, <1>4, NewDtlsOK, StepOK
<1>5. ASSUME x.ice = "startDtls", Step([StartDtls(x) EXCEPT !.ice = "checkDtls"]) PROVE IInv'
  BY <1>1, <1>5, StartedDtls, StepOK
<1>6. ASSUME x.ice = "checkDtls", Step([Check(x, "dtls") EXCEPT !.ice = "idle"]) PROVE IInv'
  <2> DEFINE y == Check(x, "dtls")
  <2>1. OK(y)
    BY <1>1, <1>6, Checked DEF OK, CoreOK, LifeOK, Layers
  <2> HIDE DEF y
  <2>2. OK([y EXCEPT !.ice = "idle"])
    BY <2>1, IceMoves
  <2> QED BY <1>6, <2>2, StepOK DEF y
<1> QED BY <1>3, <1>4, <1>5, <1>6 DEF InitDtls, u

-----------------------------------------------------------------------------
(* The worker in doRecv.                                                   *)

\* A timer that fires counts as a doRecv that was asked for.
LEMMA DoRecvOK == ASSUME IInv, DoRecv PROVE IInv'
<1>1. OK(x) /\ x \in States /\ x.jobs \in Nat /\ x.timers \in Nat /\ x.pending \in Int /\ x.worker = "idle"
  BY DEF IInv, OK, States, DoRecv
<1>2. x.pending <= x.jobs
  BY <1>1 DEF OK, CoreOK, CountOK
<1>3. PICK timer \in BOOLEAN :
        /\ IF timer THEN x.timers > 0 ELSE x.jobs > 0
        /\ LET y == IF timer THEN [x EXCEPT !.timers = @ - 1] ELSE [x EXCEPT !.jobs = @ - 1]
           IN  IF x.life.dtls # "live" THEN Step(y)
               ELSE IF x.st.dtls = "connecting"
               THEN Step([BeginRecv(y) EXCEPT !.worker = "handshake"])
               ELSE IF x.st.dtls = "connected"
               THEN Step([BeginRecv(y) EXCEPT !.worker = "read"])
               ELSE Step(BeginRecv(y))
  BY DEF DoRecv
<1> DEFINE y == IF timer THEN [x EXCEPT !.timers = @ - 1] ELSE [x EXCEPT !.jobs = @ - 1]
           t == IF timer THEN x.timers - 1 ELSE x.timers
           j == IF timer THEN x.jobs ELSE x.jobs - 1
           p == x.pending - 1
           b == [x EXCEPT !.jobs = j, !.timers = t, !.pending = p]
<1>4. t \in Nat /\ j \in Nat /\ p \in Int /\ p <= j
  BY <1>1, <1>2, <1>3
<1>5. BeginRecv(y) = b
  BY <1>1 DEF BeginRecv, States
<1>6. x.life["dtls"] = "live"
  BY <1>1, <1>3 DEF OK, CoreOK, CountOK
<1> HIDE DEF t, j, p
<1>7. b \in States
  BY <1>1, <1>4 DEF States
<1>8. /\ SameReport(x, b) /\ SameThreads(x, b) /\ b.recv = x.recv /\ b.held = x.held /\ b.inq = x.inq
      /\ b.jobs = j /\ b.timers = t /\ b.pending = p
  BY <1>1 DEF States, SameReport, SameThreads
<1>9. CASE x.st["dtls"] \in {"connecting", "connected"}
  <2>1. PICK w \in {"handshake", "read"} :
          /\ Step([BeginRecv(y) EXCEPT !.worker = w])
          /\ w = "read" => x.st["dtls"] = "connected"
    BY <1>3, <1>6, <1>9
  <2> DEFINE r == [b EXCEPT !.worker = w]
  <2> HIDE DEF b
  <2>2. /\ r \in States /\ SameReport(b, r) /\ SameReceive(b, r) /\ r.worker = w
        /\ r.member = b.member /\ r.tear = b.tear /\ r.life = b.life
        /\ r.ice = b.ice /\ r.st = b.st
    BY <1>7, WorkerMoves DEF Places
  <2> HIDE DEF r
  <2>3. ReportOK(r) /\ RecvOK(r)
    BY <1>1, <1>8, <2>2 DEF OK, CoreOK, ReportOK, RecvOK, SameReport, SameReceive, SameThreads
  <2>4. LifeOK(r)
    BY <1>1, <1>6, <1>8, <2>2 DEF OK, CoreOK, LifeOK, SameThreads
  <2>5. CountOK(r)
    BY <1>4, <1>6, <1>8, <2>2 DEF CountOK, SameReceive, SameThreads
  <2>6. FreshOK(r) /\ WorkerOK(r) /\ QueueOK(r)
    BY <1>1, <1>8, <1>9, <2>1, <2>2 DEF OK, CoreOK, FreshOK, WorkerOK, QueueOK, SameThreads, Waiting
  <2>7. OK(r)
    BY <2>2, <2>3, <2>4, <2>5, <2>6 DEF OK, CoreOK
  <2> QED BY <1>5, <2>1, <2>7, StepOK DEF r
<1>10. CASE x.st["dtls"] \notin {"connecting", "connected"}
  <2>1. Step(BeginRecv(y))
    BY <1>3, <1>6, <1>10
  <2> HIDE DEF b
  <2>2. ReportOK(b) /\ RecvOK(b) /\ LifeOK(b)
    BY <1>1, <1>8 DEF OK, CoreOK, ReportOK, RecvOK, LifeOK, SameReport, SameThreads
  <2>3. CountOK(b)
    BY <1>4, <1>6, <1>8 DEF CountOK, SameThreads
  <2>4. FreshOK(b) /\ WorkerOK(b) /\ QueueOK(b)
    BY <1>1, <1>8, <1>10 DEF OK, CoreOK, FreshOK, WorkerOK, QueueOK, SameThreads
  <2>5. OK(b)
    BY <1>7, <2>2, <2>3, <2>4 DEF OK, CoreOK
  <2> QED BY <1>5, <2>1, <2>5, StepOK
<1> QED BY <1>9, <1>10

\* The worker changes the state of DTLS; the queue is empty by then.
LEMMA DtlsStateSet ==
  ASSUME NEW y \in States, ReportOK(y), LifeOK(y), RecvOK(y), CountOK(y), FreshOK(y),
         y.inq = "none", y.life["dtls"] = "live", y.ice # "startDtls", y.worker \notin Waiting,
         NEW s \in {"connected", "disconnected", "failed"}, s = "connected" => y.worker = "read"
  PROVE  LET z == SetState(y, "dtls", s) IN
         /\ OK(z) /\ z.inq = "none"
         /\ s # "connected" => z.worker = y.worker /\ z.st["dtls"] = s
<1> DEFINE r == [y EXCEPT !.st["dtls"] = s]
           u == ChangeState(r, s)
           v == Enqueue(u, "remoteClose")
           w == [r EXCEPT !.worker = "loadDtls"]
           Fine(z) == z.inq = "none" /\ (s # "connected" => z.worker = y.worker /\ z.st["dtls"] = s)
<1>1. s \in TransportStates
  BY DEF TransportStates
<1>2. /\ r \in States /\ SameReport(y, r) /\ SameReceive(y, r)
      /\ r.member = y.member /\ r.tear = y.tear /\ r.life = y.life /\ r.worker = y.worker
      /\ r.ice = y.ice /\ r.st["dtls"] = s /\ r.st["ice"] = y.st["ice"]
  BY <1>1, StateSet DEF Layers
<1>3. \/ SetState(y, "dtls", s) = y /\ y.st["dtls"] = s
      \/ SetState(y, "dtls", s) = r
      \/ SetState(y, "dtls", s) = OnTransportState(r, "dtls", s)
  BY DEF SetState
<1>4. \/ OnTransportState(r, "dtls", s) = v /\ s # "connected"
      \/ OnTransportState(r, "dtls", s) = w /\ s = "connected"
  BY DEF OnTransportState
<1> HIDE DEF r
<1>5. OK(r) /\ Fine(r)
  <2>1. ReportOK(r) /\ LifeOK(r) /\ RecvOK(r) /\ CountOK(r)
    BY <1>2 DEF ReportOK, LifeOK, RecvOK, CountOK, SameReport, SameReceive
  <2>2. FreshOK(r) /\ WorkerOK(r) /\ QueueOK(r) /\ Fine(r)
    BY <1>2 DEF FreshOK, WorkerOK, QueueOK, SameReceive
  <2> QED BY <1>2, <2>1, <2>2 DEF OK, CoreOK
<1>6. y.st["dtls"] = s => OK(y) /\ Fine(y)
  BY DEF OK, CoreOK, WorkerOK, QueueOK
<1>7. OK(u) /\ Fine(u)
  BY <1>1, <1>5, ChangedState, SameOK DEF OK, Same, SameThreads, SameReceive
<1> HIDE DEF u
<1>8. OK(v) /\ Fine(v)
  BY <1>7, Enqueued, AlikeOK DEF OK, Tasks, Alike, Same, SameThreads, SameReceive
<1> HIDE DEF v
<1>9. s = "connected" => OK(w) /\ Fine(w)
  <2> SUFFICES ASSUME s = "connected" PROVE OK(w) /\ Fine(w)
    OBVIOUS
  <2>1. OK(w)
    BY <1>2, <1>5, WorkerGoesOn DEF Places, Waiting
  <2>2. w.inq = "none"
    BY <1>2, WorkerMoves DEF Places, SameReceive
  <2> QED BY <2>1, <2>2
<1> HIDE DEF w
<1> QED BY <1>3, <1>4, <1>5, <1>6, <1>8, <1>9

\* What mbedTLS has read is gone from the queue.
LEMMA QueueRead ==
  ASSUME NEW y, OK(y)
  PROVE  LET r == [y EXCEPT !.inq = "none"] IN
         /\ OK(r) /\ SameThreads(y, r) /\ r.inq = "none" /\ r.held = y.held /\ r.recv = y.recv
         /\ r.timers = y.timers
<1> DEFINE r == [y EXCEPT !.inq = "none"]
<1>1. y \in States
  BY DEF OK
<1>2. r \in States /\ SameThreads(y, r) /\ SameReport(y, r) /\ r.recv = y.recv /\ r.held = y.held
      /\ r.jobs = y.jobs /\ r.timers = y.timers /\ r.pending = y.pending /\ r.inq = "none"
  BY <1>1 DEF States, SameThreads, SameReport, Packets
<1> HIDE DEF r
<1>3. ReportOK(r) /\ LifeOK(r) /\ RecvOK(r) /\ CountOK(r) /\ FreshOK(r) /\ WorkerOK(r) /\ QueueOK(r)
  BY <1>2 DEF OK, CoreOK, ReportOK, LifeOK, RecvOK, CountOK, FreshOK, WorkerOK, QueueOK, SameThreads, SameReport
<1>4. OK(r) /\ SameThreads(y, r) /\ r.inq = "none" /\ r.held = y.held /\ r.recv = y.recv /\ r.timers = y.timers
  BY <1>2, <1>3 DEF OK, CoreOK
<1> QED BY <1>4 DEF r

LEMMA HandshakeOK == ASSUME IInv, Handshake PROVE IInv'
<1> DEFINE q == [x EXCEPT !.inq = "none"]
           y == [x EXCEPT !.inq = "none", !.worker = "idle"]
           z == [y EXCEPT !.worker = "read"]
           t == [y EXCEPT !.timers = @ + 1, !.set = @ + 1]
<1>1. OK(x) /\ x \in States /\ x.worker = "handshake"
  BY Present DEF Handshake
<1>2. x.life["dtls"] = "live" /\ x.ice # "startDtls"
  BY <1>1 DEF OK, CoreOK, LifeOK, FreshOK
<1>3. OK(q) /\ SameThreads(x, q) /\ q.inq = "none"
  BY <1>1, QueueRead
<1>4. y = [q EXCEPT !.worker = "idle"]
  BY <1>1 DEF States
<1> HIDE DEF q
<1>5. OK(y)
  BY <1>3, <1>4, WorkerEnds
<1>6. /\ y.inq = "none" /\ y.worker = "idle" /\ y.life = x.life /\ y.ice = x.ice /\ y.st = x.st
  BY <1>1 DEF States
<1>7. Step(t) \/ Step(SetState(y, "dtls", "failed")) \/ Step(SetState(z, "dtls", "connected"))
  BY DEF Handshake
<1> HIDE DEF y
<1>8. y \in States
  BY <1>5 DEF OK
<1>9. OK(t)
  <2> DEFINE n == y.timers + 1
             m == y.set + 1
             r == [y EXCEPT !.timers = n, !.set = m]
  <2>1. n \in Nat /\ m \in Nat
    BY <1>8 DEF States
  <2> HIDE DEF n, m
  <2>2. r \in States
    BY <1>8, <2>1 DEF States
  <2>3. /\ SameReport(y, r) /\ SameThreads(y, r) /\ r.recv = y.recv /\ r.held = y.held /\ r.inq = y.inq
        /\ r.jobs = y.jobs /\ r.pending = y.pending
    BY <1>8 DEF States, SameReport, SameThreads
  <2> HIDE DEF r
  <2>4. ReportOK(r) /\ LifeOK(r) /\ RecvOK(r) /\ CountOK(r)
    BY <1>2, <1>5, <1>6, <2>3 DEF OK, CoreOK, ReportOK, LifeOK, RecvOK, CountOK, SameReport, SameThreads
  <2>5. FreshOK(r) /\ WorkerOK(r) /\ QueueOK(r)
    BY <1>5, <1>6, <2>3 DEF OK, CoreOK, FreshOK, WorkerOK, QueueOK, SameThreads
  <2> QED BY <2>2, <2>4, <2>5 DEF OK, CoreOK, r, n, m
<1>10. OK(SetState(y, "dtls", "failed"))
  BY <1>2, <1>5, <1>6, <1>8, DtlsStateSet DEF OK, CoreOK, Waiting
<1>11. OK(SetState(z, "dtls", "connected"))
  <2>1. /\ z \in States /\ SameReport(y, z) /\ SameReceive(y, z) /\ z.worker = "read"
        /\ z.member = y.member /\ z.tear = y.tear /\ z.life = y.life
        /\ z.ice = y.ice /\ z.st = y.st
    BY <1>8, WorkerMoves DEF Places
  <2> HIDE DEF z
  <2>2. ReportOK(z) /\ LifeOK(z) /\ RecvOK(z) /\ CountOK(z)
    BY <1>2, <1>5, <1>6, <2>1 DEF OK, CoreOK, ReportOK, LifeOK, RecvOK, CountOK, SameReport, SameReceive
  <2>3. FreshOK(z) /\ z.inq = "none"
    BY <1>2, <1>5, <1>6, <2>1 DEF OK, CoreOK, FreshOK, SameReceive
  <2> QED BY <1>2, <1>6, <2>1, <2>2, <2>3, DtlsStateSet DEF Waiting
<1> HIDE DEF z, t
<1> QED BY <1>7, <1>9, <1>10, <1>11, StepOK

\* SctpTransport::incoming, past its wait.
LEMMA SctpCameIn ==
  ASSUME NEW y, OK(y), NEW m
  PROVE  LET r == SctpIncoming(y, m) IN
         OK(r) /\ r.worker = y.worker /\ r.inq = y.inq /\ r.st["dtls"] = y.st["dtls"]
<1> DEFINE u == SetState(y, "sctp", "disconnected")
           v == [y EXCEPT !.answered = TRUE]
<1>1. OK(u) /\ u.worker = y.worker /\ u.inq = y.inq /\ u.st["dtls"] = y.st["dtls"]
  BY SctpStateSet DEF TransportStates
<1>2. Alike(y, v)
  BY Flags DEF OK
<1>3. OK(v) /\ v.worker = y.worker /\ v.inq = y.inq /\ v.st["dtls"] = y.st["dtls"]
  BY <1>2, AlikeOK DEF Alike, Same, SameThreads, SameReceive
<1>4. SctpIncoming(y, m) \in {y, u, v}
  BY DEF SctpIncoming
<1> HIDE DEF u, v
<1> QED BY <1>1, <1>3, <1>4

\* A packet, or the end, goes up; the worker goes on, waits or returns.
LEMMA WentUp ==
  ASSUME NEW y, OK(y), y.worker = "read", y.inq = "none", NEW m \in {"data", "end"},
         m = "end" => y.st["dtls"] = "disconnected",
         NEW next \in {"read", "idle"}
  PROVE  OK(GoesUp(y, m, next))
<1>0. m \in Packets /\ {"dtls", "sctp"} \subseteq Layers /\ y.worker \notin Waiting
  BY DEF Packets, Layers, Waiting
<1>1. y.st["dtls"] # "connecting"
  BY DEF OK, CoreOK, WorkerOK
<1>2. ASSUME NEW u, OK(u), u.worker = "read", u.inq = "none", u.st["dtls"] = y.st["dtls"]
      PROVE  OK([u EXCEPT !.worker = next])
  <2>1. CASE next = "read"
    BY <1>1, <1>2, <2>1, WorkerGoesOn DEF Places, Waiting
  <2>2. CASE next = "idle"
    BY <1>2, <2>2, WorkerEnds
  <2> QED BY <2>1, <2>2
<1> DEFINE a == IF m = "end" THEN y ELSE Receive(y, "dtls", m)
           b == [y EXCEPT !.held["sctp"] = m]
           c == SctpIncoming(y, m)
<1>3. OK([a EXCEPT !.worker = next])
  <2> DEFINE g == [y EXCEPT !.held["dtls"] = m]
  <2>0. OK(g) /\ g.worker = "read" /\ g.inq = "none" /\ g.st["dtls"] = y.st["dtls"]
    BY <1>0, HeldSet DEF SameThreads
  <2>1. OK(a) /\ a.worker = "read" /\ a.inq = "none" /\ a.st["dtls"] = y.st["dtls"]
    BY <2>0 DEF Receive
  <2> HIDE DEF a
  <2> QED BY <1>2, <2>1
<1>4. OK([b EXCEPT !.worker = "testing"])
  <2>1. OK(b) /\ b.worker = "read" /\ b.st["dtls"] = y.st["dtls"] /\ b.held["sctp"] = m
    BY <1>0, HeldSet DEF SameThreads
  <2> HIDE DEF b
  <2> QED BY <1>1, <2>1, WorkerGoesOn DEF Places, Waiting
<1>5. OK([c EXCEPT !.worker = next])
  <2>1. OK(c) /\ c.worker = "read" /\ c.inq = "none" /\ c.st["dtls"] = y.st["dtls"]
    BY SctpCameIn
  <2> HIDE DEF c
  <2> QED BY <1>2, <2>1
<1>6. [y EXCEPT !.worker = "testing", !.held["sctp"] = m] = [b EXCEPT !.worker = "testing"]
  BY DEF OK, States
<1>7. \/ GoesUp(y, m, next) = [a EXCEPT !.worker = next]
      \/ GoesUp(y, m, next) = [y EXCEPT !.worker = "testing", !.held["sctp"] = m]
      \/ GoesUp(y, m, next) = [c EXCEPT !.worker = next]
  BY DEF GoesUp
<1> HIDE DEF a, b, c
<1> QED BY <1>3, <1>4, <1>5, <1>6, <1>7

LEMMA ReadOK == ASSUME IInv, Read PROVE IInv'
<1> DEFINE q == [x EXCEPT !.inq = "none"]
           e == SetState(q, "dtls", "disconnected")
<1>1. OK(x) /\ x.worker = "read" /\ x.st["dtls"] = "connected"
  BY DEF IInv, Read
<1>2. x.life["dtls"] = "live" /\ x.ice # "startDtls"
  BY <1>1 DEF OK, CoreOK, LifeOK, FreshOK
<1>3. \/ x.inq = "none" /\ Step([x EXCEPT !.worker = "idle"])
      \/ Step(GoesUp(q, "data", "read"))
      \/ Step(GoesUp(e, "end", "idle"))
  <2>1. x.inq \in {"none", "data", "bye", "end"}
    BY <1>1 DEF OK, States, Packets
  <2> HIDE DEF q, e
  <2> QED BY <2>1 DEF Read, ReadCallback, q, e
<1>4. x.inq = "none" => OK([x EXCEPT !.worker = "idle"])
  BY <1>1, WorkerEnds
<1>5. OK(q) /\ q.worker = "read" /\ q.inq = "none" /\ q.life["dtls"] = "live" /\ q.ice # "startDtls"
  BY <1>1, <1>2, QueueRead DEF SameThreads
<1> HIDE DEF q
<1>6. OK(GoesUp(q, "data", "read"))
  BY <1>5, WentUp
<1>7. OK(e) /\ e.inq = "none" /\ e.worker = "read" /\ e.st["dtls"] = "disconnected"
  BY <1>5, DtlsStateSet DEF OK, CoreOK, Waiting
<1> HIDE DEF e
<1>8. OK(GoesUp(e, "end", "idle"))
  BY <1>7, WentUp
<1> QED BY <1>3, <1>4, <1>6, <1>8, StepOK

LEMMA WaitsOK == ASSUME IInv, Waits PROVE IInv'
<1> DEFINE h == [x EXCEPT !.held["sctp"] = "none"]
           u == SctpIncoming(h, x.held["sctp"])
<1>1. OK(x) /\ x.worker \in {"testing", "awake"}
  BY DEF IInv, Waits
<1>2. x.st["dtls"] # "connecting" /\ (x.held["sctp"] = "end" => x.st["dtls"] # "connected")
  BY <1>1 DEF OK, CoreOK, WorkerOK, Waiting
<1>3. \/ x.held["sctp"] = "end" /\ Step([u EXCEPT !.worker = "idle"])
      \/ Step([u EXCEPT !.worker = "read"])
      \/ Step([x EXCEPT !.worker = "falling"])
  BY DEF Waits
<1>4. OK(h) /\ SameThreads(x, h)
  BY <1>1, HeldSet DEF Layers, Packets
<1> HIDE DEF h
<1>5. OK(u) /\ u.worker = x.worker /\ u.st["dtls"] = x.st["dtls"]
  BY <1>4, SctpCameIn DEF SameThreads
<1> HIDE DEF u
<1>6. x.held["sctp"] = "end" => OK([u EXCEPT !.worker = "idle"])
  BY <1>2, <1>5, WorkerEnds
<1>7. OK([u EXCEPT !.worker = "read"])
  BY <1>1, <1>2, <1>5, WorkerGoesOn DEF Places, Waiting
<1>8. OK([x EXCEPT !.worker = "falling"])
  BY <1>1, <1>2, WorkerGoesOn DEF Places, Waiting, OK, CoreOK, WorkerOK
<1> QED BY <1>3, <1>6, <1>7, <1>8, StepOK

LEMMA FallsAsleepOK == ASSUME IInv, FallsAsleep PROVE IInv'
<1>1. OK(x) /\ x.worker = "falling" /\ Step([x EXCEPT !.worker = "asleep"])
  BY DEF IInv, FallsAsleep
<1>2. OK([x EXCEPT !.worker = "asleep"])
  BY <1>1, WorkerGoesOn DEF Places, Waiting, OK, CoreOK, WorkerOK
<1> QED BY <1>1, <1>2, StepOK

LEMMA StartedSctp ==
  ASSUME NEW y, OK(y), y.worker = "startSctp"
  PROVE  OK([StartSctp(y) EXCEPT !.worker = "checkSctp"])
<1> DEFINE h == [y.held EXCEPT !["dtls"] = "none"]
           c == y.recv \cup {"dtls"}
           a == (y.held["dtls"] # "none")
           r == [y EXCEPT !.recv = c, !.held = h, !.answered = a]
           z == SetState(r, "sctp", "connecting")
<1>1. y \in States /\ y.life["sctp"] = "live" /\ y.st["dtls"] # "connecting"
  BY DEF OK, CoreOK, LifeOK, WorkerOK
<1>2. h \in [Layers -> Packets] /\ h["sctp"] = y.held["sctp"] /\ c \in SUBSET Layers /\ a \in BOOLEAN
  BY <1>1 DEF States, Layers, Packets
<1>3. StartSctp(y) = z
  BY <1>1 DEF StartSctp, States
<1>4. "ice" \in c => "ice" \in y.recv
  OBVIOUS
<1> HIDE DEF h, c, a
<1>5. r \in States
  BY <1>1, <1>2 DEF States
<1>6. SameThreads(y, r) /\ SameReport(y, r) /\ r.recv = c /\ r.held = h /\ r.inq = y.inq
      /\ r.jobs = y.jobs /\ r.timers = y.timers /\ r.pending = y.pending
  BY <1>1 DEF States, SameThreads, SameReport
<1> HIDE DEF r
<1>7. OK(r)
  <2>1. ReportOK(r) /\ LifeOK(r) /\ CountOK(r) /\ FreshOK(r) /\ QueueOK(r)
    BY <1>6 DEF OK, CoreOK, ReportOK, LifeOK, CountOK, FreshOK, QueueOK, SameThreads, SameReport
  <2>2. RecvOK(r) /\ WorkerOK(r)
    BY <1>1, <1>2, <1>4, <1>6 DEF OK, CoreOK, RecvOK, WorkerOK, SameThreads
  <2> QED BY <1>5, <2>1, <2>2 DEF OK, CoreOK
<1>8. OK(z) /\ z.worker = "startSctp" /\ z.life["sctp"] = "live" /\ z.st["dtls"] # "connecting"
  BY <1>1, <1>6, <1>7, SctpStateSet DEF TransportStates, SameThreads
<1> HIDE DEF z
<1>9. OK([z EXCEPT !.worker = "checkSctp"])
  BY <1>8, WorkerGoesOn DEF Places, Waiting
<1> QED BY <1>3, <1>9

LEMMA InitSctpOK == ASSUME IInv, InitSctp PROVE IInv'
<1>0. OK(x)
  BY DEF IInv
<1>1. ASSUME x.worker = "loadDtls",
             Step(IF "sctp" \in x.member THEN [x EXCEPT !.worker = "read"]
                  ELSE IF "dtls" \in x.member THEN [x EXCEPT !.worker = "newSctp"]
                  ELSE [ChangeState(x, "failed") EXCEPT !.worker = "read"])
      PROVE  IInv'
  <2> DEFINE u == ChangeState(x, "failed")
  <2>1. x.st["dtls"] # "connecting"
    BY <1>0, <1>1 DEF OK, CoreOK, WorkerOK
  <2>2. OK([x EXCEPT !.worker = "read"]) /\ OK([x EXCEPT !.worker = "newSctp"])
    BY <1>0, <1>1, <2>1, WorkerGoesOn DEF Places, Waiting
  <2>3. OK(u) /\ u.worker = "loadDtls" /\ u.st["dtls"] # "connecting"
    BY <1>0, <1>1, <2>1, ChangedState, SameOK DEF OK, TransportStates, Same, SameThreads
  <2> HIDE DEF u
  <2>4. OK([u EXCEPT !.worker = "read"])
    BY <2>3, WorkerGoesOn DEF Places, Waiting
  <2> QED BY <1>1, <2>2, <2>4, StepOK DEF u
<1>2. ASSUME x.worker = "newSctp", NEW y \in NewSctp(x), Step(y) PROVE IInv'
  BY <1>0, <1>2, NewSctpOK, StepOK
<1>3. ASSUME x.worker = "startSctp", Step([StartSctp(x) EXCEPT !.worker = "checkSctp"]) PROVE IInv'
  BY <1>0, <1>3, StartedSctp, StepOK
<1>4. ASSUME x.worker = "checkSctp", Step([Check(x, "sctp") EXCEPT !.worker = "read"]) PROVE IInv'
  <2> DEFINE y == Check(x, "sctp")
  <2>1. x.st["dtls"] # "connecting"
    BY <1>0, <1>4 DEF OK, CoreOK, WorkerOK
  <2>2. OK(y) /\ SameWork(x, y)
    BY <1>0, Checked DEF Layers
  <2> HIDE DEF y
  <2>3. OK([y EXCEPT !.worker = "read"])
    BY <1>4, <2>1, <2>2, WorkerGoesOn DEF Places, Waiting, SameWork
  <2> QED BY <1>4, <2>3, StepOK DEF y
<1>5. ASSUME x.worker = "startSctp",
             Step([ChangeState([x EXCEPT !.member = @ \ {"sctp"}], "failed")
                     EXCEPT !.worker = "read", !.threw = TRUE])
      PROVE  IInv'
  <2> DEFINE d == [x EXCEPT !.member = @ \ {"sctp"}]
             u == ChangeState(d, "failed")
             v == [u EXCEPT !.worker = "read"]
             w == [v EXCEPT !.threw = TRUE]
  <2>1. x.st["dtls"] # "connecting"
    BY <1>0, <1>5 DEF OK, CoreOK, WorkerOK
  <2>2. OK(d) /\ SameWork(x, d)
    BY <1>0, MemberDropped
  <2> HIDE DEF d
  <2>3. OK(u) /\ SameWork(x, u)
    BY <2>2, ChangedState, SameOK DEF OK, TransportStates, Same, SameThreads, SameReceive, SameWork
  <2>4. [u EXCEPT !.worker = "read", !.threw = TRUE] = w
    BY <2>3 DEF OK, States
  <2> HIDE DEF u
  <2>5. OK(v)
    BY <1>5, <2>1, <2>3, WorkerGoesOn DEF Places, Waiting, SameWork
  <2> HIDE DEF v
  <2>6. OK(w)
    BY <2>5, Flags, AlikeOK DEF OK
  <2> QED BY <1>5, <2>4, <2>6, StepOK DEF d, u
<1> QED BY <1>1, <1>2, <1>3, <1>4, <1>5 DEF InitSctp

-----------------------------------------------------------------------------
(* SCTP and the processors.                                                *)

LEMMA SctpWritesOK == ASSUME IInv, SctpWrites PROVE IInv'
<1> DEFINE y == [x EXCEPT !.written = TRUE]
<1>1. OK(y)
  BY Present, Flags, AlikeOK
<1> HIDE DEF y
<1>2. OK(Wake(y))
  BY <1>1, Woken
<1> QED BY <1>2, StepOK DEF SctpWrites, y

LEMMA SctpUpOK == ASSUME IInv, SctpUp PROVE IInv'
<1>1. OK(SetState(x, "sctp", "connected"))
  BY SctpStateSet DEF IInv, TransportStates
<1> QED BY <1>1, StepOK DEF SctpUp

LEMMA SctpLostOK == ASSUME IInv, SctpLost PROVE IInv'
<1> DEFINE s == IF x.st.sctp = "connected" THEN "disconnected" ELSE "failed"
           y == SetState(x, "sctp", s)
<1>1. s \in TransportStates
  BY DEF TransportStates
<1>2. Step(Wake(y))
  BY DEF SctpLost
<1> HIDE DEF s
<1>3. OK(y)
  BY <1>1, SctpStateSet DEF IInv
<1> HIDE DEF y
<1>4. OK(Wake(y))
  BY <1>3, Woken
<1> QED BY <1>2, <1>4, StepOK

LEMMA SctpTaskOK == ASSUME IInv, SctpTask PROVE IInv'
<1> DEFINE b == x.shut \/ x.st.sctp = "connected"
           r == [x EXCEPT !.flushing = FALSE, !.shut = b]
<1>1. b \in BOOLEAN
  BY Present DEF States
<1>2. Step(r)
  BY DEF SctpTask
<1> HIDE DEF b
<1>3. Alike(x, r)
  BY <1>1, Present DEF Alike, States, Same, SameThreads, SameReceive, SameReport
<1> QED BY <1>2, <1>3, AlikeOK, StepOK DEF IInv

LEMMA SctpDiesOK == ASSUME IInv, SctpDies PROVE IInv'
<1> DEFINE u == Unregister(x, "dtls")
           f == [u.life EXCEPT !["sctp"] = "dead"]
           r == [u EXCEPT !.life = f]
<1>1. OK(x) /\ x.life["sctp"] = "dying"
  BY DEF IInv, SctpDies
<1>2. x.life["dtls"] = "live"
  BY <1>1 DEF OK, CoreOK, LifeOK
<1>3. OK(u) /\ SameThreads(x, u) /\ "dtls" \notin u.recv
  BY <1>1, Unregistered DEF Layers
<1>4. Step(StopDtls(r))
  BY DEF SctpDies
<1> HIDE DEF u
<1>5. u \in States /\ u.life["sctp"] = "dying" /\ u.life["dtls"] = "live"
  BY <1>1, <1>2, <1>3 DEF OK, SameThreads
<1>6. f \in [Layers -> Lives] /\ f["sctp"] = "dead" /\ \A k \in Layers \ {"sctp"} : f[k] = u.life[k]
  BY <1>5, LifeSet DEF Layers, Lives
<1> HIDE DEF f
<1>7. r \in States
  BY <1>5, <1>6 DEF States
<1>8. /\ SameReport(u, r) /\ SameReceive(u, r) /\ r.member = u.member /\ r.tear = u.tear
      /\ r.life = f /\ r.worker = u.worker /\ r.ice = u.ice /\ r.st = u.st
  BY <1>5 DEF States, SameReport, SameReceive
<1> HIDE DEF r
<1>9. r.life["dtls"] = "live"
  BY <1>5, <1>6, <1>8 DEF Layers
<1>10. OK(r)
  <2>1. u.member \subseteq Layers /\ u.tear \subseteq Layers
    BY <1>5 DEF States
  <2>2. \A k \in r.member : r.life[k] = "live"
    BY <1>3, <1>5, <1>6, <1>8, <2>1 DEF OK, CoreOK, LifeOK
  <2>3. \A k \in r.tear : r.life[k] = "live"
    BY <1>3, <1>5, <1>6, <1>8, <2>1 DEF OK, CoreOK, LifeOK
  <2>4. LifeOK(r)
    BY <1>3, <1>5, <1>6, <1>8, <1>9, <2>2, <2>3 DEF OK, CoreOK, LifeOK
  <2>5. ReportOK(r) /\ RecvOK(r) /\ CountOK(r)
    BY <1>3, <1>5, <1>8, <1>9 DEF OK, CoreOK, ReportOK, RecvOK, CountOK, SameReport, SameReceive
  <2>6. FreshOK(r) /\ WorkerOK(r) /\ QueueOK(r)
    BY <1>3, <1>5, <1>8, <1>9 DEF OK, CoreOK, FreshOK, WorkerOK, QueueOK, SameReceive
  <2> QED BY <1>7, <2>4, <2>5, <2>6 DEF OK, CoreOK
<1> QED BY <1>4, <1>9, <1>10, StoppedDtls, StepOK

LEMMA RunTaskOK == ASSUME IInv, NEW t \in Tasks, RunTask(t) PROVE IInv'
<1> DEFINE c == x.tasks \ {t}
           y == [x EXCEPT !.tasks = c]
           p == IF y.reported = "open" THEN y.reported ELSE "late"
           r == [y EXCEPT !.reported = p]
<1>1. x \in States /\ c \in SUBSET Tasks
  BY Present DEF States
<1>2. \/ Step(RemoteClose(y))
      \/ Step(y)
      \/ y.callback /\ Step(r)
  BY DEF RunTask
<1> HIDE DEF c
<1>3. OK(y)
  BY <1>1, Marks, AlikeOK DEF IInv
<1> HIDE DEF y
<1>4. OK(RemoteClose(y))
  BY <1>3, RemoteClosed
<1>5. y.callback => OK(r)
  <2> SUFFICES ASSUME y.callback PROVE OK(r)
    OBVIOUS
  <2>1. y \in States /\ y.reported = "open"
    BY <1>3 DEF OK, ReportOK, States
  <2>2. r = y
    BY <2>1 DEF States
  <2> QED BY <1>3, <2>2
<1> QED BY <1>2, <1>3, <1>4, <1>5, StepOK

LEMMA TearDownOK == ASSUME IInv, TearDown PROVE IInv'
<1> DEFINE top == CASE "sctp" \in x.tear -> "sctp" [] "dtls" \in x.tear -> "dtls" [] OTHER -> "ice"
           y == Stop(x, top)
           r == [y EXCEPT !.tear = {}]
<1>1. OK(x)
  BY DEF IInv
<1>2. top \in Layers /\ (top = "dtls" => x.life["dtls"] = "live")
  BY <1>1 DEF OK, CoreOK, LifeOK, Layers
<1>3. Step(r)
  BY DEF TearDown
<1> HIDE DEF top
<1>4. OK(y)
  BY <1>1, <1>2, Stopped
<1> HIDE DEF y
<1>5. r = [y EXCEPT !.member = y.member, !.tear = {}]
  BY <1>4 DEF OK, States
<1> DEFINE q == [y EXCEPT !.member = y.member, !.tear = {}]
<1>6. OK(q)
  BY <1>4, MembersDropped
<1> HIDE DEF q, r
<1>7. OK(r)
  BY <1>5, <1>6 DEF q
<1> QED BY <1>3, <1>7, StepOK

LEMMA InitOK == Init => IInv
<1> SUFFICES ASSUME Init PROVE IInv
  OBVIOUS
<1>1. x \in States
  BY DEF Init, States, Layers, Tasks, Lives, TransportStates, Packets
<1>2. /\ x.life["dtls"] = "none" /\ x.life["sctp"] = "none" /\ x.st["dtls"] = "disconnected"
      /\ x.member = {} /\ x.tear = {} /\ x.recv = {} /\ x.worker = "idle" /\ x.ice = "idle"
      /\ x.jobs = 0 /\ x.pending = 0 /\ x.timers = 0 /\ x.inq = "none" /\ x.reported = "open"
  BY DEF Init, Layers
<1>3. ReportOK(x) /\ LifeOK(x) /\ RecvOK(x) /\ CountOK(x)
  BY <1>2 DEF ReportOK, LifeOK, RecvOK, CountOK
<1>4. FreshOK(x) /\ WorkerOK(x) /\ QueueOK(x)
  BY <1>2 DEF FreshOK, WorkerOK, QueueOK, Waiting
<1> QED BY <1>1, <1>3, <1>4 DEF IInv, OK, CoreOK

LEMMA Inductive == IInv /\ [Next]_vars => IInv'
<1> SUFFICES ASSUME IInv, [Next]_vars PROVE IInv'
  OBVIOUS
<1>1. CASE InitIce BY <1>1, InitIceOK
<1>2. CASE CallClose BY <1>2, CallCloseOK
<1>3. ASSUME NEW s \in {"connecting", "connected", "failed"}, IceChanges(s) PROVE IInv'
  BY <1>3, IceChangesOK
<1>4. ASSUME NEW m \in {"data", "bye"}, Packet(m) PROVE IInv' BY <1>4, PacketOK
<1>5. CASE InitDtls BY <1>5, InitDtlsOK
<1>6. CASE Worker
  BY <1>6, DoRecvOK, HandshakeOK, ReadOK, WaitsOK, FallsAsleepOK, InitSctpOK DEF Worker
<1>7. CASE SctpWrites \/ SctpUp \/ SctpLost \/ SctpTask \/ SctpDies
  BY <1>7, SctpWritesOK, SctpUpOK, SctpLostOK, SctpTaskOK, SctpDiesOK
<1>8. CASE TearDown BY <1>8, TearDownOK
<1>9. ASSUME NEW t \in Tasks, RunTask(t) PROVE IInv' BY <1>9, RunTaskOK
<1>10. CASE UNCHANGED vars
  BY <1>10 DEF vars, IInv
<1> QED BY <1>1, <1>2, <1>3, <1>4, <1>5, <1>6, <1>7, <1>8, <1>9, <1>10 DEF Next

-----------------------------------------------------------------------------
(* The theorems.                                                           *)

\* Who holds which transport, the receive callbacks, the jobs of doRecv and
\* the place of every thread fit together in every state of a connection.
THEOREM TransportsInvariant == Spec => []IInv
<1> QED BY InitOK, Inductive, PTL DEF Spec

\* The application hears of Closed at most once, and of nothing after it.
THEOREM ClosedStaysLast == Spec => []ClosedIsLast
<1>1. IInv => ClosedIsLast
  BY DEF IInv, OK, ReportOK, ClosedIsLast
<1> QED BY <1>1, TransportsInvariant, PTL

\* The receive callback of a transport points to one that is alive, whichever
\* thread destroys the layer above it.
THEOREM TargetsStayAlive == Spec => []TargetIsAlive
<1>1. IInv => TargetIsAlive
  BY DEF IInv, OK, CoreOK, RecvOK, TargetIsAlive
<1> QED BY <1>1, TransportsInvariant, PTL

\* A packet in mIncomingQueue is going to be read, although the timers of the
\* handshake, however many, make mPendingRecvCount too small.
THEOREM WakeupsNeverLost == Spec => []NoLostWakeup
<1>1. IInv => NoLostWakeup
  <2> SUFFICES ASSUME IInv, x.inq # "none", x.life["dtls"] = "live",
                      x.st["dtls"] \in {"connecting", "connected"}, x.worker = "idle"
               PROVE  x.jobs + x.timers > 0
    BY DEF NoLostWakeup
  <2>1. x.jobs \in Nat /\ x.timers \in Nat
    BY DEF IInv, OK, States
  <2>2. x.jobs > 0 \/ x.timers > 0
    BY DEF IInv, OK, CoreOK, QueueOK
  <2> QED BY <2>1, <2>2
<1> QED BY <1>1, TransportsInvariant, PTL
=============================================================================
