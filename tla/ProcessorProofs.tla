--------------------------- MODULE ProcessorProofs ---------------------------
(***************************************************************************)
(* Proofs about Processor, for any set of objects, any number of workers   *)
(* and tasks, and any number of calls of Cleanup().                        *)
(***************************************************************************)
EXTENDS Processor, TLAPS

Places == {"none", "check", "wait", "woken", "run", "ran", "exit"}

\* The type invariant without the bounds of ended, which SerialInv gives.
TypeInv ==
  /\ life \in [Objects -> {"none", "held", "dropped", "dead"}]
  /\ pending \in [Processors -> BOOLEAN]
  /\ queue \in [Processors -> Seq(Tasks)]
  /\ given \in [Processors -> Nat] /\ \A p \in Processors : given[p] <= MaxTasks[p]
  /\ started \in [Processors -> Seq(Nat)]
  /\ ended \in [Processors -> Nat]
  /\ pool \in SUBSET (Tasks \cup {Timer})
  /\ timer \in {"none", "set", "due", "over"}
  /\ worker \in [Workers -> Places]
  /\ task \in [Workers -> Tasks \cup {Timer, Nothing}]
  /\ joining \in BOOLEAN /\ initialized \in BOOLEAN
  /\ payload \in BOOLEAN /\ global \in BOOLEAN
  /\ cleaners \in Nat
  /\ cleaning \in {"no", "wait", "join"}
  /\ cleanups \in 0 .. MaxCleanup

\* A worker has a task while it runs it and until it has destroyed it.
HoldInv ==
  \A w \in Workers :
    IF worker[w] \in {"run", "ran"} THEN task[w] # Nothing ELSE task[w] = Nothing

\* Outside its life, the pool has no worker: doInit never replaces one.
StoppedInv ==
  /\ ~initialized /\ cleaning = "no" => \A w \in Workers : worker[w] = "none"
  /\ cleaning # "no" => ~initialized

\* What waits for processor p: numbered up to the last task given to it.
QueueOK(p) ==
  \A i \in 1 .. Len(queue[p]) : queue[p][i] = Task(p, given[p] - Len(queue[p]) + i)

\* The one task of p in the pool is the next one to start, and the ones that
\* wait follow it.
PoolOK(p) ==
  \A n \in Nat : Task(p, n) \in pool =>
    /\ n = Len(started[p]) + 1 /\ ended[p] = Len(started[p])
    /\ pending[p] /\ n + Len(queue[p]) = given[p]

\* The task of p that runs is the last one started; none is in the pool.
RunOK(p) ==
  \A w \in Workers : \A n \in Nat : worker[w] = "run" /\ task[w] = Task(p, n) =>
    /\ n = Len(started[p]) /\ ended[p] + 1 = n
    /\ pending[p] /\ n + Len(queue[p]) = given[p]
    /\ \A m \in Nat : Task(p, m) \notin pool
    /\ \A v \in Workers \ {w} : worker[v] = "run" => \A m \in Nat : task[v] # Task(p, m)

\* A processor without a pending task has started and ended what it was given.
IdleOK(p) ==
  ~pending[p] => queue[p] = <<>> /\ ended[p] = given[p] /\ Len(started[p]) = given[p]

\* No task starts that was not given, none ends that was not started.
CountOK(p) == ended[p] <= Len(started[p]) /\ Len(started[p]) <= given[p]

SerialOK(p) == QueueOK(p) /\ PoolOK(p) /\ RunOK(p) /\ IdleOK(p) /\ CountOK(p)
SerialInv == \A p \in Processors : SerialOK(p)

SInv == TypeInv /\ HoldInv /\ StoppedInv /\ SerialInv

-----------------------------------------------------------------------------
\* A pending processor has its task in the pool or on a worker.
NoLoss ==
  \A p \in Processors : pending[p] =>
    \/ \E n \in 1 .. MaxTasks[p] : Task(p, n) \in pool
    \/ \E w \in Workers, n \in 1 .. MaxTasks[p] : worker[w] = "run" /\ task[w] = Task(p, n)

\* An object that is not alive has no task left anywhere.
ObjectInv ==
  \A o \in Objects : life[o] \in {"none", "dead"} => ~HasTask(o, task)

\* Without a token nothing that needs one is left, and a cleanup thread that
\* will stop the pool, or is stopping it, does so without one.
TokenInv ==
  /\ ~payload => /\ ~global /\ ~HasTask(TearDown, task)
                 /\ \A o \in Objects : life[o] \notin {"held", "dropped"}
  /\ cleaning # "no" => ~payload
  /\ cleaners > 0 /\ ~global => ~payload

JInv == NoLoss /\ ObjectInv /\ TokenInv

\* No earlier cleanup is under way when Cleanup() is called.
OneCleanupAtATime == Cleanup => cleaners = 0

-----------------------------------------------------------------------------
(* Tasks are pairs: what the proofs use of them.                           *)

LEMMA TaskFacts ==
  /\ \A p, q, n, m : Task(p, n) = Task(q, m) => p = q /\ n = m
  /\ \A p, n : Task(p, n)[1] = p /\ Task(p, n)[2] = n
  /\ \A t \in Tasks : \E p \in Processors : \E n \in 1 .. MaxTasks[p] : t = Task(p, n)
  /\ \A p \in Processors : \A n \in 1 .. MaxTasks[p] : Task(p, n) \in Tasks
  /\ \A p \in Processors : \A n : Task(p, n) # Timer /\ Task(p, n) # Nothing
  /\ Timer # Nothing
<1>1. \A p, q, n, m : Task(p, n) = Task(q, m) => p = q /\ n = m
  BY DEF Task
<1>2. \A p, n : Task(p, n)[1] = p /\ Task(p, n)[2] = n
  BY DEF Task
<1>3. \A p \in Processors : p # "timer" /\ p # "nothing"
  BY ConstantsAssumption DEF Processors, TearDown
<1>4. \A t \in Tasks : \E p \in Processors : \E n \in 1 .. MaxTasks[p] : t = Task(p, n)
  BY DEF Tasks
<1>5. \A p \in Processors : \A n \in 1 .. MaxTasks[p] : Task(p, n) \in Tasks
  BY DEF Tasks
<1>6. \A p \in Processors : \A n : Task(p, n) # Timer /\ Task(p, n) # Nothing
  BY <1>1, <1>3 DEF Timer, Nothing
<1>7. Timer # Nothing
  BY DEF Timer, Nothing, Task
<1> QED BY <1>1, <1>2, <1>4, <1>5, <1>6, <1>7

\* Every object has a processor; tasks are counted by natural numbers.
LEMMA ProcessorFacts ==
  /\ Objects \subseteq Processors /\ TearDown \in Processors /\ TearDown \notin Objects
  /\ \A p \in Processors : MaxTasks[p] \in Nat
BY ConstantsAssumption DEF Processors

\* notify_one moves a waiting worker at most.
LEMMA Notified ==
  ASSUME NEW ws \in [Workers -> Places], NotifyOne(ws)
  PROVE  /\ worker' \in [Workers -> Places]
         /\ \A w \in Workers : worker'[w] = ws[w] \/ (ws[w] = "wait" /\ worker'[w] = "woken")
BY DEF NotifyOne, Places

\* A token is only given back here, and a cleanup thread only started then.
LEMMA TokenReleased ==
  ASSUME SInv, NEW lf, NEW g \in BOOLEAN, NEW td, ReleaseToken(lf, g, td)
  PROVE  /\ payload' \in BOOLEAN /\ cleaners' \in Nat
         /\ \/ payload' = payload /\ cleaners' = cleaners
            \/ /\ payload /\ ~g /\ ~td /\ payload' = FALSE
               /\ \A o \in Objects : lf[o] \notin {"held", "dropped"}
<1>1. payload \in BOOLEAN /\ cleaners \in Nat
  BY DEF SInv, TypeInv
<1> DEFINE last == payload /\ ~g /\ ~td /\ \A o \in Objects : lf[o] \notin {"held", "dropped"}
<1>2. CASE last
  <2>1. payload' = FALSE /\ cleaners' = cleaners + 1
    BY <1>2 DEF ReleaseToken
  <2>2. cleaners' \in Nat BY <1>1, <2>1
  <2>3. payload' \in BOOLEAN BY <2>1
  <2> QED BY <1>2, <2>1, <2>2, <2>3, Zenon
<1>3. CASE ~last
  <2>1. payload' = payload /\ cleaners' = cleaners
    BY <1>3 DEF ReleaseToken
  <2> QED BY <1>1, <2>1
<1> QED BY <1>2, <1>3

-----------------------------------------------------------------------------
(* Steps that leave the processors alone: they start and schedule nothing. *)

LEMMA Undisturbed ==
  ASSUME SInv, UNCHANGED <<procVars, histVars>>, pool' \subseteq pool \cup {Timer},
         \A w \in Workers : worker'[w] = "run" =>
           task'[w] = Timer \/ (worker[w] = "run" /\ task'[w] = task[w])
  PROVE  SerialInv'
<1> SUFFICES ASSUME NEW p \in Processors PROVE SerialOK(p)'
  BY DEF SerialInv
<1>1. SerialOK(p) /\ QueueOK(p) /\ PoolOK(p) /\ RunOK(p) /\ IdleOK(p)
  BY DEF SInv, SerialInv, SerialOK
<1>2. queue' = queue /\ given' = given /\ pending' = pending /\ started' = started /\ ended' = ended
  BY DEF procVars, histVars
<1>3. \A n \in Nat : Task(p, n) \in pool' => Task(p, n) \in pool
  BY TaskFacts
<1>4. \A w \in Workers : \A n \in Nat :
        worker'[w] = "run" /\ task'[w] = Task(p, n) => worker[w] = "run" /\ task[w] = Task(p, n)
  BY TaskFacts
<1>5. QueueOK(p)' BY <1>1, <1>2 DEF QueueOK
<1>6. PoolOK(p)' BY <1>1, <1>2, <1>3 DEF PoolOK
<1>7. RunOK(p)' BY <1>1, <1>2, <1>3, <1>4 DEF RunOK
<1>8. IdleOK(p)' BY <1>1, <1>2 DEF IdleOK
<1>9. CountOK(p)' BY <1>1, <1>2 DEF SerialOK, CountOK
<1> QED BY <1>5, <1>6, <1>7, <1>8, <1>9 DEF SerialOK

LEMMA SInit == Init => SInv
<1> SUFFICES ASSUME Init PROVE SInv
  OBVIOUS
<1> USE TaskFacts, ProcessorFacts, ConstantsAssumption
<1>1. TypeInv
  <2>1. queue \in [Processors -> Seq(Tasks)] /\ started \in [Processors -> Seq(Nat)]
    BY DEF Init
  <2>2. cleanups \in 0 .. MaxCleanup /\ \A p \in Processors : given[p] <= MaxTasks[p]
    BY DEF Init
  <2>3. given \in [Processors -> Nat] /\ ended \in [Processors -> Nat]
    BY DEF Init
  <2>4. worker \in [Workers -> Places] /\ task \in [Workers -> Tasks \cup {Timer, Nothing}]
    BY DEF Init, Places
  <2> QED BY <2>1, <2>2, <2>3, <2>4 DEF Init, TypeInv
<1>2. HoldInv BY DEF Init, HoldInv
<1>3. StoppedInv BY DEF Init, StoppedInv
<1>4. SerialInv
  BY DEF Init, SerialInv, SerialOK, QueueOK, PoolOK, RunOK, IdleOK, CountOK
<1> QED BY <1>1, <1>2, <1>3, <1>4 DEF SInv

LEMMA SConstruct ==
  ASSUME SInv, NEW o \in Objects, Construct(o)
  PROVE  SInv'
<1>1. TypeInv'
  BY DEF SInv, TypeInv, Construct, Token, initVars, procVars, histVars, Places
<1>2. HoldInv'
  BY TaskFacts DEF SInv, TypeInv, HoldInv, StoppedInv, Construct, Token, InitUnlocked, initVars
<1>3. StoppedInv'
  BY DEF SInv, StoppedInv, Construct, Token, initVars, InitUnlocked
<1>4. \A w \in Workers : worker'[w] = "run" => worker[w] = "run" /\ task'[w] = task[w]
  BY DEF SInv, TypeInv, Construct, Token, initVars
<1>5. SerialInv'
  BY <1>4, Undisturbed DEF Construct
<1> QED BY <1>1, <1>2, <1>3, <1>5 DEF SInv

LEMMA SSetTimer ==
  ASSUME SInv, NEW o \in Objects, SetTimer(o)
  PROVE  SInv'
<1>1. /\ worker' \in [Workers -> Places]
      /\ \A w \in Workers : worker'[w] = worker[w] \/ (worker[w] = "wait" /\ worker'[w] = "woken")
  BY Notified DEF SInv, TypeInv, SetTimer, PoolSchedule
<1>2. TypeInv'
  BY <1>1 DEF SInv, TypeInv, SetTimer, PoolSchedule, initVars, procVars, histVars
<1>3. HoldInv'
  BY <1>1 DEF SInv, HoldInv, SetTimer
<1>4. StoppedInv'
  BY <1>1 DEF SInv, StoppedInv, SetTimer, initVars
<1>5. SerialInv'
  BY <1>1, Undisturbed DEF SetTimer, PoolSchedule
<1> QED BY <1>2, <1>3, <1>4, <1>5 DEF SInv

LEMMA SElapse ==
  ASSUME SInv, Elapse
  PROVE  SInv'
<1>1. /\ worker' \in [Workers -> Places]
      /\ \A w \in Workers : worker'[w] = worker[w] \/ (worker[w] = "wait" /\ worker'[w] = "woken")
  BY Notified DEF SInv, TypeInv, Elapse
<1>2. TypeInv'
  BY <1>1 DEF SInv, TypeInv, Elapse, initVars, procVars, histVars
<1>3. HoldInv'
  BY <1>1 DEF SInv, HoldInv, Elapse
<1>4. StoppedInv'
  BY <1>1 DEF SInv, StoppedInv, Elapse, initVars
<1>5. SerialInv'
  BY <1>1, Undisturbed DEF Elapse
<1> QED BY <1>2, <1>3, <1>4, <1>5 DEF SInv

LEMMA SDrop ==
  ASSUME SInv, NEW o \in Objects, Drop(o)
  PROVE  SInv'
<1>1. TypeInv'
  <2>1. payload' \in BOOLEAN /\ cleaners' \in Nat
    BY TokenReleased DEF SInv, TypeInv, Drop
  <2> QED BY <2>1 DEF SInv, TypeInv, Drop, procVars, histVars
<1>2. HoldInv' /\ StoppedInv'
  BY DEF SInv, HoldInv, StoppedInv, Drop
<1>3. SerialInv'
  BY Undisturbed DEF Drop
<1> QED BY <1>1, <1>2, <1>3 DEF SInv

LEMMA SCleanup ==
  ASSUME SInv, Cleanup
  PROVE  SInv'
<1>1. TypeInv'
  <2>1. payload' \in BOOLEAN /\ cleaners' \in Nat
    BY TokenReleased DEF SInv, TypeInv, Cleanup
  <2>2. cleanups' \in 0 .. MaxCleanup
    BY ConstantsAssumption DEF SInv, TypeInv, Cleanup
  <2>3. global' \in BOOLEAN
    BY DEF Cleanup
  <2> QED BY <2>1, <2>2, <2>3 DEF SInv, TypeInv, Cleanup, procVars, histVars
<1>2. HoldInv' /\ StoppedInv'
  BY DEF SInv, HoldInv, StoppedInv, Cleanup
<1>3. SerialInv'
  BY Undisturbed DEF Cleanup
<1> QED BY <1>1, <1>2, <1>3 DEF SInv

LEMMA STimerReturns ==
  ASSUME SInv, NEW w \in Workers, TimerReturns(w)
  PROVE  SInv'
<1>1. TypeInv'
  BY DEF SInv, TypeInv, TimerReturns, procVars, histVars, initVars, Places
<1>2. HoldInv'
  BY DEF SInv, TypeInv, HoldInv, TimerReturns
<1>3. StoppedInv'
  BY DEF SInv, TypeInv, StoppedInv, TimerReturns, initVars
<1>4. SerialInv'
  BY Undisturbed DEF SInv, TypeInv, TimerReturns
<1> QED BY <1>1, <1>2, <1>3, <1>4 DEF SInv

LEMMA SDestroy ==
  ASSUME SInv, NEW w \in Workers, Destroy(w)
  PROVE  SInv'
<1>1. TypeInv'
  <2>1. payload' \in BOOLEAN /\ cleaners' \in Nat
    BY TokenReleased DEF SInv, TypeInv, Destroy
  <2>2. life' \in [Objects -> {"none", "held", "dropped", "dead"}]
    BY DEF SInv, TypeInv, Destroy, Released
  <2> QED BY <2>1, <2>2 DEF SInv, TypeInv, Destroy, procVars, histVars, Places
<1>2. HoldInv'
  BY DEF SInv, TypeInv, HoldInv, Destroy
<1>3. StoppedInv'
  BY DEF SInv, TypeInv, StoppedInv, Destroy
<1>4. SerialInv'
  BY Undisturbed DEF SInv, TypeInv, Destroy
<1> QED BY <1>1, <1>2, <1>3, <1>4 DEF SInv

LEMMA SCleanupThread ==
  ASSUME SInv, CleanupThread
  PROVE  SInv'
<1>1. TypeInv'
  <2>1. CASE DoCleanup
    <3>1. cleaners' \in Nat
      BY <2>1 DEF SInv, TypeInv, DoCleanup
    <3>2. initialized' \in BOOLEAN /\ cleaning' \in {"no", "wait", "join"}
      BY <2>1 DEF SInv, TypeInv, DoCleanup
    <3> QED BY <2>1, <3>1, <3>2 DEF SInv, TypeInv, DoCleanup, procVars, histVars
  <2>2. CASE Join
    BY <2>2 DEF SInv, TypeInv, Join, procVars, histVars, Places
  <2>3. CASE Clear
    BY <2>3 DEF SInv, TypeInv, Clear, procVars, histVars, Places
  <2> QED BY <2>1, <2>2, <2>3 DEF CleanupThread
<1>2. HoldInv'
  BY DEF SInv, TypeInv, HoldInv, CleanupThread, DoCleanup, Join, Clear
<1>3. StoppedInv'
  BY DEF SInv, TypeInv, StoppedInv, CleanupThread, DoCleanup, Join, Clear, InitUnlocked
<1>4. \A w \in Workers : worker'[w] = "run" => worker[w] = "run" /\ task'[w] = task[w]
  BY DEF SInv, TypeInv, CleanupThread, DoCleanup, Join, Clear
<1>5. pool' \subseteq pool \cup {Timer} /\ UNCHANGED <<procVars, histVars>>
  BY DEF CleanupThread, DoCleanup, Join, Clear
<1>6. SerialInv'
  BY <1>4, <1>5, Undisturbed
<1> QED BY <1>1, <1>2, <1>3, <1>6 DEF SInv

-----------------------------------------------------------------------------
(* Processor::enqueue, ThreadPool::dequeue and Processor::schedule.        *)

\* A new task: to the pool when the processor was idle, else behind the others.
LEMMA Enqueued ==
  ASSUME SInv, NEW p \in Processors, Enqueue(p), UNCHANGED <<histVars, task>>
  PROVE  /\ SerialInv' /\ worker' \in [Workers -> Places]
         /\ \A w \in Workers : worker'[w] = worker[w] \/ (worker[w] = "wait" /\ worker'[w] = "woken")
         /\ given' \in [Processors -> Nat] /\ \A q \in Processors : given'[q] <= MaxTasks[q]
         /\ queue' \in [Processors -> Seq(Tasks)] /\ pending' \in [Processors -> BOOLEAN]
         /\ pool' \in SUBSET (Tasks \cup {Timer})
<1> DEFINE g == given[p] + 1
<1>1. /\ given' = [given EXCEPT ![p] = g] /\ g \in 1 .. MaxTasks[p] /\ g \in Nat
      /\ Task(p, g) \in Tasks /\ given'[p] = g
  BY TaskFacts, ProcessorFacts DEF Enqueue, SInv, TypeInv
<1>2. /\ given' \in [Processors -> Nat]
      /\ \A q \in Processors : given'[q] <= MaxTasks[q]
      /\ \A q \in Processors \ {p} : given'[q] = given[q]
  BY <1>1, ProcessorFacts DEF SInv, TypeInv
<1>3. started' = started /\ ended' = ended /\ task' = task
  BY DEF histVars
<1>4. /\ \A q \in Processors : QueueOK(q) /\ PoolOK(q) /\ RunOK(q) /\ IdleOK(q) /\ CountOK(q)
      /\ \A q \in Processors : Len(started[q]) \in Nat /\ Len(queue[q]) \in Nat /\ ended[q] \in Nat
      /\ \A q \in Processors : queue[q] \in Seq(Tasks) /\ given[q] \in Nat
  BY DEF SInv, TypeInv, SerialInv, SerialOK
<1>7. \A q \in Processors : CountOK(q)'
  <2> SUFFICES ASSUME NEW q \in Processors PROVE CountOK(q)'
    OBVIOUS
  <2>1. CountOK(q) /\ Len(started[q]) \in Nat /\ given[q] \in Nat /\ ended[q] \in Nat
    BY <1>4
  <2>2. given'[q] = given[q] \/ given'[q] = given[q] + 1
    BY <1>1, <1>2
  <2> QED BY <1>3, <2>1, <2>2 DEF CountOK
<1> HIDE DEF g
<1>5. CASE ~pending[p]
  <2>1. /\ pool' = pool \cup {Task(p, g)} /\ NotifyOne(worker)
        /\ pending' = [pending EXCEPT ![p] = TRUE] /\ queue' = queue
    BY <1>1, <1>5 DEF Enqueue, PoolSchedule
  <2>2. /\ worker' \in [Workers -> Places]
        /\ \A w \in Workers : worker'[w] = worker[w] \/ (worker[w] = "wait" /\ worker'[w] = "woken")
    BY <2>1, Notified DEF SInv, TypeInv
  <2>3. \A w \in Workers : worker'[w] = "run" => worker[w] = "run"
    BY <2>2
  <2>4. pending' \in [Processors -> BOOLEAN] /\ pending'[p] /\ \A q \in Processors \ {p} : pending'[q] = pending[q]
    BY <2>1 DEF SInv, TypeInv
  <2>5. queue[p] = <<>> /\ ended[p] = given[p] /\ Len(started[p]) = given[p]
    BY <1>4, <1>5 DEF IdleOK
  <2>6. /\ \A n \in Nat : Task(p, n) \notin pool
        /\ \A w \in Workers : \A n \in Nat : worker[w] = "run" => task[w] # Task(p, n)
    BY <1>4, <1>5 DEF PoolOK, RunOK
  <2>7. SerialOK(p)'
    <3>1. QueueOK(p)' BY <2>1, <2>5 DEF QueueOK
    <3>2. PoolOK(p)' BY <1>1, <1>3, <2>1, <2>4, <2>5, <2>6, TaskFacts DEF PoolOK, g
    <3>3. RunOK(p)' BY <1>3, <2>3, <2>6 DEF RunOK
    <3>4. IdleOK(p)' BY <2>4 DEF IdleOK
    <3> QED BY <3>1, <3>2, <3>3, <3>4, <1>7 DEF SerialOK
  <2>8. ASSUME NEW q \in Processors \ {p} PROVE SerialOK(q)'
    <3>1. \A n \in Nat : Task(q, n) \in pool' => Task(q, n) \in pool
      BY <2>1, TaskFacts
    <3>6. PoolOK(q) /\ RunOK(q) /\ given'[q] = given[q] /\ pending'[q] = pending[q]
      BY <1>2, <1>4, <2>4
    <3>2. QueueOK(q)' BY <1>2, <1>4, <2>1 DEF QueueOK
    <3>3. PoolOK(q)' BY <1>3, <2>1, <3>1, <3>6 DEF PoolOK
    <3>4. RunOK(q)' BY <1>3, <2>1, <2>3, <3>1, <3>6 DEF RunOK
    <3>5. IdleOK(q)' BY <1>2, <1>3, <1>4, <2>1, <2>4 DEF IdleOK
    <3> QED BY <3>2, <3>3, <3>4, <3>5, <1>7 DEF SerialOK
  <2>9. SerialInv' BY <2>7, <2>8 DEF SerialInv
  <2>10. pool' \in SUBSET (Tasks \cup {Timer})
    BY <1>1, <2>1 DEF SInv, TypeInv
  <2>11. queue' \in [Processors -> Seq(Tasks)]
    BY <2>1 DEF SInv, TypeInv
  <2> QED BY <1>2, <2>2, <2>4, <2>9, <2>10, <2>11
<1>6. CASE pending[p]
  <2> DEFINE tail == Append(queue[p], Task(p, g))
  <2>1. /\ queue' = [queue EXCEPT ![p] = tail]
        /\ pool' = pool /\ worker' = worker /\ pending' = pending
    BY <1>1, <1>6 DEF Enqueue
  <2>2. /\ tail \in Seq(Tasks) /\ Len(tail) = Len(queue[p]) + 1 /\ tail[Len(queue[p]) + 1] = Task(p, g)
        /\ \A i \in 1 .. Len(queue[p]) : tail[i] = queue[p][i]
    BY <1>1, <1>4
  <2> HIDE DEF tail
  <2>3. /\ queue' \in [Processors -> Seq(Tasks)] /\ queue'[p] = tail
        /\ \A q \in Processors \ {p} : queue'[q] = queue[q]
    BY <2>1, <2>2 DEF SInv, TypeInv
  <2>4. SerialOK(p)'
    <3>1. QueueOK(p)'
      <4> SUFFICES ASSUME NEW i \in 1 .. Len(tail)
                   PROVE  tail[i] = Task(p, g - Len(tail) + i)
        BY <1>1, <2>3 DEF QueueOK
      <4>1. CASE i \in 1 .. Len(queue[p])
        <5>1. tail[i] = Task(p, given[p] - Len(queue[p]) + i)
          BY <1>4, <2>2, <4>1 DEF QueueOK
        <5>2. g - Len(tail) + i = given[p] - Len(queue[p]) + i
          BY <1>4, <2>2, <4>1 DEF g
        <5> QED BY <5>1, <5>2
      <4>2. CASE i = Len(queue[p]) + 1
        <5>1. g - Len(tail) + i = g
          <6>1. Len(queue[p]) \in Nat /\ g \in Nat /\ Len(tail) = Len(queue[p]) + 1
            BY <1>1, <1>4, <2>2
          <6>2. \A a, b \in Nat : a - (b + 1) + (b + 1) = a
            OBVIOUS
          <6>3. g - (Len(queue[p]) + 1) + (Len(queue[p]) + 1) = g
            BY <6>1, <6>2, Zenon
          <6> QED BY <4>2, <6>1, <6>3, Zenon
        <5> QED BY <2>2, <4>2, <5>1
      <4> QED BY <1>4, <2>2, <4>1, <4>2
    <3>2. \A n \in Nat : n + Len(queue[p]) = given[p] => n + Len(queue'[p]) = given'[p]
      <4>1. Len(queue[p]) \in Nat /\ given[p] \in Nat BY <1>4
      <4>2. Len(queue'[p]) = Len(queue[p]) + 1 /\ given'[p] = given[p] + 1
        BY <1>1, <2>2, <2>3 DEF g
      <4> QED BY <4>1, <4>2
    <3>3. PoolOK(p) /\ RunOK(p) BY <1>4
    <3>5. PoolOK(p)' BY <1>3, <2>1, <3>2, <3>3 DEF PoolOK
    <3>6. RunOK(p)' BY <1>3, <2>1, <3>2, <3>3 DEF RunOK
    <3>4. IdleOK(p)' BY <1>6, <2>1 DEF IdleOK
    <3> QED BY <3>1, <3>4, <3>5, <3>6, <1>7 DEF SerialOK
  <2>5. ASSUME NEW q \in Processors \ {p} PROVE SerialOK(q)'
    <3>1. PoolOK(q) /\ RunOK(q) /\ queue'[q] = queue[q] /\ given'[q] = given[q]
      BY <1>2, <1>4, <2>3
    <3>2. QueueOK(q)' BY <1>2, <1>4, <2>3 DEF QueueOK
    <3>3. PoolOK(q)' BY <1>3, <2>1, <3>1 DEF PoolOK
    <3>4. RunOK(q)' BY <1>3, <2>1, <3>1 DEF RunOK
    <3>5. IdleOK(q)' BY <1>2, <1>3, <1>4, <2>1, <2>3 DEF IdleOK
    <3> QED BY <3>2, <3>3, <3>4, <3>5, <1>7 DEF SerialOK
  <2>6. SerialInv' BY <2>4, <2>5 DEF SerialInv
  <2> QED BY <1>2, <2>1, <2>3, <2>6 DEF SInv, TypeInv
<1> QED BY <1>5, <1>6

LEMMA SEnqueue ==
  ASSUME SInv, NEW o \in Objects, EnqueueTask(o) \/ EnqueueTearDown(o)
  PROVE  SInv'
<1>1. PICK p \in Processors : Enqueue(p)
  BY ProcessorFacts DEF EnqueueTask, EnqueueTearDown
<1>2. UNCHANGED <<life, histVars, timer, task, joining, initVars>>
  BY DEF EnqueueTask, EnqueueTearDown
<1>3. /\ SerialInv' /\ worker' \in [Workers -> Places]
      /\ \A w \in Workers : worker'[w] = worker[w] \/ (worker[w] = "wait" /\ worker'[w] = "woken")
      /\ given' \in [Processors -> Nat] /\ \A q \in Processors : given'[q] <= MaxTasks[q]
      /\ queue' \in [Processors -> Seq(Tasks)] /\ pending' \in [Processors -> BOOLEAN]
      /\ pool' \in SUBSET (Tasks \cup {Timer})
  BY <1>1, <1>2, Enqueued
<1>4. TypeInv'
  BY <1>2, <1>3 DEF SInv, TypeInv, histVars, initVars
<1>5. HoldInv'
  BY <1>2, <1>3 DEF SInv, HoldInv
<1>6. StoppedInv'
  BY <1>2, <1>3 DEF SInv, StoppedInv, initVars
<1> QED BY <1>3, <1>4, <1>5, <1>6 DEF SInv

\* A worker starts the task p has in the pool.
LEMMA Started ==
  ASSUME SInv, NEW w \in Workers, NEW p \in Processors, NEW n \in 1 .. MaxTasks[p],
         Task(p, n) \in pool, worker[w] # "run",
         pool' = pool \ {Task(p, n)}, task' = [task EXCEPT ![w] = Task(p, n)],
         started' = [started EXCEPT ![p] = Append(@, n)],
         worker' = [worker EXCEPT ![w] = "run"], UNCHANGED <<procVars, ended>>
  PROVE  SerialInv' /\ started' \in [Processors -> Seq(Nat)]
<1>1. n \in Nat
  BY ProcessorFacts
<1>2. /\ \A q \in Processors : QueueOK(q) /\ PoolOK(q) /\ RunOK(q) /\ IdleOK(q) /\ CountOK(q)
      /\ \A q \in Processors : Len(started[q]) \in Nat /\ Len(queue[q]) \in Nat /\ ended[q] \in Nat
      /\ \A q \in Processors : started[q] \in Seq(Nat) /\ given[q] \in Nat
      /\ started \in [Processors -> Seq(Nat)]
  BY DEF SInv, TypeInv, SerialInv, SerialOK
<1>3. Append(started[p], n) \in Seq(Nat) /\ Len(Append(started[p], n)) = Len(started[p]) + 1
  BY <1>1, <1>2
<1>4. /\ started' \in [Processors -> Seq(Nat)] /\ Len(started'[p]) = Len(started[p]) + 1
      /\ \A q \in Processors \ {p} : started'[q] = started[q]
  BY <1>2, <1>3
<1>5. queue' = queue /\ given' = given /\ pending' = pending /\ ended' = ended
  BY DEF procVars
<1>6. /\ \A v \in Workers \ {w} : worker'[v] = worker[v] /\ task'[v] = task[v]
      /\ worker'[w] = "run" /\ task'[w] = Task(p, n)
  BY DEF SInv, TypeInv
<1>7. n = Len(started[p]) + 1 /\ ended[p] = Len(started[p]) /\ pending[p] /\ n + Len(queue[p]) = given[p]
  BY <1>1, <1>2 DEF PoolOK
<1>8. \A m \in Nat : Task(p, m) \notin pool'
  BY <1>1, <1>2, <1>7, TaskFacts DEF PoolOK
<1>9. \A v \in Workers : worker[v] = "run" => \A m \in Nat : task[v] # Task(p, m)
  BY <1>1, <1>2 DEF RunOK
<1>10. SerialOK(p)'
  <2>1. QueueOK(p)' BY <1>2, <1>5 DEF QueueOK
  <2>2. PoolOK(p)' BY <1>8 DEF PoolOK
  <2>3. RunOK(p)'
    <3> SUFFICES ASSUME NEW v \in Workers, NEW m \in Nat, worker'[v] = "run", task'[v] = Task(p, m)
                 PROVE  /\ m = Len(started'[p]) /\ ended'[p] + 1 = m
                        /\ pending'[p] /\ m + Len(queue'[p]) = given'[p]
                        /\ \A k \in Nat : Task(p, k) \notin pool'
                        /\ \A u \in Workers \ {v} : worker'[u] = "run" => \A k \in Nat : task'[u] # Task(p, k)
      BY DEF RunOK
    <3>1. v = w BY <1>6, <1>9
    <3>2. m = n BY <1>6, <3>1, TaskFacts
    <3>3. n = Len(started'[p]) /\ ended[p] + 1 = n
      <4>1. Len(started[p]) \in Nat BY <1>2
      <4> QED BY <1>4, <1>7, <4>1
    <3>4. \A u \in Workers \ {w} : worker'[u] = "run" => \A k \in Nat : task'[u] # Task(p, k)
      BY <1>6, <1>9
    <3> QED BY <1>5, <1>7, <1>8, <3>1, <3>2, <3>3, <3>4
  <2>4. IdleOK(p)' BY <1>5, <1>7 DEF IdleOK
  <2>5. CountOK(p)'
    <3>1. Len(started[p]) \in Nat /\ Len(queue[p]) \in Nat /\ given[p] \in Nat
      BY <1>2
    <3>2. ended'[p] = Len(started[p]) /\ Len(started'[p]) = Len(started[p]) + 1 /\ given'[p] = given[p]
      BY <1>4, <1>5, <1>7
    <3>3. Len(started[p]) + 1 + Len(queue[p]) = given[p]
      BY <1>7
    <3>4. \A k, l, g \in Nat : k + 1 + l = g => k <= k + 1 /\ k + 1 <= g
      OBVIOUS
    <3>5. Len(started[p]) <= Len(started[p]) + 1 /\ Len(started[p]) + 1 <= given[p]
      BY <3>1, <3>3, <3>4, Zenon
    <3> QED BY <3>2, <3>5 DEF CountOK
  <2> QED BY <2>1, <2>2, <2>3, <2>4, <2>5 DEF SerialOK
<1>11. ASSUME NEW q \in Processors \ {p} PROVE SerialOK(q)'
  <2>1. PoolOK(q) /\ RunOK(q) /\ IdleOK(q) /\ QueueOK(q) /\ CountOK(q) /\ started'[q] = started[q]
    BY <1>2, <1>4
  <2>2. \A m : Task(q, m) # Task(p, n)
    BY TaskFacts
  <2>3. QueueOK(q)' BY <1>5, <2>1 DEF QueueOK
  <2>4. PoolOK(q)' BY <1>5, <2>1 DEF PoolOK
  <2>5. RunOK(q)' BY <1>5, <1>6, <2>1, <2>2 DEF RunOK
  <2>6. IdleOK(q)' BY <1>5, <2>1 DEF IdleOK
  <2>7. CountOK(q)' BY <1>5, <2>1 DEF CountOK
  <2> QED BY <2>3, <2>4, <2>5, <2>6, <2>7 DEF SerialOK
<1> QED BY <1>4, <1>10, <1>11 DEF SerialInv

\* What a worker that dequeues may do: leave or wait, take the timer's task, or
\* start a task of some processor.
LEMMA DequeueCases ==
  ASSUME SInv, NEW w \in Workers, Dequeue(w)
  PROVE  \/ /\ worker' = [worker EXCEPT ![w] = "exit"] \/ worker' = [worker EXCEPT ![w] = "wait"]
            /\ UNCHANGED <<pool, timer, task, started>>
         \/ /\ worker' = [worker EXCEPT ![w] = "run"] /\ pool' = pool \ {Timer}
            /\ timer' = "over" /\ task' = [task EXCEPT ![w] = Timer] /\ started' = started
         \/ /\ worker' = [worker EXCEPT ![w] = "run"] /\ timer' = timer
            /\ \E p \in Processors : \E n \in 1 .. MaxTasks[p] :
                 /\ Task(p, n) \in pool /\ pool' = pool \ {Task(p, n)}
                 /\ task' = [task EXCEPT ![w] = Task(p, n)]
                 /\ started' = [started EXCEPT ![p] = Append(@, n)]
<1>1. CASE joining
  BY <1>1 DEF Dequeue
<1>2. CASE ~joining /\ \E t \in Due :
                /\ pool' = pool \ {t}
                /\ timer' = IF t = Timer THEN "over" ELSE timer
                /\ task' = [task EXCEPT ![w] = t]
                /\ Begin(t)
                /\ worker' = [worker EXCEPT ![w] = "run"]
  <2>1. PICK t \in Due : /\ pool' = pool \ {t}
                         /\ timer' = IF t = Timer THEN "over" ELSE timer
                         /\ task' = [task EXCEPT ![w] = t]
                         /\ Begin(t)
                         /\ worker' = [worker EXCEPT ![w] = "run"]
    BY <1>2
  <2>2. t \in pool
    BY DEF Due
  <2>3. CASE t = Timer
    BY <2>1, <2>3 DEF Begin
  <2>4. CASE t # Timer
    <3>1. PICK p \in Processors : \E n \in 1 .. MaxTasks[p] : t = Task(p, n)
      BY <2>2, <2>4, TaskFacts DEF SInv, TypeInv
    <3>2. PICK n \in 1 .. MaxTasks[p] : t = Task(p, n)
      BY <3>1
    <3>3. t[1] = p /\ t[2] = n
      BY <3>2, TaskFacts
    <3>4. started' = [started EXCEPT ![p] = Append(@, n)] /\ timer' = timer
      BY <2>1, <2>4, <3>3 DEF Begin
    <3> QED BY <2>1, <2>2, <3>2, <3>4
  <2> QED BY <2>3, <2>4
<1>3. CASE ~joining /\ Due = {} /\ worker' = [worker EXCEPT ![w] = "wait"] /\ UNCHANGED <<pool, timer, task, started>>
  BY <1>3
<1> QED BY <1>1, <1>2, <1>3 DEF Dequeue

LEMMA SDequeue ==
  ASSUME SInv, NEW w \in Workers, Dequeue(w)
  PROVE  SInv'
<1>1. /\ worker[w] \in {"check", "woken"}
      /\ UNCHANGED <<life, procVars, ended, joining, initVars>>
  BY DEF Dequeue
<1>2. task[w] = Nothing /\ ~(~initialized /\ cleaning = "no")
  BY <1>1 DEF SInv, HoldInv, StoppedInv
<1>3. StoppedInv'
  BY <1>1, <1>2 DEF SInv, StoppedInv, initVars
<1>4. CASE /\ worker' = [worker EXCEPT ![w] = "exit"] \/ worker' = [worker EXCEPT ![w] = "wait"]
           /\ UNCHANGED <<pool, timer, task, started>>
  <2>1. TypeInv'
    BY <1>1, <1>4 DEF SInv, TypeInv, procVars, initVars, Places
  <2>2. HoldInv'
    BY <1>2, <1>4 DEF SInv, TypeInv, HoldInv
  <2>3. SerialInv'
    BY <1>1, <1>4, Undisturbed DEF SInv, TypeInv, histVars
  <2> QED BY <1>3, <2>1, <2>2, <2>3 DEF SInv
<1>5. CASE /\ worker' = [worker EXCEPT ![w] = "run"] /\ pool' = pool \ {Timer}
           /\ timer' = "over" /\ task' = [task EXCEPT ![w] = Timer] /\ started' = started
  <2>1. TypeInv'
    BY <1>1, <1>5 DEF SInv, TypeInv, procVars, initVars, Places
  <2>2. HoldInv'
    BY <1>2, <1>5, TaskFacts DEF SInv, TypeInv, HoldInv
  <2>3. SerialInv'
    BY <1>1, <1>5, Undisturbed DEF SInv, TypeInv, histVars
  <2> QED BY <1>3, <2>1, <2>2, <2>3 DEF SInv
<1>6. ASSUME worker' = [worker EXCEPT ![w] = "run"], timer' = timer,
             NEW p \in Processors, NEW n \in 1 .. MaxTasks[p],
             Task(p, n) \in pool, pool' = pool \ {Task(p, n)},
             task' = [task EXCEPT ![w] = Task(p, n)],
             started' = [started EXCEPT ![p] = Append(@, n)]
      PROVE  SInv'
  <2>1. SerialInv' /\ started' \in [Processors -> Seq(Nat)]
    BY <1>1, <1>6, Started
  <2>2. Task(p, n) \in Tasks /\ Task(p, n) # Nothing
    BY TaskFacts
  <2>3. TypeInv'
    BY <1>1, <1>6, <2>1, <2>2 DEF SInv, TypeInv, procVars, initVars, Places
  <2>4. HoldInv'
    BY <1>2, <1>6, <2>2 DEF SInv, TypeInv, HoldInv
  <2> QED BY <1>3, <2>1, <2>3, <2>4 DEF SInv
<1> QED BY <1>4, <1>5, <1>6, DequeueCases

-----------------------------------------------------------------------------
\* A task of p returns: the next one, if there is one, goes to the pool.
LEMMA SSchedule ==
  ASSUME SInv, NEW w \in Workers, Schedule(w)
  PROVE  SInv'
<1>1. worker[w] = "run" /\ task[w] # Timer /\ task[w] # Nothing
  BY DEF Schedule, SInv, HoldInv
<1>2. PICK p \in Processors : \E n \in 1 .. MaxTasks[p] : task[w] = Task(p, n)
  BY <1>1, TaskFacts DEF SInv, TypeInv
<1>3. PICK n \in 1 .. MaxTasks[p] : task[w] = Task(p, n)
  BY <1>2
<1>4. task[w][1] = p /\ n \in Nat
  BY <1>3, TaskFacts, ProcessorFacts
<1>5. /\ \A q \in Processors : QueueOK(q) /\ PoolOK(q) /\ RunOK(q) /\ IdleOK(q) /\ CountOK(q)
      /\ \A q \in Processors : Len(started[q]) \in Nat /\ Len(queue[q]) \in Nat /\ ended[q] \in Nat
      /\ \A q \in Processors : queue[q] \in Seq(Tasks) /\ given[q] \in Nat
  BY DEF SInv, TypeInv, SerialInv, SerialOK
<1>12. given[p] \in Nat /\ Len(queue[p]) \in Nat
  BY <1>5
<1>6. /\ n = Len(started[p]) /\ ended[p] + 1 = n /\ pending[p] /\ n + Len(queue[p]) = given[p]
      /\ \A m \in Nat : Task(p, m) \notin pool
      /\ \A v \in Workers \ {w} : worker[v] = "run" => \A m \in Nat : task[v] # Task(p, m)
  BY <1>1, <1>3, <1>4, <1>5 DEF RunOK
<1>13. n \in Nat /\ given[p] \in Nat /\ Len(queue[p]) \in Nat /\ n + Len(queue[p]) = given[p]
  BY <1>4, <1>6, <1>12, Zenon
<1>7. /\ ended' = [ended EXCEPT ![p] = @ + 1]
      /\ UNCHANGED <<life, given, started, timer, task, joining, initVars>>
  BY <1>4 DEF Schedule
<1>8. /\ ended' \in [Processors -> Nat] /\ ended'[p] = Len(started[p])
      /\ \A q \in Processors \ {p} : ended'[q] = ended[q]
  BY <1>6, <1>7 DEF SInv, TypeInv
<1>14. CountOK(p)'
  BY <1>5, <1>7, <1>8 DEF CountOK
<1>15. ASSUME NEW q \in Processors \ {p} PROVE CountOK(q)'
  BY <1>5, <1>7, <1>8 DEF CountOK
<1> DEFINE ws == [worker EXCEPT ![w] = "ran"]
<1>9. ws \in [Workers -> Places] /\ ws[w] = "ran" /\ \A v \in Workers \ {w} : ws[v] = worker[v]
  BY DEF SInv, TypeInv, Places
<1> HIDE DEF ws
<1>10. CASE queue[p] # <<>>
  <2>1. /\ queue' = [queue EXCEPT ![p] = Tail(@)] /\ pending' = pending
        /\ pool' = pool \cup {Head(queue[p])} /\ NotifyOne(ws)
    BY <1>4, <1>10 DEF Schedule, PoolSchedule, ws
  <2>2. /\ Len(queue[p]) \in Nat \ {0} /\ Head(queue[p]) = queue[p][1]
        /\ Tail(queue[p]) \in Seq(Tasks) /\ Len(Tail(queue[p])) = Len(queue[p]) - 1
        /\ \A i \in 1 .. Len(queue[p]) - 1 : Tail(queue[p])[i] = queue[p][i + 1]
    BY <1>5, <1>10
  <2>3. Head(queue[p]) = Task(p, n + 1)
    <3>1. queue[p][1] = Task(p, given[p] - Len(queue[p]) + 1)
      BY <1>5, <2>2 DEF QueueOK
    <3>2. given[p] - Len(queue[p]) + 1 = n + 1
      BY <1>13
    <3> QED BY <2>2, <3>1, <3>2
  <2>4. Task(p, n + 1) \in Tasks
    <3>1. given[p] <= MaxTasks[p] /\ MaxTasks[p] \in Nat
      BY ProcessorFacts DEF SInv, TypeInv
    <3>2. n + 1 \in 1 .. MaxTasks[p]
      <4>1. Len(queue[p]) # 0
        BY <2>2
      <4> QED BY <1>13, <3>1, <4>1
    <3> QED BY <3>2, TaskFacts
  <2>5. /\ queue' \in [Processors -> Seq(Tasks)] /\ queue'[p] = Tail(queue[p])
        /\ \A q \in Processors \ {p} : queue'[q] = queue[q]
    BY <2>1, <2>2 DEF SInv, TypeInv
  <2>6. /\ worker' \in [Workers -> Places] /\ worker'[w] = "ran"
        /\ \A v \in Workers \ {w} : worker'[v] = worker[v] \/ (worker[v] = "wait" /\ worker'[v] = "woken")
    BY <1>9, <2>1, Notified
  <2>7. SerialOK(p)'
    <3>1. QueueOK(p)'
      <4> SUFFICES ASSUME NEW i \in 1 .. Len(queue[p]) - 1
                   PROVE  Tail(queue[p])[i] = Task(p, given[p] - (Len(queue[p]) - 1) + i)
        BY <1>7, <2>2, <2>5 DEF QueueOK
      <4>1. i + 1 \in 1 .. Len(queue[p]) /\ given[p] - (Len(queue[p]) - 1) + i = given[p] - Len(queue[p]) + (i + 1)
        BY <1>12
      <4>2. queue[p][i + 1] = Task(p, given[p] - Len(queue[p]) + (i + 1))
        BY <1>5, <4>1 DEF QueueOK
      <4> QED BY <2>2, <4>1, <4>2
    <3>2. PoolOK(p)'
      <4> SUFFICES ASSUME NEW m \in Nat, Task(p, m) \in pool'
                   PROVE  /\ m = Len(started'[p]) + 1 /\ ended'[p] = Len(started'[p])
                          /\ pending'[p] /\ m + Len(queue'[p]) = given'[p]
        BY DEF PoolOK
      <4>1. m = n + 1
        BY <1>6, <2>1, <2>3, TaskFacts
      <4>2. \A k, l, g \in Nat : k + l = g => k + 1 + (l - 1) = g
        OBVIOUS
      <4>3. n + 1 + (Len(queue[p]) - 1) = given[p]
        BY <1>13, <4>2, Zenon
      <4> QED BY <1>6, <1>7, <1>8, <2>1, <2>2, <2>5, <4>1, <4>3
    <3>3. RunOK(p)'
      BY <1>6, <1>7, <2>6 DEF RunOK
    <3>4. IdleOK(p)'
      BY <1>6, <2>1 DEF IdleOK
    <3> QED BY <3>1, <3>2, <3>3, <3>4, <1>14 DEF SerialOK
  <2>8. ASSUME NEW q \in Processors \ {p} PROVE SerialOK(q)'
    <3>1. PoolOK(q) /\ RunOK(q) /\ IdleOK(q) /\ QueueOK(q) /\ queue'[q] = queue[q] /\ ended'[q] = ended[q]
      BY <1>5, <1>8, <2>5
    <3>2. \A m : Task(q, m) \in pool' => Task(q, m) \in pool
      BY <2>1, <2>3, TaskFacts
    <3>3. QueueOK(q)' BY <1>7, <3>1 DEF QueueOK
    <3>4. PoolOK(q)' BY <1>7, <2>1, <3>1, <3>2 DEF PoolOK
    <3>5. RunOK(q)' BY <1>7, <2>1, <2>6, <3>1, <3>2 DEF RunOK
    <3>6. IdleOK(q)' BY <1>7, <2>1, <3>1 DEF IdleOK
    <3> QED BY <3>3, <3>4, <3>5, <3>6, <1>15 DEF SerialOK
  <2>9. SerialInv' BY <2>7, <2>8 DEF SerialInv
  <2>10. pool' \in SUBSET (Tasks \cup {Timer})
    BY <2>1, <2>3, <2>4 DEF SInv, TypeInv
  <2>11. TypeInv'
    BY <1>7, <1>8, <2>1, <2>5, <2>6, <2>10 DEF SInv, TypeInv, initVars
  <2>12. HoldInv'
    BY <1>1, <1>7, <2>6 DEF SInv, HoldInv
  <2>13. StoppedInv'
    BY <1>1, <1>7 DEF SInv, StoppedInv, initVars
  <2> QED BY <2>9, <2>11, <2>12, <2>13 DEF SInv
<1>11. CASE queue[p] = <<>>
  <2>1. /\ pending' = [pending EXCEPT ![p] = FALSE] /\ worker' = ws
        /\ queue' = queue /\ pool' = pool
    BY <1>4, <1>11 DEF Schedule, ws
  <2>2. /\ pending' \in [Processors -> BOOLEAN] /\ ~pending'[p]
        /\ \A q \in Processors \ {p} : pending'[q] = pending[q]
    BY <2>1 DEF SInv, TypeInv
  <2>3. given[p] = n
    BY <1>4, <1>5, <1>6, <1>11
  <2>4. SerialOK(p)'
    <3>1. QueueOK(p)' BY <1>11, <2>1 DEF QueueOK
    <3>2. PoolOK(p)' BY <1>6, <2>1 DEF PoolOK
    <3>3. RunOK(p)' BY <1>6, <1>7, <1>9, <2>1 DEF RunOK
    <3>4. IdleOK(p)' BY <1>6, <1>7, <1>8, <1>11, <2>1, <2>3 DEF IdleOK
    <3> QED BY <3>1, <3>2, <3>3, <3>4, <1>14 DEF SerialOK
  <2>5. ASSUME NEW q \in Processors \ {p} PROVE SerialOK(q)'
    <3>1. PoolOK(q) /\ RunOK(q) /\ IdleOK(q) /\ QueueOK(q) /\ pending'[q] = pending[q] /\ ended'[q] = ended[q]
      BY <1>5, <1>8, <2>2
    <3>3. QueueOK(q)' BY <1>7, <2>1, <3>1 DEF QueueOK
    <3>4. PoolOK(q)' BY <1>7, <2>1, <3>1 DEF PoolOK
    <3>5. RunOK(q)' BY <1>7, <1>9, <2>1, <3>1 DEF RunOK
    <3>6. IdleOK(q)' BY <1>7, <2>1, <3>1 DEF IdleOK
    <3> QED BY <3>3, <3>4, <3>5, <3>6, <1>15 DEF SerialOK
  <2>6. SerialInv' BY <2>4, <2>5 DEF SerialInv
  <2>7. TypeInv'
    BY <1>7, <1>8, <1>9, <2>1, <2>2 DEF SInv, TypeInv, initVars
  <2>8. HoldInv'
    BY <1>1, <1>7, <1>9, <2>1 DEF SInv, HoldInv
  <2>9. StoppedInv'
    BY <1>1, <1>7 DEF SInv, StoppedInv, initVars
  <2> QED BY <2>6, <2>7, <2>8, <2>9 DEF SInv
<1> QED BY <1>10, <1>11

LEMMA SInductive == SInv /\ [Next]_vars => SInv'
<1> SUFFICES ASSUME SInv, [Next]_vars PROVE SInv'
  OBVIOUS
<1>1. ASSUME NEW o \in Objects, Construct(o) PROVE SInv' BY <1>1, SConstruct
<1>2. ASSUME NEW o \in Objects, EnqueueTask(o) PROVE SInv' BY <1>2, SEnqueue
<1>3. ASSUME NEW o \in Objects, EnqueueTearDown(o) PROVE SInv' BY <1>3, SEnqueue
<1>4. ASSUME NEW o \in Objects, SetTimer(o) PROVE SInv' BY <1>4, SSetTimer
<1>5. ASSUME NEW o \in Objects, Drop(o) PROVE SInv' BY <1>5, SDrop
<1>6. CASE Elapse BY <1>6, SElapse
<1>7. CASE Cleanup BY <1>7, SCleanup
<1>8. ASSUME NEW w \in Workers, Dequeue(w) PROVE SInv' BY <1>8, SDequeue
<1>9. ASSUME NEW w \in Workers, Schedule(w) PROVE SInv' BY <1>9, SSchedule
<1>10. ASSUME NEW w \in Workers, TimerReturns(w) PROVE SInv' BY <1>10, STimerReturns
<1>11. ASSUME NEW w \in Workers, Destroy(w) PROVE SInv' BY <1>11, SDestroy
<1>12. CASE CleanupThread BY <1>12, SCleanupThread
<1>13. CASE UNCHANGED vars
  <2>1. TypeInv' BY <1>13 DEF SInv, TypeInv, vars, procVars, histVars, initVars
  <2>2. HoldInv' BY <1>13 DEF SInv, HoldInv, vars
  <2>3. StoppedInv' BY <1>13 DEF SInv, StoppedInv, vars, initVars
  <2>4. SerialInv' BY <1>13, Undisturbed DEF vars
  <2> QED BY <2>1, <2>2, <2>3, <2>4 DEF SInv
<1> QED
  BY <1>1, <1>2, <1>3, <1>4, <1>5, <1>6, <1>7, <1>8, <1>9, <1>10, <1>11, <1>12, <1>13
     DEF Next, Work

\* The processors and the pool always agree on which task of a processor comes
\* next, which one runs and which ones wait (Processor::mPending and mTasks,
\* ThreadPool::mTasks, the workers), whatever the number of workers and through
\* any number of cleanups and restarts of the pool.
THEOREM SerialInvariant == Spec => []SInv
BY SInit, SInductive, PTL DEF Spec

\* TypeOK asks for ended <= given, which follows.
LEMMA TypeFollows == SInv => TypeOK
<1> SUFFICES ASSUME SInv PROVE TypeOK
  OBVIOUS
<1>1. \A p \in Processors : given[p] \in 0 .. MaxTasks[p]
  BY ProcessorFacts DEF SInv, TypeInv
<1>2. \A p \in Processors : ended[p] \in 0 .. given[p]
  BY DEF SInv, TypeInv, SerialInv, SerialOK, CountOK
<1> QED BY <1>1, <1>2 DEF SInv, TypeInv, TypeOK, Places

\* Every variable of Processor stays in its type, and no processor has run more
\* tasks than it was given.
THEOREM ProcessorTypes == Spec => []TypeOK
BY SerialInvariant, TypeFollows, PTL

-----------------------------------------------------------------------------
(* The refinement: Enqueue gives, Dequeue starts, Schedule ends.           *)

LEMMA Gives ==
  ASSUME SInv, NEW o \in Objects, EnqueueTask(o) \/ EnqueueTearDown(o)
  PROVE  Executor!Next
<1>1. PICK p \in Processors : Enqueue(p)
  BY ProcessorFacts DEF EnqueueTask, EnqueueTearDown
<1>2. UNCHANGED <<started, ended>>
  BY DEF EnqueueTask, EnqueueTearDown, histVars
<1>3. Executor!Give(p)
  BY <1>1, <1>2 DEF Enqueue, Executor!Give
<1> QED BY <1>3 DEF Executor!Next

LEMMA Starts ==
  ASSUME SInv, NEW w \in Workers, Dequeue(w)
  PROVE  Executor!Next \/ UNCHANGED Executor!vars
<1>1. given' = given /\ ended' = ended
  BY DEF Dequeue, procVars
<1>2. CASE started' = started
  BY <1>1, <1>2 DEF Executor!vars
<1>3. ASSUME NEW p \in Processors, NEW n \in 1 .. MaxTasks[p], Task(p, n) \in pool,
             started' = [started EXCEPT ![p] = Append(@, n)]
      PROVE  Executor!Next
  <2>1. n \in Nat /\ Len(started[p]) \in Nat /\ Len(queue[p]) \in Nat
    BY ProcessorFacts DEF SInv, TypeInv
  <2>2. n = Len(started[p]) + 1 /\ ended[p] = Len(started[p]) /\ n + Len(queue[p]) = given[p]
    BY <1>3, <2>1 DEF SInv, SerialInv, SerialOK, PoolOK
  <2>3. \A k, l, m, g \in Nat : m = k + 1 /\ m + l = g => k < g
    OBVIOUS
  <2>4. Len(started[p]) < given[p]
    <3>1. given[p] \in Nat BY DEF SInv, TypeInv
    <3> QED BY <2>1, <2>2, <2>3, <3>1, Zenon
  <2>5. started' = [started EXCEPT ![p] = Append(@, Len(@) + 1)]
    BY <1>3, <2>2
  <2>6. Executor!Start(p)
    BY <1>1, <2>2, <2>4, <2>5 DEF Executor!Start
  <2> QED BY <2>6 DEF Executor!Next
<1> QED BY <1>2, <1>3, DequeueCases

LEMMA Ends ==
  ASSUME SInv, NEW w \in Workers, Schedule(w)
  PROVE  Executor!Next
<1>1. worker[w] = "run" /\ task[w] # Timer /\ task[w] # Nothing
  BY DEF Schedule, SInv, HoldInv
<1>2. PICK p \in Processors : \E n \in 1 .. MaxTasks[p] : task[w] = Task(p, n)
  BY <1>1, TaskFacts DEF SInv, TypeInv
<1>3. PICK n \in 1 .. MaxTasks[p] : task[w] = Task(p, n)
  BY <1>2
<1>4. task[w][1] = p /\ n \in Nat /\ ended[p] \in Nat
  BY <1>3, TaskFacts, ProcessorFacts DEF SInv, TypeInv
<1>5. n = Len(started[p]) /\ ended[p] + 1 = n
  BY <1>1, <1>3, <1>4 DEF SInv, SerialInv, SerialOK, RunOK
<1>6. Executor!End(p)
  BY <1>4, <1>5 DEF Schedule, Executor!End
<1> QED BY <1>6 DEF Executor!Next

\* Whatever the number of workers, the tasks of a processor run one at a time
\* and in the order in which they were enqueued: Processor over ThreadPool
\* implements SerialExecutor, across any number of Cleanup() calls and restarts.
THEOREM RunsInOrder == Spec => RunsSerially
<1>1. Init => Executor!Init
  BY DEF Init, Executor!Init
<1>2. SInv /\ [Next]_vars => [Executor!Next]_(Executor!vars)
  <2> SUFFICES ASSUME SInv, [Next]_vars
               PROVE  Executor!Next \/ UNCHANGED Executor!vars
    OBVIOUS
  <2>1. ASSUME NEW o \in Objects, EnqueueTask(o) \/ EnqueueTearDown(o)
        PROVE  Executor!Next
    BY <2>1, Gives
  <2>2. ASSUME NEW o \in Objects, Construct(o) \/ SetTimer(o) \/ Drop(o)
        PROVE  UNCHANGED Executor!vars
    BY <2>2 DEF Construct, SetTimer, Drop, procVars, histVars, Executor!vars
  <2>3. ASSUME Elapse \/ Cleanup \/ CleanupThread
        PROVE  UNCHANGED Executor!vars
    BY <2>3 DEF Elapse, Cleanup, CleanupThread, DoCleanup, Join, Clear, procVars, histVars, Executor!vars
  <2>4. ASSUME NEW w \in Workers, Dequeue(w)
        PROVE  Executor!Next \/ UNCHANGED Executor!vars
    BY <2>4, Starts
  <2>5. ASSUME NEW w \in Workers, Schedule(w)
        PROVE  Executor!Next
    BY <2>5, Ends
  <2>6. ASSUME NEW w \in Workers, TimerReturns(w) \/ Destroy(w)
        PROVE  UNCHANGED Executor!vars
    BY <2>6 DEF TimerReturns, Destroy, procVars, histVars, Executor!vars
  <2>7. CASE UNCHANGED vars
    BY <2>7 DEF vars, procVars, histVars, Executor!vars
  <2> QED BY <2>1, <2>2, <2>3, <2>4, <2>5, <2>6, <2>7 DEF Next, Work
<1> QED BY <1>1, <1>2, SerialInvariant, PTL DEF Spec, RunsSerially, Executor!Spec

-----------------------------------------------------------------------------
(* Joins find nothing left, as long as no Cleanup() call overlaps another. *)

LEMMA TasksKept ==
  ASSUME NEW p \in Processors, queue'[p] = queue[p],
         \A n \in 1 .. MaxTasks[p] : Task(p, n) \in pool' => Task(p, n) \in pool,
         \A w \in Workers : \A n \in 1 .. MaxTasks[p] :
            task'[w] = Task(p, n) => task[w] = Task(p, n) \/ Task(p, n) \in pool
  PROVE  HasTask(p, task)' => HasTask(p, task)
BY DEF HasTask

LEMMA NothingLost ==
  ASSUME SInv, NoLoss, pending' = pending,
         \A p \in Processors : \A n \in 1 .. MaxTasks[p] : Task(p, n) \in pool => Task(p, n) \in pool',
         \A w \in Workers : worker[w] = "run" /\ task[w] # Timer => worker'[w] = "run" /\ task'[w] = task[w]
  PROVE  NoLoss'
<1> SUFFICES ASSUME NEW p \in Processors, pending[p]
             PROVE  (\/ \E n \in 1 .. MaxTasks[p] : Task(p, n) \in pool
                     \/ \E w \in Workers, n \in 1 .. MaxTasks[p] : worker[w] = "run" /\ task[w] = Task(p, n))'
  BY DEF NoLoss
<1>1. CASE \E n \in 1 .. MaxTasks[p] : Task(p, n) \in pool
  BY <1>1
<1>2. CASE \E w \in Workers, n \in 1 .. MaxTasks[p] : worker[w] = "run" /\ task[w] = Task(p, n)
  BY <1>2, TaskFacts
<1> QED BY <1>1, <1>2 DEF NoLoss

\* Steps that keep every task where it is.
LEMMA JQuiet ==
  ASSUME SInv, JInv, UNCHANGED <<life, queue, pending, payload, global, cleaners, cleaning>>,
         \A p \in Processors : \A n \in 1 .. MaxTasks[p] : Task(p, n) \in pool <=> Task(p, n) \in pool',
         \A w \in Workers : worker[w] = "run" /\ task[w] # Timer => worker'[w] = "run" /\ task'[w] = task[w],
         \A w \in Workers : task'[w] \in {task[w], Nothing, Timer}
  PROVE  JInv'
<1>1. NoLoss'
  BY NothingLost DEF JInv
<1>2. ASSUME NEW p \in Processors PROVE HasTask(p, task)' => HasTask(p, task)
  BY TasksKept, TaskFacts
<1>3. ObjectInv'
  BY <1>2, ProcessorFacts DEF JInv, ObjectInv
<1>4. TokenInv'
  BY <1>2, ProcessorFacts DEF JInv, TokenInv
<1> QED BY <1>1, <1>3, <1>4 DEF JInv

LEMMA JInit == Init => JInv
<1> SUFFICES ASSUME Init PROVE JInv
  OBVIOUS
<1>1. \A p \in Processors : ~HasTask(p, task)
  BY TaskFacts DEF Init, HasTask
<1>2. NoLoss
  BY DEF Init, NoLoss
<1>3. ObjectInv
  BY <1>1, ProcessorFacts DEF ObjectInv
<1>4. TokenInv
  BY <1>1, ProcessorFacts DEF Init, TokenInv
<1> QED BY <1>2, <1>3, <1>4 DEF JInv

LEMMA JConstruct ==
  ASSUME SInv, JInv, NEW o \in Objects, Construct(o)
  PROVE  JInv'
<1>1. /\ queue' = queue /\ pending' = pending /\ pool' = pool /\ task' = task
      /\ \A w \in Workers : worker[w] = "run" => worker'[w] = "run"
  BY DEF SInv, StoppedInv, Construct, Token, InitUnlocked, initVars, procVars
<1>2. NoLoss'
  BY <1>1, NothingLost DEF JInv
<1>3. ASSUME NEW p \in Processors PROVE HasTask(p, task)' => HasTask(p, task)
  BY <1>1, TasksKept
<1>4. life' = [life EXCEPT ![o] = "held"] /\ cleaning' = "no" /\ payload' /\ cleaners' = cleaners
  BY DEF SInv, TypeInv, Construct, Token, InitUnlocked, initVars
<1>5. ObjectInv'
  BY <1>3, <1>4, ProcessorFacts DEF SInv, TypeInv, JInv, ObjectInv
<1>6. cleaners' > 0 /\ ~global' => ~payload'
  BY DEF JInv, TokenInv, Construct, Token, initVars
<1>7. TokenInv'
  BY <1>4, <1>6 DEF TokenInv
<1> QED BY <1>2, <1>5, <1>7 DEF JInv

LEMMA JEnqueue ==
  ASSUME SInv, JInv, NEW o \in Objects, EnqueueTask(o) \/ EnqueueTearDown(o)
  PROVE  JInv'
<1>1. PICK p \in Processors : Enqueue(p) /\ (p = o \/ (p = TearDown /\ payload))
  BY ProcessorFacts DEF EnqueueTask, EnqueueTearDown
<1>2. life[o] = "held" /\ UNCHANGED <<life, histVars, timer, task, joining, initVars>>
  BY DEF EnqueueTask, EnqueueTearDown
<1>3. payload
  BY <1>2 DEF JInv, TokenInv
<1> DEFINE g == given[p] + 1
<1>4. given'[p] = g /\ g \in 1 .. MaxTasks[p]
  BY <1>1, ProcessorFacts DEF Enqueue, SInv, TypeInv
<1> HIDE DEF g
<1>5. /\ \A w \in Workers : worker[w] = "run" => worker'[w] = "run"
      /\ pool' = pool \/ pool' = pool \cup {Task(p, g)}
      /\ \A q \in Processors \ {p} : queue'[q] = queue[q] /\ pending'[q] = pending[q]
      /\ pending'[p] = TRUE
      /\ ~pending[p] => Task(p, g) \in pool'
  <2>1. CASE ~pending[p]
    <3>1. /\ pool' = pool \cup {Task(p, g)} /\ NotifyOne(worker)
          /\ pending' = [pending EXCEPT ![p] = TRUE] /\ queue' = queue
      BY <1>1, <1>4, <2>1 DEF Enqueue, PoolSchedule
    <3>2. \A w \in Workers : worker'[w] = worker[w] \/ (worker[w] = "wait" /\ worker'[w] = "woken")
      BY <3>1, Notified DEF SInv, TypeInv
    <3> QED BY <3>1, <3>2 DEF SInv, TypeInv
  <2>2. CASE pending[p]
    <3>1. /\ queue' = [queue EXCEPT ![p] = Append(@, Task(p, g))]
          /\ pool' = pool /\ worker' = worker /\ pending' = pending
      BY <1>1, <1>4, <2>2 DEF Enqueue
    <3> QED BY <2>2, <3>1 DEF SInv, TypeInv
  <2> QED BY <2>1, <2>2
<1>6. NoLoss'
  <2> SUFFICES ASSUME NEW q \in Processors, pending'[q]
               PROVE  (\/ \E n \in 1 .. MaxTasks[q] : Task(q, n) \in pool
                       \/ \E w \in Workers, n \in 1 .. MaxTasks[q] : worker[w] = "run" /\ task[w] = Task(q, n))'
    BY DEF NoLoss
  <2>1. CASE ~pending[q]
    BY <1>4, <1>5, <2>1
  <2>2. CASE pending[q]
    <3>1. CASE \E n \in 1 .. MaxTasks[q] : Task(q, n) \in pool
      BY <1>5, <3>1
    <3>2. CASE \E w \in Workers, n \in 1 .. MaxTasks[q] : worker[w] = "run" /\ task[w] = Task(q, n)
      BY <1>2, <1>5, <3>2
    <3> QED BY <2>2, <3>1, <3>2 DEF JInv, NoLoss
  <2> QED BY <2>1, <2>2
<1>7. ASSUME NEW q \in Processors \ {p} PROVE HasTask(q, task)' => HasTask(q, task)
  <2>1. \A n : Task(q, n) # Task(p, g)
    BY TaskFacts
  <2> QED BY <1>2, <1>5, <2>1, TasksKept
<1>8. ObjectInv'
  BY <1>1, <1>2, <1>7, ProcessorFacts DEF JInv, ObjectInv
<1>9. TokenInv'
  BY <1>2, <1>3 DEF JInv, TokenInv, initVars
<1> QED BY <1>6, <1>8, <1>9 DEF JInv

\* A token given back: nothing that needs one is left.
LEMMA JReleased ==
  ASSUME SInv, JInv, NEW td, ReleaseToken(life', global', td),
         td = HasTask(TearDown, task)',
         \A p \in Processors : HasTask(p, task)' => HasTask(p, task),
         \A o \in Objects : life'[o] \in {"held", "dropped"} => life[o] \in {"held", "dropped"},
         global' \in BOOLEAN, global' => global,
         cleaners > 0 /\ ~global' => ~global \/ ~payload, UNCHANGED cleaning
  PROVE  TokenInv'
<1>1. /\ \/ payload' = payload /\ cleaners' = cleaners
         \/ /\ payload /\ ~global' /\ ~td /\ payload' = FALSE
            /\ \A o \in Objects : life'[o] \notin {"held", "dropped"}
  BY TokenReleased
<1>2. CASE payload' = payload /\ cleaners' = cleaners
  BY <1>2, ProcessorFacts DEF JInv, TokenInv
<1>3. CASE /\ payload /\ ~global' /\ ~td /\ payload' = FALSE
           /\ \A o \in Objects : life'[o] \notin {"held", "dropped"}
  BY <1>3 DEF TokenInv
<1> QED BY <1>1, <1>2, <1>3

LEMMA JDrop ==
  ASSUME SInv, JInv, NEW o \in Objects, Drop(o)
  PROVE  JInv'
<1>1. /\ life[o] = "held" /\ ReleaseToken(life', global, HasTask(TearDown, task))
      /\ life' = [life EXCEPT ![o] = IF HasTask(o, task) THEN "dropped" ELSE "dead"]
      /\ queue' = queue /\ pending' = pending /\ pool' = pool /\ worker' = worker /\ task' = task
      /\ global' = global /\ cleaning' = cleaning
  BY DEF Drop, procVars
<1>2. NoLoss'
  BY <1>1, NothingLost DEF JInv
<1>3. ASSUME NEW p \in Processors PROVE HasTask(p, task)' = HasTask(p, task)
  BY <1>1 DEF HasTask
<1>4. ObjectInv'
  <2> SUFFICES ASSUME NEW q \in Objects, life'[q] \in {"none", "dead"} PROVE ~HasTask(q, task)
    BY <1>3, ProcessorFacts DEF ObjectInv
  <2>1. CASE q = o
    BY <1>1, <2>1 DEF SInv, TypeInv
  <2>2. CASE q # o
    BY <1>1, <2>2 DEF SInv, TypeInv, JInv, ObjectInv
  <2> QED BY <2>1, <2>2
<1>5. \A q \in Objects : life'[q] \in {"held", "dropped"} => life[q] \in {"held", "dropped"}
  BY <1>1 DEF SInv, TypeInv
<1>6. TokenInv'
  BY <1>1, <1>3, <1>5, ProcessorFacts, JReleased DEF SInv, TypeInv
<1> QED BY <1>2, <1>4, <1>6 DEF JInv

LEMMA JCleanup ==
  ASSUME SInv, JInv, Cleanup, OneCleanupAtATime
  PROVE  JInv'
<1>1. /\ ReleaseToken(life, FALSE, HasTask(TearDown, task)) /\ life' = life
      /\ queue' = queue /\ pending' = pending /\ pool' = pool /\ worker' = worker /\ task' = task
      /\ global' = FALSE /\ cleaning' = cleaning /\ cleaners = 0
  BY DEF Cleanup, OneCleanupAtATime, procVars
<1>2. NoLoss'
  BY <1>1, NothingLost DEF JInv
<1>3. ASSUME NEW p \in Processors PROVE HasTask(p, task)' = HasTask(p, task)
  BY <1>1 DEF HasTask
<1>4. ObjectInv'
  BY <1>1, <1>3, ProcessorFacts DEF JInv, ObjectInv
<1>5. TokenInv'
  <2>1. ReleaseToken(life', global', HasTask(TearDown, task)) /\ global' \in BOOLEAN /\ (global' => global)
    BY <1>1
  <2>2. HasTask(TearDown, task) = HasTask(TearDown, task)'
    BY <1>3, ProcessorFacts
  <2>3. cleaners > 0 /\ ~global' => ~global \/ ~payload
    BY <1>1
  <2>4. \A p \in Processors : HasTask(p, task)' => HasTask(p, task)
    BY <1>3
  <2>5. \A o \in Objects : life'[o] \in {"held", "dropped"} => life[o] \in {"held", "dropped"}
    BY <1>1
  <2> QED BY <1>1, <2>1, <2>2, <2>3, <2>4, <2>5, JReleased
<1> QED BY <1>2, <1>4, <1>5 DEF JInv

LEMMA JDequeue ==
  ASSUME SInv, JInv, NEW w \in Workers, Dequeue(w)
  PROVE  JInv'
<1>1. /\ worker[w] \in {"check", "woken"} /\ life' = life /\ queue' = queue /\ pending' = pending
      /\ payload' = payload /\ global' = global /\ cleaners' = cleaners /\ cleaning' = cleaning
  BY DEF Dequeue, procVars, initVars
<1>2. CASE /\ worker' = [worker EXCEPT ![w] = "exit"] \/ worker' = [worker EXCEPT ![w] = "wait"]
           /\ UNCHANGED <<pool, timer, task, started>>
  BY <1>1, <1>2, JQuiet DEF SInv, TypeInv
<1>3. CASE /\ worker' = [worker EXCEPT ![w] = "run"] /\ pool' = pool \ {Timer}
           /\ timer' = "over" /\ task' = [task EXCEPT ![w] = Timer] /\ started' = started
  <2>1. \A p \in Processors : \A n \in 1 .. MaxTasks[p] : Task(p, n) \in pool <=> Task(p, n) \in pool'
    BY <1>3, TaskFacts
  <2>2. \A v \in Workers : worker[v] = "run" => worker'[v] = "run" /\ task'[v] = task[v]
    BY <1>1, <1>3 DEF SInv, TypeInv
  <2>3. \A v \in Workers : task'[v] \in {task[v], Nothing, Timer}
    BY <1>3 DEF SInv, TypeInv
  <2> QED BY <1>1, <2>1, <2>2, <2>3, JQuiet
<1>4. ASSUME worker' = [worker EXCEPT ![w] = "run"],
             NEW p \in Processors, NEW n \in 1 .. MaxTasks[p],
             Task(p, n) \in pool, pool' = pool \ {Task(p, n)},
             task' = [task EXCEPT ![w] = Task(p, n)]
      PROVE  JInv'
  <2>1. /\ worker'[w] = "run" /\ task'[w] = Task(p, n)
        /\ \A v \in Workers \ {w} : worker'[v] = worker[v] /\ task'[v] = task[v]
    BY <1>4 DEF SInv, TypeInv
  <2>2. NoLoss'
    <3> SUFFICES ASSUME NEW q \in Processors, pending[q]
                 PROVE  (\/ \E m \in 1 .. MaxTasks[q] : Task(q, m) \in pool
                         \/ \E v \in Workers, m \in 1 .. MaxTasks[q] : worker[v] = "run" /\ task[v] = Task(q, m))'
      BY <1>1 DEF NoLoss
    <3>1. CASE q = p
      BY <2>1, <3>1
    <3>2. CASE q # p
      <4>1. \A m : Task(q, m) # Task(p, n)
        BY <3>2, TaskFacts
      <4>2. CASE \E m \in 1 .. MaxTasks[q] : Task(q, m) \in pool
        BY <1>4, <4>1, <4>2
      <4>3. CASE \E v \in Workers, m \in 1 .. MaxTasks[q] : worker[v] = "run" /\ task[v] = Task(q, m)
        BY <1>1, <2>1, <4>3
      <4> QED BY <4>2, <4>3 DEF JInv, NoLoss
    <3> QED BY <3>1, <3>2
  <2>3. ASSUME NEW q \in Processors PROVE HasTask(q, task)' => HasTask(q, task)
    BY <1>1, <1>4, <2>1, TaskFacts, TasksKept
  <2>4. ObjectInv'
    BY <1>1, <2>3, ProcessorFacts DEF JInv, ObjectInv
  <2>5. TokenInv'
    BY <1>1, <2>3, ProcessorFacts DEF JInv, TokenInv
  <2> QED BY <2>2, <2>4, <2>5 DEF JInv
<1> QED BY <1>2, <1>3, <1>4, DequeueCases

LEMMA JSchedule ==
  ASSUME SInv, JInv, NEW w \in Workers, Schedule(w)
  PROVE  JInv'
<1>1. worker[w] = "run" /\ task[w] # Timer /\ task[w] # Nothing
  BY DEF Schedule, SInv, HoldInv
<1>2. PICK p \in Processors : \E n \in 1 .. MaxTasks[p] : task[w] = Task(p, n)
  BY <1>1, TaskFacts DEF SInv, TypeInv
<1>3. PICK n \in 1 .. MaxTasks[p] : task[w] = Task(p, n)
  BY <1>2
<1>4. task[w][1] = p /\ n \in Nat
  BY <1>3, TaskFacts, ProcessorFacts
<1>5. /\ UNCHANGED <<life, task, payload, global, cleaners, cleaning>>
      /\ HasTask(p, task)
  BY <1>3 DEF Schedule, HasTask, initVars
<1>6. /\ \A q \in Processors \ {p} : queue'[q] = queue[q] /\ pending'[q] = pending[q]
      /\ pool \subseteq pool' /\ \A q \in Processors \ {p} : \A m \in Nat : Task(q, m) \in pool' => Task(q, m) \in pool
      /\ \A v \in Workers \ {w} : worker[v] = "run" => worker'[v] = "run"
      /\ pending'[p] => \E m \in 1 .. MaxTasks[p] : Task(p, m) \in pool'
  <2> DEFINE ws == [worker EXCEPT ![w] = "ran"]
  <2>1. ws \in [Workers -> Places] /\ ws[w] = "ran" /\ \A v \in Workers \ {w} : ws[v] = worker[v]
    BY DEF SInv, TypeInv, Places
  <2> HIDE DEF ws
  <2>2. CASE queue[p] # <<>>
    <3>1. /\ queue' = [queue EXCEPT ![p] = Tail(@)] /\ pending' = pending
          /\ pool' = pool \cup {Head(queue[p])} /\ NotifyOne(ws)
      BY <1>4, <2>2 DEF Schedule, PoolSchedule, ws
    <3>2. \A v \in Workers \ {w} : worker[v] = "run" => worker'[v] = "run"
      BY <2>1, <3>1, Notified
    <3>3. \E m \in 1 .. MaxTasks[p] : Head(queue[p]) = Task(p, m)
      <4>1. queue[p] \in Seq(Tasks) /\ Len(queue[p]) \in Nat /\ given[p] \in Nat /\ QueueOK(p)
        BY DEF SInv, TypeInv, SerialInv, SerialOK
      <4>2. Head(queue[p]) \in Tasks /\ Head(queue[p]) = queue[p][1] /\ 1 \in 1 .. Len(queue[p])
        BY <2>2, <4>1
      <4>3. Head(queue[p]) = Task(p, given[p] - Len(queue[p]) + 1)
        BY <4>1, <4>2 DEF QueueOK
      <4> QED BY <4>2, <4>3, TaskFacts
    <3> QED BY <3>1, <3>2, <3>3, TaskFacts DEF SInv, TypeInv
  <2>3. CASE queue[p] = <<>>
    <3>1. /\ pending' = [pending EXCEPT ![p] = FALSE] /\ worker' = ws
          /\ queue' = queue /\ pool' = pool
      BY <1>4, <2>3 DEF Schedule, ws
    <3> QED BY <2>1, <3>1 DEF SInv, TypeInv
  <2> QED BY <2>2, <2>3
<1>7. NoLoss'
  <2> SUFFICES ASSUME NEW q \in Processors, pending'[q]
               PROVE  (\/ \E m \in 1 .. MaxTasks[q] : Task(q, m) \in pool
                       \/ \E v \in Workers, m \in 1 .. MaxTasks[q] : worker[v] = "run" /\ task[v] = Task(q, m))'
    BY DEF NoLoss
  <2>1. CASE q = p
    BY <1>6, <2>1
  <2>2. CASE q # p
    <3>1. CASE \E m \in 1 .. MaxTasks[q] : Task(q, m) \in pool
      BY <1>6, <3>1
    <3>2. CASE \E v \in Workers, m \in 1 .. MaxTasks[q] : worker[v] = "run" /\ task[v] = Task(q, m)
      <4>1. PICK v \in Workers, m \in 1 .. MaxTasks[q] : worker[v] = "run" /\ task[v] = Task(q, m)
        BY <3>2
      <4>2. v # w
        BY <1>3, <2>2, <4>1, TaskFacts
      <4> QED BY <1>5, <1>6, <4>1, <4>2
    <3> QED BY <1>6, <2>2, <3>1, <3>2 DEF JInv, NoLoss
  <2> QED BY <2>1, <2>2
<1>8. ASSUME NEW q \in Processors PROVE HasTask(q, task)' => HasTask(q, task)
  <2>1. CASE q = p
    BY <1>5, <2>1
  <2>2. CASE q # p
    BY <1>5, <1>6, <2>2, TasksKept, ProcessorFacts
  <2> QED BY <2>1, <2>2
<1>9. ObjectInv'
  BY <1>5, <1>8, ProcessorFacts DEF JInv, ObjectInv
<1>10. TokenInv'
  BY <1>5, <1>8, ProcessorFacts DEF JInv, TokenInv
<1> QED BY <1>7, <1>9, <1>10 DEF JInv

LEMMA JDestroy ==
  ASSUME SInv, JInv, NEW w \in Workers, Destroy(w)
  PROVE  JInv'
<1>1. /\ worker[w] = "ran" /\ ReleaseToken(life', global, HasTask(TearDown, task'))
      /\ worker' = [worker EXCEPT ![w] = "check"] /\ task' = [task EXCEPT ![w] = Nothing]
      /\ life' = [o \in Objects |-> Released(o, HasTask(o, task'))]
      /\ queue' = queue /\ pending' = pending /\ pool' = pool
      /\ global' = global /\ cleaning' = cleaning
  BY DEF Destroy, procVars
<1>2. \A v \in Workers : worker[v] = "run" => worker'[v] = "run" /\ task'[v] = task[v]
  BY <1>1 DEF SInv, TypeInv
<1>3. NoLoss'
  BY <1>1, <1>2, NothingLost DEF JInv
<1>4. ASSUME NEW p \in Processors PROVE HasTask(p, task') = HasTask(p, task)'
  BY <1>1 DEF HasTask
<1>5. ASSUME NEW p \in Processors PROVE HasTask(p, task)' => HasTask(p, task)
  <2>1. \A v \in Workers : task'[v] \in {task[v], Nothing}
    BY <1>1 DEF SInv, TypeInv
  <2> QED BY <1>1, <2>1, TaskFacts, TasksKept
<1>6. ObjectInv'
  <2> SUFFICES ASSUME NEW o \in Objects, life'[o] \in {"none", "dead"} PROVE ~HasTask(o, task)'
    BY DEF ObjectInv
  <2>1. CASE life[o] = "dropped" /\ ~HasTask(o, task')
    BY <1>4, <2>1, ProcessorFacts
  <2>2. CASE ~(life[o] = "dropped" /\ ~HasTask(o, task'))
    BY <1>1, <1>5, <2>2, ProcessorFacts DEF Released, JInv, ObjectInv
  <2> QED BY <2>1, <2>2
<1>7. TokenInv'
  <2>1. ReleaseToken(life', global', HasTask(TearDown, task')) /\ global' \in BOOLEAN /\ (global' => global)
    BY <1>1 DEF SInv, TypeInv
  <2>2. HasTask(TearDown, task') = HasTask(TearDown, task)'
    BY <1>4, ProcessorFacts
  <2>3. cleaners > 0 /\ ~global' => ~global \/ ~payload
    BY <1>1
  <2>4. \A p \in Processors : HasTask(p, task)' => HasTask(p, task)
    BY <1>5
  <2>5. \A o \in Objects : life'[o] \in {"held", "dropped"} => life[o] \in {"held", "dropped"}
    BY <1>1 DEF Released
  <2> QED BY <1>1, <2>1, <2>2, <2>3, <2>4, <2>5, JReleased
<1> QED BY <1>3, <1>6, <1>7 DEF JInv

\* While the pool is being stopped it holds no task of a processor.
LEMMA NothingToDrop ==
  ASSUME JInv, TypeInv, ~payload
  PROVE  \A p \in Processors : ~HasTask(p, task)
<1>1. \A o \in Objects : life[o] \in {"none", "dead"}
  BY DEF JInv, TokenInv, TypeInv
<1> QED BY <1>1 DEF JInv, TokenInv, ObjectInv, Processors

LEMMA JCleanupThread ==
  ASSUME SInv, JInv, CleanupThread
  PROVE  JInv'
<1>1. /\ life' = life /\ queue' = queue /\ pending' = pending /\ task' = task
      /\ payload' = payload /\ global' = global
  BY DEF CleanupThread, DoCleanup, Join, Clear, procVars
<1>2. CASE DoCleanup
  <2>1. /\ pool' = pool /\ worker' = worker /\ cleaners > 0 /\ cleaners' = cleaners - 1
        /\ cleaning = "no" /\ (global => cleaning' = "no")
    BY <1>2 DEF DoCleanup, InitUnlocked
  <2>2. NoLoss'
    BY <1>1, <2>1, NothingLost DEF JInv
  <2>3. ASSUME NEW p \in Processors PROVE HasTask(p, task)' => HasTask(p, task)
    BY <1>1, <2>1, TasksKept
  <2>4. ObjectInv'
    BY <1>1, <2>3, ProcessorFacts DEF JInv, ObjectInv
  <2>5. TokenInv'
    BY <1>1, <2>1, <2>3, ProcessorFacts DEF JInv, TokenInv
  <2> QED BY <2>2, <2>4, <2>5 DEF JInv
<1>3. CASE Join
  <2>1. /\ pool' = pool /\ cleaners' = cleaners /\ cleaning = "wait" /\ cleaning' = "join"
        /\ \A w \in Workers : worker[w] = "run" => worker'[w] = "run"
    BY <1>3 DEF Join
  <2>2. NoLoss'
    BY <1>1, <2>1, NothingLost DEF JInv
  <2>3. ASSUME NEW p \in Processors PROVE HasTask(p, task)' => HasTask(p, task)
    BY <1>1, <2>1, TasksKept
  <2>4. ObjectInv'
    BY <1>1, <2>3, ProcessorFacts DEF JInv, ObjectInv
  <2>5. TokenInv'
    BY <1>1, <2>1, <2>3, ProcessorFacts DEF JInv, TokenInv
  <2> QED BY <2>2, <2>4, <2>5 DEF JInv
<1>4. CASE Clear
  <2>1. /\ pool' = {} /\ cleaners' = cleaners /\ cleaning = "join" /\ cleaning' = "no"
        /\ \A w \in Workers : worker[w] = "exit"
    BY <1>4 DEF Clear
  <2>2. \A p \in Processors : ~HasTask(p, task)
    BY <2>1, NothingToDrop DEF SInv, JInv, TokenInv
  <2>3. \A p \in Processors : \A n \in 1 .. MaxTasks[p] : Task(p, n) \notin pool
    BY <2>2 DEF HasTask
  <2>4. NoLoss'
    BY <1>1, <2>1, <2>3, NothingLost DEF JInv
  <2>5. ASSUME NEW p \in Processors PROVE HasTask(p, task)' => HasTask(p, task)
    BY <1>1, <2>1, TasksKept
  <2>6. ObjectInv'
    BY <1>1, <2>5, ProcessorFacts DEF JInv, ObjectInv
  <2>7. TokenInv'
    BY <1>1, <2>1, <2>5, ProcessorFacts DEF JInv, TokenInv
  <2> QED BY <2>4, <2>6, <2>7 DEF JInv
<1> QED BY <1>2, <1>3, <1>4 DEF CleanupThread

LEMMA JInductive == SInv /\ JInv /\ [Next]_vars /\ [OneCleanupAtATime]_vars => JInv'
<1> SUFFICES ASSUME SInv, JInv, [Next]_vars, [OneCleanupAtATime]_vars PROVE JInv'
  OBVIOUS
<1>1. ASSUME NEW o \in Objects, Construct(o) PROVE JInv' BY <1>1, JConstruct
<1>2. ASSUME NEW o \in Objects, EnqueueTask(o) \/ EnqueueTearDown(o) PROVE JInv' BY <1>2, JEnqueue
<1>3. ASSUME NEW o \in Objects, SetTimer(o) PROVE JInv'
  <2>1. \A w \in Workers : worker'[w] = worker[w] \/ (worker[w] = "wait" /\ worker'[w] = "woken")
    BY <1>3, Notified DEF SInv, TypeInv, SetTimer, PoolSchedule
  <2> QED BY <1>3, <2>1, JQuiet, TaskFacts DEF SetTimer, PoolSchedule, procVars, initVars
<1>4. ASSUME NEW o \in Objects, Drop(o) PROVE JInv' BY <1>4, JDrop
<1>5. CASE Elapse
  <2>1. \A w \in Workers : worker'[w] = worker[w] \/ (worker[w] = "wait" /\ worker'[w] = "woken")
    BY <1>5, Notified DEF SInv, TypeInv, Elapse
  <2> QED BY <1>5, <2>1, JQuiet DEF Elapse, procVars, initVars
<1>6. CASE UNCHANGED vars
  BY <1>6, JQuiet DEF vars, procVars, initVars
<1>7. CASE Cleanup
  BY <1>6, <1>7, JCleanup
<1>8. ASSUME NEW w \in Workers, Dequeue(w) PROVE JInv' BY <1>8, JDequeue
<1>9. ASSUME NEW w \in Workers, Schedule(w) PROVE JInv' BY <1>9, JSchedule
<1>10. ASSUME NEW w \in Workers, TimerReturns(w) PROVE JInv'
  BY <1>10, JQuiet DEF TimerReturns, procVars, initVars, SInv, TypeInv
<1>11. ASSUME NEW w \in Workers, Destroy(w) PROVE JInv' BY <1>11, JDestroy
<1>12. CASE CleanupThread BY <1>12, JCleanupThread
<1> QED
  BY <1>1, <1>2, <1>3, <1>4, <1>5, <1>6, <1>7, <1>8, <1>9, <1>10, <1>11, <1>12 DEF Next, Work

LEMMA IdleFollows == SInv /\ JInv => JoinFindsIdle
<1> SUFFICES ASSUME SInv, JInv PROVE JoinFindsIdle
  OBVIOUS
<1>1. ASSUME NEW o \in Objects, life[o] = "dead" PROVE ~pending[o] /\ queue[o] = <<>>
  <2>1. ~HasTask(o, task)
    BY <1>1 DEF JInv, ObjectInv
  <2>2. queue[o] = <<>>
    BY <2>1 DEF HasTask
  <2>3. ~pending[o]
    BY <2>1, ProcessorFacts DEF HasTask, JInv, NoLoss
  <2> QED BY <2>2, <2>3
<1>2. ASSUME cleaning = "join" PROVE pool \subseteq {Timer}
  <2>1. \A p \in Processors : ~HasTask(p, task)
    BY <1>2, NothingToDrop DEF SInv, JInv, TokenInv
  <2>2. ASSUME NEW t \in pool, t # Timer PROVE FALSE
    <3>1. PICK p \in Processors : \E n \in 1 .. MaxTasks[p] : t = Task(p, n)
      BY <2>2, TaskFacts DEF SInv, TypeInv
    <3>2. HasTask(p, task)
      BY <3>1 DEF HasTask
    <3> QED BY <2>1, <3>2
  <2> QED BY <2>2
<1> QED BY <1>1, <1>2 DEF JoinFindsIdle

\* The destructor's join and ThreadPool::join find nothing left, for any number
\* of Cleanup() calls and restarts, if Cleanup() is only called while no cleanup
\* thread of an earlier call is waiting (what rtcCleanup does by waiting for
\* the future). Without that the invariant is false: doCleanup looks at mGlobal,
\* not at mWeak, and a second call resets it under objects made in between.
THEOREM JoinsFindIdle == Spec /\ [][OneCleanupAtATime]_vars => []JoinFindsIdle
<1>1. Spec => []SInv
  BY SerialInvariant
<1>2. Spec /\ [][OneCleanupAtATime]_vars => []JInv
  BY <1>1, JInit, JInductive, PTL DEF Spec
<1> QED BY <1>1, <1>2, IdleFollows, PTL

\* Before the first call of Cleanup() the global token is held and no cleanup
\* thread exists.
FirstInv == cleanups = 0 => cleaners = 0 /\ (payload => global)

LEMMA FirstInductive == SInv /\ FirstInv /\ [Next]_vars => FirstInv'
<1> SUFFICES ASSUME SInv, FirstInv, [Next]_vars PROVE FirstInv'
  OBVIOUS
<1>1. ASSUME NEW o \in Objects, Construct(o) PROVE FirstInv'
  BY <1>1 DEF FirstInv, Construct, Token, initVars
<1>2. ASSUME NEW o \in Objects, EnqueueTask(o) \/ EnqueueTearDown(o) \/ SetTimer(o) PROVE FirstInv'
  BY <1>2 DEF FirstInv, EnqueueTask, EnqueueTearDown, SetTimer, initVars
<1>3. ASSUME NEW o \in Objects, Drop(o) PROVE FirstInv'
  <2>1. \/ payload' = payload /\ cleaners' = cleaners
        \/ payload /\ ~global
    BY <1>3, TokenReleased DEF Drop, SInv, TypeInv
  <2> QED BY <1>3, <2>1 DEF FirstInv, Drop
<1>4. CASE Cleanup
  <2>1. cleanups' # 0
    BY <1>4 DEF Cleanup, SInv, TypeInv
  <2> QED BY <2>1 DEF FirstInv
<1>5. ASSUME NEW w \in Workers, Destroy(w) PROVE FirstInv'
  <2>1. \/ payload' = payload /\ cleaners' = cleaners
        \/ payload /\ ~global
    BY <1>5, TokenReleased DEF Destroy, SInv, TypeInv
  <2> QED BY <1>5, <2>1 DEF FirstInv, Destroy
<1>6. ASSUME NEW w \in Workers, Dequeue(w) \/ Schedule(w) \/ TimerReturns(w) PROVE FirstInv'
  BY <1>6 DEF FirstInv, Dequeue, Schedule, TimerReturns, initVars
<1>7. CASE CleanupThread \/ Elapse \/ UNCHANGED vars
  BY <1>7 DEF FirstInv, CleanupThread, DoCleanup, Join, Clear, Elapse, vars, initVars
<1> QED BY <1>1, <1>2, <1>3, <1>4, <1>5, <1>6, <1>7 DEF Next, Work

\* With one call of Cleanup() no further condition is needed.
THEOREM JoinFindsIdleOnce ==
  ASSUME MaxCleanup <= 1
  PROVE  Spec => []JoinFindsIdle
<1>1. Init => FirstInv
  BY DEF Init, FirstInv
<1>2. Spec => []FirstInv
  BY <1>1, FirstInductive, SerialInvariant, PTL DEF Spec
<1>3. SInv /\ FirstInv => OneCleanupAtATime
  BY ConstantsAssumption DEF SInv, TypeInv, FirstInv, OneCleanupAtATime, Cleanup
<1>4. Spec => [][OneCleanupAtATime]_vars
  BY <1>2, <1>3, SerialInvariant, PTL DEF Spec
<1> QED BY <1>4, JoinsFindIdle, PTL
=============================================================================
