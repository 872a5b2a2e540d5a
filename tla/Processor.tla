----------------------------- MODULE Processor ------------------------------
(***************************************************************************)
(* The processors, the thread pool they share and the global Init object   *)
(* that starts and stops the pool (impl/processor, threadpool, queue.hpp   *)
(* and init).                                                              *)
(*                                                                         *)
(* Every object (a PeerConnection or SctpTransport) has a processor of its *)
(* own; its tasks hold a shared_ptr to it, and it holds an init token. The *)
(* TearDownProcessor is global and its tasks hold a token of their own.    *)
(* The last holder of a token starts a thread that stops the pool.         *)
(***************************************************************************)
EXTENDS Integers, Sequences, FiniteSets

CONSTANTS Objects,    \* objects with a processor of their own
          Workers,    \* the pool's threads
          MaxTasks,   \* bound, per processor: tasks enqueued on it
          MaxCleanup  \* bound: calls of Cleanup()

TearDown == "TearDownProcessor"
Processors == Objects \cup {TearDown}
Task(p, n) == <<p, n>>
Nothing == Task("nothing", 0)
Tasks == UNION {{Task(p, n) : n \in 1 .. MaxTasks[p]} : p \in Processors}
Timer == Task("timer", 0)  \* a task of the pool that no processor and no token stands behind

ASSUME ConstantsAssumption ==
    /\ IsFiniteSet(Objects) /\ IsFiniteSet(Workers) /\ Workers # {}
    /\ Objects \cap {TearDown, "nothing", "timer"} = {}
    /\ MaxTasks \in [Processors -> Nat] /\ MaxCleanup \in Nat

VARIABLES
    life,        \* per object: "none", "held" by the application, "dropped" by it, "dead"
    pending,     \* per processor: mPending
    queue,       \* per processor: mTasks
    given,       \* per processor: tasks enqueued so far
    started,     \* per processor, history: tasks begun, in order
    ended,       \* per processor, history: tasks whose function has returned
    pool,        \* ThreadPool::mTasks
    timer,       \* the timer task: "none", "set", "due", "over"
    worker,      \* per worker: where it stands
    task,        \* per worker: the task it runs
    joining,     \* ThreadPool::mJoining
    initialized, \* Init::mInitialized
    payload,     \* a TokenPayload is alive (mWeak.lock() succeeds)
    global,      \* mGlobal holds it
    cleaners,    \* RTC cleanup threads that have not taken Init::mMutex
    cleaning,    \* doCleanup: "no", "wait" for idle workers, "join" them
    cleanups     \* calls of Cleanup() so far

procVars == <<pending, queue, given>>
histVars == <<started, ended>>
initVars == <<initialized, payload, global, cleaners, cleaning, cleanups>>
vars == <<life, procVars, histVars, pool, timer, worker, task, joining, initVars>>

TypeOK ==
    /\ life \in [Objects -> {"none", "held", "dropped", "dead"}]
    /\ pending \in [Processors -> BOOLEAN]
    /\ queue \in [Processors -> Seq(Tasks)]
    /\ \A p \in Processors : given[p] \in 0 .. MaxTasks[p]
    /\ started \in [Processors -> Seq(Nat)]
    /\ \A p \in Processors : ended[p] \in 0 .. given[p]
    /\ pool \subseteq Tasks \cup {Timer}
    /\ timer \in {"none", "set", "due", "over"}
    /\ worker \in [Workers -> {"none", "check", "wait", "woken", "run", "ran", "exit"}]
    /\ task \in [Workers -> Tasks \cup {Timer, Nothing}]
    /\ joining \in BOOLEAN /\ initialized \in BOOLEAN
    /\ payload \in BOOLEAN /\ global \in BOOLEAN
    /\ cleaners \in Nat
    /\ cleaning \in {"no", "wait", "join"}
    /\ cleanups \in 0 .. MaxCleanup

Init ==
    /\ life = [o \in Objects |-> "none"]
    /\ pending = [p \in Processors |-> FALSE]
    /\ queue = [p \in Processors |-> <<>>]
    /\ given = [p \in Processors |-> 0]
    /\ started = [p \in Processors |-> <<>>]
    /\ ended = [p \in Processors |-> 0]
    /\ pool = {}
    /\ timer = "none"
    /\ worker = [w \in Workers |-> "none"]
    /\ task = [w \in Workers |-> Nothing]
    /\ joining = FALSE
    /\ initialized = FALSE
    /\ payload = FALSE
    /\ global = FALSE
    /\ cleaners = 0
    /\ cleaning = "no"
    /\ cleanups = 0

-----------------------------------------------------------------------------
\* notify_one: one of the waiting workers, if any, is woken.
NotifyOne(ws) ==
    LET waiting == {w \in Workers : ws[w] = "wait"} IN
    \/ waiting = {} /\ worker' = ws
    \/ \E w \in waiting : worker' = [ws EXCEPT ![w] = "woken"]

\* Mutant: no worker is notified.
PoolScheduleUnnotified(t, ws) == pool' = pool \cup {t} /\ worker' = ws

\* ThreadPool::schedule: the task is queued and a worker notified.
PoolSchedule(t, ws) == pool' = pool \cup {t} /\ NotifyOne(ws)

\* Processor::enqueue: the first task goes to the pool, the others wait.
Enqueue(p) ==
    /\ given[p] < MaxTasks[p]
    /\ given' = [given EXCEPT ![p] = @ + 1]
    /\ \/ /\ ~pending[p]
          /\ PoolSchedule(Task(p, given'[p]), worker)
          /\ pending' = [pending EXCEPT ![p] = TRUE]
          /\ UNCHANGED queue
       \/ /\ pending[p]
          /\ queue' = [queue EXCEPT ![p] = Append(@, Task(p, given'[p]))]
          /\ UNCHANGED <<pool, worker, pending>>

\* A task of p exists: queued, in the pool, or not yet destroyed by its worker.
HasTask(p, tk) ==
    \/ queue[p] # <<>>
    \/ \E n \in 1 .. MaxTasks[p] : Task(p, n) \in pool
    \/ \E w \in Workers, n \in 1 .. MaxTasks[p] : tk[w] = Task(p, n)

\* Init::mMutex is free: doCleanup holds it while it joins the pool.
InitUnlocked == cleaning = "no"

\* Init::token and, for a new payload, doInit: the workers are spawned.
Token ==
    /\ InitUnlocked
    /\ \/ payload /\ UNCHANGED <<initVars, worker>>
       \/ /\ ~payload
          /\ payload' = TRUE /\ global' = TRUE
          /\ initialized' = TRUE
          /\ worker' = IF initialized THEN worker ELSE [w \in Workers |-> "check"]
          /\ UNCHANGED <<cleaners, cleaning, cleanups>>

\* A PeerConnection is constructed, taking a token.
Construct(o) ==
    /\ life[o] = "none"
    /\ life' = [life EXCEPT ![o] = "held"]
    /\ Token
    /\ UNCHANGED <<procVars, histVars, pool, timer, task, joining>>

\* The application, or a library thread that holds the object, gives a task to
\* its processor.
EnqueueTask(o) ==
    /\ life[o] = "held"
    /\ Enqueue(o)
    /\ UNCHANGED <<life, histVars, timer, task, joining, initVars>>

\* closeTransports: the transports are given to the TearDownProcessor, with a
\* token, by a live object.
EnqueueTearDown(o) ==
    /\ life[o] = "held"
    /\ InitUnlocked /\ payload
    /\ Enqueue(TearDown)
    /\ UNCHANGED <<life, histVars, timer, task, joining, initVars>>

\* A delayed task bound to a weak pointer, such as a timeout.
SetTimer(o) ==
    /\ life[o] = "held"
    /\ timer = "none"
    /\ timer' = "set"
    /\ PoolSchedule(Timer, worker)
    /\ UNCHANGED <<life, procVars, histVars, task, joining, initVars>>

\* Its time comes; a worker in wait_until for it wakes up.
Elapse ==
    /\ timer = "set"
    /\ timer' = "due"
    /\ NotifyOne(worker)
    /\ UNCHANGED <<life, procVars, histVars, pool, task, joining, initVars>>

\* ~TokenPayload, when nothing holds it any more, starts the cleanup thread.
ReleaseToken(lf, g, td) ==
    IF payload /\ ~g /\ ~td /\ \A o \in Objects : lf[o] \notin {"held", "dropped"}
    THEN payload' = FALSE /\ cleaners' = cleaners + 1
    ELSE UNCHANGED <<payload, cleaners>>

\* The last reference to a dropped object is gone: its destructor joins its
\* processor and gives the token back.
Released(o, has) == IF life[o] = "dropped" /\ ~has THEN "dead" ELSE life[o]

\* Mutant: the tasks are bound to this, not to shared_from_this().
DropWithTasks(o) ==
    /\ life[o] = "held"
    /\ life' = [life EXCEPT ![o] = "dead"]
    /\ ReleaseToken(life', global, HasTask(TearDown, task))
    /\ UNCHANGED <<procVars, histVars, pool, timer, worker, task, joining,
                   initialized, global, cleaning, cleanups>>

\* The application drops its reference.
Drop(o) ==
    /\ life[o] = "held"
    /\ life' = [life EXCEPT ![o] = IF HasTask(o, task) THEN "dropped" ELSE "dead"]
    /\ ReleaseToken(life', global, HasTask(TearDown, task))
    /\ UNCHANGED <<procVars, histVars, pool, timer, worker, task, joining,
                   initialized, global, cleaning, cleanups>>

\* Cleanup(): mGlobal.reset()
Cleanup ==
    /\ InitUnlocked
    /\ cleanups < MaxCleanup
    /\ cleanups' = cleanups + 1
    /\ global' = FALSE
    /\ ReleaseToken(life, FALSE, HasTask(TearDown, task))
    /\ UNCHANGED <<life, procVars, histVars, pool, timer, worker, task, joining,
                   initialized, cleaning>>

-----------------------------------------------------------------------------
\* The tasks a worker may take: of the timer, only when it is due.
Due == IF timer = "due" THEN pool ELSE pool \ {Timer}

Begin(t) ==
    IF t = Timer THEN UNCHANGED started
    ELSE started' = [started EXCEPT ![t[1]] = Append(@, t[2])]

\* ThreadPool::dequeue: a worker leaves when the pool joins, takes a due task,
\* or waits, and while it waits it is not counted in mBusyWorkers.
Dequeue(w) ==
    /\ worker[w] \in {"check", "woken"}
    /\ \/ /\ joining
          /\ worker' = [worker EXCEPT ![w] = "exit"]
          /\ UNCHANGED <<pool, timer, task, started>>
       \/ /\ ~joining
          /\ \E t \in Due :
                /\ pool' = pool \ {t}
                /\ timer' = IF t = Timer THEN "over" ELSE timer
                /\ task' = [task EXCEPT ![w] = t]
                /\ Begin(t)
          /\ worker' = [worker EXCEPT ![w] = "run"]
       \/ /\ ~joining /\ Due = {}
          /\ worker' = [worker EXCEPT ![w] = "wait"]
          /\ UNCHANGED <<pool, timer, task, started>>
    /\ UNCHANGED <<life, procVars, ended, joining, initVars>>

\* Mutant: the processor forgets that a task of its is in the pool.
ScheduleNotPending(w) ==
    LET p == task[w][1] IN
    /\ worker[w] = "run" /\ task[w] # Timer
    /\ ended' = [ended EXCEPT ![p] = @ + 1]
    /\ pending' = [pending EXCEPT ![p] = FALSE]
    /\ IF queue[p] # <<>>
       THEN /\ queue' = [queue EXCEPT ![p] = Tail(@)]
            /\ PoolSchedule(Head(queue[p]), [worker EXCEPT ![w] = "ran"])
       ELSE worker' = [worker EXCEPT ![w] = "ran"] /\ UNCHANGED <<queue, pool>>
    /\ UNCHANGED <<life, given, started, timer, task, joining, initVars>>

\* The task's function has returned: Processor::schedule, its scope guard,
\* hands the next one to the pool.
Schedule(w) ==
    LET p == task[w][1] IN
    /\ worker[w] = "run" /\ task[w] # Timer
    /\ ended' = [ended EXCEPT ![p] = @ + 1]
    /\ \/ /\ queue[p] # <<>>
          /\ queue' = [queue EXCEPT ![p] = Tail(@)]
          /\ PoolSchedule(Head(queue[p]), [worker EXCEPT ![w] = "ran"])
          /\ UNCHANGED pending
       \/ /\ queue[p] = <<>>
          /\ pending' = [pending EXCEPT ![p] = FALSE]
          /\ worker' = [worker EXCEPT ![w] = "ran"]
          /\ UNCHANGED <<queue, pool>>
    /\ UNCHANGED <<life, given, started, timer, task, joining, initVars>>

TimerReturns(w) ==
    /\ worker[w] = "run" /\ task[w] = Timer
    /\ worker' = [worker EXCEPT ![w] = "ran"]
    /\ UNCHANGED <<life, procVars, histVars, pool, timer, task, joining, initVars>>

\* ThreadPool::runOne: the std::function is destroyed, and with it what the
\* task holds, possibly the last reference to its object.
Destroy(w) ==
    /\ worker[w] = "ran"
    /\ worker' = [worker EXCEPT ![w] = "check"]
    /\ task' = [task EXCEPT ![w] = Nothing]
    /\ life' = [o \in Objects |-> Released(o, HasTask(o, task'))]
    /\ ReleaseToken(life', global, HasTask(TearDown, task'))
    /\ UNCHANGED <<procVars, histVars, pool, timer, joining,
                   initialized, global, cleaning, cleanups>>

-----------------------------------------------------------------------------
Busy == {w \in Workers : worker[w] \in {"check", "run", "ran"}}

\* Init::doCleanup, on its own thread: nothing to do when a new payload has
\* come, or another thread has done it.
DoCleanup ==
    /\ InitUnlocked /\ cleaners > 0
    /\ cleaners' = cleaners - 1
    /\ \/ global /\ UNCHANGED <<initialized, cleaning>>
       \/ /\ ~global
          /\ initialized' = FALSE
          /\ cleaning' = IF initialized THEN "wait" ELSE "no"
    /\ UNCHANGED <<life, procVars, histVars, pool, timer, worker, task, joining,
                   payload, global, cleanups>>

\* Mutant: the waiting workers are not notified.
JoinUnnotified ==
    /\ cleaning = "wait" /\ Busy = {}
    /\ joining' = TRUE
    /\ cleaning' = "join"
    /\ UNCHANGED <<life, procVars, histVars, pool, timer, worker, task,
                   initialized, payload, global, cleaners, cleanups>>

\* ThreadPool::join waits for mBusyWorkers = 0 and tells the workers to leave.
Join ==
    /\ cleaning = "wait" /\ Busy = {}
    /\ joining' = TRUE
    /\ worker' = [w \in Workers |-> IF worker[w] = "wait" THEN "woken" ELSE worker[w]]
    /\ cleaning' = "join"
    /\ UNCHANGED <<life, procVars, histVars, pool, timer, task,
                   initialized, payload, global, cleaners, cleanups>>

\* The workers have left; ThreadPool::clear drops what is queued.
Clear ==
    /\ cleaning = "join" /\ \A w \in Workers : worker[w] = "exit"
    /\ pool' = {}
    /\ joining' = FALSE
    /\ worker' = [w \in Workers |-> "none"]
    /\ cleaning' = "no"
    /\ UNCHANGED <<life, procVars, histVars, timer, task,
                   initialized, payload, global, cleaners, cleanups>>

-----------------------------------------------------------------------------
Work(w) == Dequeue(w) \/ Schedule(w) \/ TimerReturns(w) \/ Destroy(w)
CleanupThread == DoCleanup \/ Join \/ Clear

Next ==
    \/ \E o \in Objects : Construct(o) \/ EnqueueTask(o) \/ EnqueueTearDown(o)
                          \/ SetTimer(o) \/ Drop(o)
    \/ Elapse \/ Cleanup
    \/ \E w \in Workers : Work(w)
    \/ CleanupThread

Spec == Init /\ [][Next]_vars

\* Threads that can run do run. A task returns; nobody is obliged to enqueue,
\* to drop an object or to call Cleanup.
Fairness ==
    /\ \A w \in Workers : WF_vars(Work(w))
    /\ WF_vars(CleanupThread)

FairSpec == Spec /\ Fairness
-----------------------------------------------------------------------------
\* Processors hand tasks to a pool of several threads, yet the tasks of each
\* run one at a time and in order: processors and pool implement the serial
\* executor, through a cleanup and a new start as well.
Executor == INSTANCE SerialExecutor
RunsSerially == Executor!Spec

\* Both kinds of join find nothing left. A destructor joins its processor, often
\* on a worker that has just run the last task of that processor: it must be
\* idle, or the worker waits for itself ("if we are here, the processor must be
\* empty"). And ThreadPool::join, which does not look at mTasks, drops no task
\* of a processor: the tokens the tasks hold keep it from being called.
JoinFindsIdle ==
    /\ \A o \in Objects : life[o] = "dead" => ~pending[o] /\ queue[o] = <<>>
    /\ cleaning = "join" => pool \subseteq {Timer}

\* Every task is run, whatever wakes or fails to wake the workers.
GivenIsRun ==
    \A p \in Processors : \A n \in 1 .. MaxTasks[p] :
        given[p] >= n ~> ended[p] >= n

\* Once Cleanup() has been called and the objects are dropped, the pool is
\* stopped: the future that rtcCleanup waits for becomes ready.
CleanupEnds ==
    (~global /\ initialized /\ \A o \in Objects : life[o] \in {"dropped", "dead"})
        ~> ~initialized /\ cleaning = "no"
=============================================================================
