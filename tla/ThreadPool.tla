------------------------------ MODULE ThreadPool ------------------------------
(***************************************************************************)
(* The two thread pools behind the ThreadPool interface.  Both share the   *)
(* queue and run() of BaseThreadPool.  BasicThreadPool starts its threads  *)
(* in its constructor; AutoThreadPool starts one main thread, which starts *)
(* a thread per task, up to a limit counted in mCurrentThreadNumber.       *)
(*                                                                         *)
(* A step is a critical section of mTasksMutex, or one of the things done  *)
(* outside: a call of notify_one, the end of a task, the decrement of the  *)
(* atomic counter.  wait(lock, predicate) is two steps when the predicate  *)
(* is false: the predicate is evaluated, and, with the mutex still held,   *)
(* the thread blocks; a notification in between wakes nobody.              *)
(***************************************************************************)
EXTENDS Integers, Sequences, FiniteSets

CONSTANTS
    Tasks,          \* the tasks given to run(), each at most once
    Threads,        \* the threads of the pool but the main one: mMaxThreadNumber of them
    Main,           \* AutoThreadPool::mainThread
    Nothing,        \* no task, nobody
    Kinds,          \* the pools considered: a subset of {"Basic", "Auto"}
    mMaxQueueSize   \* 0: no limit

ASSUME PoolAssumption ==
    /\ Main \notin Threads
    /\ Nothing \notin Tasks \cup Threads \cup {Main}
    /\ IsFiniteSet(Threads) /\ Threads # {}
    /\ Kinds \subseteq {"Basic", "Auto"}
    /\ mMaxQueueSize \in Nat

VARIABLES
    kind,                  \* the class of the pool
    mTasks,                \* the queue
    mState,                \* Running, Shutdown, Stopped
    mCurrentThreadNumber,  \* AutoThreadPool only
    holder,                \* who is about to block, holding mTasksMutex
    pc,                    \* where each thread is
    job,                   \* the task a thread executes
    stop,                  \* where the caller of stop() is
    calls,                 \* the notify_one() that run() is about to call
    exits,                 \* the notify_one() that ended threads are about to call
    accepted,              \* the tasks for which run() returned true
    late,                  \* those accepted once stop() had set Shutdown
    done                   \* the tasks executed

vars == <<kind, mTasks, mState, mCurrentThreadNumber, holder, pc, job, stop,
          calls, exits, accepted, late, done>>

Waiters == Threads \cup {Main}

mMaxThreadNumber == Cardinality(Threads)

Queued == {mTasks[i] : i \in DOMAIN mTasks}

Init ==
    /\ kind \in Kinds
    /\ mTasks = <<>>
    /\ mState = "Running"
    /\ mCurrentThreadNumber = 0
    /\ holder = Nothing
    /\ pc = [w \in Waiters |-> IF (kind = "Auto") <=> (w = Main) THEN "enter" ELSE "none"]
    /\ job = [w \in Threads |-> Nothing]
    /\ stop = "no"
    /\ calls = 0 /\ exits = 0
    /\ accepted = {} /\ late = {} /\ done = {}

Free == holder = Nothing

----------------------------------------------------------------------------
(* Waking up.  A thread that waits is at "wait", or at "drainwait" for the *)
(* second wait() of AutoThreadPool::_run; awake, it tests its predicate    *)
(* again.                                                                  *)

Blocked == {w \in Waiters : pc[w] \in {"wait", "drainwait"}}

Awake(s) == IF s = "wait" THEN "enter" ELSE "drain"

(* std::condition_variable::notify_one *)
NotifyOne ==
    \/ /\ Blocked = {}
       /\ pc' = pc
    \/ \E w \in Blocked : pc' = [pc EXCEPT ![w] = Awake(pc[w])]

NotifyAll ==
    pc' = [w \in Waiters |-> IF w \in Blocked THEN Awake(pc[w]) ELSE pc[w]]

(* wait() may return although nobody notified. *)
SpuriousWakeUp ==
    /\ \E w \in Blocked : pc' = [pc EXCEPT ![w] = Awake(pc[w])]
    /\ UNCHANGED <<kind, mTasks, mState, mCurrentThreadNumber, holder, job, stop, calls, exits, accepted, late, done>>

(* The predicate was false: the thread gives the mutex up and blocks. *)
Block(w) ==
    /\ holder = w
    /\ holder' = Nothing
    /\ pc' = [pc EXCEPT ![w] = IF @ = "block" THEN "wait" ELSE "drainwait"]
    /\ UNCHANGED <<kind, mTasks, mState, mCurrentThreadNumber, job, stop, calls, exits, accepted, late, done>>

----------------------------------------------------------------------------
(* The callers. *)

HasRoom == mMaxQueueSize = 0 \/ Len(mTasks) < mMaxQueueSize

(* BaseThreadPool::run: the critical section; notify_one comes after it.   *)
Run(t) ==
    /\ Free
    /\ t \notin accepted
    /\ HasRoom
    /\ mTasks' = Append(mTasks, t)
    /\ accepted' = accepted \cup {t}
    /\ late' = IF mState = "Running" THEN late ELSE late \cup {t}
    /\ calls' = calls + 1
    /\ UNCHANGED <<kind, mState, mCurrentThreadNumber, holder, pc, job, stop, exits, done>>

RunNotify ==
    /\ calls > 0
    /\ calls' = calls - 1
    /\ NotifyOne
    /\ UNCHANGED <<kind, mTasks, mState, mCurrentThreadNumber, holder, job, stop, exits, accepted, late, done>>

(* stop(): Shutdown under the mutex, ... *)
Stop ==
    /\ Free /\ stop = "no"
    /\ mState' = "Shutdown"
    /\ stop' = "notify"
    /\ UNCHANGED <<kind, mTasks, mCurrentThreadNumber, holder, pc, job, calls, exits, accepted, late, done>>

(* Mutation: stop() of the basic pool wakes one thread only. *)
MutStopNotify ==
    /\ stop = "notify"
    /\ stop' = "join"
    /\ NotifyOne
    /\ UNCHANGED <<kind, mTasks, mState, mCurrentThreadNumber, holder, job, calls, exits, accepted, late, done>>

(* ... then notify_all() or notify_one(), ... *)
StopNotify ==
    /\ stop = "notify"
    /\ stop' = "join"
    /\ IF kind = "Basic" THEN NotifyAll ELSE NotifyOne
    /\ UNCHANGED <<kind, mTasks, mState, mCurrentThreadNumber, holder, job, calls, exits, accepted, late, done>>

Joined == \A w \in IF kind = "Basic" THEN Threads ELSE {Main} : pc[w] = "gone"

(* ... then join() of the threads of the pool or of the main thread.       *)
StopJoin ==
    /\ stop = "join" /\ Joined
    /\ stop' = "returned"
    /\ mState' = "Stopped"
    /\ UNCHANGED <<kind, mTasks, mCurrentThreadNumber, holder, pc, job, calls, exits, accepted, late, done>>

----------------------------------------------------------------------------
(* BasicThreadPool::_run *)

BasicPredicate == mTasks # <<>> \/ mState = "Shutdown"

BasicRun(w) ==
    /\ kind = "Basic" /\ Free /\ pc[w] = "enter"
    /\ \/ /\ ~BasicPredicate
          /\ holder' = w
          /\ pc' = [pc EXCEPT ![w] = "block"]
          /\ UNCHANGED <<mTasks, job>>
       \/ /\ mTasks = <<>> /\ mState = "Shutdown"
          /\ pc' = [pc EXCEPT ![w] = "gone"]
          /\ UNCHANGED <<holder, mTasks, job>>
       \/ /\ mTasks # <<>>
          /\ job' = [job EXCEPT ![w] = Head(mTasks)]
          /\ mTasks' = Tail(mTasks)
          /\ pc' = [pc EXCEPT ![w] = "task"]
          /\ UNCHANGED holder
    /\ UNCHANGED <<kind, mState, mCurrentThreadNumber, stop, calls, exits, accepted, late, done>>

(* A task ends: a basic thread loops, a thread of AutoThreadPool looks for *)
(* more.                                                                   *)
TaskEnds(w) ==
    /\ pc[w] = "task"
    /\ done' = done \cup {job[w]}
    /\ job' = [job EXCEPT ![w] = Nothing]
    /\ pc' = [pc EXCEPT ![w] = IF kind = "Basic" THEN "enter" ELSE "more"]
    /\ UNCHANGED <<kind, mTasks, mState, mCurrentThreadNumber, holder, stop, calls, exits, accepted, late>>

----------------------------------------------------------------------------
(* AutoThreadPool::_run, the main thread. *)

AutoPredicate ==
    /\ mCurrentThreadNumber < mMaxThreadNumber
    /\ mTasks # <<>> \/ mState = "Shutdown"

(* When a thread cannot be created (system_error) the task stays in the    *)
(* queue and the main thread starts over after a pause: no step here.      *)
AutoRun ==
    /\ kind = "Auto" /\ Free /\ pc[Main] = "enter"
    /\ \/ /\ ~AutoPredicate
          /\ holder' = Main
          /\ pc' = [pc EXCEPT ![Main] = "block"]
          /\ UNCHANGED <<mTasks, job, mCurrentThreadNumber>>
       \/ /\ AutoPredicate /\ mTasks = <<>>
          /\ pc' = [pc EXCEPT ![Main] = "drain"]
          /\ UNCHANGED <<holder, mTasks, job, mCurrentThreadNumber>>
       \/ /\ AutoPredicate /\ mTasks # <<>>
          /\ \E w \in Threads :
                /\ pc[w] = "none"
                /\ pc' = [pc EXCEPT ![w] = "task"]
                /\ job' = [job EXCEPT ![w] = Head(mTasks)]
          /\ mCurrentThreadNumber' = mCurrentThreadNumber + 1
          /\ mTasks' = Tail(mTasks)
          /\ UNCHANGED holder
    /\ UNCHANGED <<kind, mState, stop, calls, exits, accepted, late, done>>

(* Mutation: the main thread does not wait for the others. *)
MutAutoDrain ==
    /\ Free /\ pc[Main] = "drain"
    /\ pc' = [pc EXCEPT ![Main] = "gone"]
    /\ UNCHANGED <<kind, mTasks, mState, mCurrentThreadNumber, holder, job, stop, calls, exits, accepted, late, done>>

(* wait(lock, mCurrentThreadNumber == 0), then return *)
AutoDrain ==
    /\ Free /\ pc[Main] = "drain"
    /\ IF mCurrentThreadNumber = 0
         THEN pc' = [pc EXCEPT ![Main] = "gone"] /\ holder' = holder
         ELSE pc' = [pc EXCEPT ![Main] = "drainblock"] /\ holder' = Main
    /\ UNCHANGED <<kind, mTasks, mState, mCurrentThreadNumber, job, stop, calls, exits, accepted, late, done>>

(* Mutation: the task taken is left in the queue. *)
MutSubThreadMore(w) ==
    /\ Free /\ pc[w] = "more"
    /\ IF mTasks = <<>>
         THEN /\ pc' = [pc EXCEPT ![w] = "leave"]
              /\ UNCHANGED job
         ELSE /\ pc' = [pc EXCEPT ![w] = "task"]
              /\ job' = [job EXCEPT ![w] = Head(mTasks)]
    /\ UNCHANGED <<kind, mTasks, mState, mCurrentThreadNumber, holder, stop, calls, exits, accepted, late, done>>

(* AutoThreadPool::_subThreadRun: one more task, if there is one.          *)
SubThreadMore(w) ==
    /\ Free /\ pc[w] = "more"
    /\ IF mTasks = <<>>
         THEN /\ pc' = [pc EXCEPT ![w] = "leave"]
              /\ UNCHANGED <<mTasks, job>>
         ELSE /\ pc' = [pc EXCEPT ![w] = "task"]
              /\ job' = [job EXCEPT ![w] = Head(mTasks)]
              /\ mTasks' = Tail(mTasks)
    /\ UNCHANGED <<kind, mState, mCurrentThreadNumber, holder, stop, calls, exits, accepted, late, done>>

(* Mutation: a thread that ends is not discounted. *)
MutSubThreadLeave(w) ==
    /\ pc[w] = "leave"
    /\ pc' = [pc EXCEPT ![w] = "none"]
    /\ exits' = exits + 1
    /\ UNCHANGED <<kind, mTasks, mState, mCurrentThreadNumber, holder, job, stop, calls, accepted, late, done>>

(* mCurrentThreadNumber--, without the mutex *)
SubThreadLeave(w) ==
    /\ pc[w] = "leave"
    /\ pc' = [pc EXCEPT ![w] = "none"]
    /\ mCurrentThreadNumber' = mCurrentThreadNumber - 1
    /\ exits' = exits + 1
    /\ UNCHANGED <<kind, mTasks, mState, holder, job, stop, calls, accepted, late, done>>

SubThreadNotify ==
    /\ exits > 0
    /\ exits' = exits - 1
    /\ NotifyOne
    /\ UNCHANGED <<kind, mTasks, mState, mCurrentThreadNumber, holder, job, stop, calls, accepted, late, done>>

----------------------------------------------------------------------------
Next ==
    \/ \E t \in Tasks : Run(t)
    \/ RunNotify \/ Stop \/ StopNotify \/ StopJoin
    \/ \E w \in Waiters : Block(w)
    \/ \E w \in Threads : BasicRun(w) \/ TaskEnds(w) \/ SubThreadMore(w) \/ SubThreadLeave(w)
    \/ AutoRun \/ AutoDrain \/ SubThreadNotify
    \/ SpuriousWakeUp

(* Threads run: tasks end, notifications that are about to be made are     *)
(* made, and whoever asks for the mutex gets it, however often others      *)
(* take it in between.                                                     *)
Fairness ==
    /\ WF_vars(RunNotify) /\ WF_vars(StopNotify) /\ WF_vars(StopJoin) /\ WF_vars(SubThreadNotify)
    /\ \A w \in Waiters : WF_vars(Block(w))
    /\ \A w \in Threads : WF_vars(TaskEnds(w)) /\ WF_vars(SubThreadLeave(w))
    /\ \A w \in Threads : SF_vars(BasicRun(w)) /\ SF_vars(SubThreadMore(w))
    /\ SF_vars(AutoRun) /\ SF_vars(AutoDrain)

Spec == Init /\ [][Next]_vars /\ Fairness

----------------------------------------------------------------------------
(* Properties. *)

Places == {"none", "enter", "block", "wait", "task", "more", "leave",
           "drain", "drainblock", "drainwait", "gone"}

TypeOK ==
    /\ kind \in {"Basic", "Auto"}
    /\ mTasks \in Seq(Tasks)
    /\ mState \in {"Running", "Shutdown", "Stopped"}
    /\ mCurrentThreadNumber \in 0..mMaxThreadNumber
    /\ holder \in Waiters \cup {Nothing}
    /\ pc \in [Waiters -> Places]
    /\ job \in [Threads -> Tasks \cup {Nothing}]
    /\ stop \in {"no", "notify", "join", "returned"}
    /\ calls \in Nat /\ exits \in Nat
    /\ late \subseteq accepted /\ accepted \subseteq Tasks /\ done \subseteq accepted

Running == {job[w] : w \in {v \in Threads : pc[v] = "task"}}

(* A task that run() accepted is executed once: it is in the queue, or in  *)
(* the hands of one thread, or executed.  The main thread and the threads  *)
(* of AutoThreadPool take tasks from the same queue.                       *)
RunsOnce ==
    /\ \A i, j \in DOMAIN mTasks : mTasks[i] = mTasks[j] => i = j
    /\ \A v, w \in Threads : pc[v] = "task" /\ pc[w] = "task" /\ job[v] = job[w] => v = w
    /\ accepted = Queued \cup Running \cup done
    /\ Queued \cap Running = {} /\ Queued \cap done = {} /\ Running \cap done = {}

(* mCurrentThreadNumber is the number of threads that may still take a     *)
(* task, although it is incremented under the mutex by one thread and      *)
(* decremented without it by others: the limit on threads holds.           *)
ThreadsCounted ==
    kind = "Auto" => mCurrentThreadNumber = Cardinality({w \in Threads : pc[w] # "none"})

(* When stop() returns, every task accepted before it was called has been  *)
(* executed and no thread executes anything any more (thread-pool.hh:      *)
(* "After calling this method, no more task will be executed").            *)
StopDrains ==
    mState = "Stopped" =>
        /\ accepted \ late \subseteq done
        /\ \A w \in Threads : pc[w] \in {"none", "gone"}

(* A task given to a BasicThreadPool before stop() is executed, and stop() *)
(* returns: no notification is lost between run(), stop() and the threads. *)
BasicDelivers ==
    kind = "Basic" =>
        /\ \A t \in Tasks : (t \in accepted \ late) ~> (t \in done)
        /\ (stop = "notify") ~> (mState = "Stopped")

(* The same of an AutoThreadPool (thread-pool.hh: "If no thread is         *)
(* available while this method is called, then the task is queued until a  *)
(* thread has completed its task").                                        *)
AutoDelivers ==
    kind = "Auto" => \A t \in Tasks : (t \in accepted \ late) ~> (t \in done)
=============================================================================
