--------------------------- MODULE ThreadPoolProofs ---------------------------
(***************************************************************************)
(* The safety of both thread pools, for any number of threads, any tasks   *)
(* and any queue size.  The invariant that the steps preserve adds to the  *)
(* properties of ThreadPool where the threads of each kind of pool may be, *)
(* and what is left in the queue once a thread has seen the shutdown.      *)
(***************************************************************************)
EXTENDS ThreadPool, FiniteSetTheorems, TLAPS

(* The fields, with the count of threads left to ThreadsCounted.           *)
Typed ==
    /\ kind \in {"Basic", "Auto"}
    /\ mTasks \in Seq(Tasks)
    /\ mState \in {"Running", "Shutdown", "Stopped"}
    /\ mCurrentThreadNumber \in Int
    /\ holder \in Waiters \cup {Nothing}
    /\ pc \in [Waiters -> Places]
    /\ job \in [Threads -> Tasks \cup {Nothing}]
    /\ stop \in {"no", "notify", "join", "returned"}
    /\ calls \in Nat /\ exits \in Nat
    /\ late \subseteq accepted /\ accepted \subseteq Tasks /\ done \subseteq accepted

(* Where the threads of a pool of each kind are; a thread with a task has  *)
(* one; who holds the mutex is about to block.                             *)
Placed ==
    /\ kind = "Basic" => /\ pc[Main] = "none"
                         /\ \A w \in Threads : pc[w] \in {"enter", "block", "wait", "task", "gone"}
                         /\ mCurrentThreadNumber = 0
    /\ kind = "Auto" => /\ pc[Main] \in Places \ {"none", "task", "more", "leave"}
                        /\ \A w \in Threads : pc[w] \in {"none", "task", "more", "leave"}
    /\ \A w \in Threads : pc[w] = "task" => job[w] \in Tasks
    /\ \A w \in Waiters : holder = w => pc[w] \in {"block", "drainblock"}

(* Once a thread has ended, or the main one has seen the shutdown, what is *)
(* in the queue came after stop(); an ended main thread left no thread.    *)
Draining ==
    /\ (stop = "no") <=> (mState = "Running")
    /\ (stop = "returned") <=> (mState = "Stopped")
    /\ mState = "Stopped" => Joined
    /\ \A w \in Waiters : pc[w] \in {"gone", "drain", "drainblock", "drainwait"} =>
          mState # "Running" /\ Queued \subseteq late
    /\ kind = "Auto" /\ pc[Main] = "gone" => \A w \in Threads : pc[w] = "none"

IInv == Typed /\ Placed /\ ThreadsCounted /\ RunsOnce /\ Draining

-----------------------------------------------------------------------------
Items(s) == {s[i] : i \in DOMAIN s}
Distinct(s) == \A i, j \in DOMAIN s : s[i] = s[j] => i = j

(* run() adds a task at the end of the queue.                              *)
LEMMA AppendItems ==
    ASSUME NEW S, NEW s \in Seq(S), NEW e \in S, e \notin Items(s), Distinct(s)
    PROVE  /\ Append(s, e) \in Seq(S)
           /\ Items(Append(s, e)) = Items(s) \cup {e}
           /\ Distinct(Append(s, e))
  <1>1. /\ Append(s, e) \in Seq(S)
        /\ Len(Append(s, e)) = Len(s) + 1 /\ Len(s) \in Nat
        /\ DOMAIN s = 1..Len(s) /\ DOMAIN Append(s, e) = 1..(Len(s) + 1)
        /\ Append(s, e)[Len(s) + 1] = e
    OBVIOUS
  <1>2. \A i \in 1..Len(s) : Append(s, e)[i] = s[i]
    OBVIOUS
  <1>3. \A i \in 1..(Len(s) + 1) : i \in 1..Len(s) \/ i = Len(s) + 1
    BY <1>1
  <1>4. Items(Append(s, e)) = Items(s) \cup {e}
    BY <1>1, <1>2, <1>3 DEF Items
  <1>5. Distinct(Append(s, e))
    BY <1>1, <1>2, <1>3 DEF Items, Distinct
  <1> QED BY <1>1, <1>4, <1>5

(* A thread takes the first task of the queue.                             *)
LEMMA TailItems ==
    ASSUME NEW S, NEW s \in Seq(S), s # <<>>, Distinct(s)
    PROVE  /\ Head(s) \in S /\ Tail(s) \in Seq(S)
           /\ Items(s) = Items(Tail(s)) \cup {Head(s)}
           /\ Head(s) \notin Items(Tail(s))
           /\ Distinct(Tail(s))
  <1>1. /\ Len(s) \in Nat \ {0} /\ DOMAIN s = 1..Len(s) /\ Tail(s) \in Seq(S)
        /\ DOMAIN Tail(s) = 1..(Len(s) - 1) /\ Head(s) = s[1] /\ s[1] \in S
    OBVIOUS
  <1>2. \A i \in 1..(Len(s) - 1) : Tail(s)[i] = s[i + 1]
    OBVIOUS
  <1>3. \A i \in 1..Len(s) : i = 1 \/ \E j \in 1..(Len(s) - 1) : i = j + 1
    <2> SUFFICES ASSUME NEW i \in 1..Len(s), i # 1 PROVE \E j \in 1..(Len(s) - 1) : i = j + 1
      OBVIOUS
    <2>1. i - 1 \in 1..(Len(s) - 1) /\ i = (i - 1) + 1
      BY <1>1
    <2> QED BY <2>1
  <1>4. \A j \in 1..(Len(s) - 1) : j + 1 \in 1..Len(s) /\ j + 1 # 1
    BY <1>1
  <1>5. Items(s) = Items(Tail(s)) \cup {Head(s)}
    <2>1. ASSUME NEW x \in Items(s) PROVE x \in Items(Tail(s)) \cup {Head(s)}
      <3>1. PICK i \in 1..Len(s) : x = s[i]
        BY <2>1, <1>1 DEF Items
      <3>2. CASE i = 1
        BY <3>1, <3>2, <1>1
      <3>3. CASE i # 1
        <4>1. PICK j \in 1..(Len(s) - 1) : i = j + 1
          BY <1>3, <3>3
        <4>2. x = Tail(s)[j] /\ j \in DOMAIN Tail(s)
          BY <3>1, <4>1, <1>1, <1>2
        <4> QED BY <4>2 DEF Items
      <3> QED BY <3>2, <3>3
    <2>2. ASSUME NEW x \in Items(Tail(s)) \cup {Head(s)} PROVE x \in Items(s)
      <3>1. CASE x = Head(s)
        <4>1. x = s[1] /\ 1 \in DOMAIN s
          BY <3>1, <1>1
        <4> QED BY <4>1 DEF Items
      <3>2. CASE x \in Items(Tail(s))
        <4>1. PICK j \in 1..(Len(s) - 1) : x = Tail(s)[j]
          BY <3>2, <1>1 DEF Items
        <4>2. x = s[j + 1] /\ j + 1 \in DOMAIN s
          BY <4>1, <1>1, <1>2, <1>4
        <4> QED BY <4>2 DEF Items
      <3> QED BY <2>2, <3>1, <3>2
    <2> QED BY <2>1, <2>2
  <1>6. Head(s) \notin Items(Tail(s))
    BY <1>1, <1>2, <1>4 DEF Items, Distinct
  <1>7. Distinct(Tail(s))
    <2> SUFFICES ASSUME NEW i \in 1..(Len(s) - 1), NEW j \in 1..(Len(s) - 1), Tail(s)[i] = Tail(s)[j]
                 PROVE  i = j
      BY <1>1 DEF Distinct
    <2>1. i + 1 = j + 1
      BY <1>1, <1>2, <1>4 DEF Distinct
    <2> QED BY <2>1
  <1> QED BY <1>1, <1>5, <1>6, <1>7

(* The properties of ThreadPool in these words.                            *)
LEMMA InTheseWords ==
    /\ Queued = Items(mTasks)
    /\ RunsOnce => Distinct(mTasks)
  BY DEF Queued, Items, RunsOnce, Distinct

-----------------------------------------------------------------------------
(* What a notification does to the threads: some that wait are awake.      *)
WakesUp ==
    /\ pc' \in [Waiters -> Places]
    /\ \A w \in Waiters : \/ pc'[w] = pc[w]
                          \/ pc[w] = "wait" /\ pc'[w] = "enter"
                          \/ pc[w] = "drainwait" /\ pc'[w] = "drain"

Notifies ==
    /\ \/ NotifyOne \/ NotifyAll
       \/ \E w \in Blocked : pc' = [pc EXCEPT ![w] = Awake(pc[w])]
    /\ UNCHANGED <<kind, mTasks, mCurrentThreadNumber, holder, job, accepted, late, done>>

(* notify_one, notify_all and spurious wake-ups.                           *)
LEMMA NotifiesWakesUp ==
    ASSUME Typed, Notifies PROVE WakesUp
  <1>1. CASE \E w \in Blocked : pc' = [pc EXCEPT ![w] = Awake(pc[w])]
    BY <1>1 DEF Typed, WakesUp, Blocked, Awake, Places
  <1>2. CASE NotifyOne
    BY <1>1, <1>2 DEF NotifyOne, Typed, WakesUp
  <1>3. CASE NotifyAll
    BY <1>3 DEF NotifyAll, Typed, WakesUp, Blocked, Awake, Places
  <1> QED BY <1>1, <1>2, <1>3 DEF Notifies

(* The steps that only notify.                                             *)
LEMMA NotifyingSteps ==
    ASSUME RunNotify \/ StopNotify \/ SubThreadNotify \/ SpuriousWakeUp PROVE Notifies
  BY DEF RunNotify, StopNotify, SubThreadNotify, SpuriousWakeUp, Notifies

-----------------------------------------------------------------------------
(* The fields keep their types.                                            *)
LEMMA TypedStep ==
    ASSUME Typed, Placed, RunsOnce, Next PROVE Typed'
  <1> USE DEF Typed
  <1>1. ASSUME NEW t \in Tasks, Run(t) PROVE Typed'
    BY <1>1 DEF Run
  <1>2. CASE RunNotify \/ StopNotify \/ SubThreadNotify \/ SpuriousWakeUp
    <2>1. pc' \in [Waiters -> Places]
      BY <1>2, NotifyingSteps, NotifiesWakesUp DEF WakesUp
    <2> QED BY <1>2, <2>1 DEF RunNotify, StopNotify, SubThreadNotify, SpuriousWakeUp
  <1>3. CASE Stop \/ StopJoin
    BY <1>3 DEF Stop, StopJoin
  <1>4. ASSUME NEW w \in Waiters, Block(w) PROVE Typed'
    BY <1>4 DEF Block, Places
  <1>5. ASSUME NEW w \in Threads, BasicRun(w) PROVE Typed'
    <2>1. mTasks # <<>> => Head(mTasks) \in Tasks /\ Tail(mTasks) \in Seq(Tasks)
      OBVIOUS
    <2> QED BY <1>5, <2>1 DEF BasicRun, Places, Waiters
  <1>6. ASSUME NEW w \in Threads, TaskEnds(w) PROVE Typed'
    <2>1. job[w] \in accepted
      BY <1>6 DEF TaskEnds, RunsOnce, Running
    <2> QED BY <1>6, <2>1 DEF TaskEnds, Places, Waiters
  <1>7. ASSUME NEW w \in Threads, SubThreadMore(w) PROVE Typed'
    <2>1. mTasks # <<>> => Head(mTasks) \in Tasks /\ Tail(mTasks) \in Seq(Tasks)
      OBVIOUS
    <2> QED BY <1>7, <2>1 DEF SubThreadMore, Places, Waiters
  <1>8. ASSUME NEW w \in Threads, SubThreadLeave(w) PROVE Typed'
    BY <1>8 DEF SubThreadLeave, Places, Waiters
  <1>9. CASE AutoRun
    <2>1. mTasks # <<>> => Head(mTasks) \in Tasks /\ Tail(mTasks) \in Seq(Tasks)
      OBVIOUS
    <2>2. CASE AutoPredicate /\ mTasks # <<>>
      <3>1. pc' \in [Waiters -> Places]
        BY <1>9, <2>2 DEF AutoRun, Places, Waiters
      <3>2. job' \in [Threads -> Tasks \cup {Nothing}] /\ mTasks' \in Seq(Tasks)
        BY <1>9, <2>1, <2>2 DEF AutoRun
      <3>3. mCurrentThreadNumber' \in Int
        BY <1>9, <2>2 DEF AutoRun
      <3> QED BY <1>9, <2>2, <3>1, <3>2, <3>3 DEF AutoRun
    <2>3. CASE ~(AutoPredicate /\ mTasks # <<>>)
      <3>1. pc' \in [Waiters -> Places] /\ holder' \in Waiters \cup {Nothing}
        BY <1>9, <2>3 DEF AutoRun, Places, Waiters
      <3> QED BY <1>9, <2>3, <3>1 DEF AutoRun
    <2> QED BY <2>2, <2>3
  <1>10. CASE AutoDrain
    BY <1>10 DEF AutoDrain, Places, Waiters
  <1> QED BY <1>1, <1>2, <1>3, <1>4, <1>5, <1>6, <1>7, <1>8, <1>9, <1>10 DEF Next

(* The threads of a pool stay where threads of its kind may be.            *)
LEMMA PlacedStep ==
    ASSUME Typed, Placed, Next PROVE Placed'
  <1> USE PoolAssumption DEF Placed, Waiters, Places
  <1>1. ASSUME NEW t \in Tasks, Run(t) PROVE Placed'
    BY <1>1 DEF Run
  <1>2. CASE RunNotify \/ StopNotify \/ SubThreadNotify \/ SpuriousWakeUp
    BY <1>2, NotifyingSteps, NotifiesWakesUp DEF WakesUp, Notifies
  <1>3. CASE Stop \/ StopJoin
    BY <1>3 DEF Stop, StopJoin
  <1>4. ASSUME NEW w \in Waiters, Block(w) PROVE Placed'
    BY <1>4 DEF Block, Typed
  <1>5. ASSUME NEW w \in Threads, BasicRun(w) PROVE Placed'
    BY <1>5 DEF BasicRun, Typed
  <1>6. ASSUME NEW w \in Threads, TaskEnds(w) PROVE Placed'
    BY <1>6 DEF TaskEnds, Typed
  <1>7. ASSUME NEW w \in Threads, SubThreadMore(w) PROVE Placed'
    BY <1>7 DEF SubThreadMore, Typed
  <1>8. ASSUME NEW w \in Threads, SubThreadLeave(w) PROVE Placed'
    BY <1>8 DEF SubThreadLeave, Typed
  <1>9. CASE AutoRun
    BY <1>9 DEF AutoRun, Typed
  <1>10. CASE AutoDrain
    BY <1>10 DEF AutoDrain, Typed
  <1> QED BY <1>1, <1>2, <1>3, <1>4, <1>5, <1>6, <1>7, <1>8, <1>9, <1>10 DEF Next

-----------------------------------------------------------------------------
Counted == {w \in Threads : pc[w] # "none"}

(* mCurrentThreadNumber follows the threads that are started and end.      *)
LEMMA ThreadsCountedStep ==
    ASSUME Typed, Placed, ThreadsCounted, Next PROVE ThreadsCounted'
  <1> USE PoolAssumption DEF Waiters
  <1>1. IsFiniteSet(Counted)
    BY FS_Subset DEF Counted
  <1>2. ASSUME NEW w \in Threads, SubThreadLeave(w) PROVE ThreadsCounted'
    <2>1. w \in Counted /\ Counted' = Counted \ {w}
      BY <1>2 DEF SubThreadLeave, Counted, Typed
    <2>2. Cardinality(Counted') = Cardinality(Counted) - 1
      BY <1>1, <2>1, FS_RemoveElement
    <2> QED BY <1>2, <2>2 DEF SubThreadLeave, ThreadsCounted, Counted
  <1>3. CASE AutoRun /\ mTasks # <<>> /\ AutoPredicate
    <2>1. PICK w \in Threads : pc[w] = "none" /\ pc' = [pc EXCEPT ![w] = "task"]
      BY <1>3 DEF AutoRun
    <2>2. w \notin Counted /\ Counted' = Counted \cup {w}
      BY <2>1 DEF Counted, Typed
    <2>3. Cardinality(Counted') = Cardinality(Counted) + 1
      BY <1>1, <2>2, FS_AddElement
    <2>4. kind' = kind /\ mCurrentThreadNumber' = mCurrentThreadNumber + 1
      BY <1>3 DEF AutoRun
    <2> QED BY <2>3, <2>4 DEF ThreadsCounted, Counted
  <1>4. CASE ~(\E w \in Threads : SubThreadLeave(w)) /\ ~(AutoRun /\ mTasks # <<>> /\ AutoPredicate)
    <2>1. kind' = kind /\ mCurrentThreadNumber' = mCurrentThreadNumber
      BY <1>4 DEF Next, Run, RunNotify, Stop, StopNotify, StopJoin, Block, BasicRun, TaskEnds,
                  SubThreadMore, AutoRun, AutoDrain, SubThreadNotify, SpuriousWakeUp
    <2>2. kind = "Auto" => Counted' = Counted
      <3>1. CASE RunNotify \/ StopNotify \/ SubThreadNotify \/ SpuriousWakeUp
        BY <3>1, NotifyingSteps, NotifiesWakesUp DEF WakesUp, Counted
      <3>2. CASE ~(RunNotify \/ StopNotify \/ SubThreadNotify \/ SpuriousWakeUp)
        <4> SUFFICES ASSUME kind = "Auto" PROVE Counted' = Counted
          OBVIOUS
        <4>1. CASE (\E t \in Tasks : Run(t)) \/ Stop \/ StopJoin
          BY <4>1 DEF Run, Stop, StopJoin, Counted
        <4>2. ASSUME NEW w \in Waiters, Block(w) PROVE Counted' = Counted
          BY <4>2 DEF Block, Counted, Typed, Placed
        <4>3. ASSUME NEW w \in Threads, BasicRun(w) PROVE FALSE
          BY <4>3 DEF BasicRun
        <4>4. ASSUME NEW w \in Threads, TaskEnds(w) PROVE Counted' = Counted
          BY <4>4 DEF TaskEnds, Counted, Typed
        <4>5. ASSUME NEW w \in Threads, SubThreadMore(w) PROVE Counted' = Counted
          BY <4>5 DEF SubThreadMore, Counted, Typed
        <4>6. CASE AutoRun
          BY <1>4, <4>6 DEF AutoRun, Counted, Typed
        <4>7. CASE AutoDrain
          BY <4>7 DEF AutoDrain, Counted, Typed
        <4> QED BY <1>4, <3>2, <4>1, <4>2, <4>3, <4>4, <4>5, <4>6, <4>7 DEF Next
      <3> QED BY <3>1, <3>2
    <2> QED BY <2>1, <2>2 DEF ThreadsCounted, Counted
  <1> QED BY <1>2, <1>3, <1>4

-----------------------------------------------------------------------------
Busy == {v \in Threads : pc[v] = "task"}

(* A thread takes the first task, under the mutex.                         *)
Takes(w) ==
    /\ pc[w] # "task" /\ mTasks # <<>>
    /\ job' = [job EXCEPT ![w] = Head(mTasks)]
    /\ mTasks' = Tail(mTasks)
    /\ pc' = [pc EXCEPT ![w] = "task"]
    /\ UNCHANGED <<accepted, done>>

(* Taking a task keeps every task in one place.                            *)
LEMMA TakesRunsOnce ==
    ASSUME Typed, RunsOnce, NEW w \in Threads, Takes(w) PROVE RunsOnce'
  <1> DEFINE h == Head(mTasks)
  <1>1. /\ Items(mTasks) = Items(mTasks') \cup {h} /\ h \notin Items(mTasks')
        /\ Distinct(mTasks')
    BY InTheseWords, TailItems DEF Takes, Typed
  <1>2. Busy' = Busy \cup {w} /\ w \notin Busy /\ job'[w] = h
        /\ \A v \in Busy : job'[v] = job[v]
    BY DEF Takes, Busy, Typed, Waiters
  <1>3. Running = {job[v] : v \in Busy} /\ Running' = {job'[v] : v \in Busy'}
    BY DEF Running, Busy
  <1>4. Running' = Running \cup {h}
    BY <1>2, <1>3
  <1>5. Queued = Items(mTasks) /\ Queued' = Items(mTasks')
    BY DEF Queued, Items
  <1>6. h \notin Running /\ h \notin done
    BY <1>1, <1>5 DEF RunsOnce
  <1>7. \A u, v \in Threads : pc'[u] = "task" /\ pc'[v] = "task" /\ job'[u] = job'[v] => u = v
    <2> SUFFICES ASSUME NEW u \in Busy', NEW v \in Busy', job'[u] = job'[v] PROVE u = v
      BY DEF Busy
    <2>1. \A x \in Busy : job'[x] # h
      BY <1>2, <1>3, <1>6
    <2> QED BY <1>2, <2>1 DEF RunsOnce, Busy
  <1> QED BY <1>1, <1>4, <1>5, <1>6, <1>7 DEF RunsOnce, Distinct, Takes

(* A step that touches neither the queue nor a task.                       *)
LEMMA OtherRunsOnce ==
    ASSUME RunsOnce, UNCHANGED <<mTasks, job, accepted, done>>, Busy' = Busy PROVE RunsOnce'
  BY DEF RunsOnce, Running, Busy, Queued

(* A task is in one place, whoever takes it.                               *)
LEMMA RunsOnceStep ==
    ASSUME Typed, Placed, RunsOnce, Next PROVE RunsOnce'
  <1> USE PoolAssumption DEF Waiters
  <1>1. ASSUME NEW t \in Tasks, Run(t) PROVE RunsOnce'
    <2>1. t \notin Queued /\ t \notin Running /\ t \notin done
      BY <1>1 DEF Run, RunsOnce
    <2>2. Queued' = Queued \cup {t} /\ Distinct(mTasks')
      BY <1>1, <2>1, InTheseWords, AppendItems DEF Run, Typed, Queued, Items
    <2>3. Running' = Running
      BY <1>1 DEF Run, Running
    <2> QED BY <1>1, <2>1, <2>2, <2>3 DEF Run, RunsOnce, Distinct
  <1>2. CASE RunNotify \/ StopNotify \/ SubThreadNotify \/ SpuriousWakeUp
    <2>1. UNCHANGED <<mTasks, job, accepted, done>> /\ Busy' = Busy
      BY <1>2, NotifyingSteps, NotifiesWakesUp DEF WakesUp, Notifies, Busy
    <2> QED BY <2>1, OtherRunsOnce
  <1>3. CASE Stop \/ StopJoin \/ AutoDrain
    BY <1>3, OtherRunsOnce DEF Stop, StopJoin, AutoDrain, Busy, Typed
  <1>4. ASSUME NEW w \in Waiters, Block(w) PROVE RunsOnce'
    BY <1>4, OtherRunsOnce DEF Block, Busy, Typed, Placed
  <1>5. ASSUME NEW w \in Threads, BasicRun(w) PROVE RunsOnce'
    <2>1. CASE mTasks # <<>>
      BY <1>5, <2>1, TakesRunsOnce DEF BasicRun, Takes, BasicPredicate
    <2>2. CASE mTasks = <<>>
      BY <1>5, <2>2, OtherRunsOnce DEF BasicRun, Busy, Typed
    <2> QED BY <2>1, <2>2
  <1>6. ASSUME NEW w \in Threads, TaskEnds(w) PROVE RunsOnce'
    <2>1. Busy' = Busy \ {w} /\ w \in Busy /\ \A v \in Busy' : job'[v] = job[v]
      BY <1>6 DEF TaskEnds, Busy, Typed
    <2>2. Running = {job[v] : v \in Busy} /\ Running' = {job'[v] : v \in Busy'}
      BY DEF Running, Busy
    <2>3. \A v \in Busy' : job[v] # job[w]
      BY <2>1 DEF RunsOnce, Busy
    <2>4. Running' = Running \ {job[w]} /\ job[w] \in Running
      BY <2>1, <2>2, <2>3
    <2>5. Queued' = Queued /\ mTasks' = mTasks /\ accepted' = accepted /\ done' = done \cup {job[w]}
      BY <1>6 DEF TaskEnds, Queued
    <2>6. \A u, v \in Threads : pc'[u] = "task" /\ pc'[v] = "task" /\ job'[u] = job'[v] => u = v
      BY <2>1 DEF RunsOnce, Busy
    <2> QED BY <2>4, <2>5, <2>6 DEF RunsOnce
  <1>7. ASSUME NEW w \in Threads, SubThreadMore(w) PROVE RunsOnce'
    <2>1. CASE mTasks # <<>>
      BY <1>7, <2>1, TakesRunsOnce DEF SubThreadMore, Takes
    <2>2. CASE mTasks = <<>>
      BY <1>7, <2>2, OtherRunsOnce DEF SubThreadMore, Busy, Typed
    <2> QED BY <2>1, <2>2
  <1>8. ASSUME NEW w \in Threads, SubThreadLeave(w) PROVE RunsOnce'
    BY <1>8, OtherRunsOnce DEF SubThreadLeave, Busy, Typed
  <1>9. CASE AutoRun
    <2>1. CASE mTasks # <<>> /\ AutoPredicate
      <3>1. PICK w \in Threads : /\ pc[w] = "none" /\ pc' = [pc EXCEPT ![w] = "task"]
                                 /\ job' = [job EXCEPT ![w] = Head(mTasks)]
        BY <1>9, <2>1 DEF AutoRun
      <3> QED BY <1>9, <2>1, <3>1, TakesRunsOnce DEF AutoRun, Takes
    <2>2. CASE ~(mTasks # <<>> /\ AutoPredicate)
      BY <1>9, <2>2, OtherRunsOnce DEF AutoRun, Busy, Typed
    <2> QED BY <2>1, <2>2
  <1> QED BY <1>1, <1>2, <1>3, <1>4, <1>5, <1>6, <1>7, <1>8, <1>9 DEF Next

-----------------------------------------------------------------------------
(* What a thread that is done, or the main one that has seen the shutdown, *)
(* knows of the queue stays true: the queue grows by late tasks only.      *)
LEMMA DrainingStep ==
    ASSUME Typed, Placed, ThreadsCounted, RunsOnce, Draining, Next PROVE Draining'
  <1> USE PoolAssumption DEF Waiters, Places
  <1>1. ASSUME NEW t \in Tasks, Run(t) PROVE Draining'
    <2>1. Queued' = Queued \cup {t}
      <3>1. t \notin Items(mTasks) /\ Distinct(mTasks)
        BY <1>1, InTheseWords DEF Run, RunsOnce
      <3> QED BY <1>1, <3>1, AppendItems DEF Run, Typed, Queued, Items
    <2>2. mState # "Running" => late' = late \cup {t}
      BY <1>1 DEF Run
    <2> QED BY <1>1, <2>1, <2>2 DEF Run, Draining, Joined
  <1>2. CASE RunNotify \/ StopNotify \/ SubThreadNotify \/ SpuriousWakeUp
    <2>1. WakesUp /\ Notifies
      BY <1>2, NotifyingSteps, NotifiesWakesUp
    <2>2. /\ mState' = mState /\ Queued' = Queued
          /\ (stop' = "no") <=> (stop = "no")
          /\ (stop' = "returned") <=> (stop = "returned")
      BY <1>2 DEF RunNotify, StopNotify, SubThreadNotify, SpuriousWakeUp, Queued
    <2> QED BY <2>1, <2>2 DEF Draining, WakesUp, Notifies, Joined
  <1>3. CASE Stop
    BY <1>3 DEF Stop, Draining, Queued
  <1>4. CASE StopJoin
    BY <1>4 DEF StopJoin, Draining, Queued, Joined
  <1>5. ASSUME NEW w \in Waiters, Block(w) PROVE Draining'
    BY <1>5 DEF Block, Draining, Queued, Joined, Typed, Placed
  <1>6. ASSUME NEW w \in Threads, BasicRun(w) PROVE Draining'
    <2>1. Queued' \subseteq Queued
      <3>1. CASE mTasks # <<>>
        BY <1>6, <3>1, TailItems, InTheseWords DEF BasicRun, BasicPredicate, Typed, Queued, Items
      <3>2. CASE mTasks = <<>>
        BY <1>6, <3>2 DEF BasicRun, Queued
      <3> QED BY <3>1, <3>2
    <2>2. mState # "Stopped"
      BY <1>6 DEF BasicRun, Draining, Joined
    <2>3. mTasks = <<>> => Queued = {}
      BY DEF Queued
    <2> QED BY <1>6, <2>1, <2>2, <2>3 DEF BasicRun, Draining, Typed, Placed
  <1>7. ASSUME NEW w \in Threads, TaskEnds(w) PROVE Draining'
    BY <1>7 DEF TaskEnds, Draining, Queued, Joined, Typed, Placed
  <1>8. ASSUME NEW w \in Threads, SubThreadMore(w) PROVE Draining'
    <2>1. Queued' \subseteq Queued
      <3>1. CASE mTasks # <<>>
        BY <1>8, <3>1, TailItems, InTheseWords DEF SubThreadMore, Typed, Queued, Items
      <3>2. CASE mTasks = <<>>
        BY <1>8, <3>2 DEF SubThreadMore, Queued
      <3> QED BY <3>1, <3>2
    <2> QED BY <1>8, <2>1 DEF SubThreadMore, Draining, Joined, Typed, Placed
  <1>9. ASSUME NEW w \in Threads, SubThreadLeave(w) PROVE Draining'
    BY <1>9 DEF SubThreadLeave, Draining, Queued, Joined, Typed, Placed
  <1>10. CASE AutoRun
    <2>1. CASE mTasks # <<>> /\ AutoPredicate
      <3>1. Queued' \subseteq Queued
        BY <1>10, <2>1, TailItems, InTheseWords DEF AutoRun, Typed, Queued, Items
      <3> QED BY <1>10, <2>1, <3>1 DEF AutoRun, Draining, Joined, Typed, Placed
    <2>2. CASE ~(mTasks # <<>> /\ AutoPredicate)
      <3>1. Queued' = Queued /\ (mTasks = <<>> => Queued = {})
        BY <1>10, <2>2 DEF AutoRun, Queued
      <3> QED BY <1>10, <2>2, <3>1 DEF AutoRun, AutoPredicate, Draining, Joined, Typed, Placed
    <2> QED BY <2>1, <2>2
  <1>11. CASE AutoDrain
    <2>1. IsFiniteSet(Counted)
      BY FS_Subset DEF Counted
    <2>2. kind = "Auto"
      BY <1>11 DEF AutoDrain, Typed, Placed
    <2>3. mCurrentThreadNumber = 0 => \A w \in Threads : pc[w] = "none"
      BY <2>1, <2>2, FS_EmptySet DEF ThreadsCounted, Counted
    <2>4. UNCHANGED <<kind, mState, stop, late, Queued>>
      BY <1>11 DEF AutoDrain, Queued
    <2>5. /\ \A w \in Threads : pc'[w] = pc[w]
          /\ pc[Main] = "drain" /\ pc'[Main] \in {"gone", "drainblock"}
          /\ pc'[Main] = "gone" => mCurrentThreadNumber = 0
      BY <1>11 DEF AutoDrain, Typed
    <2>6. mState' = "Stopped" => Joined'
      <3>1. mState # "Stopped"
        BY <2>2, <2>5 DEF Draining, Joined, Typed
      <3> QED BY <2>4, <3>1
    <2> QED BY <2>2, <2>3, <2>4, <2>5, <2>6 DEF Draining
  <1> QED BY <1>1, <1>2, <1>3, <1>4, <1>5, <1>6, <1>7, <1>8, <1>9, <1>10, <1>11 DEF Next

-----------------------------------------------------------------------------
(* The constructors establish the invariant.                               *)
LEMMA InitIInv == Init => IInv
  <1> SUFFICES ASSUME Init PROVE IInv
    OBVIOUS
  <1> USE PoolAssumption DEF Init, Waiters, Places
  <1>1. Typed /\ Placed
    BY DEF Typed, Placed
  <1>2. ThreadsCounted
    <2>1. kind = "Auto" => {w \in Threads : pc[w] # "none"} = {}
      OBVIOUS
    <2> QED BY <2>1, FS_EmptySet DEF ThreadsCounted
  <1>3. RunsOnce
    <2>1. DOMAIN mTasks = {}
      OBVIOUS
    <2>2. Queued = {}
      BY <2>1 DEF Queued
    <2>3. \A v \in Threads : pc[v] # "task"
      OBVIOUS
    <2>4. Running = {}
      BY <2>3 DEF Running
    <2> QED BY <2>1, <2>2, <2>3, <2>4 DEF RunsOnce
  <1>4. Draining
    BY DEF Draining
  <1> QED BY <1>1, <1>2, <1>3, <1>4 DEF IInv

(* A step of something else keeps it.                                      *)
LEMMA StutterIInv == IInv /\ UNCHANGED vars => IInv'
  <1> SUFFICES ASSUME IInv, UNCHANGED vars PROVE IInv'
    OBVIOUS
  <1>1. Typed'
    BY DEF IInv, vars, Typed
  <1>2. Placed'
    BY DEF IInv, vars, Placed
  <1>3. ThreadsCounted'
    BY DEF IInv, vars, ThreadsCounted
  <1>4. RunsOnce'
    BY DEF IInv, vars, RunsOnce, Queued, Running
  <1>5. Draining'
    BY DEF IInv, vars, Draining, Queued, Joined
  <1> QED BY <1>1, <1>2, <1>3, <1>4, <1>5 DEF IInv

(* The inductive invariant of both pools.                                  *)
THEOREM Invariance == Spec => []IInv
  <1>1. IInv /\ [Next]_vars => IInv'
    BY TypedStep, PlacedStep, ThreadsCountedStep, RunsOnceStep, DrainingStep, StutterIInv DEF IInv
  <1> QED BY InitIInv, <1>1, PTL DEF Spec

(* The types, the bound on the number of threads included.                 *)
THEOREM PoolTypes == Spec => []TypeOK
  <1>1. IInv => TypeOK
    <2> SUFFICES ASSUME IInv PROVE mCurrentThreadNumber \in 0..mMaxThreadNumber
      BY DEF IInv, Typed, TypeOK
    <2> USE PoolAssumption
    <2>1. CASE kind = "Basic"
      BY <2>1, FS_CardinalityType DEF IInv, Placed, mMaxThreadNumber
    <2>2. CASE kind = "Auto"
      <3>1. /\ Counted \subseteq Threads /\ IsFiniteSet(Counted)
            /\ Cardinality(Counted) <= Cardinality(Threads)
        BY FS_Subset DEF Counted
      <3>2. Cardinality(Counted) \in Nat /\ Cardinality(Threads) \in Nat
        BY <3>1, FS_CardinalityType
      <3> QED BY <2>2, <3>1, <3>2 DEF IInv, ThreadsCounted, Counted, mMaxThreadNumber
    <2> QED BY <2>1, <2>2 DEF IInv, Typed
  <1> QED BY <1>1, Invariance, PTL

(* run() and the threads of both pools: a task accepted is executed once.  *)
THEOREM TasksRunOnce == Spec => []RunsOnce
  BY Invariance, PTL DEF IInv

(* AutoThreadPool never has more threads at work than it counts.           *)
THEOREM CountIsExact == Spec => []ThreadsCounted
  BY Invariance, PTL DEF IInv

(* stop() returns with the accepted tasks executed and the threads ended.  *)
THEOREM StopIsComplete == Spec => []StopDrains
  <1>1. IInv => StopDrains
    <2> SUFFICES ASSUME IInv, mState = "Stopped"
                 PROVE  /\ accepted \ late \subseteq done
                        /\ \A w \in Threads : pc[w] \in {"none", "gone"}
      BY DEF StopDrains
    <2> USE PoolAssumption DEF IInv, Waiters
    <2>1. \A w \in Threads : pc[w] \in {"none", "gone"}
      BY DEF Draining, Joined, Typed
    <2>2. Queued \subseteq late
      BY DEF Draining, Joined, Typed
    <2>3. Running = {}
      BY <2>1 DEF Running
    <2> QED BY <2>1, <2>2, <2>3 DEF RunsOnce
  <1> QED BY <1>1, Invariance, PTL
=============================================================================
