----------------------- MODULE ForkMessageDbProxyProofs -----------------------
(***************************************************************************)
(* A message in the database always has somebody to delete it, for any     *)
(* number of devices, registrations, tasks and crashes, and whatever the   *)
(* inner fork does.  The invariant adds to RowsAreOwned that a proxy       *)
(* leaves the Router only when it is finished, and that nothing but a      *)
(* deletion is left to do for a proxy that is destroyed.                   *)
(***************************************************************************)
EXTENDS ForkMessageDbProxy, TLAPS

Fields == {"state", "currentVersion", "lastSavedVersion", "alreadyDelivered", "dbFork", "uuid",
           "finished", "timer", "parked", "life"}

Consistent(p) ==
    /\ p = [x \in Fields |-> p[x]]
    /\ p.uuid \in BOOLEAN /\ p.finished \in BOOLEAN
    /\ p.life \in {"registered", "released", "destroyed"}
    /\ p.life = "released" => p.finished

OnlyDeletes(js) == \A j \in BagToSet(js) : j.kind = "delete"

IInv ==
    /\ Consistent(proxy)
    /\ IsABag(jobs)
    /\ proxy.life = "destroyed" => restoring = None /\ OnlyDeletes(jobs)
    /\ RowsAreOwned

-----------------------------------------------------------------------------
(* A task is added, a task is done.                                        *)
LEMMA Added ==
    ASSUME NEW js, IsABag(js), NEW j
    PROVE  IsABag(js (+) SetToBag({j})) /\ BagToSet(js (+) SetToBag({j})) = BagToSet(js) \cup {j}
  BY DEF IsABag, SetToBag, BagToSet, (+)

(* A job that is done leaves the others.                                   *)
LEMMA Removed ==
    ASSUME NEW js, IsABag(js), NEW j
    PROVE  /\ IsABag(js (-) SetToBag({j}))
           /\ BagToSet(js (-) SetToBag({j})) \subseteq BagToSet(js)
           /\ BagToSet(js) \ {j} \subseteq BagToSet(js (-) SetToBag({j}))
  BY DEF IsABag, SetToBag, BagToSet, (-)

-----------------------------------------------------------------------------
(* What a proxy becomes in the handlers.                                   *)

(* onForkContextFinished leaves a proxy that owns its row, or deletes it.  *)
LEMMA FinishedConsistent ==
    ASSUME NEW p, Consistent(p)
    PROVE  /\ Consistent(OnForkContextFinished(p))
           /\ OnForkContextFinished(p).uuid = p.uuid
           /\ p.life # "destroyed" => OnForkContextFinished(p).life # "destroyed"
  <1> DEFINE q == OnForkContextFinished(p)
  <1>1. DOMAIN p = Fields
    BY DEF Consistent
  <1>2. DOMAIN q = Fields /\ q = [x \in Fields |-> q[x]]
    BY Zenon, <1>1 DEF OnForkContextFinished
  <1>3. q.finished = TRUE /\ q.uuid = p.uuid /\ q.life = IF p.life = "registered" THEN "released" ELSE p.life
    BY <1>1 DEF OnForkContextFinished, Fields
  <1> HIDE DEF q
  <1>4. Consistent(q) /\ q.uuid = p.uuid /\ (p.life # "destroyed" => q.life # "destroyed")
    BY Zenon, <1>2, <1>3 DEF Consistent
  <1> QED BY <1>4 DEF q

(* Handlers change the other fields at will.                               *)
Same(p, q) == q.uuid = p.uuid /\ q.finished = p.finished /\ q.life = p.life

(* A proxy whose owner and end are untouched stays consistent.             *)
LEMMA SameConsistent ==
    ASSUME NEW p, NEW q, Consistent(p), q = [x \in Fields |-> q[x]], Same(p, q)
    PROVE  Consistent(q)
  BY DEF Consistent, Same

(* The assignments of the handlers are such changes.                       *)
LEMMA FieldChanges ==
    ASSUME NEW p, Consistent(p), NEW v
    PROVE  /\ Consistent([p EXCEPT !.state = v]) /\ Same(p, [p EXCEPT !.state = v])
           /\ Consistent([p EXCEPT !.timer = v]) /\ Same(p, [p EXCEPT !.timer = v])
           /\ Consistent([p EXCEPT !.dbFork = v]) /\ Same(p, [p EXCEPT !.dbFork = v])
           /\ Consistent([p EXCEPT !.alreadyDelivered = v]) /\ Same(p, [p EXCEPT !.alreadyDelivered = v])
           /\ Consistent([p EXCEPT !.currentVersion = v]) /\ Same(p, [p EXCEPT !.currentVersion = v])
           /\ Consistent([p EXCEPT !.parked = v]) /\ Same(p, [p EXCEPT !.parked = v])
  <1>1. DOMAIN p = Fields
    BY DEF Consistent
  <1>2. ASSUME NEW x \in {"state", "timer", "dbFork", "alreadyDelivered", "currentVersion", "parked"}
        PROVE  Consistent([p EXCEPT ![x] = v]) /\ Same(p, [p EXCEPT ![x] = v])
    <2> DEFINE q == [p EXCEPT ![x] = v]
    <2>1. q = [y \in Fields |-> q[y]]
      BY Zenon, <1>1
    <2>2. Same(p, q)
      BY <1>1 DEF Fields, Same
    <2> HIDE DEF q
    <2>3. Consistent(q)
      BY <2>1, <2>2, SameConsistent
    <2> QED BY <2>2, <2>3 DEF q
  <1> QED BY Zenon, <1>2

(* clearMemoryIfPossible is one of them.                                   *)
LEMMA ClearedConsistent ==
    ASSUME NEW f, NEW p, Consistent(p)
    PROVE  Consistent(ClearedProxy(f, p)) /\ Same(p, ClearedProxy(f, p))
  <1>1. CASE Clears(f, p)
    <2> DEFINE q == [p EXCEPT !.state = "IN_DATABASE", !.timer = TRUE]
    <2>1. DOMAIN p = Fields
      BY DEF Consistent
    <2>2. q = [y \in Fields |-> q[y]]
      BY Zenon, <2>1
    <2>3. Same(p, q)
      BY <2>1 DEF Fields, Same
    <2> HIDE DEF q
    <2>4. Consistent(q)
      BY <2>2, <2>3, SameConsistent
    <2> QED BY <1>1, <2>3, <2>4 DEF q, ClearedProxy
  <1>2. CASE ~Clears(f, p)
    BY <1>2 DEF ClearedProxy, Same
  <1> QED BY <1>1, <1>2

(* The end of a handler: what is stored is owned still.                    *)
LEMMA BecomeKeeps ==
    ASSUME NEW f, NEW p, NEW js, NEW posted,
           Consistent(p), p.life # "destroyed", IsABag(js),
           db' # None => p.uuid \/ BagIn(DeleteJob, js),
           Become(f, p, js, posted)
    PROVE  IInv'
  <1>0. PICK gone \in BOOLEAN :
          /\ gone => p.life = "released" /\ ~Held(f, js, posted, restoring')
          /\ proxy' = IF gone THEN [p EXCEPT !.life = "destroyed"] ELSE p
          /\ jobs' = IF gone /\ p.uuid /\ p.finished THEN js (+) SetToBag({DeleteJob}) ELSE js
    BY Zenon DEF Become
  <1>1. CASE gone
    <2> DEFINE q == [p EXCEPT !.life = "destroyed"]
    <2>1. DOMAIN p = Fields /\ p.finished = TRUE
      BY <1>0, <1>1 DEF Consistent
    <2>2. proxy' = q /\ jobs' = IF p.uuid /\ p.finished THEN js (+) SetToBag({DeleteJob}) ELSE js
      BY <1>0, <1>1
    <2>3. q = [y \in Fields |-> q[y]]
      BY <2>1
    <2>4. q.life = "destroyed" /\ q.uuid = p.uuid /\ q.finished = p.finished
      BY <2>1 DEF Fields
    <2> HIDE DEF q
    <2>5. Consistent(q)
      BY <2>3, <2>4 DEF Consistent
    <2>6. restoring' = None /\ OnlyDeletes(js)
      BY <1>0, <1>1 DEF Held, OnlyDeletes
    <2>7. /\ IsABag(jobs') /\ OnlyDeletes(jobs')
          /\ p.uuid \/ BagIn(DeleteJob, js) => BagIn(DeleteJob, jobs')
      <3>1. CASE p.uuid
        <4>1. jobs' = js (+) SetToBag({DeleteJob})
          BY <2>1, <2>2, <3>1
        <4>2. IsABag(js (+) SetToBag({DeleteJob}))
              /\ BagToSet(js (+) SetToBag({DeleteJob})) = BagToSet(js) \cup {DeleteJob}
          BY Zenon, Added
        <4>3. DeleteJob.kind = "delete"
          BY DEF DeleteJob
        <4>4. IsABag(jobs') /\ BagToSet(jobs') = BagToSet(js) \cup {DeleteJob}
          BY <4>1, <4>2
        <4> QED BY <2>6, <4>3, <4>4 DEF OnlyDeletes, BagIn
      <3>2. CASE ~p.uuid
        BY <2>2, <2>6, <3>2
      <3> QED BY <3>1, <3>2
    <2>8. RowsAreOwned'
      BY <2>7 DEF RowsAreOwned, BagIn, BagToSet, DeleteJob
    <2> QED BY Zenon, <2>2, <2>5, <2>6, <2>7, <2>8
        DEF IInv, Consistent, IsABag, OnlyDeletes, BagToSet
  <1>2. CASE ~gone
    <2>1. proxy' = p /\ jobs' = js
      BY <1>0, <1>2
    <2>2. RowsAreOwned'
      BY <2>1 DEF RowsAreOwned, BagIn, BagToSet, DeleteJob
    <2> QED BY <2>1, <2>2 DEF IInv, Consistent, IsABag
  <1> QED BY <1>1, <1>2

(* ... for a handler that leaves the database alone and adds no task.      *)
LEMMA HandlerKeeps ==
    ASSUME IInv, proxy.life # "destroyed", db' = db,
           NEW f, NEW p, NEW posted,
           Consistent(p), p.life # "destroyed", p.uuid = proxy.uuid,
           Become(f, p, jobs, posted)
    PROVE  IInv'
  <1>1. IsABag(jobs) /\ (db' # None => p.uuid \/ BagIn(DeleteJob, jobs))
    BY DEF IInv, RowsAreOwned
  <1> QED BY <1>1, BecomeKeeps

(* onNewRegister of the restored fork, and what the proxy does after it.   *)
LEMMA InnerNewRegisterKeeps ==
    ASSUME IInv, proxy.life # "destroyed", db' = db,
           NEW f, NEW p, NEW c, NEW posted,
           Consistent(p), p.life # "destroyed", p.uuid = proxy.uuid,
           InnerNewRegister(f, p, c, posted)
    PROVE  IInv'
  <1>1. CASE Dispatch(f, c) = "DispatchNeeded"
    <2> DEFINE q == [p EXCEPT !.currentVersion = @ + 1]
    <2>1. Become(AddBranch(f, c, {}), q, jobs, posted)
      BY <1>1 DEF InnerNewRegister
    <2>2. Consistent(q) /\ Same(p, q)
      BY Zenon, FieldChanges
    <2> HIDE DEF q
    <2> QED BY <2>1, <2>2, HandlerKeeps DEF Same
  <1>2. CASE Dispatch(f, c) # "DispatchNeeded"
    <2> DEFINE r == ClearedProxy(f, p)
               q == [r EXCEPT !.alreadyDelivered =
                       IF Dispatch(f, c) = "PendingTransaction" THEN @ ELSE @ \cup {c.uid}]
    <2>1. Become(ClearedFork(f, p), q, jobs, posted)
      BY <1>2 DEF InnerNewRegister
    <2>2. Consistent(r) /\ Same(p, r)
      BY ClearedConsistent
    <2> HIDE DEF r
    <2>3. Consistent(q) /\ Same(r, q)
      BY Zenon, <2>2, FieldChanges
    <2> HIDE DEF q
    <2> QED BY <2>1, <2>2, <2>3, HandlerKeeps DEF Same
  <1> QED BY <1>1, <1>2

(* onNewRegister of the proxy: the fork is in memory, or is to be loaded.  *)
LEMMA OnNewRegisterKeeps ==
    ASSUME IInv, proxy.life # "destroyed", db' = db,
           NEW c, NEW posted, OnNewRegister(c, posted)
    PROVE  IInv'
  <1>0. Consistent(proxy) /\ IsABag(jobs) /\ (db' # None => proxy.uuid \/ BagIn(DeleteJob, jobs))
    BY DEF IInv, RowsAreOwned
  <1>1. ASSUME Become(fork, proxy, jobs, posted) PROVE IInv'
    BY <1>0, <1>1, HandlerKeeps
  <1>2. ASSUME BeginRestore(c, posted) PROVE IInv'
    <2> DEFINE r == [proxy EXCEPT !.dbFork = None]
               t == [r EXCEPT !.timer = FALSE]
               n == proxy.parked + Cardinality({b \in Branches : fork.br[b].out = "queued"})
               q == [t EXCEPT !.parked = n]
    <2>1. proxy' = q /\ jobs' = jobs
      <3> HIDE DEF n
      <3>1. proxy' = [proxy EXCEPT !.dbFork = None, !.timer = FALSE, !.parked = n] /\ jobs' = jobs
        BY Zenon, <1>2 DEF BeginRestore, n
      <3> QED BY <3>1
    <2>2. Consistent(r) /\ Same(proxy, r)
      BY Zenon, <1>0, FieldChanges
    <2> HIDE DEF r
    <2>3. Consistent(t) /\ Same(r, t)
      BY Zenon, <2>2, FieldChanges
    <2> HIDE DEF t, n
    <2>4. Consistent(q) /\ Same(t, q)
      BY Zenon, <2>3, FieldChanges
    <2> HIDE DEF q
    <2>5. Consistent(proxy') /\ proxy'.uuid = proxy.uuid /\ proxy'.life = proxy.life
      BY <2>1, <2>2, <2>3, <2>4 DEF Same
    <2>6. RowsAreOwned'
      BY <1>0, <2>1, <2>5 DEF RowsAreOwned, BagIn, BagToSet, DeleteJob
    <2> QED BY <1>0, <2>1, <2>5, <2>6 DEF IInv, Consistent, IsABag
  <1>3. ASSUME FailRestore(posted) PROVE IInv'
    <2> DEFINE r == [proxy EXCEPT !.state = "IN_DATABASE"]
               q == OnForkContextFinished(r)
    <2>1. Become(NoFork(fork), q, jobs, posted)
      BY <1>3 DEF FailRestore
    <2>2. Consistent(r) /\ Same(proxy, r)
      BY Zenon, <1>0, FieldChanges
    <2> HIDE DEF r
    <2>3. Consistent(q) /\ q.uuid = r.uuid /\ (r.life # "destroyed" => q.life # "destroyed")
      BY <2>2, FinishedConsistent
    <2> HIDE DEF q
    <2> QED BY <2>1, <2>2, <2>3, HandlerKeeps DEF Same
  <1>4. ASSUME Become(fork, proxy, jobs (+) SetToBag({LoadJob(c)}), posted) PROVE IInv'
    <2> DEFINE js == jobs (+) SetToBag({LoadJob(c)})
    <2>1. IsABag(js) /\ BagToSet(js) = BagToSet(jobs) \cup {LoadJob(c)}
      BY Zenon, <1>0, Added
    <2>2. Become(fork, proxy, js, posted)
      BY <1>4
    <2> HIDE DEF js
    <2>3. db' # None => proxy.uuid \/ BagIn(DeleteJob, js)
      BY <1>0, <2>1 DEF BagIn
    <2> QED BY <1>0, <2>1, <2>2, <2>3, BecomeKeeps
  <1>5. ASSUME InnerNewRegister(fork, proxy, c, posted) PROVE IInv'
    BY <1>0, <1>5, InnerNewRegisterKeeps
  <1> QED BY <1>1, <1>2, <1>3, <1>4, <1>5 DEF OnNewRegister

-----------------------------------------------------------------------------
(* A new message satisfies the invariant.                                  *)
LEMMA InitIInv == ProxyInit => IInv
  <1> SUFFICES ASSUME ProxyInit PROVE IInv
    OBVIOUS
  <1>1. proxy = NewProxy /\ db = None /\ jobs = EmptyBag
    BY DEF ProxyInit
  <1>2. Consistent(NewProxy) /\ NewProxy.life # "destroyed"
    BY Zenon DEF NewProxy, Consistent, Fields
  <1>3. IsABag(EmptyBag)
    BY DEF IsABag, EmptyBag, SetToBag
  <1> QED BY <1>1, <1>2, <1>3 DEF IInv, RowsAreOwned

(* The steps of the main loop.                                             *)
LEMMA LoopKeeps ==
    ASSUME IInv,
           \/ InnerStep \/ InnerFinished \/ ProxyLateTimer \/ EndRestore \/ RunPosted
           \/ \E b \in Branches, code \in ProvisionalCodes \cup FinalCodes : ProxyResponse(b, code)
           \/ (\E b \in Branches : Inject(b)) \/ InjectParked \/ AnnouncementsExpire
           \/ \E c \in LateContacts : RouterRegister(c)
    PROVE  IInv'
  <1>0. /\ Consistent(proxy) /\ IsABag(jobs)
        /\ proxy.life # "destroyed" /\ db # None => proxy.uuid \/ BagIn(DeleteJob, jobs)
    BY DEF IInv, RowsAreOwned
  <1>1. CASE InnerStep
    BY <1>1 DEF InnerStep, IInv, Consistent, IsABag, OnlyDeletes, BagToSet, RowsAreOwned, BagIn, DeleteJob
  <1>2. CASE InnerFinished
    <2> DEFINE q == OnForkContextFinished(proxy)
    <2>1. proxy.life # "destroyed" /\ db' = db /\ Become([fork EXCEPT !.finishTimer = FALSE], q, jobs, loop)
      BY <1>2 DEF InnerFinished, Idle
    <2>2. Consistent(q) /\ q.uuid = proxy.uuid /\ q.life # "destroyed"
      BY <1>0, <2>1, FinishedConsistent
    <2> HIDE DEF q
    <2> QED BY <2>1, <2>2, HandlerKeeps
  <1>3. CASE ProxyLateTimer
    <2> DEFINE r == [proxy EXCEPT !.timer = FALSE]
               q == OnForkContextFinished(r)
    <2>1. proxy.life # "destroyed" /\ db' = db /\ Become(fork, q, jobs, loop)
      BY <1>3 DEF ProxyLateTimer, Idle
    <2>2. Consistent(r) /\ Same(proxy, r)
      BY Zenon, <1>0, FieldChanges
    <2> HIDE DEF r
    <2>3. Consistent(q) /\ q.uuid = r.uuid /\ (r.life # "destroyed" => q.life # "destroyed")
      BY <2>2, FinishedConsistent
    <2> HIDE DEF q
    <2> QED BY <2>1, <2>2, <2>3, HandlerKeeps DEF Same
  <1>4. CASE EndRestore
    <2> DEFINE q == [proxy EXCEPT !.state = "IN_MEMORY"]
    <2>1. restoring # None /\ db' = db /\ InnerNewRegister(fork, q, restoring, loop)
      BY <1>4 DEF EndRestore
    <2>2. proxy.life # "destroyed"
      BY <2>1 DEF IInv
    <2>3. Consistent(q) /\ Same(proxy, q)
      BY Zenon, <1>0, FieldChanges
    <2> HIDE DEF q
    <2> QED BY <2>1, <2>2, <2>3, InnerNewRegisterKeeps DEF Same
  <1>5. CASE RunPosted
    <2>1. proxy.life # "destroyed" /\ db' = db
      BY <1>5 DEF RunPosted, Idle
    <2>2. CASE Become(ClearedFork(fork, proxy), ClearedProxy(fork, proxy), jobs, Tail(loop))
      BY <1>0, <2>1, <2>2, ClearedConsistent, HandlerKeeps DEF Same
    <2>3. CASE OnNewRegister(Head(loop).contact, Tail(loop))
      BY <2>1, <2>3, OnNewRegisterKeeps
    <2> QED BY <1>5, <2>2, <2>3 DEF RunPosted
  <1>6. ASSUME NEW b \in Branches, NEW code \in ProvisionalCodes \cup FinalCodes, ProxyResponse(b, code)
        PROVE  IInv'
    <2> DEFINE g == OnResponse(WithStatus(fork, b, code), b, code)
               j == SaveJob(GetDbObject(g), proxy.currentVersion)
    <2>1. /\ proxy.life # "destroyed" /\ proxy' = proxy /\ db' = db
          /\ jobs' = jobs (+) SetToBag({j}) \/ jobs' = jobs
      BY <1>6 DEF ProxyResponse, Idle
    <2> HIDE DEF j
    <2>2. IsABag(jobs') /\ BagToSet(jobs) \subseteq BagToSet(jobs')
      <3> DEFINE js == jobs (+) SetToBag({j})
      <3>1. IsABag(js) /\ BagToSet(js) = BagToSet(jobs) \cup {j}
        BY Zenon, <1>0, Added
      <3>2. jobs' = js \/ jobs' = jobs
        BY <2>1
      <3> HIDE DEF js
      <3> QED BY <1>0, <3>1, <3>2
    <2>3. RowsAreOwned'
      BY <1>0, <2>1, <2>2 DEF RowsAreOwned, BagIn, BagToSet, DeleteJob
    <2> QED BY <1>0, <2>1, <2>2, <2>3 DEF IInv, Consistent, IsABag
  <1>7. ASSUME NEW b \in Branches, Inject(b) PROVE IInv'
    <2>1. proxy.life # "destroyed" /\ db' = db
      BY <1>7 DEF Inject, Idle
    <2>2. PICK f : Become(f, proxy, jobs, loop)
      BY <1>7 DEF Inject
    <2> QED BY <1>0, <2>1, <2>2, HandlerKeeps
  <1>8. ASSUME NEW c \in LateContacts, RouterRegister(c) PROVE IInv'
    BY <1>8, OnNewRegisterKeeps DEF RouterRegister, Idle
  <1>9. CASE InjectParked
    <2> DEFINE q == [proxy EXCEPT !.parked = proxy.parked - 1]
    <2>1. proxy.life # "destroyed" /\ db' = db /\ Become(fork, q, jobs, loop)
      BY <1>9 DEF InjectParked, Idle
    <2>2. Consistent(q) /\ Same(proxy, q)
      BY Zenon, <1>0, FieldChanges
    <2> HIDE DEF q
    <2> QED BY <2>1, <2>2, HandlerKeeps DEF Same
  <1>10. CASE AnnouncementsExpire
    <2>1. proxy.life # "destroyed" /\ db' = db /\ Become(fork, proxy, jobs, loop)
      BY <1>10 DEF AnnouncementsExpire, Idle
    <2> QED BY <1>0, <2>1, HandlerKeeps
  <1> QED BY <1>1, <1>2, <1>3, <1>4, <1>5, <1>6, <1>7, <1>8, <1>9, <1>10

(* The tasks, and a crash.                                                 *)
LEMMA TasksKeep ==
    ASSUME IInv,
           \/ \E j \in BagToSet(jobs) : RunSave(j) \/ \E loaded \in BOOLEAN : RunLoad(j, loaded)
           \/ RunDelete
           \/ Crash
    PROVE  IInv'
  <1>0. /\ Consistent(proxy) /\ IsABag(jobs)
        /\ proxy.life # "destroyed" /\ db # None => proxy.uuid \/ BagIn(DeleteJob, jobs)
    BY DEF IInv, RowsAreOwned
  <1>1. ASSUME NEW j \in BagToSet(jobs), j.kind # "delete"
        PROVE  /\ proxy.life # "destroyed"
               /\ IsABag(jobs (-) SetToBag({j}))
               /\ BagIn(DeleteJob, jobs) => BagIn(DeleteJob, jobs (-) SetToBag({j}))
    <2>1. proxy.life # "destroyed"
      BY <1>1 DEF IInv, OnlyDeletes
    <2>2. IsABag(jobs (-) SetToBag({j})) /\ BagToSet(jobs) \ {j} \subseteq BagToSet(jobs (-) SetToBag({j}))
      BY Zenon, <1>0, Removed
    <2>3. DeleteJob # j
      BY <1>1 DEF DeleteJob
    <2> QED BY <2>1, <2>2, <2>3 DEF BagIn
  <1>2. ASSUME NEW j \in BagToSet(jobs), RunSave(j) PROVE IInv'
    <2> DEFINE js == jobs (-) SetToBag({j})
               r == [proxy EXCEPT !.uuid = TRUE, !.lastSavedVersion = j.version]
    <2>1. j.kind # "delete"
      BY Zenon, <1>2 DEF RunSave
    <2>2. PICK saved \in BOOLEAN :
            /\ db' = IF saved THEN j.row ELSE db
            /\ Become(fork, IF saved THEN r ELSE proxy, js, IF saved THEN Append(loop, Clear) ELSE loop)
      BY Zenon, <1>2 DEF RunSave
    <2>3. proxy.life # "destroyed" /\ IsABag(js) /\ (BagIn(DeleteJob, jobs) => BagIn(DeleteJob, js))
      BY <1>1, <2>1
    <2>4. Consistent(r) /\ r.uuid = TRUE /\ r.life = proxy.life
      <3>1. DOMAIN proxy = Fields
        BY <1>0 DEF Consistent
      <3>2. r = [y \in Fields |-> r[y]]
        BY Zenon, <3>1
      <3>3. r.uuid = TRUE /\ r.life = proxy.life /\ r.finished = proxy.finished
        BY <3>1 DEF Fields
      <3> HIDE DEF r
      <3> QED BY Zenon, <1>0, <3>2, <3>3 DEF Consistent
    <2> HIDE DEF js, r
    <2>5. CASE saved
      <3>1. Become(fork, r, js, Append(loop, Clear))
        BY <2>2, <2>5
      <3> QED BY <2>3, <2>4, <3>1, BecomeKeeps
    <2>6. CASE ~saved
      <3>1. Become(fork, proxy, js, loop) /\ db' = db
        BY <2>2, <2>6
      <3> QED BY <1>0, <2>3, <3>1, BecomeKeeps
    <2> QED BY <2>5, <2>6
  <1>3. ASSUME NEW j \in BagToSet(jobs), NEW loaded \in BOOLEAN, RunLoad(j, loaded) PROVE IInv'
    <2> DEFINE js == jobs (-) SetToBag({j})
               q == IF loaded THEN [proxy EXCEPT !.dbFork = db] ELSE proxy
    <2>1. j.kind # "delete" /\ db' = db /\ Become(fork, q, js, Append(loop, Register(j.contact)))
      BY <1>3 DEF RunLoad
    <2>2. proxy.life # "destroyed" /\ IsABag(js) /\ (BagIn(DeleteJob, jobs) => BagIn(DeleteJob, js))
      BY <1>1, <2>1
    <2>3. Consistent(q) /\ q.uuid = proxy.uuid /\ q.life = proxy.life
      BY Zenon, <1>0, FieldChanges DEF Same
    <2> HIDE DEF js, q
    <2> QED BY <1>0, <2>1, <2>2, <2>3, BecomeKeeps
  <1>4. CASE RunDelete
    <2> DEFINE js == jobs (-) SetToBag({DeleteJob})
    <2>1. db' = None /\ jobs' = js /\ proxy' = proxy /\ restoring' = restoring
      BY <1>4 DEF RunDelete
    <2>2. IsABag(js) /\ BagToSet(js) \subseteq BagToSet(jobs)
      BY Zenon, <1>0, Removed
    <2> HIDE DEF js
    <2>3. proxy.life = "destroyed" => restoring = None /\ OnlyDeletes(js)
      BY <2>2 DEF IInv, OnlyDeletes
    <2> QED BY <1>0, <2>1, <2>2, <2>3
        DEF IInv, RowsAreOwned, Consistent, IsABag, OnlyDeletes, BagToSet
  <1>5. CASE Crash
    <2>1. /\ proxy' = IF db = None THEN [NewProxy EXCEPT !.life = "destroyed"] ELSE ProxyFromDb
          /\ jobs' = EmptyBag /\ restoring' = None /\ db' = db
      BY <1>5 DEF Crash
    <2>2. Consistent([NewProxy EXCEPT !.life = "destroyed"])
      BY Zenon DEF NewProxy, Consistent, Fields
    <2>3. Consistent(ProxyFromDb) /\ ProxyFromDb.uuid = TRUE /\ ProxyFromDb.life = "registered"
      BY Zenon DEF ProxyFromDb, NewProxy, Consistent, Fields
    <2>4. IsABag(EmptyBag) /\ OnlyDeletes(EmptyBag)
      BY DEF IsABag, EmptyBag, SetToBag, BagToSet, OnlyDeletes
    <2>5. Consistent(proxy')
      BY <2>1, <2>2, <2>3
    <2>6. IsABag(jobs') /\ OnlyDeletes(jobs')
      BY <2>1, <2>4
    <2>7. RowsAreOwned'
      BY <2>1, <2>3 DEF RowsAreOwned
    <2> QED BY <2>1, <2>5, <2>6, <2>7 DEF IInv, Consistent, IsABag, OnlyDeletes, BagToSet
  <1> QED BY <1>2, <1>3, <1>4, <1>5

(* Every step of main loop, threads and crash preserves the invariant.     *)
LEMMA NextIInv == IInv /\ [ProxyNext]_proxyVars => IInv'
  <1> SUFFICES ASSUME IInv, [ProxyNext]_proxyVars PROVE IInv'
    OBVIOUS
  <1>1. CASE UNCHANGED proxyVars
    BY <1>1 DEF proxyVars, IInv, Consistent, IsABag, OnlyDeletes, BagToSet, RowsAreOwned, BagIn, DeleteJob
  <1>2. CASE ProxyNext
    BY <1>2, LoopKeeps, TasksKeep DEF ProxyNext
  <1> QED BY <1>1, <1>2

(* A stored message is always owned by a proxy that knows its uuid, or by  *)
(* the deletion the destructor of ForkMessageContextDbProxy started: no    *)
(* row is left behind, whatever is saved, loaded, finished and interrupted *)
(* by a crash, in any order.                                               *)
THEOREM StoredIsOwned == ProxySpec => []RowsAreOwned
  <1>1. IInv => RowsAreOwned
    BY DEF IInv
  <1> QED BY <1>1, InitIInv, NextIInv, PTL DEF ProxySpec
=============================================================================
