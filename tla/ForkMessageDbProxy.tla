-------------------------- MODULE ForkMessageDbProxy --------------------------
(***************************************************************************)
(* ForkMessageContextDbProxy: a message kept for late delivery leaves the  *)
(* memory of the proxy server between two registrations.  The inner        *)
(* ForkMessageContext ("fork", of module ForkMessage) is saved to a        *)
(* database and dropped once every branch has answered; a registration     *)
(* loads it again.                                                         *)
(*                                                                         *)
(* Three parties run at once: the main loop, which owns the proxy object   *)
(* and runs every handler; the threads of the database pool, which save,   *)
(* load and delete and post back to the main loop; and the database, which *)
(* survives a crash of the server.  The threads of one proxy exclude each  *)
(* other (mDbAccessMutex) but not the main loop: mDbFork is written by a   *)
(* thread and read by the main loop, and restoreForkIfNeeded() is therefore*)
(* two steps here.                                                         *)
(*                                                                         *)
(* A server that saves messages uses the ScheduleInjector: requests are    *)
(* queued first, and a registration that waits for the database is an      *)
(* announced context.  In both cases the injector refers to the proxy      *)
(* (ScheduleInjector covers the expiry of announcements).                  *)
(***************************************************************************)
EXTENDS ForkMessage, Sequences, FiniteSets, Bags

CONSTANTS
    MaxRegisters,       \* bound: registrations after the message's arrival
    MaxCrashes,         \* bound: crashes of the server
    None                \* no row, no contact, nullptr

ASSUME DbProxyAssumption ==
    /\ \A cfg \in MessageConfigs : cfg.forkLate /\ cfg.scheduled
    /\ \A cs \in InitialContacts : Len(cs) + MaxRegisters <= MaxBranches
    /\ MaxRegisters \in Nat /\ MaxCrashes \in Nat

VARIABLES
    proxy,              \* the ForkMessageContextDbProxy
    db,                 \* the row of the message and of its branches, or None
    jobs,               \* the tasks of the database thread pool
    loop,               \* the functions posted to the main loop by these tasks
    restoring,          \* the registration inside restoreForkIfNeeded(), or None
    got,                \* history: the devices whose 2xx was taken into account
    registers, crashes  \* for the bounds

proxyVars == <<fork, proxy, db, jobs, loop, restoring, got, registers, crashes>>

-----------------------------------------------------------------------------
(***************************************************************************)
(* getDbObject() of the fork and of its branches, and the ForkMessage made *)
(* from it: no incoming transaction, no acceptance timer, no current       *)
(* branches; a late timer for the rest of the delivery time.               *)
(***************************************************************************)
Row == [deliveredCount : Nat, currentPriority : Qs \cup {NoPriority},
        waiting : SUBSET Branches, br : [Branches -> BranchInfo]]

GetDbObject(f) ==
    [deliveredCount |-> f.deliveredCount, currentPriority |-> f.currentPriority,
     waiting |-> f.waiting,
     br |-> [b \in Branches |-> IF b \in f.waiting THEN f.br[b] ELSE UnusedBranch]]

NoFork(f) == [NewFork(f.cfg, FALSE, <<>>) EXCEPT !.life = "destroyed"]

Restored(f, row) ==
    [NewFork(f.cfg, FALSE, <<>>) EXCEPT
        !.incoming = FALSE, !.deliveredCount = row.deliveredCount,
        !.currentPriority = row.currentPriority, !.waiting = row.waiting, !.br = row.br,
        !.created = CHOOSE n \in 0..MaxBranches :
                        /\ row.waiting \subseteq 1..n
                        /\ n = 0 \/ n \in row.waiting]

(***************************************************************************)
(* The proxy.  "uuid" tells that mForkUuidInDb is set, "timer" is          *)
(* mProxyLateTimer, "life" as for the forks: in the Router's mForks, only  *)
(* referred to by the injector and by tasks, or destroyed.  "parked" counts*)
(* the requests still in the injector of an inner fork that was replaced.  *)
(***************************************************************************)
Proxy == [state : {"IN_MEMORY", "IN_DATABASE"}, currentVersion : Nat, lastSavedVersion : Nat,
          alreadyDelivered : SUBSET Uids, dbFork : Row \cup {None}, uuid : BOOLEAN,
          finished : BOOLEAN, timer : BOOLEAN, parked : Nat, life : Lives]

NewProxy == [state |-> "IN_MEMORY", currentVersion |-> 1, lastSavedVersion |-> 0,
             alreadyDelivered |-> {}, dbFork |-> None, uuid |-> FALSE,
             finished |-> FALSE, timer |-> FALSE, parked |-> 0, life |-> "registered"]

(* The one restoreForksFromDatabase() makes for a row, at server start.    *)
ProxyFromDb == [NewProxy EXCEPT !.state = "IN_DATABASE", !.lastSavedVersion = 1,
                                !.uuid = TRUE, !.timer = TRUE]

SaveJob(row, version) == [kind |-> "save", row |-> row, version |-> version]
LoadJob(c) == [kind |-> "load", contact |-> c]
DeleteJob == [kind |-> "delete"]
Clear == [call |-> "clearMemoryIfPossible"]
Register(c) == [call |-> "onNewRegister", contact |-> c]

-----------------------------------------------------------------------------
(* Who refers to a proxy that left mForks: tasks, the handler that runs,   *)
(* and the injector for requests and announced registrations.              *)
Held(f, js, posted, running) ==
    \/ \E j \in BagToSet(js) : j.kind # "delete"
    \/ running # None
    \/ \E i \in DOMAIN posted : posted[i].call = "onNewRegister"
    \/ Queued(f)

(* The end of every handler and task: without reference to it the proxy is *)
(* destroyed, and its row deleted if it is finished.  The announcement of  *)
(* a branch whose turn never came refers to it until it expires.           *)
Become(f, p, js, posted) ==
    LET dropped == p.life = "released" /\ p.parked = 0 /\ ~Held(f, js, posted, restoring')
    IN \E gone \in BOOLEAN :
         /\ gone => dropped
         /\ dropped /\ ~gone => Announced(f)
         /\ fork' = IF gone THEN NoFork(f) ELSE f
         /\ proxy' = IF gone THEN [p EXCEPT !.life = "destroyed"] ELSE p
         /\ jobs' = IF gone /\ p.uuid /\ p.finished THEN js (+) SetToBag({DeleteJob}) ELSE js
         /\ loop' = IF gone THEN <<>> ELSE posted

Idle == proxy.life # "destroyed" /\ restoring = None

-----------------------------------------------------------------------------
(* Mutation: mIsFinished is not set.                                       *)
MutOnForkContextFinished(p) == [p EXCEPT !.life = IF @ = "registered" THEN "released" ELSE @]

(* onForkContextFinished(ctx): the Router forgets the proxy.               *)
OnForkContextFinished(p) ==
    [p EXCEPT !.finished = TRUE, !.life = IF @ = "registered" THEN "released" ELSE @]

CanBeSaved(f, p) ==
    p.state = "IN_MEMORY" /\ AllAnsweredRFC(f, f.waiting) /\ ~f.finished

(* Mutation: the version saved last is not compared.                       *)
MutClears(f, p) == CanBeSaved(f, p)

(* clearMemoryIfPossible() with startTimerAndResetFork()                   *)
Clears(f, p) == p.lastSavedVersion = p.currentVersion /\ CanBeSaved(f, p)

ClearedFork(f, p) == IF Clears(f, p) THEN NoFork(f) ELSE f

(* Mutation: the proxy's own timer is not started.                         *)
MutClearedProxy(f, p) == IF Clears(f, p) THEN [p EXCEPT !.state = "IN_DATABASE"] ELSE p

ClearedProxy(f, p) ==
    IF Clears(f, p) THEN [p EXCEPT !.state = "IN_DATABASE", !.timer = TRUE] ELSE p

(* onResponse(br, event), called by ForkContext::processResponse: the      *)
(* inner fork takes it, and is saved when all have answered.               *)
ProxyResponse(b, code) ==
    LET f1 == OnResponse(WithStatus(fork, b, code), b, code)
    IN /\ Idle
       /\ Response(b, code)
       /\ jobs' = IF CanBeSaved(f1, proxy)
                  THEN jobs (+) SetToBag({SaveJob(GetDbObject(f1), proxy.currentVersion)})
                  ELSE jobs
       /\ got' = IF code \in 200..299 THEN got \cup {fork.br[b].uid} ELSE got
       /\ UNCHANGED <<proxy, db, loop, restoring, registers, crashes>>

(* The handlers that concern the inner fork alone: onPushSent, the timer   *)
(* for the sender's 202, the late timer and answers to replaced branches.  *)
InnerStep ==
    /\ Idle
    /\ PushSent \/ AcceptanceTimer \/ LateTimer \/ \E b \in Branches : LostResponse(b)
    /\ UNCHANGED <<proxy, db, jobs, loop, restoring, got, registers, crashes>>

(* The injector lets a queued request go; it may have no hop left.         *)
Inject(b) ==
    /\ Idle
    /\ fork.br[b].out = "queued"
    /\ UNCHANGED <<db, restoring, got, registers, crashes>>
    /\ \E failing \in BOOLEAN :
         Become(IF failing THEN ProcessInternalError(SetOut(fork, {b}, "void"))
                ELSE PassOn(fork, {b}), proxy, jobs, loop)

(* ... or a request of an inner fork that was replaced, whose answer nobody*)
(* waits for: its BranchInfo is gone.                                      *)
InjectParked ==
    /\ Idle
    /\ proxy.parked > 0
    /\ UNCHANGED <<db, restoring, got, registers, crashes>>
    /\ Become(fork, [proxy EXCEPT !.parked = @ - 1], jobs, loop)

(* The last announcements of a proxy that left mForks expire.              *)
AnnouncementsExpire ==
    /\ Idle
    /\ proxy.life = "released" /\ Announced(fork)
    /\ UNCHANGED <<db, restoring, got, registers, crashes>>
    /\ Become(fork, proxy, jobs, loop)

(* The finish timer of the inner fork, and the late timer of the proxy.    *)
InnerFinished ==
    /\ Idle
    /\ fork.finishTimer
    /\ UNCHANGED <<db, restoring, got, registers, crashes>>
    /\ Become([fork EXCEPT !.finishTimer = FALSE], OnForkContextFinished(proxy), jobs, loop)

ProxyLateTimer ==
    /\ Idle
    /\ proxy.timer
    /\ UNCHANGED <<db, restoring, got, registers, crashes>>
    /\ Become(fork, OnForkContextFinished([proxy EXCEPT !.timer = FALSE]), jobs, loop)

-----------------------------------------------------------------------------
(***************************************************************************)
(* onNewRegister(dest, uid, newContact), called by the Router or again by  *)
(* the main loop for a thread; "posted" is what remains in the main loop.  *)
(***************************************************************************)

(* The inner fork's onNewRegister: onDispatchNeeded, or                    *)
(* onUselessRegisterNotification.                                          *)
InnerNewRegister(f, p, c, posted) ==
    LET status == Dispatch(f, c)
        useless == [ClearedProxy(f, p) EXCEPT !.alreadyDelivered =
                        IF status = "PendingTransaction" THEN @ ELSE @ \cup {c.uid}]
    IN IF status = "DispatchNeeded"
       THEN Become(AddBranch(f, c, {}), [p EXCEPT !.currentVersion = @ + 1], jobs, posted)
       ELSE Become(ClearedFork(f, p), useless, jobs, posted)

(* restoreForkIfNeeded() up to setState(IN_MEMORY): mForkMessage is the    *)
(* one of the row, even if there was another.                              *)
BeginRestore(c, posted) ==
    /\ restoring' = c
    /\ fork' = Restored(fork, proxy.dbFork)
    /\ proxy' = [proxy EXCEPT !.dbFork = None, !.timer = FALSE,
                              !.parked = @ + Cardinality({b \in Branches : fork.br[b].out = "queued"})]
    /\ loop' = posted
    /\ UNCHANGED jobs

(* A row that does not make a message any more (runtime_error)             *)
FailRestore(posted) ==
    /\ restoring' = None
    /\ Become(NoFork(fork), OnForkContextFinished([proxy EXCEPT !.state = "IN_DATABASE"]),
              jobs, posted)

OnNewRegister(c, posted) ==
    IF c.uid \in proxy.alreadyDelivered THEN
        restoring' = None /\ Become(fork, proxy, jobs, posted)
    ELSE IF proxy.dbFork # None THEN
        BeginRestore(c, posted) \/ FailRestore(posted)
    ELSE IF proxy.state = "IN_DATABASE" THEN
        restoring' = None /\ Become(fork, proxy, jobs (+) SetToBag({LoadJob(c)}), posted)
    ELSE
        restoring' = None /\ InnerNewRegister(fork, proxy, c, posted)

(* ModuleRouter::onContactRegistered for a fork in mForks                  *)
RouterRegister(c) ==
    /\ Idle
    /\ proxy.life = "registered"
    /\ registers < MaxRegisters
    /\ OnNewRegister(c, loop)
    /\ registers' = registers + 1
    /\ UNCHANGED <<db, got, crashes>>

(* setState(IN_MEMORY), and the rest of onNewRegister                      *)
EndRestore ==
    /\ restoring # None
    /\ restoring' = None
    /\ InnerNewRegister(fork, [proxy EXCEPT !.state = "IN_MEMORY"], restoring, loop)
    /\ UNCHANGED <<db, got, registers, crashes>>

(* The main loop runs the next posted function.                            *)
RunPosted ==
    /\ Idle
    /\ loop # <<>>
    /\ \/ /\ Head(loop) = Clear
          /\ restoring' = None
          /\ Become(ClearedFork(fork, proxy), ClearedProxy(fork, proxy), jobs, Tail(loop))
       \/ /\ Head(loop) # Clear
          /\ OnNewRegister(Head(loop).contact, Tail(loop))
    /\ UNCHANGED <<db, got, registers, crashes>>

-----------------------------------------------------------------------------
(***************************************************************************)
(* The tasks of the pool, in any order.  A task holds mDbAccessMutex, so   *)
(* that only the main loop moves meanwhile; saving is one step, as what    *)
(* the main loop does between the test of the version and the end of the   *)
(* transaction it could also do after it.                                  *)
(***************************************************************************)
RunSave(j) ==
    /\ BagIn(j, jobs) /\ j.kind = "save"
    /\ UNCHANGED <<restoring, got, registers, crashes>>
    /\ \E saved \in BOOLEAN :
         /\ saved => j.version = proxy.currentVersion /\ proxy.lastSavedVersion < j.version
         /\ db' = IF saved THEN j.row ELSE db
         /\ Become(fork,
                   IF saved THEN [proxy EXCEPT !.uuid = TRUE, !.lastSavedVersion = j.version]
                   ELSE proxy,
                   jobs (-) SetToBag({j}),
                   IF saved THEN Append(loop, Clear) ELSE loop)

RunLoad(j, loaded) ==
    /\ BagIn(j, jobs) /\ j.kind = "load"
    /\ loaded => proxy.state = "IN_DATABASE" /\ proxy.dbFork = None
    /\ UNCHANGED <<db, restoring, got, registers, crashes>>
    /\ Become(fork, IF loaded THEN [proxy EXCEPT !.dbFork = db] ELSE proxy,
              jobs (-) SetToBag({j}), Append(loop, Register(j.contact)))

(* deleteByUuid(uuid): a failure leaves the uuid in mUuidsToDelete, for    *)
(* the next deletion of any message; the job stands for both.              *)
RunDelete ==
    /\ BagIn(DeleteJob, jobs)
    /\ db' = None
    /\ jobs' = jobs (-) SetToBag({DeleteJob})
    /\ UNCHANGED <<fork, proxy, loop, restoring, got, registers, crashes>>

(* The devices a row knows to have the message.                            *)
DeliveredIn(row) == {row.br[b].uid : b \in {b \in row.waiting : row.br[b].status \in 200..299}}

(* The server stops at any moment and starts again: what was in memory is  *)
(* lost, the devices' answers since the last save included, and a proxy is *)
(* made for the row if there is one.                                       *)
Crash ==
    /\ crashes < MaxCrashes
    /\ crashes' = crashes + 1
    /\ fork' = NoFork(fork)
    /\ proxy' = IF db = None THEN [NewProxy EXCEPT !.life = "destroyed"] ELSE ProxyFromDb
    /\ jobs' = EmptyBag
    /\ loop' = <<>>
    /\ restoring' = None
    /\ got' = IF db = None THEN {} ELSE DeliveredIn(db)
    /\ UNCHANGED <<db, registers>>

-----------------------------------------------------------------------------
ProxyInit ==
    /\ Init
    /\ proxy = NewProxy
    /\ db = None
    /\ jobs = EmptyBag
    /\ loop = <<>>
    /\ restoring = None
    /\ got = {}
    /\ registers = 0
    /\ crashes = 0

ProxyNext ==
    \/ \E b \in Branches, code \in ProvisionalCodes \cup FinalCodes : ProxyResponse(b, code)
    \/ InnerStep
    \/ \E b \in Branches : Inject(b)
    \/ InjectParked
    \/ AnnouncementsExpire
    \/ InnerFinished
    \/ ProxyLateTimer
    \/ \E c \in LateContacts : RouterRegister(c)
    \/ EndRestore
    \/ RunPosted
    \/ \E j \in BagToSet(jobs) : RunSave(j)
    \/ \E j \in BagToSet(jobs), loaded \in BOOLEAN : RunLoad(j, loaded)
    \/ RunDelete
    \/ Crash

ProxySpec == ProxyInit /\ [][ProxyNext]_proxyVars

(***************************************************************************)
(* Fairness: the main loop, the pool, the timers and the injector go on,   *)
(* the stack ends every transaction, and the database does not refuse      *)
(* every load (otherwise a registration is loaded again without end) or    *)
(* every deletion.                                                         *)
(***************************************************************************)
Save == \E j \in BagToSet(jobs) : RunSave(j)
Load == \E j \in BagToSet(jobs), loaded \in BOOLEAN : RunLoad(j, loaded)
LoadSucceeds == \E j \in BagToSet(jobs) : RunLoad(j, TRUE)
Loading == /\ \E j \in BagToSet(jobs) : j.kind = "load"
           /\ proxy.state = "IN_DATABASE" /\ proxy.dbFork = None
InnerLateTimer == LateTimer /\ InnerStep
InnerAcceptance == AcceptanceTimer /\ InnerStep
FinalAnswer(b) == \E code \in FinalCodes : ProxyResponse(b, code)

ProxyFairness ==
    /\ WF_proxyVars(EndRestore) /\ WF_proxyVars(RunPosted)
    /\ WF_proxyVars(Save) /\ WF_proxyVars(Load) /\ WF_proxyVars(RunDelete)
    /\ WF_proxyVars(InnerFinished) /\ WF_proxyVars(ProxyLateTimer)
    /\ WF_proxyVars(InnerLateTimer) /\ WF_proxyVars(InnerAcceptance)
    /\ <>[]~Loading \/ []<><<LoadSucceeds>>_proxyVars
    /\ \A b \in Branches : WF_proxyVars(Inject(b))
    /\ WF_proxyVars(InjectParked) /\ WF_proxyVars(AnnouncementsExpire)
    /\ \A b \in Branches : []<>~(Idle /\ Pending(b)) \/ []<><<FinalAnswer(b)>>_proxyVars

ProxyFairSpec == ProxySpec /\ ProxyFairness

-----------------------------------------------------------------------------
(* The inner fork of a message still to be delivered leaves the memory only*)
(* when all its branches have answered and the database knows each device  *)
(* that it knows to have the message (runSavingThread's versions against   *)
(* clearMemoryIfPossible).                                                 *)
NothingForgotten ==
    [][/\ fork.life # "destroyed" /\ fork'.life = "destroyed"
       /\ ~proxy'.finished /\ crashes' = crashes
       => /\ AllAnsweredRFC(fork, fork.waiting)
          /\ db # None
          /\ DeliveredIn(GetDbObject(fork)) \subseteq DeliveredIn(db)]_proxyVars

(* A device that got the message is not sent it again, whatever is saved,  *)
(* dropped and restored in between (shouldDispatch, of a device that has   *)
(* accepted: "We should not send it the request again").                   *)
NotDeliveredTwice ==
    \A b \in fork.waiting : fork.br[b].status < 200 => fork.br[b].uid \notin got

(* A stored row belongs to somebody who will delete it: a proxy that knows *)
(* its uuid, or the task started by the destructor.                        *)
RowsAreOwned ==
    db # None => (proxy.life # "destroyed" /\ proxy.uuid) \/ BagIn(DeleteJob, jobs)

(* Every message is given up in the end, in memory and in the database.    *)
EventuallyForgotten == <>[](proxy.life = "destroyed" /\ db = None)
=============================================================================
