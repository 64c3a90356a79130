# Flexisip in TLA+

Flexisip is a SIP proxy server. This directory holds TLA+ specifications of the
path of a forked request: how the Router sends one request to all the devices of
its recipient, chooses one answer for the sender, waits for devices that are not
connected yet and learns of their registration, wakes them by push
notifications, and stores messages in a database meanwhile; of the
registrations in Redis it depends on; and of the thread pools behind the
database. TLC checks the specifications on small instances; TLAPS proves
the central safety properties for every instance.

    tlc -config MCCall.cfg MCForkCall      # a run: see the table below
    tlapm ForkCallProofs.tla               # a proof

`PROJECT.json` maps each definition to the lines it models, and lists the runs,
the mutations that show each property can fail, the components, the hazards and
the findings.

## The system

A SIP message goes through a chain of modules (`Agent`, `Module`). REGISTERs end
in the Registrar, which keeps the contacts of an address of record in memory or
in Redis. Requests end in the Router, which looks the contacts up and makes a
*fork context* with one *branch* per contact.

| Part | State | Operations |
|---|---|---|
| Fork contexts (`src/src/fork-context`) | branches with priority, last response and transaction; the branches in progress; the sender's transaction; timers | `addBranch`, `start`, `onResponse`, `onCancel`, `onPushSent`, `onNewRegister`, timeouts, `setFinished`, destructor |
| Saved messages (`fork-message-context-db-proxy`, `-soci-repository`) | where the message is, version numbers, loaded row, devices served; the tables | the above on a restored fork; save, load and delete in threads; restore at start |
| Injector (`src/src/router`) | per contact and priority, the list of announced forks and their parked requests | `addContext`, `removeContext`, `injectRequestEvent`, `startInject` |
| Router (`module-router.cc`) | late forks by topic, subscriptions | `routeRequest`, `dispatch`, `onContactRegistered`, `onForkContextFinished` |
| Registrar (`registrar/`, `registrardb-redis-async.cc`) | contacts of each record in Redis, requests under way, listeners | `bind` with retries, `clear`, `fetch`, `subscribe`, `unsubscribe` |
| Redis client (`libhiredis-wrapper/`, `registrardb-redis-async.cc`) | two sessions, subscriptions, keep-alive, reconnect timer | connect, reconnect, subscribe, ping |
| Push notifications (`module-pushnotification.cc`, `pushnotification/`) | pending notifications with timers, repeated notifications of a call | send, retry, hand over, cancel on answer, notify the fork |
| Thread pools (`utils/thread/`) | queue, state, threads | `run`, `stop`, threads |
| Transactions, authentication, NAT, media relay, DoS, presence, B2BUA, conference, ... | see `PROJECT.json` | not modelled |

Everything but the threads of the pools runs in one main loop, so handlers do
not interleave inside; but their *order* is free: answers of devices, timers,
registrations, cancellations, push notifications, replies of Redis, errors found
while sending. The pool's threads do interleave with the handlers, several
proxies share one Redis server, and the database survives a crash of the server.
`hazards` in `PROJECT.json` lists what can go wrong in these orders, line by line.

What makes the forking right: the sender gets one final answer, given before the
context goes and never revised; it is the best one, and a failure only when
nobody is left to try; no device rings once the call is taken, declined or
cancelled; a message is kept until each device has it or it expires, survives
being moved to the database and back, and leaves nothing behind; requests to one
device keep their order; a REGISTER is answered once and is not undone by a
retry; a late fork hears of the devices that register; every context ends.

## Modules

| Module | Models |
|---|---|
| `ForkedRequest` | the abstract promise to the sender of a request |
| `ForkContextBase` | `ForkContextBase` and `ForkContext`: the record `fork` and the methods shared by all kinds, as operators from a fork to a fork |
| `BestBranch` | the loop of `findBestBranch`, to compare with the ordering that `ForkContextBase` uses |
| `ForkCall` | `ForkCallContext` (INVITE) |
| `ForkBasic` | `ForkBasicContext` (other requests) |
| `ForkMessage` | `ForkMessageContext` (MESSAGE, text REFER) on a server that does not save messages |
| `ForkMessageDbProxy` | `ForkMessageContextDbProxy` around a `ForkMessage`, with the thread pool, the main loop, the database and crashes |
| `PushNotification` | the PushNotification module and the strategies of a call, composed with `ForkCall` |
| `ScheduleInjector` | `ScheduleInjector` and `InjectContext` for one contact |
| `Record` | `Record::update`: a REGISTER applied to the contacts of one address of record, as operators on sequences |
| `RegistrarDbRedis` | `RegistrarDbRedisAsync`: proxies that bind, clear and fetch one record in one Redis server |
| `RedisClient` | the two sessions of a proxy with Redis, reconnection, keep-alive and subscriptions, as operators on a record |
| `LateForks` | the Router's late forks and `RegistrarDb`'s listeners on top of `RedisClient` |
| `ThreadPool` | `BaseThreadPool`, `BasicThreadPool`, `AutoThreadPool` |
| `ForkContextProofs` | lemmas about `ForkContextBase` |
| `ForkCallLemmas` | lemmas about the methods of `ForkCall` |
| `ForkCallProofs`, `ForkBasicProofs` (with `LateForks`), `ForkMessageProofs`, `ForkMessageDbProxyProofs`, `RegistrarDbRedisProofs`, `ThreadPoolProofs` | theorems |
| `MC...` | constants of the runs |

### Fork contexts

A fork is one record: `waiting` is `mWaitingBranches`, `current` is
`mCurrentBranches`, `incoming` says that `mIncoming` is set, `lastSent` is the
code of `mLastResponseSent`, `timer` is the subclass's own timer (short,
decision, acceptance), `lateTimer`, `nextTimer` and `finishTimer` say that the
timer is running, and `life` follows the references: the Router's `mForks`
(registered), only the injector or tasks (released), none (destroyed). A branch
has the priority and address of its contact, the device's unique id, the last
status, and `out`, the state of its request: not sent yet (held), in the
injector (queued), in a transaction (live), stopped by an internal error (void),
ended by a module that does not tell the fork (lost), answered (done). Each action is a whole handler: what the Router's `dispatch`
and `ForkContext::processResponse` do around the fork's own method is part of
it. `finals` and, in the other modules, `injected`, `announced`, `got`,
`accepted`, `late` are history.

Data is abstracted: a response is its code, a contact is device, address and
priority, a message has no content. Codes are sets given by the configuration,
one or two of each class the code distinguishes. Timers have no duration: they
may fire at any time while set, with one exception: the acceptance timer of a
message precedes the delivery timeout.

The modules after the Router may stop a request, inside `start` or `addBranch`
when it is sent at once, otherwise when it is injected:

- with an internal error, which the fork is told of: the Forward module
  (`Max-Forwards` exhausted) and, for calls, the media relay (no RTP port left);
- in silence: the Forward module ends a request whose next hop is the proxy
  itself (`Ours`). The branch is `lost`: it has no client transaction, and no answer;
- with an answer of its own to the caller: the media relay at its maximum of
  calls (503), or when it cannot write the SDP (500). The branches are lost too, and
  `direct` is that answer. The fork is not told, and what it forwards later is
  not sent, as the incoming transaction is over.

The loop detection of the Forward module (482) is left out: it compares branch
ids, and that of an outgoing transaction is random (the comment at
`module-forward.cc:461` warns of it).

A fork whose requests go through the `ScheduleInjector` is referred to by it: by
the requests that wait there, and by the announcement of each contact. When a
fork ends before the turn of a contact of lower priority comes, its announcement is not
withdrawn and keeps the context (`released`) until it has expired and something
else happens for the contact (`AnnouncementsExpire`), or for good.

### Saved messages

- The repository is one row holding the fork and its branches, since both are written in one transaction.
- Saving is one step. A task holds `mDbAccessMutex`, so only the main loop moves
  meanwhile, and what it does between the version test and the end of the
  transaction it could do just after.
- Restoring is two steps, around the window in which `mDbFork` is reset and the
  state is not `IN_MEMORY` yet.
- A deletion that fails stays a pending job; in the code it waits for the next
  deletion of any message.
- After a crash `got` falls back to what the row records, so delivery across a crash is at least once.
- Any number of loads may be under way, one for each registration that finds the
  message in the database. `parked` counts requests in the injector of an inner
  fork that was replaced by a restored one.
- The injector keeps a proxy alive while a registration is under way; that this
  hold does not expire is assumed here, expiry being `ScheduleInjector`'s
  subject. The announcements of branches whose turn never came do expire.

### Push notifications

`push.ctx` is `mPendingNotifications`: for each push key the branch that made
the context, its timer, the retransmissions left and whether the strategy makes
the device ring by repeated notifications. `push.br` holds the three weak
pointers of a branch to a context or its strategy, which `addBranch` hands over
when a device reconnects. Each action is an action of `ForkCall` together with
what the module does in the same handler (a request that leaves makes a context,
a response or a cancellation reaches the strategy), or a timer of the module, so
that the composition can be checked to be a `ForkCall` (`RefinesForkCall`).
`alive` tells that the process has not followed an empty pointer. Left out: push
keys shared by two devices, contexts of messages (they only end after 30 s), 6xx
answers and internal errors, which are `ForkCall`'s subject, and the transport
to the push services.

### Registrations

A bind is a `RedisRegisterContext`: it reads the hash (`HGETALL`), applies
`Record::update`, and sends the change set in a transaction, which it repeats
after a while when it fails. `pipe` holds the commands of a proxy that are not
answered; a connection that breaks may have executed a prefix of them. Nothing locks the
record, so reads and transactions of several proxies interleave. A contact is
its key (or a placeholder the proxy made up), address, push parameters, Call-ID,
CSeq, time of registration and of expiry; the hash is a set of contacts with
different keys, and Redis drops it at `expireAt`. A read and its callback are one step.

### Late forks

`client` is the `RedisClient` and, outside of the proxy, what hiredis and the
server know of the second connection. `callbacks` is what hiredis keeps for a
topic: there is a reply per command, and the callback goes with the last
"unsubscribe". `silent` is a connection through which nothing passes any more
although nobody has noticed: the keep-alive exists for it. The Router subscribes
for each late fork, gives the topic up only when a registration is notified and
no late fork is left, and `fetching` counts the fetches between a message and
the call of the listeners.

### Thread pools

A step is a critical section of `mTasksMutex`, or something done outside of it:
a `notify_one`, the end of a task, the decrement of the atomic counter.
`wait(lock, predicate)` is split where a lost notification needs it, between the
test and the blocking, with the mutex held. Spurious wake-ups are steps.

## Runs

| Run | Checks | Instance | States |
|---|---|---|---|
| `injector` | `NothingOvertaken`, `NoIdleHead`, `KeptWhenAnnouncedOnce` | two messages and a call, four announcements, contexts that expire after one tick | 67 000 |
| `call` | `TypeOK`, `AnsweredOnce`, `NoPhantomRinging`, `FailureIsComplete`, `NoCallAfterCompletion`, `KeepsPromise`, `EventuallyDestroyed` | one to three devices, two priorities, an address of the proxy itself, late registers, six configurations: scheduled or not, fork-late or not, with the options for urgent answers | 370 000 |
| `basic` | `LoopFindsBest`, `KeepsPromise`, `EventuallyAnswered` | three contacts, or two and the proxy itself, two priorities, five final codes, scheduled or not | 24 000 |
| `message` | `OneBranchPerDevice`, `AcceptedOnceAnswered`, `KeepsPromise`, `KeptUntilDelivered`, `EventuallyDestroyed` | one or two devices, reconnections, an address of the proxy itself, fork-late or not | 34 000 |
| `db_proxy` | `RowsAreOwned`, `NothingForgotten`, `EventuallyForgotten` | two devices of equal or different priority, two registrations, one crash | 120 000 |
| `thread_pool` | `RunsOnce`, `ThreadsCounted`, `StopDrains`, `BasicDelivers` | both pools, three tasks, two threads, a queue of two | 72 000 |
| `bind` | `BindAnsweredOnce`, `BindResolves`, `OvershootBounded`, `NoStaleBinding`, `FetchIsClean`, `BindAnswered` | two proxies, two user agents, a record over its limit, one row of it with an address that is not valid, three REGISTERs of one or two contacts, two at a time, one failure | 150 000 |
| `late_forks` | `LateForksListen`, `SubscriptionsAgree`, `EventuallySubscribed`, `SilenceDetected` | two topics, two late forks, two REGISTERs, two failures | 60 000 |
| `push` | `PushedOnce`, `PickUpStopsRinging`, `RefinesForkCall`, `EventuallyQuiet` | two devices, one rung and one woken by notifications, either may reconnect | 110 000 |

`CHECK_DEADLOCK FALSE` is set where the system ends or meets its bound: a
destroyed fork context, a stopped pool, the last REGISTER. `late_forks` never
stops and is checked for deadlock.

Three more runs exhibit a defect against what the repository says of it
(`findings` quotes the lines):

| Run | Property violated | Shows |
|---|---|---|
| `thread_pool_auto` | `AutoDelivers` | a thread of `AutoThreadPool` that ends while the main thread, at the limit of threads, is between its test and its wait: the decrement and the notification are done without the mutex, the notification is lost, and the task stays in the queue until `run` or `stop` is called again |
| `db_proxy_twice` | `NotDeliveredTwice` | a device registers twice while its message is in the database. The second load reads the row after `restoreForkIfNeeded` has reset `mDbFork` and before it sets `IN_MEMORY`; the device takes the message from the restored fork; the registration posted by the second load then replaces the live fork by the old row, and the device is sent the message again |
| `push_late` | `LateTimerIsHarmless` | a call that is over and whose fork is destroyed before the timer of a notification fires (`timeout`, or retransmissions, must be configured): the empty pointer to the fork is followed |

`AutoThreadPool` serves the message database, the SQL backends of
authentication and of the B2BUA, the presence server and the event log writer;
`BasicThreadPool` only the DoS module. That the pool runs its tasks, which
`db_proxy`'s liveness assumes, is therefore not unconditional.

### Observed while modelling

These follow from the specifications or from the reading that went into them,
and no run is about them.

- *Injector.* When one fork is announced twice for one contact, withdrawing one
  announcement may drop the request parked for the other (`injector.hh:40`:
  "MUST happen"); `KeptWhenAnnouncedOnce` is about the other case. The retention
  time is only looked at when something else happens for the contact
  (`startInject`), while `module-router.cc:228` presents it as a maximum.
- *Calls.* With `fork-no-global-decline`, a 603 is forwarded before all have
  answered when an urgent answer armed the short timer (`module-router.cc:81`).
  `treat-decline-as-urgent` never acts on a 603, as codes from 600 are tested
  first (`fork-call-context.cc:166`, `module-router.cc:87`). A device of lower
  priority that registers when all current branches have failed is not called
  (`fork-context-base.cc:340`). When a call times out, INVITEs that wait in the
  injector are not cancelled, although `fork-call-context.cc:298` says all
  pending transactions are. The same goes for a call that is taken or declined:
  `NoPhantomRinging` and `NoCallAfterCompletion` are about requests sent at once.
- *Requests that end in another module.* A fork that does not fork late has no
  timer: if the Forward module has ended one of its requests (next hop the proxy
  itself, `module-forward.cc:370`), or the media relay has refused the call
  (`module-mediarelay.cc:360`), and no device decides, nobody calls
  `setFinished` and the context stays. A late fork goes on for its whole
  timeout after the caller was refused. A finished fork stays too while an
  announcement of it is in the injector (`schedule-injector.cc:78`).
  `EventuallyDestroyed` says in which states a fork may stay, and that there are
  no others.
- *Messages.* With a delivery timeout of at most 30 s there is no acceptance
  timer, and a fork-late message may end without an answer to its sender
  (`fork-message-context.cc:112`): `KeepsPromise` needs `LongDelivery`, in the run
  and in the theorem.
- *Registrations.* Each bind computes `EXPIREAT` from the contacts it read, so
  the transaction of one can make Redis drop the contact of another one too early.
  The limit of contacts is exceeded by as many contacts as the other REGISTERs
  that overlap bring (`OvershootBounded`).
- *Subscriptions.* `subscribe()` without a session leaves the listener in
  `mContactListenersMap`, so that later subscriptions of the topic do not reach
  Redis. Topics given up while there is no session, or on one that is open again
  and not connected yet, stay in `mSubscriptions` and are subscribed again for
  ever. When SUBSCRIBE and UNSUBSCRIBE are sent twice before the replies arrive,
  the first "unsubscribe" reply erases the entry while hiredis keeps its
  callback. A PING that waits across a reconnection causes another one.
  `connect()` resets `mLastReconnectRotation`, so the pause of one second applies
  only when hiredis refuses at once. A fetch that fails after a notification is dropped.
- *Push notifications.* The answer of a device that has reconnected does not stop
  its retransmissions (`module-pushnotification.cc:134`). A timer that fires after
  the pick-up, while a fork-late fork is not finished, starts the ringing (`:153`).
  The ringing goes on after a 503 ends a fork that is not late.

### Bounds

- `MaxBranches` is 3 for calls and messages: three devices, or two and a
  reconnection, enough for a winner, a loser and a latecomer with two priorities.
- `MaxAnnounced` (4) and `MaxPerFork` let one fork be announced again between two others.
- `MaxRegisters` (2) and `MaxCrashes` (1) of `db_proxy` give a save, a
  registration that restores, another save and a crash anywhere; both
  registrations may be loading at once.
- `bind`: `MaxOps` (3), `MaxOpen` (2), `MaxBreaks` (1) and two proxies give a
  transaction that fails and is repeated after a later REGISTER of the same or
  of the other device; `mMaxContacts` is 2 and three contacts are stored, so
  that every new one exceeds it. One of them expires at time 1, the last one
  (`MaxTime`), one has a push parameter of a device that registers, and one an
  address that is not valid. Both user agents bring two
  contacts in one REGISTER, one of them the same, and one may remove only that one.
  One failure does not use up the retries of a bind.
- `late_forks`: two failures are a connection that breaks and one that fails
  while it is opened again; two late forks, on one topic or two; two
  registrations, one of which finds no late fork left.
- `push`: one retransmission; three branches, so that one device reconnects. A
  device may lose its connection (503) before or after the other one is called.
- `thread_pool`: three tasks for two threads and a queue of two reach both limits.

### Fairness

Liveness assumes that a running timer fires (the main loop does not stop), and:

- for forks, that the SIP stack ends every client transaction with a final
  response, its own 408 or 503 if need be (RFC 3261 timers B and F, which
  Sofia-SIP implements). A lost request has no client transaction. Nothing is assumed of the injector,
  which other calls may keep waiting. `ForkBasic` needs only its timers, and so do push notifications.
- for saved messages, that the thread pool runs its tasks, that the injector
  lets every request go (`injector.hh:40`) and forgets expired announcements
  (something happens for the contact now and then), and that the database does not refuse every load and every deletion. The last is needed: a failed
  load is posted to the main loop, which loads again, without pause or end.
- for registrations, that the first command of a connection is answered, by the server or
  by a disconnection.
- for late forks, that Redis accepts connections now and then, and answers on a
  connection that works sooner than the keep-alive gives it up.
- for threads, that tasks end and that a thread that asks for the mutex again
  and again gets it (strong fairness), however the others use it. No fairness
  is assumed for spurious wake-ups or for the callers of `run` and `stop`.

## Proofs

Each theorem holds for every value of the constants that satisfies the named
assumptions of the modules; the bounds of the runs are constants too.

| Theorem | States |
|---|---|
| `ForkCallProofs!TypeCorrect`, `CallerAnsweredOnce` | `Spec => []TypeOK`; `Spec => []AnsweredOnce` |
| `ForkCallProofs!FailuresAreComplete` | `Spec => FailureIsComplete` |
| `ForkCallProofs!NoDeviceKeepsRinging`, `CompletedCallsStayQuiet` | `Spec => []NoPhantomRinging`, `Spec => NoCallAfterCompletion` |
| `ForkCallProofs!CallKeepsPromise` | `Spec => KeepsPromise`: `ForkCall` implements `ForkedRequest` |
| `ForkBasicProofs!BasicKeepsPromise` | the same of `ForkBasic` |
| `ForkMessageProofs!MessageKeepsPromise` | the same of `ForkMessage`, assuming `LongDelivery` |
| `ForkMessageProofs!DevicesHaveOneBranch`, `AcceptedWithLastAnswer` | `Spec => []OneBranchPerDevice`, `Spec => []AcceptedOnceAnswered` |
| `ForkMessageProofs!MessagesAreKept` | `Spec => KeptUntilDelivered` |
| `ForkMessageDbProxyProofs!StoredIsOwned` | `ProxySpec => []RowsAreOwned`: a stored message has somebody who will delete it |
| `ForkBasicProofs!RouterListens` | `LateSpec => []LateForksListen`, of `LateForks` |
| `RegistrarDbRedisProofs!RegisterAnsweredOnce` | `Spec => []BindAnsweredOnce` |
| `ThreadPoolProofs!TasksRunOnce`, `CountIsExact`, `StopIsComplete` | `Spec => []RunsOnce`, `[]ThreadsCounted`, `[]StopDrains`, of both pools |

**Forks.** A handler is a composition of methods, so each method is shown to
satisfy one relation between the fork before and after it, `Evolves(f, g)`:
types are kept, and the sender's transaction is left alone, or answered exactly
once with a code of 200 or more, or was already closed and nothing about it
changes; and a module's direct answer is given at most once, while that
transaction is open. `Evolves` is reflexive and transitive, hence holds of compositions.
`Moves` extends it with the destruction of the context. Each kind of fork
strengthens the relation by what its own invariant needs.

*Calls.* The invariant is

    IInv == /\ Fit(fork) /\ AnsweredOnce
            /\ ~fork.incoming <=> fork.lastSent >= 200
            /\ fork.cfg \in CallConfigs

`AnsweredOnce` counts answers, and does not say that the code last sent, which
the refinement mapping shows as *the* answer, is a final one. `Fit` has three
parts (`ForkCallLemmas`):

- `Shape`, of the branches: a request that was sent belongs to a waiting branch
  (`cancelOthers` looks at no others) that has no final status (it skips those
  that have), and a branch whose turn has not come holds its request (`start`
  must not send it twice). Without it no argument about `cancelOthers` reaches
  all the devices that ring.
- `Ended`: a fork has a branch, and does not finish before the caller has an
  answer unless the call is cancelled. `FailureIsComplete` needs it for the 503
  that the destructor sends.
- `Silent`, of forks that are not `scheduled`: what `NoPhantomRinging` says,
  and that an error has closed the caller's transaction.

`NoPhantomRinging` and `NoCallAfterCompletion` are conditioned on a fork that is
not `scheduled`: an INVITE that the injector holds cannot be cancelled, and
leaves later. The other theorems about calls are of both kinds of forks.

*Basic forks and messages* have no destructor that answers, so that a fork must
not end unanswered. For basic forks `Evolves` is strengthened to `Settles`: the
finish timer is started only with an answer; the invariant says that a fork
which is about to go, or is gone, has answered. For messages this rests on two
more facts. `checkFinished` ends a fork whose branches have all answered, and
`findBestBranch` then finds one to forward (`BestExists`: of the finitely many
answered branches, the one that the fewest others beat is beaten by none). And a
late fork ends by its late timer, which is harmless because the acceptance timer
runs until the sender has an answer. The invariant of a message is

    Fit(f) == /\ f \in ForkContext
              /\ OneEach(f)
              /\ f.lateTimer => f.cfg.forkLate
              /\ f.timer /\ f.incoming => ~f.finished /\ ~AllAnsweredRFC(f, f.waiting)
              /\ ~f.incoming => f.lastSent >= 200
              /\ LongDelivery => /\ f.finishTimer \/ f.life # "registered" => ~f.incoming
                                 /\ f.cfg.forkLate /\ f.incoming => f.timer

That a device has one branch needs branches to be numbered without gaps
(`OneEach`: the waiting ones are among the created ones), and that
`findBranchByUid` finds the only branch of a device, which follows from the
invariant itself. `MessageAssumption` says that the contacts a message starts
with belong to different devices, as the keys of a record do. The line about
the acceptance timer is `AcceptedOnceAnswered`, and holds for short delivery
timeouts too. The step relation (`Keeps`, `Steps`) carries what ends a late
fork, from which `KeptUntilDelivered` follows.

**Saved messages.** `RowsAreOwned` is strengthened by what a destroyed proxy may
leave: no restoration under way and, in the bag of jobs, only deletions.

**Registrations.** The invariant says of each bind that it has one reply when
it is over and none before (`Consistent`), and that a bind is in
the pipeline of its proxy exactly when its stage waits for a reply
(`Pipelined`), once: otherwise a reply could be taken for that of a bind that is over.

**Late forks.** `LateForksListen` is inductive together with the type of
`mForks`: no step of the Redis client touches the listeners.

**Thread pools.** The invariant adds to the properties where the threads of each
kind of pool may be (`Placed`: a thread that executes has a task, who holds the
mutex is about to block) and what is left in the queue once a thread has seen
the shutdown (`Draining`: only tasks accepted after `stop` was called).
`PoolTypes` bounds the counter by the limit of threads.

Only model-checked: the properties the table does not name, among them the
orders of the injector and what `Record` computes; and liveness, which is
outside TLAPS's reach, as is what folds over sequences compute
(`LoopFindsBest`, `FetchIsClean`).

## Not modelled, and the plan

`components` in `PROJECT.json` gives the reason for each part. Most of the
source is configuration, command line, conversion of SIP and XML documents,
media, and wrappers of libraries, which have no state to check, or servers of their own
(B2BUA, conference, presence, registration events). Of what has, in order:

1. **Registrar front** (`registrar-db.cc`): `RecursiveRegistrarDbListener` and
   `fetchList`. Read so far: `onError` and `onInvalid` of an alias do not count
   down `mPendingRequests`, and an empty list is never called back. Then the
   REGISTER handler (`module-registrar.cc`) on top of `RegistrarDbRedis`, the
   subscription to key expiration, and replicas.
2. **Composition**: `LateForks` with one fork and the registrar; the
   `ScheduleInjector` with two `ForkMessageDbProxy` across a restart (message
   priorities are not restored).
3. **Transactions** (`transaction/`, `event.cc`) and the **push clients**: queues
   of requests over one HTTP/2 connection with timeouts.
4. **Presence and registration event servers**: subscriptions with expiry.
5. **Proofs**: `ScheduleInjector`'s ordering, `NothingForgotten` of the proxy,
   `SubscriptionsAgree`, the push notifications of a call.
