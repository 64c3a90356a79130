--------------------------- MODULE PushNotification ---------------------------
(***************************************************************************)
(* The PushNotification module composed with a call fork: every INVITE     *)
(* that leaves towards a device with push parameters gets a                *)
(* PushNotificationContext, whose timer wakes the device, and for some     *)
(* devices a strategy that makes them ring by repeated notifications.      *)
(* Each action is an action of ForkCall together with what the module and  *)
(* the strategies do in the same handler, or a timer of theirs.            *)
(***************************************************************************)
EXTENDS ForkCall, FiniteSets

CONSTANTS
    Tokens,                 \* push keys: call id, provider, param and prid
    NoToken,                \* a device without push parameters; an empty pointer
    Token,                  \* the push key of each device
    Kind,                   \* the strategy of each key, see Kinds
    mRetransmissionCount

(* VoIP and Background wake the client up, Message shows a notification:   *)
(* again and again, unless pn-call-remote-push-interval is zero.           *)
Kinds == {"wake", "ring", "once"}

(* The contacts of a Record have one unique id each, and so do the devices *)
(* an INVITE is forked to.                                                 *)
ASSUME PushAssumption ==
    /\ IsFiniteSet(Uids)
    /\ \A cs \in InitialContacts : \A i, j \in DOMAIN cs : cs[i].uid = cs[j].uid => i = j
    /\ NoToken \notin Tokens
    /\ Token \in [Uids -> Tokens \cup {NoToken}]
    /\ Kind \in [Tokens -> Kinds]
    /\ \A u \in VoipUids : Token[u] # NoToken /\ Kind[Token[u]] = "wake"
    /\ mRetransmissionCount \in Nat

(***************************************************************************)
(* push.ctx is mPendingNotifications, which owns the contexts: the branch  *)
(* that made it, mTimer, mRetryCounter, and whether the timers of          *)
(* MessagePushStrategy::sendCallNotification run.  push.br has the weak    *)
(* pointers of a branch to a context or its strategy: the property of its  *)
(* outgoing transaction, mListener, pushContext.  push.sent counts the     *)
(* notifications of mTimer.  "alive" is the process.                       *)
(***************************************************************************)
VARIABLES push, alive
pushVars == <<fork, push, alive>>

NoContext == [branch |-> NoBranch, timer |-> FALSE, retry |-> 0, ringing |-> FALSE]
NoPointers == [cleared |-> 0, property |-> NoToken, listener |-> NoToken, pushContext |-> NoToken]

Exists(t) == push.ctx[t] # NoContext

-----------------------------------------------------------------------------
(* The requests that have passed, be they lost in a module after this one. *)
Passed(f) == {b \in Branches : f.br[b].out \in {"live", "lost"}}

NewContext(b) == [branch |-> b, timer |-> TRUE, retry |-> mRetransmissionCount, ringing |-> FALSE]

(* Mutation: a device that reconnected gets a new notification.            *)
MutMakePushNotification(p, f, bs) ==
    LET of(t) == {b \in bs : Token[f.br[b].uid] = t}
        new == {t \in Tokens : of(t) # {} /\ p.ctx[t] = NoContext}
    IN [p EXCEPT !.ctx = [t \in Tokens |-> IF t \in new THEN NewContext(FirstBranch(f, of(t))) ELSE @[t]],
                 !.br = [b \in Branches |->
                    IF b \notin bs THEN @[b] ELSE [@[b] EXCEPT !.property = Token[f.br[b].uid]]]]

(***************************************************************************)
(* onRequest(ev) and makePushNotification(ms, transaction), for requests   *)
(* that leave in list order: one context for a call and a device, the      *)
(* first branch makes it; a branch that replaces another one gets none.    *)
(***************************************************************************)
MakePushNotification(p, f, bs) ==
    LET with == {b \in bs : Token[f.br[b].uid] # NoToken /\ p.br[b].cleared = 0}
        of(t) == {b \in with : Token[f.br[b].uid] = t}
        new == {t \in Tokens : of(t) # {} /\ p.ctx[t] = NoContext}
        makers == {FirstBranch(f, of(t)) : t \in new}
    IN [p EXCEPT !.ctx = [t \in Tokens |-> IF t \in new THEN NewContext(FirstBranch(f, of(t))) ELSE @[t]],
                 !.br = [b \in Branches |->
                    IF b \notin with THEN @[b]
                    ELSE [@[b] EXCEPT !.property = Token[f.br[b].uid],
                                      !.pushContext = IF b \in makers THEN Token[f.br[b].uid] ELSE @]]]

(* removePushNotification(pn): mPendingNotifications owned the context and *)
(* its strategy, so their timers stop and the pointers to them are empty.  *)
RemovePushNotification(p, t) ==
    LET drop(x) == IF x = t THEN NoToken ELSE x
    IN [p EXCEPT !.ctx[t] = NoContext,
                 !.br = [b \in Branches |->
                    [@[b] EXCEPT !.property = drop(@), !.listener = drop(@), !.pushContext = drop(@)]]]

(* onResponse(ev): any final answer but the 503 of a broken transport.     *)
OnPushResponse(p, b, code) ==
    IF code >= 200 /\ code # 503 /\ p.br[b].property # NoToken
    THEN RemovePushNotification(p, p.br[b].property) ELSE p

(* The strategies that listen to these branches stop their ringing.        *)
StopRinging(p, bs) ==
    [p EXCEPT !.ctx = [t \in Tokens |->
        IF (\E b \in bs : p.br[b].listener = t) /\ Kind[t] = "ring"
        THEN [@[t] EXCEPT !.ringing = FALSE] ELSE @[t]]]

(* notifyBranchCompleted and MessagePushStrategy::onBranchCompleted        *)
OnBranchCompleted(p, b, code) ==
    IF code >= 200 /\ code \notin {408, 503} THEN StopRinging(p, {b}) ELSE p

(* notifyBranchCanceled and MessagePushStrategy::onBranchCanceled; the     *)
(* last notification (missed call, answered elsewhere) is left out.        *)
OnBranchCanceled(p, bs) == StopRinging(p, bs)

(* The branches a response makes the fork cancel: all but its own.         *)
CancelledBy(f, b, code) ==
    IF code \in 200..299 \/ (code >= 600 /\ ~f.cfg.noGlobalDecline) THEN f.waiting \ {b} ELSE {}

(* Mutation: the listener stays with the old branch.                       *)
MutReplaces(p, old, b) ==
    IF old = NoBranch THEN p
    ELSE [p EXCEPT !.br[b] = [p.br[old] EXCEPT !.cleared = @ + 1, !.property = NoToken,
                                               !.listener = NoToken]]

(* addBranch(ev, contact): the new branch of a device takes over from the  *)
(* old one; the transaction of the new branch is another one.              *)
Replaces(p, old, b) ==
    IF old = NoBranch THEN p
    ELSE [p EXCEPT !.br[b] = [p.br[old] EXCEPT !.cleared = @ + 1, !.property = NoToken],
                   !.br[old].listener = NoToken]

-----------------------------------------------------------------------------
(* The requests the step of the fork let go pass through this module.      *)
(* Internal errors of the modules after it are ForkCall's matter.          *)
Leaves(p) ==
    /\ alive /\ ~Stopped(fork')
    /\ push' = MakePushNotification(p, fork', Passed(fork') \ Passed(fork))
    /\ UNCHANGED alive

CallResponse(b, code) ==
    /\ Response(b, code)
    /\ Leaves(OnPushResponse(OnBranchCanceled(OnBranchCompleted(push, b, code),
                                              CancelledBy(fork, b, code)), b, code))

(* A final response after the fork is gone still stops the notification.   *)
LateResponse(b) ==
    /\ alive /\ fork.life = "destroyed"
    /\ fork.br[b].out = "live" /\ push.br[b].property # NoToken
    /\ push' = RemovePushNotification(push, push.br[b].property)
    /\ UNCHANGED <<fork, alive>>

CallCancel == Cancel /\ Leaves(OnBranchCanceled(push, fork.waiting))

(* onNewRegister: the INVITE for a completed call needs its push context.  *)
CallNewRegister(c) ==
    LET old == FindBranchByUid(fork, c.uid)
    IN /\ NewRegister(c)
       /\ IsCompleted(fork) => push.br[old].pushContext # NoToken
       /\ Leaves(Replaces(push, old, fork'.created))

CallLateTimer ==
    /\ LateTimer
    /\ Leaves(IF fork.incoming THEN OnBranchCanceled(push, fork.waiting) ELSE push)

CallOtherTimer ==
    /\ ShortTimer \/ NextBranchesTimer \/ FinishTimer \/ AnnouncementsExpire
    /\ Leaves(push)

CallInject(b) == Inject(b) /\ Leaves(push)

-----------------------------------------------------------------------------
(* The rest of onTimeout(): the retry timer, while retries remain.         *)
Retried(c) == [c EXCEPT !.timer = c.retry > 0, !.retry = IF c.retry > 0 THEN c.retry - 1 ELSE 0]

(* sendPush(): sendCallNotification of the strategy.  The Message one      *)
(* needs the branch that made the context, and listens to it from then on. *)
Sends(t) == Kind[t] = "wake" \/ push.ctx[t].branch \in fork.waiting

Sent(p, t) ==
    LET b == p.ctx[t].branch
        counted == [p EXCEPT !.sent[t] = @ + 1]
    IN IF Kind[t] = "wake" THEN counted
       ELSE [counted EXCEPT !.br[b].listener = t, !.ctx[t].ringing = Kind[t] = "ring"]

(* Mutation: isFinished() is not tested.                                   *)
MutTimeoutSends(t) ==
    /\ alive /\ push.ctx[t].timer /\ fork.life # "destroyed"
    /\ Sends(t)
    /\ fork' = OnPushSent(fork, Kind[t] # "wake")
    /\ push' = [Sent(push, t) EXCEPT !.ctx[t] = Retried(@)]
    /\ UNCHANGED alive

(* onTimeout(), the call being set up: the fork hears of the notification. *)
TimeoutSends(t) ==
    /\ alive /\ push.ctx[t].timer
    /\ fork.life # "destroyed" /\ ~fork.finished
    /\ Sends(t)
    /\ fork' = OnPushSent(fork, Kind[t] # "wake")
    /\ push' = [Sent(push, t) EXCEPT !.ctx[t] = Retried(@)]
    /\ UNCHANGED alive

(* onTimeout(), the strategy throwing as the branch was cleared.           *)
TimeoutFails(t) ==
    /\ alive /\ push.ctx[t].timer
    /\ fork.life # "destroyed" /\ ~fork.finished
    /\ ~Sends(t)
    /\ push' = [push EXCEPT !.ctx[t] = Retried(@)]
    /\ UNCHANGED <<fork, alive>>

(* onTimeout(), the call being over: nothing is sent, the timer stays off. *)
TimeoutFinished(t) ==
    /\ alive /\ push.ctx[t].timer
    /\ fork.life # "destroyed" /\ fork.finished
    /\ push' = [push EXCEPT !.ctx[t].timer = FALSE]
    /\ UNCHANGED <<fork, alive>>

(* onTimeout(), the fork being gone: mForkContext.lock() is null, and its  *)
(* virtual isFinished() is called all the same: the process ends.          *)
TimeoutCrashes(t) ==
    /\ alive /\ push.ctx[t].timer
    /\ fork.life = "destroyed"
    /\ alive' = FALSE
    /\ push' = [push EXCEPT !.ctx = [u \in Tokens |-> NoContext]]
    /\ UNCHANGED fork

(* mCallRingingTimeoutTimer: it takes the timer of the repetition along.   *)
RingingTimeout(t) ==
    /\ alive /\ push.ctx[t].ringing
    /\ push' = [push EXCEPT !.ctx[t].ringing = FALSE]
    /\ UNCHANGED <<fork, alive>>

(* Mutation: the context is only cancelled.                                *)
MutEndTimer(t) ==
    /\ alive /\ Exists(t) /\ ~fork.lateTimer
    /\ push' = [push EXCEPT !.ctx[t].timer = FALSE]
    /\ UNCHANGED <<fork, alive>>

(* mEndTimer: a second after the end of a fork that lasts for              *)
(* call-fork-timeout, so after its late timer.                             *)
EndTimer(t) ==
    /\ alive /\ Exists(t) /\ ~fork.lateTimer
    /\ push' = RemovePushNotification(push, t)
    /\ UNCHANGED <<fork, alive>>

-----------------------------------------------------------------------------
PushInit ==
    /\ Init
    /\ ~Stopped(fork)
    /\ alive = TRUE
    /\ push = MakePushNotification(
                 [ctx |-> [t \in Tokens |-> NoContext], br |-> [b \in Branches |-> NoPointers],
                  sent |-> [t \in Tokens |-> 0]], fork, Passed(fork))

ContextTimer(t) ==
    \/ TimeoutSends(t)
    \/ TimeoutFails(t)
    \/ TimeoutFinished(t)
    \/ TimeoutCrashes(t)
    \/ RingingTimeout(t)
    \/ EndTimer(t)

PushNext ==
    \/ \E b \in Branches, code \in ProvisionalCodes \cup FinalCodes \cup {487} : CallResponse(b, code)
    \/ \E b \in Branches : LateResponse(b)
    \/ CallCancel
    \/ \E c \in LateContacts : CallNewRegister(c)
    \/ CallLateTimer
    \/ CallOtherTimer
    \/ \E b \in Branches : CallInject(b)
    \/ \E t \in Tokens : ContextTimer(t)

PushSpec == PushInit /\ [][PushNext]_pushVars

(* The main loop fires the late timer of the fork and the end timers.      *)
PushFairness ==
    /\ []<>~(fork.life # "destroyed" /\ fork.lateTimer) \/ []<><<LateTimer>>_vars
    /\ \A t \in Tokens : WF_pushVars(EndTimer(t))

FairPushSpec == PushSpec /\ PushFairness

-----------------------------------------------------------------------------
(* However often a device loses its connection and registers again during  *)
(* the call, its timer sends it one notification and the configured        *)
(* retransmissions (mClearedCount, mRetryCounter): "we must absolutely not *)
(* re-send a push notification".                                           *)
PushedOnce ==
    \A t \in Tokens :
        push.sent[t] <= (mRetransmissionCount + 1) * Cardinality({u \in Uids : Token[u] = t})

(* The step that ends the call for everybody (one device accepts or        *)
(* declines, the caller gives up) ends the ringing by notifications of all *)
(* devices, those that reconnected included: cancelOthers and              *)
(* notifyBranchCompleted find each strategy through the listener of a      *)
(* branch, which addBranch hands over.                                     *)
PickUpStopsRinging ==
    [][~fork.cancelled /\ fork'.cancelled => \A t \in Tokens : ~push'.ctx[t].ringing]_pushVars

(* What a fork sees of the module is what ForkCall lets its environment    *)
(* do: onPushSent comes for a branch that was sent, and never once the     *)
(* fork is finished (isFinished in onTimeout).                             *)
RefinesForkCall == Spec

(* No context stays for ever, so no device rings for ever either: each one *)
(* is answered or ends with its end timer (removePushNotification).        *)
EventuallyQuiet == <>[](\A t \in Tokens : push.ctx[t] = NoContext)

(* "Call is already established or canceled, so push notification is not   *)
(* sent but cleared": a timer that fires after the call does no harm.      *)
LateTimerIsHarmless == alive
=============================================================================
