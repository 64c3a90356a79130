----------------------------- MODULE ForkMessage -----------------------------
(***************************************************************************)
(* ForkMessageContext: a MESSAGE (or REFER) sent to all the devices of its *)
(* recipient.  In fork-late mode the sender gets 202 when no device has    *)
(* answered soon, and the message is kept until every known device has got *)
(* it or the delivery timeout expires; devices that register meanwhile get *)
(* it too.                                                                 *)
(*                                                                         *)
(* Its own specification is that of a server that does not save messages,  *)
(* where requests are sent at once.  One that does wraps each message in a *)
(* proxy and schedules the requests: see ForkMessageDbProxy.               *)
(***************************************************************************)
EXTENDS ForkContextBase

CONSTANTS
    MessageConfigs,     \* the configurations of the Router that are explored
    InitialContacts,    \* the contacts bound when the message arrives
    LateContacts,       \* the contacts that may register during the fork
    LongDelivery        \* mDeliveryTimeout > 30: the acceptance timer is used

ASSUME MessageAssumption ==
    /\ MessageConfigs \subseteq {cfg \in ForkContextConfig : ~cfg.nextTimeout}
    /\ \A cs \in InitialContacts : \E n \in 1..MaxBranches : cs \in [1..n -> Contacts]
    /\ \A cs \in InitialContacts : \A i, j \in DOMAIN cs : cs[i].uid = cs[j].uid => i = j
    /\ LateContacts \subseteq Contacts
    /\ LongDelivery \in BOOLEAN

VARIABLE fork
vars == <<fork>>

-----------------------------------------------------------------------------
UrgentCodes == {401, 407, 415, 420, 484, 488, 606, 603}

(* Too many hops; the branches are not cancelled.                          *)
ProcessInternalError(f) == ForwardEvent(f, 483)

Launch(f, bs, failing) ==
    LET sent == SendToInjector(f, bs, failing)
    IN IF failing = {} THEN sent ELSE ProcessInternalError(sent)

(* All the branches of a message share its hop count: an internal error    *)
(* stops them all, or none.                                                *)
Failures(f, bs) == IF f.cfg.scheduled \/ bs = {} THEN {{}} ELSE {{}, bs}

(* start()                                                                 *)
Start(f, failing) ==
    LET n == NextBranches(f)
    IN IF f.finished THEN f ELSE ArmNextTimer(Launch(n, n.current, failing))

(* onNewBranch(br): any branch of the same device goes.                    *)
OnNewBranch(f, u) ==
    LET old == FindBranchByUid(f, u)
    IN IF old = NoBranch THEN f ELSE RemoveBranch(f, old)

(* Mutation: a branch that was replaced stays.                             *)
MutAddBranch(f, c, failing) ==
    LET f1 == PushBranch(ClearAnswered(f, c.uid), c)
        b == f1.created
    IN IF StartsAtOnce(f, c.prio)
       THEN Launch([f1 EXCEPT !.current = @ \cup {b}], {b}, failing)
       ELSE f1

(* addBranch(ev, contact) through ModuleRouter::dispatch                   *)
AddBranch(f, c, failing) ==
    LET f1 == PushBranch(OnNewBranch(ClearAnswered(f, c.uid), c.uid), c)
        b == f1.created
    IN IF StartsAtOnce(f, c.prio)
       THEN Launch([f1 EXCEPT !.current = @ \cup {b}], {b}, failing)
       ELSE f1

-----------------------------------------------------------------------------
(* acceptMessage() and onAcceptanceTimer()                                 *)
OnAcceptanceTimer(f) == [ForwardEvent(f, 202) EXCEPT !.timer = FALSE]

(* A response of a device: a success counts as a delivery.                 *)
Forwarded(f, b, code) ==
    IF code \in 200..299 THEN
        ForwardResponse([f EXCEPT !.deliveredCount = @ + 1, !.timer = FALSE], b)
    ELSE IF code \in 101..199 \/ (~f.cfg.forkLate /\ code \in UrgentCodes) THEN
        ForwardResponse(f, b)
    ELSE f

(* Mutation: the acceptance timer is left to run.                          *)
MutOnResponse(f, b, code) == CheckFinishedBase(Forwarded(f, b, code)).fork

(* onResponse(br, event): when all have answered and some may come back,   *)
(* the sender need not wait for the acceptance timer.                      *)
OnResponse(f, b, code) ==
    LET f1 == CheckFinishedBase(Forwarded(f, b, code)).fork
    IN IF f1.timer /\ AllAnsweredRFC(f1, f1.waiting) /\ ~f1.finished
       THEN OnAcceptanceTimer(f1) ELSE f1

(* ForkContext::processResponse(ev)                                        *)
Response(b, code) ==
    LET f1 == OnResponse(WithStatus(fork, b, code), b, code)
    IN /\ fork.life # "destroyed"
       /\ b \in fork.waiting
       /\ fork.br[b].out = "live"
       /\ IF MovesOn(f1)
          THEN \E failing \in Failures(f1, NextBranches(f1).current) : fork' = Start(f1, failing)
          ELSE fork' = f1

(* The answer on a branch that was replaced: its BranchInfo is gone and    *)
(* nobody takes notice.                                                    *)
LostResponse(b) ==
    /\ fork.life # "destroyed"
    /\ b \notin fork.waiting
    /\ fork.br[b].out = "live"
    /\ fork' = [fork EXCEPT !.br[b].out = "done"]

(* onPushSent(aPNCtx, aRingingPush)                                        *)
PushSent ==
    /\ fork.life # "destroyed" /\ ~fork.finished
    /\ \E b \in Branches : fork.br[b].out \in {"live", "lost"} \/ fork.br[b].status = 503
    /\ fork' = OnPushSentBase(fork)

(* What onNewRegister(dest, uid, newContact) decides on a device.          *)
Dispatch(f, c) ==
    LET old == FindBranchByUid(f, c.uid)
        status == ShouldDispatch(f, c.dest, c.uid).status
    IN IF \/ status # "DispatchNeeded"
          \/ old = NoBranch
          \/ NeedsDeliveryForkLate(f.br[old].status)
          \/ f.deliveredCount = 0
       THEN status ELSE "DispatchNotNeeded"

(* ... and the new branch, when the device is to get the message.          *)
NewRegister(c) ==
    /\ fork.life = "registered"
    /\ fork.cfg.forkLate
    /\ Dispatch(fork, c) = "DispatchNeeded"
    /\ fork.created < MaxBranches
    /\ \E failing \in IF StartsAtOnce(fork, c.prio) THEN Failures(fork, {fork.created + 1}) ELSE {{}} :
         fork' = AddBranch(fork, c, failing)

AcceptanceTimer ==
    /\ fork.life # "destroyed"
    /\ fork.timer
    /\ fork' = OnAcceptanceTimer(fork)

(* processLateTimeout(): messages have no onLateTimeout.  The acceptance   *)
(* timeout is shorter than the delivery timeout.                           *)
LateTimer ==
    /\ fork.life # "destroyed"
    /\ fork.lateTimer
    /\ ~fork.timer
    /\ fork' = SetFinished([fork EXCEPT !.lateTimer = FALSE])

(* onFinished(): the Router lets the context go; nobody else refers to it. *)
FinishTimer ==
    /\ fork.life # "destroyed"
    /\ fork.finishTimer
    /\ fork' = [fork EXCEPT !.finishTimer = FALSE, !.life = "destroyed"]

-----------------------------------------------------------------------------
Init ==
    \E cfg \in MessageConfigs, cs \in InitialContacts :
      LET f == NewFork(cfg, cfg.forkLate /\ LongDelivery, cs)
      IN \E failing \in Failures(f, NextBranches(f).current) : fork = Start(f, failing)

Next ==
    \/ \E b \in Branches, code \in ProvisionalCodes \cup FinalCodes : Response(b, code)
    \/ \E b \in Branches : LostResponse(b)
    \/ PushSent
    \/ \E c \in LateContacts : NewRegister(c)
    \/ AcceptanceTimer
    \/ LateTimer
    \/ FinishTimer

Spec == Init /\ [][Next]_vars

(* The timers fire; the stack ends every client transaction, which the     *)
(* request that a module has ended (lost) does not have.                   *)
FinalResponse(b) == \E code \in FinalCodes : Response(b, code)
Pending(b) == fork.life # "destroyed" /\ b \in fork.waiting /\ fork.br[b].out = "live"

Fairness ==
    /\ WF_vars(AcceptanceTimer)
    /\ WF_vars(LateTimer)
    /\ WF_vars(FinishTimer)
    /\ \A b \in Branches : []<>~Pending(b) \/ []<><<FinalResponse(b)>>_vars

FairSpec == Spec /\ Fairness

-----------------------------------------------------------------------------
(* A device has at most one branch whose answer counts, however often it   *)
(* reconnects (onNewBranch removes the branch of the same uid).            *)
OneBranchPerDevice ==
    \A b, c \in fork.waiting : fork.br[b].uid = fork.br[c].uid => b = c

(* In fork-late mode the message is not given up before its timeout while  *)
(* a device is still to be reached: a finished fork has a definite answer  *)
(* of each device, or its late timer has expired (checkFinished).          *)
KeptUntilDelivered ==
    [][fork.cfg.forkLate /\ ~fork.finished /\ fork'.finished
         => AllAnsweredForkLate(fork', fork'.waiting) \/ fork'.br = fork.br]_vars

(* The sender of a message kept for later is told soon: when every known   *)
(* branch has answered, the sender does not wait for the timer.            *)
AcceptedOnceAnswered ==
    fork.incoming /\ fork.timer => ~AllAnsweredRFC(fork, fork.waiting)

Promise == INSTANCE ForkedRequest WITH
    Answers <- {c \in Codes : c >= 200},
    answer <- IF fork.incoming THEN 0 ELSE fork.lastSent,
    gone <- fork.life = "destroyed"

(* The sender's view of a message fork is that of ForkedRequest: exactly   *)
(* one answer before the context goes (2xx of a device, the best error, or *)
(* 202 from acceptMessage).                                                *)
KeepsPromise == Promise!Spec

(* Every message fork ends, by delivery, error or timeout; but for one     *)
(* that does not fork late, so has no timer, while ForwardModule has ended *)
(* one of its requests in silence and no device has taken the message.     *)
EventuallyDestroyed ==
    <>[]\/ fork.life = "destroyed"
        \/ /\ ~fork.cfg.forkLate /\ ~fork.finished
           /\ \E b \in fork.waiting : fork.br[b].out = "lost"
=============================================================================
