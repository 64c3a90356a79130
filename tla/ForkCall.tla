------------------------------- MODULE ForkCall -------------------------------
(***************************************************************************)
(* ForkCallContext: an INVITE sent to all the devices of the callee.  The  *)
(* first device that accepts or declines, and the caller who gives up, end *)
(* the ringing of the others.  In fork-late mode the fork lives until its  *)
(* timeout, and a device that registers meanwhile is called too.           *)
(***************************************************************************)
EXTENDS ForkContextBase

CONSTANTS
    CallConfigs,        \* the configurations of the Router that are explored
    InitialContacts,    \* the contacts bound when the INVITE arrives
    LateContacts,       \* the contacts that may register during the fork
    VoipUids            \* devices woken by an Apple VoIP push

ASSUME CallAssumption ==
    /\ CallConfigs \subseteq ForkContextConfig
    /\ \A cs \in InitialContacts : \E n \in 1..MaxBranches : cs \in [1..n -> Contacts]
    /\ LateContacts \subseteq Contacts

VARIABLE fork
vars == <<fork>>

-----------------------------------------------------------------------------
IsCompleted(f) == f.lastSent >= 200 \/ f.cancelled \/ ~f.incoming

IsRingingSomewhere(f) == \E b \in f.waiting : f.br[b].status \in 180..199

(* getUrgentCodes() and isUrgent()                                         *)
UrgentCodesWithout603 == {401, 407, 415, 420, 484, 488, 606}
IsUrgent(f, code) ==
    \/ f.cfg.treatAllUrgent
    \/ code \in UrgentCodesWithout603
    \/ f.cfg.treatDeclineUrgent /\ code = 603

(* cancelBranch(br): a request that is still queued in the injector has no *)
(* transaction in the stack, so nothing happens to it.                     *)
CancelBranches(f, bs) ==
    [f EXCEPT !.br = [b \in Branches |->
        IF b \in bs /\ f.br[b].status < 200 /\ f.br[b].out = "live"
        THEN [f.br[b] EXCEPT !.cancelled = TRUE] ELSE f.br[b]]]

(* Mutation: the branches not started yet are kept.                        *)
MutCancelOthers(f, b) == [CancelBranches(f, f.current \ {b}) EXCEPT !.nextTimer = FALSE]

(* cancelOthers(br)                                                        *)
CancelOthers(f, b) == [CancelBranches(f, f.waiting \ {b}) EXCEPT !.nextTimer = FALSE]

(* processInternalError(status, phrase)                                    *)
ProcessInternalError(f) == CancelOthers(ForwardEvent(f, 500), NoBranch)

(***************************************************************************)
(* MediaRelay refuses the requests, its calls being at their maximum (or   *)
(* the SDP impossible to write, with a 500): it answers the caller itself, *)
(* once, and the fork hears nothing, nor does it of a CANCEL any more.     *)
(***************************************************************************)
Refuse(f, bs) ==
    [SetOut(f, bs, "lost") EXCEPT !.direct = IF f.incoming /\ f.direct = 0 THEN 503 ELSE f.direct]

(* Stands for the refusal of all the requests of a Launch.                 *)
AllRefused == {NoBranch}

(* The requests of some branches leave, or an internal error stops them,   *)
(* or they are refused.                                                    *)
Launch(f, bs, failing) ==
    LET sent == SendToInjector(f, bs, failing)
    IN CASE failing = {} -> sent
         [] failing = AllRefused -> Refuse(f, bs)
         [] OTHER -> ProcessInternalError(sent)

(* Mutation: the completed call is not tested.                             *)
MutStart(f, failing) ==
    LET n == NextBranches(f)
    IN IF f.finished THEN f ELSE ArmNextTimer(Launch(n, n.current, failing))

(* start()                                                                 *)
Start(f, failing) ==
    LET n == NextBranches(f)
    IN IF IsCompleted(f) \/ f.finished THEN f
       ELSE ArmNextTimer(Launch(n, n.current, failing))

(* What the injection of these branches may meet.                          *)
Failures(f, bs) == IF f.cfg.scheduled THEN {{}} ELSE FailingSets(f, bs) \cup {AllRefused}

(* checkFinished(): once cancelled, the best answer is sent at once.       *)
CheckFinished(f) ==
    LET base == CheckFinishedBase(f)
        f1 == base.fork
        best == FindBestBranch(f1, FALSE)
    IN IF (~f1.incoming /\ ~f1.cfg.forkLate) \/ base.forwarded \/ ~f1.cancelled \/ best = NoBranch
       THEN f1 ELSE ForwardResponse(f1, best)

(* addBranch(ev, contact) through ModuleRouter::dispatch                   *)
AddBranch(f, c, failing) ==
    LET f1 == PushBranch(ClearAnswered(f, c.uid), c)
        b == f1.created
    IN IF StartsAtOnce(f, c.prio)
       THEN Launch([f1 EXCEPT !.current = @ \cup {b}], {b}, failing)
       ELSE f1

-----------------------------------------------------------------------------
(* onResponse(br, event), the status of the branch being set already       *)
OnResponse(f, b, code) ==
    LET f1 == CASE code >= 600 /\ ~f.cfg.noGlobalDecline ->
                       CancelOthers([f EXCEPT !.cancelled = TRUE], b)
                [] code >= 600 /\ f.cfg.noGlobalDecline -> f
                [] code \in 300..599 -> [f EXCEPT !.timer = @ \/ IsUrgent(f, code)]
                [] code \in 200..299 ->
                       CancelOthers([ForwardResponse(f, b) EXCEPT !.cancelled = TRUE], b)
                [] OTHER -> ForwardResponse(f, b)
    IN CheckFinished(f1)

(* ForkContext::processResponse(ev)                                        *)
Response(b, code) ==
    LET f1 == OnResponse(WithStatus(fork, b, code), b, code)
    IN /\ fork.life # "destroyed"
       /\ b \in fork.waiting
       /\ fork.br[b].out = "live"
       /\ code = 487 => fork.br[b].cancelled
       /\ IF MovesOn(f1)
          THEN \E failing \in Failures(f1, NextBranches(f1).current) : fork' = Start(f1, failing)
          ELSE fork' = f1

(* onCancel(ms): the caller, who has no answer, gives up (once: the stack  *)
(* absorbs repeats).                                                       *)
Cancel ==
    LET f1 == CancelOthers([fork EXCEPT !.cancelled = TRUE], NoBranch)
    IN /\ fork.life # "destroyed"
       /\ fork.incoming /\ fork.direct = 0 /\ ~fork.cancelled
       /\ fork' = IF ShouldFinish(f1) THEN SetFinished(f1) ELSE CheckFinished(f1)

(* onPushSent(aPNCtx, aRingingPush)                                        *)
OnPushSent(f, ringing) ==
    LET f1 == OnPushSentBase(f)
    IN IF ringing /\ ~IsRingingSomewhere(f1) THEN SendResponse(f1, 180) ELSE f1

(* The push for a branch was sent, which any final answer but 503 stops    *)
(* (PushNotification, which comes before MediaRelay, says when).           *)
PushSent(ringing) ==
    /\ fork.life # "destroyed" /\ ~fork.finished
    /\ \E b \in Branches : fork.br[b].out \in {"live", "lost"} \/ fork.br[b].status = 503
    /\ fork' = OnPushSent(fork, ringing)

(***************************************************************************)
(* onNewRegister(dest, uid, newContact): the Router tells its late forks   *)
(* of every REGISTER.  A completed call is still sent to a device that was *)
(* woken by a VoIP push, to be cancelled at once: iOS wants to see it.     *)
(***************************************************************************)
NewRegister(c) ==
    LET dispatch == ShouldDispatch(fork, c.dest, c.uid)
        voip == dispatch.old # NoBranch /\ c.uid \in VoipUids
        useless == dispatch.status # "DispatchNeeded" \/ (IsCompleted(fork) /\ ~voip)
        b == fork.created + 1
    IN /\ fork.life = "registered"
       /\ fork.cfg.forkLate
       /\ ~useless
       /\ fork.created < MaxBranches
       /\ \E failing \in IF StartsAtOnce(fork, c.prio) /\ ~fork.cfg.scheduled
                         THEN {{}, {b}, AllRefused} ELSE {{}} :
            LET f1 == AddBranch(fork, c, failing)
            IN fork' = CheckFinished(IF IsCompleted(fork) THEN CancelBranches(f1, {b}) ELSE f1)

-----------------------------------------------------------------------------
(* onShortTimer(): urgent errors are answered before the other branches.   *)
ShortTimer ==
    LET f1 == [fork EXCEPT !.timer = FALSE]
        best == FindBestBranch(f1, f1.cfg.forkLate)
    IN /\ fork.life # "destroyed"
       /\ fork.timer
       /\ fork' = IF IsRingingSomewhere(f1) \/ best = NoBranch THEN f1
                  ELSE ForwardResponse(f1, best)

(* onLateTimeout()                                                         *)
OnLateTimeout(f) ==
    LET best == FindBestBranch(f, f.cfg.forkLate)
        answered == IF best = NoBranch THEN ForwardEvent(f, 408) ELSE ForwardResponse(f, best)
    IN IF f.incoming THEN CancelOthers(answered, NoBranch) ELSE f

(* processLateTimeout()                                                    *)
LateTimer ==
    /\ fork.life # "destroyed"
    /\ fork.lateTimer
    /\ fork' = SetFinished(OnLateTimeout([fork EXCEPT !.lateTimer = FALSE]))

(* onNextBranches()                                                        *)
NextBranchesTimer ==
    LET f1 == [fork EXCEPT !.nextTimer = FALSE]
    IN /\ fork.life # "destroyed"
       /\ fork.nextTimer
       /\ IF HasNextBranches(f1)
          THEN \E failing \in Failures(f1, NextBranches(f1).current) : fork' = Start(f1, failing)
          ELSE fork' = f1

(* Mutation: counts an answer whatever was sent.                           *)
MutDestroy(f) == [f EXCEPT !.life = "destroyed", !.finals = @ + 1, !.incoming = FALSE]

(* ~ForkCallContext(): a caller without an answer gets 503.                *)
Destroy(f) ==
    IF f.incoming THEN [f EXCEPT !.life = "destroyed", !.finals = @ + 1, !.incoming = FALSE,
                                 !.lastSent = 503]
    ELSE [f EXCEPT !.life = "destroyed"]

(* onFinished() and ModuleRouter::onForkContextFinished: the Router drops  *)
(* its reference; the injector may hold others, unless they have expired.  *)
FinishTimer ==
    LET f1 == [fork EXCEPT !.finishTimer = FALSE]
    IN /\ fork.life # "destroyed"
       /\ fork.finishTimer
       /\ \/ /\ Queued(f1) \/ Announced(f1)
             /\ fork' = [f1 EXCEPT !.life = "released"]
          \/ /\ ~Queued(f1)
             /\ fork' = Destroy(f1)

(* The last announcements of a fork that was dropped expire.               *)
AnnouncementsExpire ==
    /\ fork.life = "released"
    /\ ~Queued(fork) /\ Announced(fork)
    /\ fork' = Destroy(fork)

(* The ScheduleInjector lets a queued request go, and drops its reference. *)
Inject(b) ==
    /\ fork.life # "destroyed"
    /\ fork.br[b].out = "queued"
    /\ \E failing \in {{}, {b}, AllRefused} :
         LET f1 == CASE failing = {} -> PassOn(fork, {b})
                     [] failing = AllRefused -> Refuse(fork, {b})
                     [] OTHER -> ProcessInternalError(SetOut(fork, {b}, "void"))
         IN fork' = IF f1.life = "released" /\ ~Queued(f1) /\ ~Announced(f1)
                    THEN Destroy(f1) ELSE f1

-----------------------------------------------------------------------------
(* ModuleRouter::routeRequest: the fork, its branches, start().            *)
Init ==
    \E cfg \in CallConfigs, cs \in InitialContacts :
      LET f == NewFork(cfg, FALSE, cs)
      IN \E failing \in Failures(f, NextBranches(f).current) : fork = Start(f, failing)

AnyResponse == \E b \in Branches, code \in ProvisionalCodes \cup FinalCodes \cup {487} : Response(b, code)

Next ==
    \/ AnyResponse
    \/ Cancel
    \/ \E ringing \in BOOLEAN : PushSent(ringing)
    \/ \E c \in LateContacts : NewRegister(c)
    \/ ShortTimer
    \/ LateTimer
    \/ NextBranchesTimer
    \/ FinishTimer
    \/ AnnouncementsExpire
    \/ \E b \in Branches : Inject(b)

Spec == Init /\ [][Next]_vars

(***************************************************************************)
(* The timers of the main loop fire, and the stack ends every client       *)
(* transaction with a final response, its own 408 or 503 if need be: weak  *)
(* fairness, with the enabling condition of each action spelled out.  A    *)
(* request that a module has ended (lost) has no client transaction, and   *)
(* nothing is asked of the injector, which other calls may keep waiting.   *)
(***************************************************************************)
FinalResponse(b) == \E code \in FinalCodes \cup {487} : Response(b, code)

Pending(b) == fork.life # "destroyed" /\ b \in fork.waiting /\ fork.br[b].out = "live"

Fairness ==
    /\ []<>~(fork.life # "destroyed" /\ fork.finishTimer) \/ []<><<FinishTimer>>_vars
    /\ []<>~(fork.life # "destroyed" /\ fork.lateTimer) \/ []<><<LateTimer>>_vars
    /\ []<>~(fork.life # "destroyed" /\ fork.nextTimer) \/ []<><<NextBranchesTimer>>_vars
    /\ \A b \in Branches : []<>~Pending(b) \/ []<><<FinalResponse(b)>>_vars

FairSpec == Spec /\ Fairness

-----------------------------------------------------------------------------
(* Every field of the fork and of its branches keeps its type.             *)
TypeOK == fork \in ForkContext

Live(f) == {b \in Branches : f.br[b].out = "live"}
Stopped(f) == \E b \in Branches : f.br[b].out = "void"

(* The fork forwards at most one final answer, whatever answers, timers,   *)
(* errors and cancellations race, and has done so when the context is gone *)
(* (forwardResponse resets mIncoming, ~ForkCallContext answers 503).       *)
AnsweredOnce ==
    /\ fork.finals = IF fork.incoming THEN 0 ELSE 1
    /\ fork.life = "destroyed" => ~fork.incoming

(* When a device has accepted or declined, the caller has cancelled, or an *)
(* internal error has failed the call, no device keeps ringing: each one   *)
(* with a pending INVITE was sent a CANCEL (cancelOthers, onNewRegister).  *)
(* This is of requests sent at once: one parked in the injector when the   *)
(* call ends is not withdrawn from it, and rings later.                    *)
NoPhantomRinging ==
    ~fork.cfg.scheduled /\ (fork.cancelled \/ Stopped(fork)) =>
        \A b \in Live(fork) : fork.br[b].cancelled

(* An INVITE that leaves once the call is completed, to wake an iOS device,*)
(* is cancelled by the same handler (isCompleted in start, onNewRegister); *)
(* of requests sent at once, again.                                        *)
NoCallAfterCompletion ==
    [][~fork.cfg.scheduled /\ IsCompleted(fork) =>
         \A b \in Live(fork') \ Live(fork) : fork'.br[b].cancelled]_vars

(* A failure is reported to the caller only when every contact, those of   *)
(* lower priority included, has answered; unless the call was cancelled or *)
(* declined, stopped by an error, timed out, or has an urgent answer       *)
(* (checkFinished looks at all of mWaitingBranches, not the current ones). *)
FailureIsComplete ==
    [][fork.incoming /\ ~fork'.incoming /\ fork'.lastSent >= 300
         => \/ fork'.cancelled \/ Stopped(fork')
            \/ fork.timer /\ ~fork'.timer
            \/ fork.lateTimer /\ fork'.finished /\ ~fork'.lateTimer
            \/ AllAnsweredRFC(fork', fork'.waiting)]_vars

(* The final answer the caller has got, 0 if none.  What the fork forwards *)
(* to a caller who was answered directly is not sent: IncomingTransaction  *)
(* has let go of the transaction.                                          *)
Answer(f) == IF f.direct # 0 THEN f.direct ELSE IF f.incoming THEN 0 ELSE f.lastSent

Promise == INSTANCE ForkedRequest WITH
    Answers <- {c \in Codes : c >= 200},
    answer <- Answer(fork),
    gone <- fork.life = "destroyed"

(* The caller's view of a call fork is that of ForkedRequest: one answer,  *)
(* never revised, given before the context goes (forwardResponse, the 503  *)
(* of ~ForkCallContext, and a module's refusal).                           *)
KeepsPromise == Promise!Spec

(* Every fork ends, however the devices answer (setFinished is reached on  *)
(* every path), unless the injector holds it, by a request or, once it is  *)
(* over, by an announcement; or nobody has decided the call, the fork is   *)
(* not a late one, and a module has ended one of its requests in silence.  *)
EventuallyDestroyed ==
    <>[]\/ fork.life = "destroyed"
        \/ Queued(fork) \/ (fork.life = "released" /\ Announced(fork))
        \/ /\ ~fork.cfg.forkLate /\ ~fork.finished
           /\ \E b \in fork.waiting : fork.br[b].out = "lost"
=============================================================================
