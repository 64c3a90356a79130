------------------------------ MODULE ForkBasic ------------------------------
(***************************************************************************)
(* ForkBasicContext: a request that is neither a call nor a message, sent  *)
(* to all the contacts.  The first success is forwarded; errors wait until *)
(* every contact has answered or the decision timer (20 s) expires.        *)
(***************************************************************************)
EXTENDS ForkContextBase

CONSTANTS
    BasicConfigs,       \* mOtherForkCfg, with or without the ScheduleInjector
    InitialContacts     \* the contacts bound when the request arrives

ASSUME BasicAssumption ==
    /\ BasicConfigs \subseteq {cfg \in ForkContextConfig : ~cfg.forkLate /\ ~cfg.nextTimeout}
    /\ \A cs \in InitialContacts : \E n \in 1..MaxBranches : cs \in [1..n -> Contacts]

VARIABLE fork
vars == <<fork>>

-----------------------------------------------------------------------------
(* processInternalError(status, phrase): too many hops.                    *)
ProcessInternalError(f) == ForwardEvent([f EXCEPT !.timer = FALSE], 483)

Launch(f, bs, failing) ==
    LET sent == SendToInjector(f, bs, failing)
    IN IF failing = {} THEN sent ELSE ProcessInternalError(sent)

(* ForkContextBase::start()                                                *)
Start(f, failing) ==
    LET n == NextBranches(f)
    IN IF f.finished THEN f ELSE ArmNextTimer(Launch(n, n.current, failing))

(* The hop count is the same on all the branches: all fail, or none.       *)
Failures(f, bs) == IF f.cfg.scheduled THEN {{}} ELSE {{}, bs}

(* finishIncomingTransaction()                                             *)
FinishIncomingTransaction(f) ==
    LET f1 == [f EXCEPT !.timer = FALSE]
        best == FindBestBranch(f1, FALSE)
    IN IF best = NoBranch THEN ForwardEvent(f1, 408) ELSE ForwardResponse(f1, best)

(* onResponse(br, event)                                                   *)
OnResponse(f, b, code) ==
    CASE code \in 200..299 -> [ForwardResponse(f, b) EXCEPT !.timer = FALSE]
      [] code >= 300 /\ AllAnsweredRFC(f, f.waiting) -> FinishIncomingTransaction(f)
      [] OTHER -> f

(* ForkContext::processResponse(ev)                                        *)
Response(b, code) ==
    LET f1 == OnResponse(WithStatus(fork, b, code), b, code)
    IN /\ fork.life # "destroyed"
       /\ b \in fork.waiting
       /\ fork.br[b].out = "live"
       /\ IF MovesOn(f1)
          THEN \E failing \in Failures(f1, NextBranches(f1).current) : fork' = Start(f1, failing)
          ELSE fork' = f1

(* Mutation: nothing is done when the timer fires.                         *)
MutDecisionTimer ==
    /\ fork.life # "destroyed"
    /\ fork.timer
    /\ fork' = [fork EXCEPT !.timer = FALSE]

(* onDecisionTimer()                                                       *)
DecisionTimer ==
    /\ fork.life # "destroyed"
    /\ fork.timer
    /\ fork' = FinishIncomingTransaction(fork)

(* onFinished(): the Router lets the context go; the injector may hold it, *)
(* unless all the announcements have expired.                              *)
FinishTimer ==
    /\ fork.life # "destroyed"
    /\ fork.finishTimer
    /\ \E life \in {"released", "destroyed"} :
         /\ life = "released" => Queued(fork) \/ Announced(fork)
         /\ life = "destroyed" => ~Queued(fork)
         /\ fork' = [fork EXCEPT !.finishTimer = FALSE, !.life = life]

(* The last announcements of a fork that was dropped expire.               *)
AnnouncementsExpire ==
    /\ fork.life = "released"
    /\ ~Queued(fork) /\ Announced(fork)
    /\ fork' = [fork EXCEPT !.life = "destroyed"]

(* The ScheduleInjector lets a queued request go, and drops its reference. *)
Inject(b) ==
    /\ fork.life # "destroyed"
    /\ fork.br[b].out = "queued"
    /\ \E failing \in BOOLEAN :
         LET f1 == IF failing THEN ProcessInternalError(SetOut(fork, {b}, "void"))
                   ELSE PassOn(fork, {b})
         IN fork' = IF f1.life = "released" /\ ~Queued(f1) /\ ~Announced(f1)
                    THEN [f1 EXCEPT !.life = "destroyed"] ELSE f1

-----------------------------------------------------------------------------
Init ==
    \E cfg \in BasicConfigs, cs \in InitialContacts :
      LET f == NewFork(cfg, TRUE, cs)
      IN \E failing \in Failures(f, NextBranches(f).current) : fork = Start(f, failing)

Next ==
    \/ \E b \in Branches, code \in ProvisionalCodes \cup FinalCodes : Response(b, code)
    \/ DecisionTimer
    \/ FinishTimer
    \/ AnnouncementsExpire
    \/ \E b \in Branches : Inject(b)

Spec == Init /\ [][Next]_vars

(* The two timers of the context fire: nothing else is needed to end it,   *)
(* a device that never answers included.                                   *)
Fairness == WF_vars(DecisionTimer) /\ WF_vars(FinishTimer)

FairSpec == Spec /\ Fairness

-----------------------------------------------------------------------------
Promise == INSTANCE ForkedRequest WITH
    Answers <- {c \in Codes : c >= 200},
    answer <- IF fork.incoming THEN 0 ELSE fork.lastSent,
    gone <- fork.life = "destroyed"

(* The sender's view of a basic fork is that of ForkedRequest.             *)
KeepsPromise == Promise!Spec

(* Even if no device answers, the sender does get an answer and the        *)
(* context is released (the decision timer needs no branch).               *)
EventuallyAnswered == <>(~fork.incoming /\ fork.life # "registered")
=============================================================================
