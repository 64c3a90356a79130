--------------------------- MODULE ForkContextBase ---------------------------
(***************************************************************************)
(* What the three fork contexts of the Router share (ForkContextBase and   *)
(* BranchInfo): the branches of a forked request, the transaction towards  *)
(* the sender of the request (mIncoming) and the timers that end the fork. *)
(*                                                                         *)
(* A handler of the code is a chain of calls on one object, run to the end *)
(* by the main loop.  The object is therefore a record, each method an     *)
(* operator from the record before to the record after the call, and a     *)
(* handler the composition of its methods.  The modules of the subclasses  *)
(* hold the record in a variable.                                          *)
(*                                                                         *)
(* SIP status codes are numbers.  A branch is the number of its creation,  *)
(* so mWaitingBranches (sorted by decreasing priority, insertions at the   *)
(* end, a stable sort) is a set whose order is BranchBefore.               *)
(***************************************************************************)
EXTENDS Integers, Sequences

CONSTANTS
    MaxBranches,        \* bound: branches created in the life of a fork
    Uids,               \* unique ids of the devices (BranchInfo::mUid)
    Dests,              \* host and port of a contact address
    Ours,               \* those that are the proxy's own (Agent::isUs)
    Qs,                 \* contact priorities (BranchInfo::mPriority), naturals
    ProvisionalCodes,   \* responses a device may send: 1xx
    FinalCodes          \* 2xx to 6xx; 408 and 503 also stand for sofia's own

ASSUME ForkAssumption ==
    /\ MaxBranches \in Nat
    /\ Uids # {} /\ Dests # {} /\ Qs # {} /\ Ours \subseteq Dests
    /\ Qs \subseteq Nat
    /\ ProvisionalCodes \subseteq 100..199
    /\ FinalCodes \subseteq 200..699

Branches == 1..MaxBranches
NoBranch == 0
NoPriority == -1        \* mCurrentPriority of a fork that is not started

(* Codes the proxy itself answers with, and 487, which the stack generates *)
(* for a branch that is cancelled.                                         *)
OwnCodes == {110, 180, 202, 408, 483, 487, 500, 503}
Codes == {0} \cup ProvisionalCodes \cup FinalCodes \cup OwnCodes

(***************************************************************************)
(* BranchInfo.  "out" follows the request of the branch: held by the       *)
(* branch, queued in the ScheduleInjector, live (a request the device may  *)
(* answer), done (answered), void (stopped by an internal error), or lost: *)
(* a module ended it without a word to the fork, and nobody will answer.   *)
(* "cancelled" tells that the live request was asked to stop.  mTransaction*)
(* is reset only with a final status, after which no method looks at it.   *)
(***************************************************************************)
OutStates == {"held", "queued", "live", "done", "void", "lost"}

BranchInfo ==
    [uid : Uids, dest : Dests, prio : Qs, status : Codes, out : OutStates, cancelled : BOOLEAN]

ForkContextConfig ==
    [forkLate : BOOLEAN, nextTimeout : BOOLEAN, permitSelf : BOOLEAN,
     noGlobalDecline : BOOLEAN, treatAllUrgent : BOOLEAN, treatDeclineUrgent : BOOLEAN,
     scheduled : BOOLEAN]

(***************************************************************************)
(* ForkContextBase and its subclasses.  "timer" is the one timer each      *)
(* subclass adds (mShortTimer, mAcceptanceTimer, mDecisionTimer),          *)
(* "cancelled" is a call's and "deliveredCount" a message's, "finals"      *)
(* counts the final answers forwarded to the sender, "direct" is the one a *)
(* module gave the caller behind the back of the fork (0: none), "life"    *)
(* tells whether the fork is in the Router's mForks, only in the hands of  *)
(* the injector, or destroyed.                                             *)
(***************************************************************************)
Lives == {"registered", "released", "destroyed"}

ForkContext ==
    [cfg : ForkContextConfig, incoming : BOOLEAN, lastSent : Codes, finals : Nat, direct : Codes,
     finished : BOOLEAN, finishTimer : BOOLEAN, lateTimer : BOOLEAN, nextTimer : BOOLEAN,
     timer : BOOLEAN, cancelled : BOOLEAN, sent110 : BOOLEAN, deliveredCount : Nat,
     currentPriority : Qs \cup {NoPriority}, waiting : SUBSET Branches,
     current : SUBSET Branches, created : 0..MaxBranches,
     br : [Branches -> BranchInfo], life : Lives]

(***************************************************************************)
(* The constructor, followed by the addBranch calls of routeRequest: one   *)
(* branch for each of the contacts the registrar returned (a sequence of   *)
(* priorities; the devices differ).  The late timer covers "late" forks.   *)
(***************************************************************************)
UnusedBranch == [uid |-> CHOOSE u \in Uids : TRUE, dest |-> CHOOSE d \in Dests : TRUE,
                 prio |-> CHOOSE q \in Qs : TRUE, status |-> 0, out |-> "held",
                 cancelled |-> FALSE]

Contacts == [uid : Uids, dest : Dests, prio : Qs]

NewFork(cfg, timer, contacts) ==
    [cfg |-> cfg, incoming |-> TRUE, lastSent |-> 0, finals |-> 0, direct |-> 0,
     finished |-> FALSE, finishTimer |-> FALSE, lateTimer |-> cfg.forkLate, nextTimer |-> FALSE,
     timer |-> timer, cancelled |-> FALSE, sent110 |-> FALSE, deliveredCount |-> 0,
     currentPriority |-> NoPriority, waiting |-> DOMAIN contacts,
     current |-> {}, created |-> Len(contacts),
     br |-> [b \in Branches |-> IF b \in DOMAIN contacts
                THEN [UnusedBranch EXCEPT !.uid = contacts[b].uid, !.dest = contacts[b].dest,
                                          !.prio = contacts[b].prio]
                ELSE UnusedBranch],
     life |-> "registered"]

-----------------------------------------------------------------------------
(* BranchInfo::needsDelivery                                               *)
NeedsDeliveryRFC(s) == s < 200
NeedsDeliveryForkLate(s) == s < 200 \/ s \in {503, 408}

AllAnsweredRFC(f, bs) == \A b \in bs : ~NeedsDeliveryRFC(f.br[b].status)
AllAnsweredForkLate(f, bs) == \A b \in bs : ~NeedsDeliveryForkLate(f.br[b].status)

BranchBefore(f, b, c) ==
    \/ f.br[b].prio > f.br[c].prio
    \/ f.br[b].prio = f.br[c].prio /\ b <= c

(* The first element of a set of waiting branches in list order.           *)
FirstBranch(f, bs) ==
    LET first == {b \in bs : \A c \in bs : BranchBefore(f, b, c)}
    IN IF first = {} THEN NoBranch ELSE CHOOSE b \in first : TRUE

FindBranchByUid(f, u) == FirstBranch(f, {b \in f.waiting : f.br[b].uid = u})
FindBranchByDest(f, d) == FirstBranch(f, {b \in f.waiting : f.br[b].dest = d})

-----------------------------------------------------------------------------
(***************************************************************************)
(* findBestBranch(ignore503And408).  The loop of the code keeps the first  *)
(* branch of the list that no other one beats; BranchBeats is that order.  *)
(* BestBranch checks it against the loop itself.                           *)
(***************************************************************************)
Useful4xx == {401, 407, 415, 420, 484}
IsConsidered(code, ignore503And408) == ignore503And408 => code \notin {503, 408}
CodeClass(code) == code \div 100

(* 2xx first, then 6xx, then the lower class; a useful 4xx before the rest *)
CodeRank(code) ==
    CASE CodeClass(code) = 2 -> code - 200
      [] CodeClass(code) = 6 -> 100 + (code - 600)
      [] CodeClass(code) = 3 -> 200
      [] code \in Useful4xx  -> 201
      [] CodeClass(code) = 4 -> 202
      [] OTHER               -> 203

BranchBeats(f, b, c) ==
    LET rb == CodeRank(f.br[b].status)
        rc == CodeRank(f.br[c].status)
    IN rb < rc \/ (rb = rc /\ BranchBefore(f, b, c))

FindBestBranch(f, ignore503And408) ==
    LET answered == {b \in f.waiting : /\ f.br[b].status >= 200
                                       /\ IsConsidered(f.br[b].status, ignore503And408)}
        best == {b \in answered : \A c \in answered : BranchBeats(f, b, c)}
    IN IF best = {} THEN NoBranch ELSE CHOOSE b \in best : TRUE

-----------------------------------------------------------------------------
RemoveBranch(f, b) == [f EXCEPT !.waiting = @ \ {b}, !.current = @ \ {b}]

(* Mutation: the finish timer is not started.                              *)
MutSetFinished(f) == [f EXCEPT !.finished = TRUE, !.lateTimer = FALSE, !.nextTimer = FALSE]

(* setFinished(): the fork leaves the Router at the next loop iteration.   *)
SetFinished(f) ==
    IF f.finishTimer THEN f
    ELSE [f EXCEPT !.finished = TRUE, !.finishTimer = TRUE,
                   !.lateTimer = FALSE, !.nextTimer = FALSE]

(* All subclasses end with their final answer unless they fork late.       *)
ShouldFinish(f) == ~f.cfg.forkLate

(* Mutation: answers without looking at the transaction.                   *)
MutForwardEvent(f, code) ==
    LET final == [f EXCEPT !.lastSent = code, !.incoming = FALSE, !.finals = @ + 1]
    IN IF code < 200 THEN [f EXCEPT !.lastSent = code]
       ELSE IF ShouldFinish(f) THEN SetFinished(final) ELSE final

(* forwardResponse(ev): answer the sender with a code.                     *)
ForwardEvent(f, code) ==
    LET sent == [f EXCEPT !.lastSent = code]
        final == [f EXCEPT !.lastSent = code, !.incoming = FALSE, !.finals = @ + 1]
    IN IF ~f.incoming THEN f
       ELSE IF code < 200 THEN sent
       ELSE IF ShouldFinish(f) THEN SetFinished(final) ELSE final

(* forwardResponse(br): answer with the last response of a branch.         *)
ForwardResponse(f, b) == ForwardEvent(f, f.br[b].status)

(* sendResponse(code): 110 and 180, made by the proxy itself.              *)
SendResponse(f, code) ==
    IF ~f.cfg.permitSelf \/ f.lastSent > code THEN f ELSE ForwardEvent(f, code)

(* onPushSent: "110 Push sent", once.                                      *)
OnPushSentBase(f) ==
    IF f.sent110 THEN f ELSE [SendResponse(f, 110) EXCEPT !.sent110 = TRUE]

(* Mutation: only the current branches must have answered.                 *)
MutCheckFinishedBase(f) ==
    LET best == FindBestBranch(f, f.cfg.forkLate)
        f1 == IF ~f.cfg.forkLate \/ AllAnsweredForkLate(f, f.current) THEN SetFinished(f) ELSE f
    IN IF ~f.incoming /\ ~f.cfg.forkLate THEN [fork |-> SetFinished(f), forwarded |-> FALSE]
       ELSE IF ~AllAnsweredRFC(f, f.current) THEN [fork |-> f, forwarded |-> FALSE]
       ELSE IF best = NoBranch THEN [fork |-> f1, forwarded |-> FALSE]
       ELSE [fork |-> ForwardResponse(f1, best), forwarded |-> f.incoming]

(* checkFinished(): the fork after it, and whether a branch was forwarded. *)
CheckFinishedBase(f) ==
    LET best == FindBestBranch(f, f.cfg.forkLate)
        f1 == IF ~f.cfg.forkLate \/ AllAnsweredForkLate(f, f.waiting) THEN SetFinished(f) ELSE f
    IN IF ~f.incoming /\ ~f.cfg.forkLate THEN [fork |-> SetFinished(f), forwarded |-> FALSE]
       ELSE IF ~AllAnsweredRFC(f, f.waiting) THEN [fork |-> f, forwarded |-> FALSE]
       ELSE IF best = NoBranch THEN [fork |-> f1, forwarded |-> FALSE]
       ELSE [fork |-> ForwardResponse(f1, best), forwarded |-> f.incoming]

-----------------------------------------------------------------------------
HasNextBranches(f) ==
    /\ ~f.finished
    /\ \/ f.currentPriority = NoPriority /\ f.waiting # {}
       \/ \E b \in f.waiting : f.br[b].prio < f.currentPriority

(* Mutation: the next lower number, whether a branch has it or not.        *)
MutNextPriority(f) ==
    IF f.currentPriority = NoPriority THEN CHOOSE q \in Qs : \A r \in Qs : r <= q
    ELSE f.currentPriority - 1

(* The priority nextBranches() moves to: the highest one, or the highest   *)
(* below the current one when there is any.                                *)
NextPriority(f) ==
    LET candidates == {f.br[b].prio : b \in
            {b \in f.waiting : f.currentPriority = NoPriority \/ f.br[b].prio < f.currentPriority}}
        top == {q \in candidates : \A r \in candidates : r <= q}
    IN IF top = {} THEN f.currentPriority ELSE CHOOSE q \in top : TRUE

NextBranches(f) ==
    LET q == NextPriority(f)
    IN [f EXCEPT !.currentPriority = q,
                 !.current = {b \in f.waiting : f.br[b].prio = q}]

(***************************************************************************)
(* The requests of a set of branches go to the injector.  The              *)
(* ScheduleInjector queues them.  The AgentInjector sends each at once     *)
(* through the modules after the Router, two of which may find that the    *)
(* request cannot leave (no RTP port, too many hops): then the request is  *)
(* dropped, and so are those of the branches that come after it.           *)
(* ForwardModule ends a request addressed to the proxy itself in silence.  *)
(* Its loop detection finds none: the branch id of each outgoing           *)
(* transaction is new.                                                     *)
(***************************************************************************)
SetOut(f, bs, state) ==
    [f EXCEPT !.br = [b \in Branches |->
        IF b \in bs THEN [f.br[b] EXCEPT !.out = state] ELSE f.br[b]]]

PassOn(f, bs) ==
    LET ours == {b \in bs : f.br[b].dest \in Ours}
    IN SetOut(SetOut(f, bs \ ours, "live"), ours, "lost")

SendToInjector(f, bs, failing) ==
    IF f.cfg.scheduled THEN SetOut(f, bs, "queued")
    ELSE SetOut(PassOn(f, bs \ failing), bs \cap failing, "void")

(* The branches an internal error can stop: all from one on in list order. *)
FailingSets(f, bs) == {{}} \cup {{c \in bs : BranchBefore(f, b, c)} : b \in bs}

(* ForkContext::processResponse(ev) first stores the response.             *)
WithStatus(f, b, code) ==
    [f EXCEPT !.br[b].status = code, !.br[b].out = IF code >= 200 THEN "done" ELSE @]

(* ... and the fork moves on when its current branches are all answered.   *)
MovesOn(f) == AllAnsweredRFC(f, f.current) /\ HasNextBranches(f)

(* The end of start(): the timer for the branches of lower priority.       *)
ArmNextTimer(f) == [f EXCEPT !.nextTimer = f.cfg.nextTimeout /\ HasNextBranches(f)]

(***************************************************************************)
(* addBranch(ev, contact) up to the sending of the request: the answered   *)
(* branch of the same device is cleared, the new one joins the waiting     *)
(* ones.  Subclasses hook in between (onNewBranch).                        *)
(***************************************************************************)
ClearAnswered(f, u) ==
    LET old == FindBranchByUid(f, u)
    IN IF old # NoBranch /\ f.br[old].status >= 200 THEN RemoveBranch(f, old) ELSE f

PushBranch(f, c) ==
    LET b == f.created + 1
    IN [f EXCEPT !.br[b] = [uid |-> c.uid, dest |-> c.dest, prio |-> c.prio, status |-> 0,
                            out |-> "held", cancelled |-> FALSE],
                 !.created = b, !.waiting = @ \cup {b}]

(* Whether addBranch sends the request of the new branch right away.       *)
StartsAtOnce(f, q) == f.currentPriority # NoPriority /\ f.currentPriority <= q

(***************************************************************************)
(* Who refers to a fork that left mForks: the ScheduleInjector, for the    *)
(* requests parked in it and for the contexts the Router announced to it   *)
(* with each contact.  The announcement of a branch whose turn never came  *)
(* is not withdrawn; it goes when a later injection finds it expired.      *)
(***************************************************************************)
Queued(f) == \E b \in Branches : f.br[b].out = "queued"
Announced(f) == f.cfg.scheduled /\ \E b \in f.waiting : f.br[b].out = "held"

(***************************************************************************)
(* shouldDispatch(dest, uid), for a request that targets no GRUU: what to  *)
(* do with a device that registers, and the branch it replaces.            *)
(***************************************************************************)
DispatchStatus == {"DispatchNeeded", "DispatchNotNeeded", "PendingTransaction"}

ShouldDispatch(f, d, u) ==
    LET br == FindBranchByUid(f, u)
        byUrl == FindBranchByDest(f, d)
        code == f.br[br].status
        status == IF br # NoBranch /\ code \in {503, 408} THEN "DispatchNeeded"
                  ELSE IF br # NoBranch /\ code >= 200 THEN "DispatchNotNeeded"
                  ELSE IF byUrl # NoBranch THEN "PendingTransaction"
                  ELSE "DispatchNeeded"
    IN [status |-> status, old |-> IF status = "DispatchNeeded" THEN br ELSE NoBranch]
=============================================================================
