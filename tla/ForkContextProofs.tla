-------------------------- MODULE ForkContextProofs --------------------------
(***************************************************************************)
(* Every method of ForkContextBase keeps the type of the fork, and deals   *)
(* with the sender of the request in one way only: it leaves mIncoming     *)
(* alone, or answers it once with a final code.  That relation between the *)
(* fork before and after a call (Evolves) is reflexive and transitive, so  *)
(* it passes from the methods to the handlers that are made of them.  Most *)
(* methods leave the branches alone too (Quiet).                           *)
(***************************************************************************)
EXTENDS ForkContextBase, WellFoundedInduction, TLAPS

Evolves(f, g) ==
    /\ g \in ForkContext
    /\ g.cfg = f.cfg /\ g.life = f.life
    /\ f.incoming /\ g.incoming =>
         g.finals = f.finals /\ (g.lastSent = f.lastSent \/ g.lastSent < 200)
    /\ f.incoming /\ ~g.incoming => g.finals = f.finals + 1 /\ g.lastSent >= 200
    /\ ~f.incoming => ~g.incoming /\ g.finals = f.finals /\ g.lastSent = f.lastSent
    /\ g.direct = f.direct \/ (f.incoming /\ f.direct = 0 /\ g.direct >= 200)

(***************************************************************************)
(* What most methods leave alone: no request leaves, no branch answers,    *)
(* comes or goes, and none but a CANCEL is sent.                           *)
(***************************************************************************)
Quiet(f, g) ==
    /\ Evolves(f, g)
    /\ g.waiting = f.waiting /\ g.current = f.current /\ g.created = f.created
    /\ g.currentPriority = f.currentPriority /\ g.cancelled = f.cancelled
    /\ \A b \in Branches :
         /\ g.br[b].uid = f.br[b].uid /\ g.br[b].prio = f.br[b].prio
         /\ g.br[b].status = f.br[b].status /\ g.br[b].out = f.br[b].out
         /\ f.br[b].cancelled => g.br[b].cancelled

(* All the codes in use are numbers.                                       *)
LEMMA CodesAreInts == Codes \subseteq Int
  BY ForkAssumption DEF Codes, OwnCodes

(* Two calls, one after the other, are an evolution.                       *)
LEMMA EvolvesTrans ==
    ASSUME NEW f \in ForkContext, NEW g, NEW h, Evolves(f, g), Evolves(g, h)
    PROVE  Evolves(f, h)
  BY DEF Evolves, ForkContext

(* A call that does not touch the answer to the sender is an evolution.    *)
LEMMA EvolvesFrame ==
    ASSUME NEW f \in ForkContext, NEW g \in ForkContext,
           g.cfg = f.cfg, g.life = f.life, g.incoming = f.incoming, g.finals = f.finals,
           g.direct = f.direct,
           g.lastSent = f.lastSent
    PROVE  Evolves(f, g)
  BY DEF Evolves

(* Two quiet calls, one after the other, are quiet.                        *)
LEMMA QuietTrans ==
    ASSUME NEW f \in ForkContext, NEW g, NEW h, Quiet(f, g), Quiet(g, h)
    PROVE  Quiet(f, h)
  <1>1. Evolves(f, h)
    BY EvolvesTrans DEF Quiet
  <1> QED BY <1>1 DEF Quiet

(* A call that keeps the branches and their lists is quiet.                *)
LEMMA QuietFrame ==
    ASSUME NEW f, NEW g, Evolves(f, g), g.br = f.br, g.waiting = f.waiting,
           g.current = f.current, g.created = f.created,
           g.currentPriority = f.currentPriority, g.cancelled = f.cancelled
    PROVE  Quiet(f, g)
  BY DEF Quiet

(* A call that does nothing is quiet.                                      *)
LEMMA QuietRefl ==
    ASSUME NEW f \in ForkContext PROVE Quiet(f, f)
  BY DEF Quiet, Evolves

(* setFinished() only deals with timers.                                   *)
LEMMA SetFinishedQuiet ==
    ASSUME NEW f \in ForkContext PROVE Quiet(f, SetFinished(f))
  <1> DEFINE g == [f EXCEPT !.finished = TRUE, !.finishTimer = TRUE,
                            !.lateTimer = FALSE, !.nextTimer = FALSE]
  <1>1. g \in ForkContext
    BY DEF ForkContext
  <1>2. /\ g.cfg = f.cfg /\ g.life = f.life /\ g.incoming = f.incoming /\ g.finals = f.finals
        /\ g.direct = f.direct
        /\ g.lastSent = f.lastSent /\ g.br = f.br /\ g.waiting = f.waiting
        /\ g.current = f.current /\ g.created = f.created
        /\ g.currentPriority = f.currentPriority /\ g.cancelled = f.cancelled
    BY DEF ForkContext
  <1>3. SetFinished(f) = IF f.finishTimer THEN f ELSE g
    BY DEF SetFinished
  <1> HIDE DEF g
  <1>4. Quiet(f, g)
    BY <1>1, <1>2, EvolvesFrame, QuietFrame
  <1> QED BY <1>3, <1>4, QuietRefl

(* forwardResponse(ev) answers at most once, and touches no branch.        *)
LEMMA ForwardEventQuiet ==
    ASSUME NEW f \in ForkContext, NEW code \in Codes PROVE Quiet(f, ForwardEvent(f, code))
  <1> DEFINE sent == [f EXCEPT !.lastSent = code]
             k == f.finals + 1
             final == [f EXCEPT !.lastSent = code, !.incoming = FALSE, !.finals = k]
  <1>1. CASE ~f.incoming
    BY <1>1, QuietRefl DEF ForwardEvent
  <1>2. CASE f.incoming /\ code < 200
    <2>1. sent \in ForkContext
      BY DEF ForkContext
    <2>2. /\ sent.cfg = f.cfg /\ sent.life = f.life /\ sent.incoming = f.incoming
          /\ sent.finals = f.finals
          /\ sent.direct = f.direct /\ sent.lastSent = code /\ sent.br = f.br
          /\ sent.waiting = f.waiting /\ sent.current = f.current /\ sent.created = f.created
          /\ sent.currentPriority = f.currentPriority /\ sent.cancelled = f.cancelled
      BY DEF ForkContext
    <2>3. ForwardEvent(f, code) = sent
      BY <1>2 DEF ForwardEvent
    <2> HIDE DEF sent
    <2>4. Evolves(f, sent)
      BY <1>2, <2>1, <2>2 DEF Evolves
    <2> QED BY <2>2, <2>3, <2>4, QuietFrame
  <1>3. CASE f.incoming /\ ~(code < 200)
    <2>1. k \in Nat
      BY DEF ForkContext
    <2>2. ForwardEvent(f, code) = IF ShouldFinish(f) THEN SetFinished(final) ELSE final
      BY <1>3 DEF ForwardEvent
    <2> HIDE DEF k
    <2>3. final \in ForkContext
      BY <2>1 DEF ForkContext
    <2>4. /\ final.cfg = f.cfg /\ final.life = f.life /\ ~final.incoming
          /\ final.finals = k /\ final.direct = f.direct /\ final.lastSent = code /\ final.br = f.br
          /\ final.waiting = f.waiting /\ final.current = f.current /\ final.created = f.created
          /\ final.currentPriority = f.currentPriority /\ final.cancelled = f.cancelled
      BY DEF ForkContext
    <2> HIDE DEF final
    <2>5. code >= 200
      BY <1>3, CodesAreInts
    <2>6. Evolves(f, final)
      BY <1>3, <2>3, <2>4, <2>5 DEF Evolves, k
    <2>7. Quiet(f, final)
      BY <2>4, <2>6, QuietFrame
    <2> QED BY <2>2, <2>3, <2>7, SetFinishedQuiet, QuietTrans
  <1> QED BY <1>1, <1>2, <1>3

(* An answer that findBestBranch picked is that of a waiting branch.       *)
LEMMA BestIsFinal ==
    ASSUME NEW f \in ForkContext, NEW i, FindBestBranch(f, i) # NoBranch
    PROVE  LET b == FindBestBranch(f, i)
           IN b \in Branches /\ b \in f.waiting /\ f.br[b].status >= 200 /\ f.br[b].status \in Codes
  <1> DEFINE answered == {b \in f.waiting : /\ f.br[b].status >= 200
                                            /\ IsConsidered(f.br[b].status, i)}
             best == {b \in answered : \A c \in answered : BranchBeats(f, b, c)}
             x == FindBestBranch(f, i)
  <1>1. x = IF best = {} THEN NoBranch ELSE CHOOSE b \in best : TRUE
    BY DEF FindBestBranch
  <1>2. x \in best
    <2> HIDE DEF best, x
    <2> QED BY <1>1 DEF x
  <1> HIDE DEF x
  <1>3. x \in f.waiting /\ f.br[x].status >= 200
    BY <1>2
  <1>4. x \in Branches
    BY <1>3 DEF ForkContext
  <1>5. f.br[x].status \in Codes
    BY <1>4 DEF ForkContext, BranchInfo
  <1> QED BY <1>3, <1>4, <1>5 DEF x

(* forwardResponse(br), for a branch of the fork.                          *)
LEMMA ForwardResponseQuiet ==
    ASSUME NEW f \in ForkContext, NEW b \in Branches PROVE Quiet(f, ForwardResponse(f, b))
  <1>1. f.br[b].status \in Codes
    BY DEF ForkContext, BranchInfo
  <1> QED BY <1>1, ForwardEventQuiet DEF ForwardResponse

(* sendResponse touches no branch.                                         *)
LEMMA SendResponseQuiet ==
    ASSUME NEW f \in ForkContext, NEW code \in Codes PROVE Quiet(f, SendResponse(f, code))
  BY ForwardEventQuiet, QuietRefl DEF SendResponse

(* onPushSent: at most one "110 Push sent".                                *)
LEMMA OnPushSentQuiet ==
    ASSUME NEW f \in ForkContext PROVE Quiet(f, OnPushSentBase(f))
  <1> DEFINE s == SendResponse(f, 110)
             g == [s EXCEPT !.sent110 = TRUE]
  <1>1. 110 \in Codes
    BY DEF Codes, OwnCodes
  <1>2. OnPushSentBase(f) = IF f.sent110 THEN f ELSE g
    BY DEF OnPushSentBase
  <1>3. Quiet(f, s)
    BY <1>1, SendResponseQuiet
  <1> HIDE DEF s
  <1>4. s \in ForkContext
    BY <1>3 DEF Quiet, Evolves
  <1>5. g \in ForkContext
    BY <1>4 DEF ForkContext
  <1>6. /\ g.cfg = s.cfg /\ g.life = s.life /\ g.incoming = s.incoming /\ g.finals = s.finals
        /\ g.direct = s.direct
        /\ g.lastSent = s.lastSent /\ g.br = s.br /\ g.waiting = s.waiting
        /\ g.current = s.current /\ g.created = s.created
        /\ g.currentPriority = s.currentPriority /\ g.cancelled = s.cancelled
    BY <1>4 DEF ForkContext
  <1> HIDE DEF g
  <1>7. Quiet(s, g)
    BY <1>4, <1>5, <1>6, EvolvesFrame, QuietFrame
  <1> QED BY <1>2, <1>3, <1>7, QuietRefl, QuietTrans

(* checkFinished() forwards the best answer at most.                       *)
LEMMA CheckFinishedBaseQuiet ==
    ASSUME NEW f \in ForkContext PROVE Quiet(f, CheckFinishedBase(f).fork)
  <1> DEFINE best == FindBestBranch(f, f.cfg.forkLate)
             f1 == IF ~f.cfg.forkLate \/ AllAnsweredForkLate(f, f.waiting) THEN SetFinished(f) ELSE f
  <1>1. Quiet(f, f1) /\ Quiet(f, SetFinished(f)) /\ Quiet(f, f)
    BY SetFinishedQuiet, QuietRefl
  <1>2. f1 \in ForkContext
    BY <1>1 DEF Quiet, Evolves
  <1>3. best # NoBranch => best \in Branches
    BY BestIsFinal
  <1>4. CheckFinishedBase(f).fork \in {SetFinished(f), f, f1}
          \/ (best # NoBranch /\ CheckFinishedBase(f).fork = ForwardResponse(f1, best))
    BY DEF CheckFinishedBase
  <1> HIDE DEF best, f1
  <1>5. best # NoBranch => Quiet(f, ForwardResponse(f1, best))
    BY <1>1, <1>2, <1>3, ForwardResponseQuiet, QuietTrans
  <1> QED BY <1>1, <1>4, <1>5

(* The end of start() touches no branch.                                   *)
LEMMA ArmNextTimerQuiet ==
    ASSUME NEW f \in ForkContext PROVE Quiet(f, ArmNextTimer(f))
  <1> DEFINE t == f.cfg.nextTimeout /\ HasNextBranches(f)
             g == [f EXCEPT !.nextTimer = t]
  <1>1. t \in BOOLEAN
    BY DEF HasNextBranches, ForkContext, ForkContextConfig
  <1>2. ArmNextTimer(f) = g
    BY DEF ArmNextTimer
  <1> HIDE DEF t
  <1>3. g \in ForkContext
    BY <1>1 DEF ForkContext
  <1>4. /\ g.cfg = f.cfg /\ g.life = f.life /\ g.incoming = f.incoming /\ g.finals = f.finals
        /\ g.direct = f.direct
        /\ g.lastSent = f.lastSent /\ g.br = f.br /\ g.waiting = f.waiting
        /\ g.current = f.current /\ g.created = f.created
        /\ g.currentPriority = f.currentPriority /\ g.cancelled = f.cancelled
    BY DEF ForkContext
  <1> HIDE DEF g
  <1> QED BY <1>2, <1>3, <1>4, EvolvesFrame, QuietFrame

-----------------------------------------------------------------------------
(***************************************************************************)
(* What the other methods do to the branches and their lists.              *)
(***************************************************************************)

(* nextBranches() only moves to another priority, that of a branch.        *)
LEMMA NextBranchesShape ==
    ASSUME NEW f \in ForkContext
    PROVE  LET n == NextBranches(f)
           IN /\ Evolves(f, n) /\ n \in ForkContext
              /\ n.cfg = f.cfg /\ n.br = f.br /\ n.waiting = f.waiting
              /\ n.created = f.created /\ n.cancelled = f.cancelled /\ n.incoming = f.incoming
              /\ n.lastSent = f.lastSent /\ n.finished = f.finished
              /\ n.finishTimer = f.finishTimer /\ n.life = f.life
              /\ n.timer = f.timer /\ n.lateTimer = f.lateTimer
              /\ n.currentPriority = NextPriority(f)
              /\ n.current = {b \in f.waiting : f.br[b].prio = NextPriority(f)}
  <1> DEFINE eligible == {b \in f.waiting : f.currentPriority = NoPriority
                                          \/ f.br[b].prio < f.currentPriority}
             candidates == {f.br[b].prio : b \in eligible}
             top == {r \in candidates : \A s \in candidates : s <= r}
             q == NextPriority(f)
             cur == {b \in f.waiting : f.br[b].prio = q}
             n == [f EXCEPT !.currentPriority = q, !.current = cur]
  <1>1. q \in Qs \cup {NoPriority}
    <2>1. top \subseteq Qs
      BY DEF ForkContext, BranchInfo
    <2>2. q = IF top = {} THEN f.currentPriority ELSE CHOOSE r \in top : TRUE
      BY DEF NextPriority
    <2>3. f.currentPriority \in Qs \cup {NoPriority}
      BY DEF ForkContext
    <2> HIDE DEF top, q
    <2> QED BY <2>1, <2>2, <2>3
  <1>2. cur \subseteq Branches
    BY DEF ForkContext
  <1>3. NextBranches(f) = n
    BY DEF NextBranches
  <1> HIDE DEF q, cur
  <1>4. n \in ForkContext
    BY <1>1, <1>2 DEF ForkContext
  <1>5. /\ n.cfg = f.cfg /\ n.br = f.br /\ n.waiting = f.waiting
        /\ n.created = f.created /\ n.cancelled = f.cancelled /\ n.incoming = f.incoming
        /\ n.lastSent = f.lastSent /\ n.finals = f.finals
        /\ n.direct = f.direct /\ n.finished = f.finished
        /\ n.finishTimer = f.finishTimer /\ n.life = f.life
        /\ n.timer = f.timer /\ n.lateTimer = f.lateTimer
        /\ n.currentPriority = q /\ n.current = cur
    BY DEF ForkContext
  <1> HIDE DEF n
  <1>6. Evolves(f, n)
    BY <1>4, <1>5, EvolvesFrame
  <1> QED BY <1>3, <1>4, <1>5, <1>6 DEF q, cur

(* Requests that leave: no list changes, no branch but by its request.     *)
Transmits(f, g) ==
    /\ g \in ForkContext /\ g.cfg = f.cfg
    /\ g.waiting = f.waiting /\ g.current = f.current /\ g.created = f.created
    /\ g.currentPriority = f.currentPriority /\ g.cancelled = f.cancelled
    /\ g.incoming = f.incoming /\ g.lastSent = f.lastSent /\ g.finals = f.finals
    /\ g.finished = f.finished /\ g.finishTimer = f.finishTimer /\ g.life = f.life
    /\ g.timer = f.timer /\ g.lateTimer = f.lateTimer
    /\ \A b \in Branches :
         /\ g.br[b].uid = f.br[b].uid /\ g.br[b].prio = f.br[b].prio
         /\ g.br[b].status = f.br[b].status /\ g.br[b].cancelled = f.br[b].cancelled

(* The requests of some branches change their state.                       *)
LEMMA SetOutSends ==
    ASSUME NEW f \in ForkContext, NEW bs, NEW state \in OutStates
    PROVE  LET g == SetOut(f, bs, state)
           IN /\ Evolves(f, g) /\ Transmits(f, g)
              /\ \A b \in Branches : g.br[b].out = IF b \in bs THEN state ELSE f.br[b].out
  <1> DEFINE br == [b \in Branches |-> IF b \in bs THEN [f.br[b] EXCEPT !.out = state] ELSE f.br[b]]
             g == [f EXCEPT !.br = br]
  <1>1. SetOut(f, bs, state) = g
    BY DEF SetOut
  <1>2. \A b \in Branches : f.br[b] \in BranchInfo
    BY DEF ForkContext
  <1>3. \A b \in Branches : [f.br[b] EXCEPT !.out = state] \in BranchInfo
    BY <1>2 DEF BranchInfo
  <1>4. br \in [Branches -> BranchInfo]
    BY <1>2, <1>3
  <1>5. \A b \in Branches :
          /\ br[b].uid = f.br[b].uid /\ br[b].prio = f.br[b].prio
          /\ br[b].status = f.br[b].status /\ br[b].cancelled = f.br[b].cancelled
          /\ br[b].out = IF b \in bs THEN state ELSE f.br[b].out
    BY <1>2 DEF BranchInfo
  <1> HIDE DEF br
  <1>6. g \in ForkContext
    BY <1>4 DEF ForkContext
  <1>7. /\ g.br = br /\ g.cfg = f.cfg /\ g.waiting = f.waiting /\ g.current = f.current
        /\ g.created = f.created /\ g.currentPriority = f.currentPriority
        /\ g.cancelled = f.cancelled /\ g.incoming = f.incoming /\ g.lastSent = f.lastSent
        /\ g.finals = f.finals
        /\ g.direct = f.direct /\ g.finished = f.finished /\ g.finishTimer = f.finishTimer
        /\ g.life = f.life /\ g.timer = f.timer /\ g.lateTimer = f.lateTimer
    BY DEF ForkContext
  <1> HIDE DEF g
  <1>8. Evolves(f, g)
    BY <1>6, <1>7, EvolvesFrame
  <1> QED BY <1>1, <1>5, <1>6, <1>7, <1>8 DEF Transmits

(* Requests that pass the last modules leave, or end there in silence.     *)
LEMMA PassOnSends ==
    ASSUME NEW f \in ForkContext, NEW bs
    PROVE  LET g == PassOn(f, bs)
           IN /\ Evolves(f, g) /\ Transmits(f, g)
              /\ \A b \in Branches :
                   IF b \in bs THEN g.br[b].out \in {"live", "lost"} ELSE g.br[b].out = f.br[b].out
  <1> DEFINE ours == {b \in bs : f.br[b].dest \in Ours}
             live == SetOut(f, bs \ ours, "live")
             lost == SetOut(live, ours, "lost")
  <1>1. PassOn(f, bs) = lost /\ {"live", "lost"} \subseteq OutStates /\ ours \subseteq bs
    BY DEF PassOn, OutStates
  <1> HIDE DEF ours
  <1>2. /\ Evolves(f, live) /\ Transmits(f, live) /\ live \in ForkContext
        /\ \A b \in Branches : live.br[b].out = IF b \in bs \ ours THEN "live" ELSE f.br[b].out
    BY <1>1, SetOutSends DEF Transmits
  <1> HIDE DEF live
  <1>3. /\ Evolves(live, lost) /\ Transmits(live, lost)
        /\ \A b \in Branches : lost.br[b].out = IF b \in ours THEN "lost" ELSE live.br[b].out
    BY <1>1, <1>2, SetOutSends
  <1> HIDE DEF lost
  <1>4. Evolves(f, lost) /\ Transmits(f, lost)
    BY <1>2, <1>3, EvolvesTrans DEF Transmits
  <1> QED BY <1>1, <1>2, <1>3, <1>4

(* Where the requests of some branches go.                                 *)
LEMMA SendToInjectorSends ==
    ASSUME NEW f \in ForkContext, NEW bs, NEW failing
    PROVE  LET g == SendToInjector(f, bs, failing)
           IN /\ Evolves(f, g) /\ Transmits(f, g)
              /\ f.cfg.scheduled => \A b \in Branches :
                   g.br[b].out = IF b \in bs THEN "queued" ELSE f.br[b].out
              /\ ~f.cfg.scheduled => \A b \in Branches :
                   /\ b \notin bs => g.br[b].out = f.br[b].out
                   /\ b \in bs \cap failing => g.br[b].out = "void"
                   /\ b \in bs \ failing => g.br[b].out \in {"live", "lost"}
  <1> DEFINE gone == PassOn(f, bs \ failing)
             void == SetOut(gone, bs \cap failing, "void")
             queued == SetOut(f, bs, "queued")
  <1>1. {"void", "queued"} \subseteq OutStates
    BY DEF OutStates
  <1>2. /\ Evolves(f, gone) /\ Transmits(f, gone) /\ gone \in ForkContext
        /\ \A b \in Branches :
             IF b \in bs \ failing THEN gone.br[b].out \in {"live", "lost"} ELSE gone.br[b].out = f.br[b].out
    BY PassOnSends DEF Transmits
  <1>3. /\ Evolves(f, queued) /\ Transmits(f, queued)
        /\ \A b \in Branches : queued.br[b].out = IF b \in bs THEN "queued" ELSE f.br[b].out
    BY <1>1, SetOutSends
  <1>4. SendToInjector(f, bs, failing) = IF f.cfg.scheduled THEN queued ELSE void
    BY DEF SendToInjector
  <1> HIDE DEF gone, queued
  <1>5. /\ Evolves(gone, void) /\ Transmits(gone, void)
        /\ \A b \in Branches : void.br[b].out = IF b \in bs \cap failing THEN "void" ELSE gone.br[b].out
    BY <1>1, <1>2, SetOutSends
  <1> HIDE DEF void
  <1>6. Evolves(f, void) /\ Transmits(f, void)
    BY <1>2, <1>5, EvolvesTrans DEF Transmits
  <1> QED BY <1>2, <1>3, <1>4, <1>5, <1>6

(* A response is stored in its branch.                                     *)
LEMMA WithStatusShape ==
    ASSUME NEW f \in ForkContext, NEW x \in Branches, NEW code \in Codes
    PROVE  LET g == WithStatus(f, x, code)
           IN /\ Evolves(f, g) /\ g \in ForkContext
              /\ g.cfg = f.cfg /\ g.waiting = f.waiting /\ g.current = f.current
              /\ g.created = f.created /\ g.currentPriority = f.currentPriority
              /\ g.cancelled = f.cancelled /\ g.incoming = f.incoming /\ g.lastSent = f.lastSent
              /\ g.finished = f.finished /\ g.finishTimer = f.finishTimer /\ g.life = f.life
              /\ \A b \in Branches :
                   /\ g.br[b].uid = f.br[b].uid /\ g.br[b].prio = f.br[b].prio
                   /\ g.br[b].cancelled = f.br[b].cancelled
                   /\ g.br[b].status = IF b = x THEN code ELSE f.br[b].status
                   /\ g.br[b].out = IF b = x /\ code >= 200 THEN "done" ELSE f.br[b].out
  <1> DEFINE out == IF code >= 200 THEN "done" ELSE f.br[x].out
             info == [f.br[x] EXCEPT !.status = code, !.out = out]
             br == [f.br EXCEPT ![x] = info]
             g == [f EXCEPT !.br = br]
  <1>1. \A b \in Branches : f.br[b] \in BranchInfo
    BY DEF ForkContext
  <1>2. WithStatus(f, x, code) = g
    BY <1>1 DEF WithStatus, ForkContext, BranchInfo
  <1>3. out \in OutStates
    BY <1>1 DEF BranchInfo, OutStates
  <1> HIDE DEF out
  <1>4. info \in BranchInfo
    BY <1>1, <1>3 DEF BranchInfo
  <1>5. info.status = code /\ info.out = out /\ info.uid = f.br[x].uid /\ info.prio = f.br[x].prio
        /\ info.cancelled = f.br[x].cancelled
    BY <1>1 DEF BranchInfo
  <1> HIDE DEF info
  <1>6. br \in [Branches -> BranchInfo] /\ \A b \in Branches : br[b] = IF b = x THEN info ELSE f.br[b]
    BY <1>4 DEF ForkContext
  <1> HIDE DEF br
  <1>7. g \in ForkContext
    BY <1>6 DEF ForkContext
  <1>8. /\ g.br = br /\ g.cfg = f.cfg /\ g.waiting = f.waiting /\ g.current = f.current
        /\ g.created = f.created /\ g.currentPriority = f.currentPriority
        /\ g.cancelled = f.cancelled /\ g.incoming = f.incoming /\ g.lastSent = f.lastSent
        /\ g.finals = f.finals
        /\ g.direct = f.direct /\ g.finished = f.finished /\ g.finishTimer = f.finishTimer
        /\ g.life = f.life
    BY DEF ForkContext
  <1> HIDE DEF g
  <1>9. Evolves(f, g)
    BY <1>7, <1>8, EvolvesFrame
  <1> QED BY <1>2, <1>5, <1>6, <1>7, <1>8, <1>9 DEF out

(* removeBranch takes a branch out of the lists.                           *)
LEMMA RemoveBranchShape ==
    ASSUME NEW f \in ForkContext, NEW x
    PROVE  LET g == RemoveBranch(f, x)
           IN /\ Evolves(f, g) /\ g \in ForkContext
              /\ g.cfg = f.cfg /\ g.br = f.br /\ g.waiting = f.waiting \ {x}
              /\ g.current = f.current \ {x} /\ g.created = f.created
              /\ g.currentPriority = f.currentPriority /\ g.cancelled = f.cancelled
              /\ g.incoming = f.incoming /\ g.lastSent = f.lastSent
              /\ g.finished = f.finished /\ g.finishTimer = f.finishTimer /\ g.life = f.life
  <1> DEFINE w == f.waiting \ {x}
             c == f.current \ {x}
             g == [f EXCEPT !.waiting = w, !.current = c]
  <1>1. RemoveBranch(f, x) = g /\ w \in SUBSET Branches /\ c \in SUBSET Branches
    BY DEF RemoveBranch, ForkContext
  <1> HIDE DEF w, c
  <1>2. g \in ForkContext
    BY <1>1 DEF ForkContext
  <1>3. /\ g.br = f.br /\ g.cfg = f.cfg /\ g.waiting = w /\ g.current = c
        /\ g.created = f.created /\ g.currentPriority = f.currentPriority
        /\ g.cancelled = f.cancelled /\ g.incoming = f.incoming /\ g.lastSent = f.lastSent
        /\ g.finals = f.finals
        /\ g.direct = f.direct /\ g.finished = f.finished /\ g.finishTimer = f.finishTimer
        /\ g.life = f.life
    BY DEF ForkContext
  <1> HIDE DEF g
  <1>4. Evolves(f, g)
    BY <1>2, <1>3, EvolvesFrame
  <1> QED BY <1>1, <1>2, <1>3, <1>4 DEF w, c

(* A new branch takes the next free number, and waits with its request     *)
(* still in its hands.                                                     *)
LEMMA PushBranchShape ==
    ASSUME NEW f \in ForkContext, NEW c \in Contacts, f.created < MaxBranches
    PROVE  LET g == PushBranch(f, c)
               n == f.created + 1
           IN /\ Evolves(f, g) /\ g \in ForkContext
              /\ g.cfg = f.cfg /\ g.waiting = f.waiting \cup {n}
              /\ g.current = f.current /\ g.created = n /\ n \in Branches
              /\ g.currentPriority = f.currentPriority /\ g.cancelled = f.cancelled
              /\ g.incoming = f.incoming /\ g.lastSent = f.lastSent
              /\ g.finished = f.finished /\ g.finishTimer = f.finishTimer /\ g.life = f.life
              /\ \A b \in Branches \ {n} : g.br[b] = f.br[b]
              /\ g.br[n].uid = c.uid /\ g.br[n].prio = c.prio /\ g.br[n].status = 0
              /\ g.br[n].out = "held" /\ ~g.br[n].cancelled
  <1> DEFINE n == f.created + 1
             fresh == [uid |-> c.uid, dest |-> c.dest, prio |-> c.prio, status |-> 0,
                       out |-> "held", cancelled |-> FALSE]
             br == [f.br EXCEPT ![n] = fresh]
             w == f.waiting \cup {n}
             g == [f EXCEPT !.br = br, !.created = n, !.waiting = w]
  <1>1. PushBranch(f, c) = g
    BY DEF PushBranch
  <1>2. n \in Branches /\ n \in 0..MaxBranches
    BY ForkAssumption DEF ForkContext, Branches
  <1>3. fresh \in BranchInfo
    BY DEF Contacts, BranchInfo, OutStates, Codes
  <1>4. fresh.uid = c.uid /\ fresh.prio = c.prio /\ fresh.status = 0 /\ fresh.out = "held"
        /\ ~fresh.cancelled
    OBVIOUS
  <1> HIDE DEF fresh, n
  <1>5. /\ br \in [Branches -> BranchInfo] /\ w \in SUBSET Branches
        /\ \A b \in Branches : br[b] = IF b = n THEN fresh ELSE f.br[b]
    BY <1>2, <1>3 DEF ForkContext
  <1> HIDE DEF br, w
  <1>6. g \in ForkContext
    BY <1>2, <1>5 DEF ForkContext
  <1>7. /\ g.br = br /\ g.cfg = f.cfg /\ g.waiting = w /\ g.current = f.current
        /\ g.created = n /\ g.currentPriority = f.currentPriority
        /\ g.cancelled = f.cancelled /\ g.incoming = f.incoming /\ g.lastSent = f.lastSent
        /\ g.finals = f.finals
        /\ g.direct = f.direct /\ g.finished = f.finished /\ g.finishTimer = f.finishTimer
        /\ g.life = f.life
    BY DEF ForkContext
  <1> HIDE DEF g
  <1>8. Evolves(f, g)
    BY <1>6, <1>7, EvolvesFrame
  <1> QED BY <1>1, <1>2, <1>4, <1>5, <1>6, <1>7, <1>8 DEF n, w

(* A new fork: it has not answered, and its branches all wait, with their  *)
(* requests in their hands.                                                *)
LEMMA NewForkShape ==
    ASSUME NEW cfg \in ForkContextConfig, NEW timer \in BOOLEAN, NEW n \in 1..MaxBranches,
           NEW cs \in [1..n -> Contacts]
    PROVE  LET f == NewFork(cfg, timer, cs)
           IN /\ f \in ForkContext /\ f.cfg = cfg
              /\ f.incoming /\ f.lastSent = 0 /\ f.finals = 0 /\ f.direct = 0
              /\ ~f.finished /\ ~f.finishTimer /\ ~f.cancelled
              /\ f.currentPriority = NoPriority /\ f.waiting = 1..n /\ f.created = n
              /\ f.life = "registered"
              /\ \A b \in Branches :
                   f.br[b].status = 0 /\ f.br[b].out = "held" /\ ~f.br[b].cancelled
              /\ \A b \in 1..n : f.br[b].uid = cs[b].uid /\ f.br[b].prio = cs[b].prio
  <1> DEFINE br == [b \in Branches |-> IF b \in DOMAIN cs
                THEN [UnusedBranch EXCEPT !.uid = cs[b].uid, !.dest = cs[b].dest,
                                          !.prio = cs[b].prio]
                ELSE UnusedBranch]
             len == Len(cs)
             dom == DOMAIN cs
             late == cfg.forkLate
             f == [cfg |-> cfg, incoming |-> TRUE, lastSent |-> 0, finals |-> 0, direct |-> 0,
                   finished |-> FALSE, finishTimer |-> FALSE, lateTimer |-> late,
                   nextTimer |-> FALSE, timer |-> timer, cancelled |-> FALSE, sent110 |-> FALSE,
                   deliveredCount |-> 0, currentPriority |-> NoPriority, waiting |-> dom,
                   current |-> {}, created |-> len, br |-> br, life |-> "registered"]
  <1>1. NewFork(cfg, timer, cs) = f
    BY DEF NewFork
  <1>2. dom = 1..n /\ len = n /\ 1..n \subseteq Branches /\ n \in 0..MaxBranches
    <2>1. n \in Nat
      BY ForkAssumption
    <2> QED BY <2>1, ForkAssumption DEF Branches
  <1>3. UnusedBranch \in BranchInfo
    BY ForkAssumption DEF UnusedBranch, BranchInfo, OutStates, Codes
  <1>4. br \in [Branches -> BranchInfo]
    <2>1. ASSUME NEW b \in Branches, b \in DOMAIN cs
          PROVE [UnusedBranch EXCEPT !.uid = cs[b].uid, !.dest = cs[b].dest, !.prio = cs[b].prio]
                  \in BranchInfo
      BY <2>1, <1>3 DEF BranchInfo, Contacts
    <2> HIDE DEF UnusedBranch
    <2> QED BY <1>3, <2>1
  <1>5. \A b \in Branches : br[b].status = 0 /\ br[b].out = "held" /\ ~br[b].cancelled
    BY DEF UnusedBranch
  <1>6. \A b \in 1..n : br[b].uid = cs[b].uid /\ br[b].prio = cs[b].prio
    BY <1>2 DEF UnusedBranch
  <1>7. 0 \in Codes /\ late \in BOOLEAN
    BY DEF Codes, ForkContextConfig
  <1> HIDE DEF br, len, dom, late
  <1>8. f \in ForkContext
    <2>1. dom \in SUBSET Branches /\ len \in 0..MaxBranches
      BY <1>2
    <2> QED BY <1>4, <1>7, <2>1 DEF ForkContext, Lives
  <1>9. /\ f.cfg = cfg /\ f.incoming /\ f.lastSent = 0 /\ f.finals = 0 /\ f.direct = 0
        /\ ~f.finished /\ ~f.finishTimer /\ ~f.cancelled
        /\ f.currentPriority = NoPriority /\ f.waiting = dom /\ f.created = len
        /\ f.br = br /\ f.life = "registered"
    OBVIOUS
  <1> HIDE DEF f
  <1> QED BY <1>1, <1>2, <1>5, <1>6, <1>8, <1>9

-----------------------------------------------------------------------------
(***************************************************************************)
(* A step of the context: an evolution, possibly with its end of life.     *)
(***************************************************************************)
Moves(f, g) ==
    /\ f.life # "destroyed"
    /\ g \in ForkContext
    /\ f.incoming /\ g.incoming =>
         g.finals = f.finals /\ (g.lastSent = f.lastSent \/ g.lastSent < 200)
    /\ f.incoming /\ ~g.incoming => g.finals = f.finals + 1 /\ g.lastSent >= 200
    /\ ~f.incoming => ~g.incoming /\ g.finals = f.finals /\ g.lastSent = f.lastSent
    /\ g.direct = f.direct \/ (f.incoming /\ f.direct = 0 /\ g.direct >= 200)
    /\ g.life = "destroyed" => ~g.incoming

(* An evolution is a move as long as the fork stays registered.            *)
LEMMA EvolvesMoves ==
    ASSUME NEW f \in ForkContext, NEW g, Evolves(f, g), f.life # "destroyed"
    PROVE  Moves(f, g)
  BY DEF Evolves, Moves

-----------------------------------------------------------------------------
(***************************************************************************)
(* findBestBranch, the finders and nextBranches find what they look for.   *)
(***************************************************************************)

(* A set of branches with a total order has a least one: by induction on   *)
(* the number of the branches, as the smallest number up to which there is *)
(* none does not exist.                                                    *)
LEMMA LeastExists ==
    ASSUME NEW S \in SUBSET Branches, S # {}, NEW R,
           \A x, y \in S : <<x, y>> \in R \/ <<y, x>> \in R,
           \A x, y, z \in S : <<x, y>> \in R /\ <<y, z>> \in R => <<x, z>> \in R
    PROVE  \E x \in S : \A y \in S : <<x, y>> \in R
  <1> DEFINE upto(m) == {x \in S : x <= m}
             least(x, m) == x \in upto(m) /\ \A y \in upto(m) : <<x, y>> \in R
             T == {m \in Nat : upto(m) # {} /\ ~\E x : least(x, m)}
  <1> HIDE DEF least, T
  <1>1. \A x \in S : x \in Nat /\ x >= 1 /\ x <= MaxBranches
    BY ForkAssumption DEF Branches
  <1>2. MaxBranches \in Nat /\ upto(MaxBranches) = S
    BY <1>1, ForkAssumption
  <1>3. T = {}
    <2> SUFFICES ASSUME T # {} PROVE FALSE
      OBVIOUS
    <2>1. T \subseteq Nat
      BY DEF T
    <2>2. PICK m \in T : \A n \in T : ~(<<n, m>> \in OpToRel(<, Nat))
      BY <2>1, NatLessThanWellFounded, WFMin
    <2>3. m \in Nat /\ \A n \in T : ~(n < m)
      BY <2>1, <2>2 DEF OpToRel
    <2>4. upto(m) # {} /\ ~\E x : least(x, m)
      BY <2>2 DEF T
    <2>5. m # 0
      BY <1>1, <2>4
    <2>6. m - 1 \in Nat /\ m - 1 < m
      BY <2>3, <2>5
    <2>7. \A x \in S : x <= m <=> x <= m - 1 \/ x = m
      BY <1>1, <2>6, <2>3
    <2>8. m <= m
      BY <2>3
    <2>9. upto(m - 1) = {} \/ \E x : least(x, m - 1)
      BY <2>3, <2>6 DEF T
    <2>10. CASE upto(m - 1) = {}
      <3>1. m \in S /\ upto(m) = {m}
        BY <2>4, <2>7, <2>8, <2>10
      <3> HIDE DEF upto
      <3>2. least(m, m)
        BY <3>1 DEF least
      <3> QED BY <2>4, <3>2
    <2>11. CASE \E x : least(x, m - 1)
      <3>1. PICK x : least(x, m - 1)
        BY <2>11
      <3>2. \A y : y \in upto(m) <=> y \in upto(m - 1) \/ (y = m /\ m \in S)
        BY <2>7, <2>8
      <3>3. upto(m - 1) \subseteq S
        OBVIOUS
      <3> HIDE DEF upto
      <3>4. CASE m \notin S \/ <<x, m>> \in R
        <4>1. least(x, m)
          BY <3>1, <3>2, <3>4 DEF least
        <4> QED BY <2>4, <4>1
      <3>5. CASE m \in S /\ ~(<<x, m>> \in R)
        <4>1. least(m, m)
          BY <3>1, <3>2, <3>3, <3>5 DEF least
        <4> QED BY <2>4, <4>1
      <3> QED BY <3>4, <3>5
    <2> QED BY <2>9, <2>10, <2>11
  <1> HIDE DEF upto
  <1> QED BY <1>2, <1>3 DEF T, least

(* Priorities, codes and the numbers of branches are numbers.              *)
LEMMA BranchNumbers ==
    ASSUME NEW f \in ForkContext, NEW x \in Branches
    PROVE  /\ f.br[x].status \in Codes /\ f.br[x].status \in Int
           /\ f.br[x].prio \in Qs /\ f.br[x].prio \in Nat /\ x \in Int
  <1>1. f.br[x] \in BranchInfo
    BY DEF ForkContext
  <1>2. x \in Int
    BY DEF Branches
  <1>3. f.br[x].status \in Codes /\ f.br[x].prio \in Qs
    BY <1>1 DEF BranchInfo
  <1>4. Codes \subseteq Int /\ Qs \subseteq Nat
    BY CodesAreInts, ForkAssumption
  <1> HIDE DEF Codes
  <1> QED BY <1>2, <1>3, <1>4

(* findBestBranch finds a branch whenever one has answered.                *)
LEMMA BestExists ==
    ASSUME NEW f \in ForkContext, NEW i, NEW a \in f.waiting,
           f.br[a].status >= 200, IsConsidered(f.br[a].status, i)
    PROVE  FindBestBranch(f, i) # NoBranch
  <1> DEFINE answered == {b \in f.waiting : /\ f.br[b].status >= 200
                                            /\ IsConsidered(f.br[b].status, i)}
             best == {b \in answered : \A c \in answered : BranchBeats(f, b, c)}
             R == {p \in Branches \X Branches : BranchBeats(f, p[1], p[2])}
             rank(b) == CodeRank(f.br[b].status)
  <1>1. answered \in SUBSET Branches /\ answered # {}
    BY DEF ForkContext
  <1>2. \A b, c \in Branches : <<b, c>> \in R <=> BranchBeats(f, b, c)
    OBVIOUS
  <1>3. \A b \in Branches : rank(b) \in Int /\ f.br[b].prio \in Int /\ b \in Int
    <2>1. \A code \in Int : CodeRank(code) \in Int
      BY DEF CodeRank, CodeClass
    <2> QED BY <2>1, BranchNumbers
  <1>4. \A b, c \in Branches : BranchBeats(f, b, c) <=>
          rank(b) < rank(c) \/ (rank(b) = rank(c) /\ BranchBefore(f, b, c))
    BY DEF BranchBeats
  <1> HIDE DEF rank
  <1>5. \A b, c \in Branches : BranchBeats(f, b, c) \/ BranchBeats(f, c, b)
    BY <1>3, <1>4 DEF BranchBefore
  <1>6. \A b, c, d \in Branches : BranchBeats(f, b, c) /\ BranchBeats(f, c, d) => BranchBeats(f, b, d)
    BY <1>3, <1>4 DEF BranchBefore
  <1>7. \E b \in answered : \A c \in answered : <<b, c>> \in R
    <2>1. \A b, c \in answered : <<b, c>> \in R \/ <<c, b>> \in R
      BY <1>1, <1>2, <1>5
    <2>2. \A b, c, d \in answered : <<b, c>> \in R /\ <<c, d>> \in R => <<b, d>> \in R
      BY <1>1, <1>2, <1>6
    <2> HIDE DEF answered, R
    <2> QED BY <1>1, <2>1, <2>2, LeastExists
  <1>8. best # {} /\ best \subseteq Branches
    BY <1>1, <1>2, <1>7
  <1>9. FindBestBranch(f, i) = IF best = {} THEN NoBranch ELSE CHOOSE x \in best : TRUE
    BY DEF FindBestBranch
  <1>10. NoBranch \notin Branches
    BY DEF NoBranch, Branches
  <1> HIDE DEF best
  <1> QED BY <1>8, <1>9, <1>10

(* A set of branches has a first one in list order.                        *)
LEMMA FirstExists ==
    ASSUME NEW f \in ForkContext, NEW bs \in SUBSET Branches, bs # {}
    PROVE  FirstBranch(f, bs) \in bs /\ \A c \in bs : BranchBefore(f, FirstBranch(f, bs), c)
  <1> DEFINE first == {b \in bs : \A c \in bs : BranchBefore(f, b, c)}
             R == {p \in Branches \X Branches : BranchBefore(f, p[1], p[2])}
  <1>1. \A b, c \in Branches : <<b, c>> \in R <=> BranchBefore(f, b, c)
    OBVIOUS
  <1>2. \A b \in Branches : f.br[b].prio \in Int /\ b \in Int
    BY BranchNumbers
  <1>3. \A b, c \in Branches : BranchBefore(f, b, c) \/ BranchBefore(f, c, b)
    BY <1>2 DEF BranchBefore
  <1>4. \A b, c, d \in Branches : BranchBefore(f, b, c) /\ BranchBefore(f, c, d) => BranchBefore(f, b, d)
    BY <1>2 DEF BranchBefore
  <1>5. \E b \in bs : \A c \in bs : <<b, c>> \in R
    <2> HIDE DEF R
    <2>1. \A b, c \in bs : <<b, c>> \in R \/ <<c, b>> \in R
      BY <1>1, <1>3
    <2>2. \A b, c, d \in bs : <<b, c>> \in R /\ <<c, d>> \in R => <<b, d>> \in R
      BY <1>1, <1>4
    <2> QED BY <2>1, <2>2, LeastExists
  <1>6. first # {}
    BY <1>1, <1>5
  <1>7. FirstBranch(f, bs) = IF first = {} THEN NoBranch ELSE CHOOSE x \in first : TRUE
    BY DEF FirstBranch
  <1>8. \A x \in first : x \in bs /\ \A c \in bs : BranchBefore(f, x, c)
    OBVIOUS
  <1> HIDE DEF first
  <1> QED BY <1>6, <1>7, <1>8

(* A branch whose turn has not come.                                       *)
NotYet(f, b) == f.currentPriority = NoPriority \/ f.br[b].prio < f.currentPriority

(* nextBranches() moves to the highest priority whose turn has not come.   *)
LEMMA NextPriorityFound ==
    ASSUME NEW f \in ForkContext, HasNextBranches(f)
    PROVE  /\ NextPriority(f) \in Qs
           /\ \E b \in f.waiting : f.br[b].prio = NextPriority(f)
           /\ \A b \in f.waiting : f.br[b].prio = NextPriority(f) => NotYet(f, b)
           /\ \A b \in f.waiting : f.br[b].prio < NextPriority(f) => NotYet(f, b)
           /\ \A b \in f.waiting : NotYet(f, b) => f.br[b].prio <= NextPriority(f)
  <1> DEFINE eligible == {b \in f.waiting : f.currentPriority = NoPriority
                                          \/ f.br[b].prio < f.currentPriority}
             candidates == {f.br[b].prio : b \in eligible}
             top == {q \in candidates : \A r \in candidates : r <= q}
             e == FirstBranch(f, eligible)
             q == f.br[e].prio
  <1>1. eligible \in SUBSET Branches /\ eligible # {}
    BY DEF ForkContext, HasNextBranches
  <1>2. e \in eligible /\ \A c \in eligible : BranchBefore(f, e, c)
    <2> HIDE DEF eligible
    <2> QED BY <1>1, FirstExists
  <1> HIDE DEF e
  <1>3. \A b \in f.waiting : f.br[b].prio \in Nat /\ f.br[b].prio \in Qs
    BY BranchNumbers DEF ForkContext
  <1>4. \A c \in eligible : f.br[c].prio <= q
    BY <1>2, <1>3 DEF BranchBefore
  <1>5. q \in top
    BY <1>2, <1>4
  <1>6. ASSUME NEW r \in top PROVE r = q
    <2>1. PICK c \in eligible : r = f.br[c].prio
      BY <1>6
    <2>2. q <= r /\ r <= q
      BY <1>2, <1>4, <1>6, <2>1
    <2>3. r \in Nat /\ q \in Nat
      BY <1>2, <1>3, <2>1
    <2> HIDE DEF q
    <2> QED BY <2>2, <2>3
  <1>7. NextPriority(f) = q
    <2>1. NextPriority(f) = IF top = {} THEN f.currentPriority ELSE CHOOSE r \in top : TRUE
      BY DEF NextPriority
    <2> HIDE DEF top, q
    <2> QED BY <1>5, <1>6, <2>1
  <1>8. f.currentPriority \in Nat \cup {NoPriority} /\ (f.currentPriority = NoPriority \/ q < f.currentPriority)
    BY <1>2, ForkAssumption DEF ForkContext
  <1>9. \A b \in f.waiting : f.br[b].prio <= q => NotYet(f, b)
    BY <1>2, <1>3, <1>8 DEF NotYet
  <1> QED BY <1>2, <1>3, <1>4, <1>7, <1>9 DEF NotYet
=============================================================================
