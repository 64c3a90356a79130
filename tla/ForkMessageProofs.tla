--------------------------- MODULE ForkMessageProofs ---------------------------
(***************************************************************************)
(* Messages, for every number of devices, set of codes and configuration.  *)
(* With a long delivery timeout a message fork implements ForkedRequest:   *)
(* nothing answers in the last resort, so a fork that ends must have       *)
(* answered, which rests on the acceptance timer and on findBestBranch     *)
(* finding a branch.  Whatever the timeout, a device has one branch, the   *)
(* sender is told when all have answered and a message is kept until it is *)
(* delivered.                                                              *)
(***************************************************************************)
EXTENDS ForkMessage, ForkContextProofs

-----------------------------------------------------------------------------
(***************************************************************************)
(* The methods of ForkMessageContext, but for the creation of a branch,    *)
(* are evolutions (ForkContextProofs) that leave the branches and their    *)
(* answers alone, start the end of the fork, or give up the acceptance     *)
(* timer, only with an answer to the sender, and in fork-late mode end the *)
(* fork only when each device has a definite answer.                       *)
(***************************************************************************)
Keeps(f, g) ==
    /\ Evolves(f, g)
    /\ g.created = f.created /\ g.waiting = f.waiting
    /\ \A b \in Branches : g.br[b].uid = f.br[b].uid /\ g.br[b].status = f.br[b].status
    /\ g.finishTimer => f.finishTimer \/ ~g.incoming
    /\ g.finished => f.finished \/ ~g.incoming
    /\ g.finished /\ g.cfg.forkLate => f.finished \/ AllAnsweredForkLate(g, g.waiting)
    /\ (g.lateTimer => f.lateTimer) /\ (g.timer => f.timer)
    /\ f.timer => g.timer \/ ~g.incoming

(* A call that leaves the timers and the branches alone.                   *)
LEMMA KeepsFrame ==
    ASSUME NEW f, NEW g, Evolves(f, g), g.finished = f.finished,
           g.finishTimer = f.finishTimer, g.lateTimer = f.lateTimer, g.timer = f.timer,
           g.created = f.created, g.waiting = f.waiting,
           \A b \in Branches : g.br[b].uid = f.br[b].uid /\ g.br[b].status = f.br[b].status
    PROVE  Keeps(f, g)
  BY DEF Keeps

(* A call that does nothing.                                               *)
LEMMA KeepsRefl ==
    ASSUME NEW f \in ForkContext PROVE Keeps(f, f)
  BY QuietRefl DEF Keeps, Quiet

(* Two calls, one after the other: an answer given is not taken back.      *)
LEMMA KeepsTrans ==
    ASSUME NEW f \in ForkContext, NEW g, NEW h, Keeps(f, g), Keeps(g, h)
    PROVE  Keeps(f, h)
  <1>1. Evolves(f, h) /\ h.cfg = g.cfg
    BY EvolvesTrans DEF Keeps, Evolves
  <1>2. ~g.incoming => ~h.incoming
    BY DEF Keeps, Evolves
  <1>3. AllAnsweredForkLate(g, g.waiting) => AllAnsweredForkLate(h, h.waiting)
    <2>1. f.waiting \subseteq Branches
      BY DEF ForkContext
    <2> QED BY <2>1 DEF AllAnsweredForkLate, Keeps
  <1> QED BY <1>1, <1>2, <1>3 DEF Keeps

(* forwardResponse(ev): a final answer may start the end, and is one.      *)
LEMMA ForwardEventKeeps ==
    ASSUME NEW f \in ForkContext, NEW code \in Codes
    PROVE  /\ Keeps(f, ForwardEvent(f, code))
           /\ code >= 200 => ~ForwardEvent(f, code).incoming
  <1> DEFINE sent == [f EXCEPT !.lastSent = code]
             final == [f EXCEPT !.lastSent = code, !.incoming = FALSE, !.finals = @ + 1]
             over == SetFinished(final)
             g == ForwardEvent(f, code)
  <1>1. Quiet(f, g) /\ code \in Int
    BY ForwardEventQuiet, CodesAreInts
  <1>2. /\ sent.finishTimer = f.finishTimer /\ sent.lateTimer = f.lateTimer
        /\ sent.timer = f.timer /\ sent.finished = f.finished
    BY DEF ForkContext
  <1>3. /\ ~final.incoming /\ final.lateTimer = f.lateTimer /\ final.timer = f.timer
        /\ final.finished = f.finished
    BY DEF ForkContext
  <1>4. ~over.incoming /\ (over.lateTimer => f.lateTimer) /\ over.timer = f.timer
    BY DEF ForkContext, SetFinished
  <1>5. /\ \/ g = f /\ ~f.incoming
           \/ g = sent /\ ~(code >= 200)
           \/ g = final
           \/ g = over /\ ~f.cfg.forkLate
    BY <1>1 DEF ForwardEvent, ShouldFinish
  <1> HIDE DEF sent, final, over, g
  <1>6. /\ g.finishTimer => f.finishTimer \/ ~g.incoming
        /\ g.finished => f.finished \/ ~g.incoming
        /\ g.finished /\ f.cfg.forkLate => f.finished
        /\ (g.lateTimer => f.lateTimer) /\ (g.timer => f.timer)
        /\ f.timer => g.timer \/ ~g.incoming
        /\ code >= 200 => ~g.incoming
    BY <1>2, <1>3, <1>4, <1>5
  <1>7. Keeps(f, g)
    BY <1>1, <1>6 DEF Keeps, Quiet, Evolves
  <1> QED BY <1>6, <1>7 DEF g

(* forwardResponse(br) does so with the answer of a branch.                *)
LEMMA ForwardResponseKeeps ==
    ASSUME NEW f \in ForkContext, NEW b \in Branches
    PROVE  /\ Keeps(f, ForwardResponse(f, b))
           /\ f.br[b].status >= 200 => ~ForwardResponse(f, b).incoming
  <1>1. f.br[b].status \in Codes
    BY BranchNumbers
  <1> QED BY <1>1, ForwardEventKeeps DEF ForwardResponse

(* Requests leave, or an internal error (483 to the sender) stops them.    *)
LEMMA LaunchKeeps ==
    ASSUME NEW f \in ForkContext, NEW bs, NEW failing PROVE Keeps(f, Launch(f, bs, failing))
  <1> DEFINE sent == SendToInjector(f, bs, failing)
  <1>1. Evolves(f, sent) /\ Transmits(f, sent)
    BY SendToInjectorSends
  <1> HIDE DEF sent
  <1>2. Keeps(f, sent) /\ sent \in ForkContext
    BY <1>1 DEF Keeps, Transmits
  <1>3. Keeps(sent, ForwardEvent(sent, 483))
    BY <1>2, ForwardEventKeeps DEF Codes, OwnCodes
  <1>4. Keeps(f, ForwardEvent(sent, 483))
    BY <1>2, <1>3, KeepsTrans
  <1> QED BY <1>2, <1>4 DEF Launch, ProcessInternalError, sent

(* start() moves to the next branches unless the fork is over.             *)
LEMMA StartKeeps ==
    ASSUME NEW f \in ForkContext, NEW failing PROVE Keeps(f, Start(f, failing))
  <1> DEFINE n == NextBranches(f)
             l == Launch(n, n.current, failing)
             a == ArmNextTimer(l)
  <1>1. /\ Evolves(f, n) /\ n \in ForkContext /\ n.finished = f.finished
        /\ n.finishTimer = f.finishTimer /\ n.lateTimer = f.lateTimer /\ n.timer = f.timer
        /\ n.created = f.created /\ n.waiting = f.waiting /\ n.br = f.br
    BY NextBranchesShape
  <1> HIDE DEF n
  <1>2. Keeps(f, n)
    BY <1>1 DEF Keeps
  <1>3. Keeps(n, l) /\ l \in ForkContext
    BY <1>1, LaunchKeeps DEF Keeps, Evolves
  <1> HIDE DEF l
  <1>4. Quiet(l, a)
    BY <1>3, ArmNextTimerQuiet
  <1>5. /\ a.finishTimer = l.finishTimer /\ a.lateTimer = l.lateTimer /\ a.timer = l.timer
        /\ a.finished = l.finished
    BY <1>3 DEF ArmNextTimer, ForkContext
  <1> HIDE DEF a
  <1>6. Keeps(l, a)
    BY <1>4, <1>5 DEF Keeps, Quiet
  <1>7. Keeps(f, a)
    BY <1>1, <1>2, <1>3, <1>6, KeepsTrans
  <1> QED BY <1>7, KeepsRefl DEF Start, n, l, a

(* acceptMessage(): 202, unless the sender has an answer.                  *)
LEMMA AcceptanceKeeps ==
    ASSUME NEW f \in ForkContext
    PROVE  Keeps(f, OnAcceptanceTimer(f)) /\ ~OnAcceptanceTimer(f).incoming
  <1> DEFINE a == ForwardEvent(f, 202)
             g == [a EXCEPT !.timer = FALSE]
  <1>1. Keeps(f, a) /\ ~a.incoming /\ a \in ForkContext
    BY ForwardEventKeeps DEF Codes, OwnCodes, Keeps, Evolves
  <1> HIDE DEF a
  <1>2. g \in ForkContext
    BY <1>1 DEF ForkContext
  <1>3. /\ g.cfg = a.cfg /\ g.life = a.life /\ g.incoming = a.incoming /\ g.finals = a.finals
        /\ g.lastSent = a.lastSent /\ ~g.incoming /\ g.lateTimer = a.lateTimer /\ g.direct = a.direct
        /\ ~g.timer /\ g.finished = a.finished /\ g.finishTimer = a.finishTimer
        /\ g.created = a.created /\ g.waiting = a.waiting /\ g.br = a.br
    BY <1>1 DEF ForkContext
  <1> HIDE DEF g
  <1>4. Evolves(a, g)
    BY <1>1, <1>2, <1>3, EvolvesFrame
  <1>5. Keeps(a, g)
    BY <1>3, <1>4 DEF Keeps
  <1>6. Keeps(f, g)
    BY <1>1, <1>5, KeepsTrans
  <1> QED BY <1>3, <1>6 DEF OnAcceptanceTimer, a, g

(* setFinished() stops timers, and answers nobody.                         *)
LEMMA SetFinishedFrame ==
    ASSUME NEW f \in ForkContext
    PROVE  LET g == SetFinished(f)
           IN /\ Quiet(f, g) /\ g \in ForkContext
              /\ g.incoming = f.incoming /\ g.timer = f.timer
              /\ g.lateTimer => f.lateTimer
              /\ g.br = f.br /\ g.waiting = f.waiting
  <1>1. Quiet(f, SetFinished(f)) /\ SetFinished(f) \in ForkContext
    BY SetFinishedQuiet DEF Quiet, Evolves
  <1> QED BY <1>1 DEF SetFinished, ForkContext

(* checkFinished(): when all the branches have answered and the fork ends, *)
(* findBestBranch finds an answer for the sender.                          *)
LEMMA CheckFinishedKeeps ==
    ASSUME NEW f \in ForkContext, NEW a \in f.waiting PROVE Keeps(f, CheckFinishedBase(f).fork)
  <1> DEFINE best == FindBestBranch(f, f.cfg.forkLate)
             ends == ~f.cfg.forkLate \/ AllAnsweredForkLate(f, f.waiting)
             s == SetFinished(f)
             f1 == IF ends THEN s ELSE f
             g == CheckFinishedBase(f).fork
  <1>1. a \in Branches /\ f.br[a].status \in Int /\ f.cfg.forkLate \in BOOLEAN
    <2>1. a \in Branches /\ f.cfg.forkLate \in BOOLEAN
      BY DEF ForkContext, ForkContextConfig
    <2> QED BY <2>1, BranchNumbers
  <1>2. best # NoBranch => best \in Branches /\ f.br[best].status >= 200
    BY BestIsFinal
  <1>3. AllAnsweredRFC(f, f.waiting) /\ ends => best # NoBranch
    <2> SUFFICES ASSUME AllAnsweredRFC(f, f.waiting), ends PROVE best # NoBranch
      OBVIOUS
    <2>1. f.br[a].status >= 200
      BY <1>1 DEF AllAnsweredRFC, NeedsDeliveryRFC
    <2>2. IsConsidered(f.br[a].status, f.cfg.forkLate)
      BY DEF IsConsidered, AllAnsweredForkLate, NeedsDeliveryForkLate
    <2> QED BY <2>1, <2>2, BestExists
  <1>4. /\ s \in ForkContext /\ Quiet(f, s) /\ s.incoming = f.incoming /\ s.timer = f.timer
        /\ (s.lateTimer => f.lateTimer) /\ s.br = f.br /\ s.waiting = f.waiting
    BY SetFinishedFrame
  <1> HIDE DEF s
  <1>5. Quiet(f, f) /\ Keeps(f, f)
    BY QuietRefl, KeepsRefl
  <1>6. /\ f1 \in ForkContext /\ Quiet(f, f1) /\ f1.incoming = f.incoming /\ f1.timer = f.timer
        /\ (f1.lateTimer => f.lateTimer) /\ f1.br = f.br /\ f1.waiting = f.waiting
        /\ (f1.finished => f.finished \/ ends)
    BY <1>4, <1>5
  <1>7. \/ g = f
        \/ g = s /\ ~f.incoming /\ ~f.cfg.forkLate
        \/ g = f1 /\ AllAnsweredRFC(f, f.waiting) /\ best = NoBranch
        \/ g = ForwardResponse(f1, best) /\ best # NoBranch
    BY DEF CheckFinishedBase, s
  <1> HIDE DEF best, g
  <1>8. CASE g = f
    BY <1>5, <1>8 DEF g
  <1>9. CASE g = s /\ ~f.incoming /\ ~f.cfg.forkLate
    <2>1. Keeps(f, g)
      BY <1>4, <1>9 DEF Keeps, Quiet, Evolves
    <2> QED BY <2>1 DEF g
  <1>10. CASE g = f1 /\ AllAnsweredRFC(f, f.waiting) /\ best = NoBranch
    BY <1>3, <1>5, <1>10 DEF g
  <1>11. CASE g = ForwardResponse(f1, best) /\ best # NoBranch
    <2>1. best \in Branches /\ f1.br[best].status >= 200
      BY <1>2, <1>6, <1>11
    <2>2. f1.finished /\ f.cfg.forkLate => f.finished \/ AllAnsweredForkLate(f1, f1.waiting)
      BY <1>6 DEF AllAnsweredForkLate
    <2> HIDE DEF f1
    <2>3. Keeps(f1, g) /\ ~g.incoming
      BY <1>6, <1>11, <2>1, ForwardResponseKeeps
    <2>4. Evolves(f, g) /\ g.cfg = f.cfg
      BY <1>6, <2>3, EvolvesTrans DEF Keeps, Quiet, Evolves
    <2>5. f.waiting \subseteq Branches
      BY DEF ForkContext
    <2>6. AllAnsweredForkLate(f1, f1.waiting) => AllAnsweredForkLate(g, g.waiting)
      BY <1>6, <2>3, <2>5 DEF AllAnsweredForkLate, Keeps
    <2>7. /\ g.created = f.created /\ g.waiting = f.waiting
          /\ \A b \in Branches : g.br[b].uid = f.br[b].uid /\ g.br[b].status = f.br[b].status
      BY <1>6, <2>3 DEF Keeps, Quiet
    <2>8. /\ g.finished /\ g.cfg.forkLate => f.finished \/ AllAnsweredForkLate(g, g.waiting)
          /\ (g.lateTimer => f.lateTimer) /\ (g.timer => f.timer)
      BY <1>6, <2>2, <2>3, <2>4, <2>6 DEF Keeps
    <2>9. Keeps(f, g)
      BY <2>3, <2>4, <2>7, <2>8 DEF Keeps
    <2> QED BY <2>9 DEF g
  <1> QED BY <1>7, <1>8, <1>9, <1>10, <1>11

(* onResponse(): a success is forwarded before the acceptance timer is     *)
(* missed; when all have answered the sender is told.                      *)
LEMMA OnResponseKeeps ==
    ASSUME NEW f \in ForkContext, NEW b \in f.waiting, NEW code \in Codes, f.br[b].status = code
    PROVE  LET g == OnResponse(f, b, code)
           IN /\ Keeps(f, g)
              /\ g.timer /\ g.incoming => g.finished \/ ~AllAnsweredRFC(g, g.waiting)
  <1> DEFINE d == [f EXCEPT !.deliveredCount = @ + 1, !.timer = FALSE]
             r == ForwardResponse(d, b)
             h == Forwarded(f, b, code)
             f1 == CheckFinishedBase(h).fork
             a == OnAcceptanceTimer(f1)
  <1>1. OnResponse(f, b, code) =
          IF f1.timer /\ AllAnsweredRFC(f1, f1.waiting) /\ ~f1.finished THEN a ELSE f1
    BY Zenon DEF OnResponse
  <1>2. code \in Int /\ b \in Branches
    BY CodesAreInts DEF ForkContext
  <1>3. d \in ForkContext
    <2>1. f.deliveredCount + 1 \in Nat
      BY DEF ForkContext
    <2> QED BY <2>1 DEF ForkContext
  <1>4. /\ d.cfg = f.cfg /\ d.life = f.life /\ d.incoming = f.incoming /\ d.finals = f.finals
        /\ d.lastSent = f.lastSent /\ d.br = f.br /\ d.waiting = f.waiting /\ d.direct = f.direct
        /\ d.created = f.created /\ ~d.timer
        /\ d.finished = f.finished /\ d.finishTimer = f.finishTimer /\ d.lateTimer = f.lateTimer
    BY DEF ForkContext
  <1>5. (h = r /\ code >= 200) \/ h = ForwardResponse(f, b) \/ h = f
    BY <1>2 DEF Forwarded
  <1> HIDE DEF d
  <1>6. Evolves(f, d)
    BY <1>3, <1>4, EvolvesFrame
  <1>7. Keeps(d, r) /\ (code >= 200 => ~r.incoming)
    BY <1>2, <1>3, <1>4, ForwardResponseKeeps
  <1> HIDE DEF r
  <1>8. Evolves(f, r)
    BY <1>6, <1>7, EvolvesTrans DEF Keeps
  <1>9. code >= 200 => Keeps(f, r)
    BY <1>4, <1>7, <1>8 DEF Keeps
  <1> HIDE DEF h
  <1>10. Keeps(f, h) /\ h.waiting = f.waiting /\ h \in ForkContext
    <2>1. Keeps(f, h)
      BY <1>2, <1>5, <1>9, KeepsRefl, ForwardResponseKeeps
    <2> QED BY <2>1 DEF Keeps, Evolves
  <1>11. Keeps(h, f1) /\ f1 \in ForkContext
    <2>1. b \in h.waiting
      BY <1>10
    <2>2. Keeps(h, f1)
      BY <1>10, <2>1, CheckFinishedKeeps
    <2> QED BY <2>2 DEF Keeps, Evolves
  <1> HIDE DEF f1
  <1>12. Keeps(f, f1) /\ Keeps(f1, a) /\ ~a.incoming
    BY <1>10, <1>11, KeepsTrans, AcceptanceKeeps
  <1> HIDE DEF a
  <1>13. Keeps(f, a)
    BY <1>11, <1>12, KeepsTrans
  <1> QED BY <1>1, <1>12, <1>13

-----------------------------------------------------------------------------
(***************************************************************************)
(* A new branch.  Branches are numbered in the order of their creation, so *)
(* that the number of a new one is free.                                   *)
(***************************************************************************)
OneEach(f) ==
    /\ f.waiting \subseteq 1..f.created
    /\ \A b, c \in f.waiting : f.br[b].uid = f.br[c].uid => b = c

(* Calls that leave the branches alone leave one per device.               *)
LEMMA KeepsOneEach ==
    ASSUME NEW f \in ForkContext, NEW g, OneEach(f), Keeps(f, g) PROVE OneEach(g)
  <1>1. f.waiting \subseteq Branches
    BY DEF ForkContext
  <1> QED BY <1>1 DEF OneEach, Keeps

(* Calls that remove branches: onNewBranch and the end of answered ones.   *)
Removes(f, g) ==
    /\ Evolves(f, g) /\ g \in ForkContext
    /\ g.br = f.br /\ g.waiting \subseteq f.waiting /\ g.created = f.created
    /\ g.finished = f.finished /\ g.finishTimer = f.finishTimer
    /\ g.lateTimer = f.lateTimer /\ g.timer = f.timer

(* removeBranch removes one, or none is removed.                           *)
LEMMA RemoveBranchRemoves ==
    ASSUME NEW f \in ForkContext, NEW b
    PROVE  /\ Removes(f, RemoveBranch(f, b)) /\ b \notin RemoveBranch(f, b).waiting
           /\ Removes(f, f)
  <1>1. RemoveBranch(f, b).lateTimer = f.lateTimer /\ RemoveBranch(f, b).timer = f.timer
    BY DEF RemoveBranch, ForkContext
  <1> QED BY <1>1, RemoveBranchShape, QuietRefl DEF Removes, Quiet

(* findBranchByUid finds the branch of a device.                           *)
LEMMA DeviceFound ==
    ASSUME NEW f \in ForkContext, OneEach(f), NEW b \in f.waiting
    PROVE  FindBranchByUid(f, f.br[b].uid) = b
  <1> DEFINE bs == {c \in f.waiting : f.br[c].uid = f.br[b].uid}
  <1>1. bs = {b}
    BY DEF OneEach
  <1>2. bs \in SUBSET Branches
    BY DEF ForkContext
  <1>3. FindBranchByUid(f, f.br[b].uid) = FirstBranch(f, bs)
    BY DEF FindBranchByUid
  <1> HIDE DEF bs
  <1> QED BY <1>1, <1>2, <1>3, FirstExists

(***************************************************************************)
(* What a handler does, whether or not it adds a branch: see Keeps, and    *)
(* "br" unchanged when the delivery timeout ends the fork.                 *)
(***************************************************************************)
Steps(f, g) ==
    /\ Evolves(f, g)
    /\ OneEach(g)
    /\ LongDelivery /\ g.finishTimer => f.finishTimer \/ ~g.incoming
    /\ g.finished /\ g.cfg.forkLate =>
         f.finished \/ AllAnsweredForkLate(g, g.waiting) \/ g.br = f.br
    /\ g.lateTimer => f.lateTimer
    /\ f.timer => g.timer \/ ~g.incoming
    /\ g.timer /\ g.incoming => ~g.finished /\ ~AllAnsweredRFC(g, g.waiting)

(* The state of a fork between two handlers.  A destroyed fork has         *)
(* answered because one that is about to go has; a late fork goes when its *)
(* late timer fires, which is after the acceptance timer, and that one     *)
(* runs until the sender has an answer.                                    *)
Fit(f) ==
    /\ f \in ForkContext
    /\ OneEach(f)
    /\ f.lateTimer => f.cfg.forkLate
    /\ f.timer /\ f.incoming => ~f.finished /\ ~AllAnsweredRFC(f, f.waiting)
    /\ ~f.incoming => f.lastSent >= 200
    /\ LongDelivery => /\ f.finishTimer \/ f.life # "registered" => ~f.incoming
                       /\ f.cfg.forkLate /\ f.incoming => f.timer

(* A handler that leaves the branches alone is a step.                     *)
LEMMA KeepsSteps ==
    ASSUME NEW f, Fit(f), NEW g, Keeps(f, g) PROVE Steps(f, g)
  <1>1. f \in ForkContext /\ f.waiting \subseteq Branches
    BY DEF Fit, ForkContext
  <1>2. OneEach(g)
    BY <1>1, KeepsOneEach DEF Fit
  <1>3. AllAnsweredRFC(g, g.waiting) => AllAnsweredRFC(f, f.waiting)
    BY <1>1 DEF AllAnsweredRFC, Keeps
  <1>4. g.incoming => f.incoming
    BY <1>1 DEF Keeps, Evolves, ForkContext
  <1> QED BY <1>2, <1>3, <1>4 DEF Keeps, Steps, Fit

(* A step leaves a fit fork, and is a move (see ForkContextProofs).        *)
LEMMA StepsFit ==
    ASSUME NEW f, Fit(f), NEW g, Steps(f, g), f.life # "destroyed"
    PROVE  Fit(g) /\ Moves(f, g)
  <1>1. f \in ForkContext /\ g \in ForkContext /\ g.cfg = f.cfg /\ g.life = f.life
    BY DEF Fit, Steps, Evolves
  <1>2. /\ ~f.incoming => ~g.incoming /\ g.lastSent = f.lastSent
        /\ f.incoming /\ ~g.incoming => g.lastSent >= 200
    BY DEF Steps, Evolves
  <1>3. f.incoming \in BOOLEAN /\ g.incoming \in BOOLEAN
    BY <1>1 DEF ForkContext
  <1>4. LongDelivery => /\ g.finishTimer \/ g.life # "registered" => ~g.incoming
                        /\ g.cfg.forkLate /\ g.incoming => g.timer
    BY <1>1, <1>2, <1>3 DEF Fit, Steps
  <1>5. Fit(g)
    BY <1>1, <1>2, <1>3, <1>4 DEF Fit, Steps
  <1> QED BY <1>1, <1>5, EvolvesMoves DEF Steps

(* addBranch() for a device that registers during the fork: onNewBranch    *)
(* removes its other branch, and the new one is to be answered.            *)
LEMMA AddBranchSteps ==
    ASSUME NEW f, Fit(f), NEW c \in Contacts, NEW failing, f.created < MaxBranches
    PROVE  Steps(f, AddBranch(f, c, failing))
  <1> DEFINE k == ClearAnswered(f, c.uid)
             old == FindBranchByUid(k, c.uid)
             o == OnNewBranch(k, c.uid)
             p == PushBranch(o, c)
             n == o.created + 1
             b == p.created
             q == [p EXCEPT !.current = @ \cup {b}]
             g == AddBranch(f, c, failing)
  <1>1. f \in ForkContext /\ OneEach(f) /\ f.waiting \subseteq Branches
    BY DEF Fit, ForkContext
  <1>2. Removes(f, k)
    BY <1>1, RemoveBranchRemoves DEF ClearAnswered
  <1>3. k \in ForkContext /\ OneEach(k) /\ k.waiting \subseteq Branches
    BY <1>1, <1>2 DEF Removes, OneEach
  <1>4. o = IF old = NoBranch THEN k ELSE RemoveBranch(k, old)
    BY DEF OnNewBranch
  <1>5. g \in {Launch(q, {b}, failing), p}
    BY DEF AddBranch
  <1> HIDE DEF k, o
  <1>6. Removes(k, o) /\ o \in ForkContext
    BY <1>3, <1>4, RemoveBranchRemoves DEF Removes
  <1>7. ASSUME NEW x \in o.waiting, o.br[x].uid = c.uid PROVE FALSE
    <2>1. x \in k.waiting /\ k.br[x].uid = c.uid
      BY <1>6, <1>7 DEF Removes
    <2>2. old = x /\ old # NoBranch
      BY <1>3, <2>1, DeviceFound DEF Branches, NoBranch
    <2> HIDE DEF old
    <2> QED BY <1>3, <1>4, <1>7, <2>2, RemoveBranchRemoves
  <1>8. Removes(f, o)
    <2>1. Evolves(f, o)
      BY <1>1, <1>2, <1>6, EvolvesTrans DEF Removes
    <2> QED BY <1>2, <1>6, <2>1 DEF Removes
  <1>9. /\ Evolves(o, p) /\ p \in ForkContext /\ n \in Branches
        /\ p.waiting = o.waiting \cup {n} /\ p.created = n
        /\ p.finished = o.finished /\ p.finishTimer = o.finishTimer
        /\ \A x \in Branches \ {n} : p.br[x] = o.br[x]
        /\ p.br[n].uid = c.uid /\ p.br[n].status = 0
    <2>1. o.created < MaxBranches
      BY <1>8 DEF Removes
    <2> QED BY <1>6, <2>1, PushBranchShape
  <1>10. p.lateTimer = o.lateTimer /\ p.timer = o.timer
    BY <1>6 DEF PushBranch, ForkContext
  <1> HIDE DEF p
  <1>11. OneEach(p)
    <2>1. o.created \in Nat /\ o.waiting \subseteq 1..o.created /\ o.waiting \subseteq Branches
      BY <1>1, <1>6, <1>8 DEF Removes, OneEach, ForkContext
    <2>2. n \notin o.waiting /\ p.waiting \subseteq 1..p.created
      BY <1>9, <2>1
    <2> HIDE DEF n
    <2>3. \A x, y \in p.waiting : p.br[x].uid = p.br[y].uid => x = y
      BY <1>1, <1>7, <1>8, <1>9, <2>1, <2>2 DEF Removes, OneEach
    <2> QED BY <2>2, <2>3 DEF OneEach
  <1>12. q \in ForkContext /\ b = n
    <2>1. p.current \cup {b} \in SUBSET Branches
      BY <1>9 DEF ForkContext
    <2> QED BY <1>9, <2>1 DEF ForkContext
  <1>13. /\ q.cfg = p.cfg /\ q.life = p.life /\ q.incoming = p.incoming /\ q.finals = p.finals
         /\ q.lastSent = p.lastSent /\ q.finished = p.finished /\ q.finishTimer = p.finishTimer /\ q.direct = p.direct
         /\ q.lateTimer = p.lateTimer /\ q.timer = p.timer
         /\ q.created = p.created /\ q.waiting = p.waiting /\ q.br = p.br
    BY <1>9 DEF ForkContext
  <1> HIDE DEF q, n
  <1>14. Evolves(p, q)
    BY <1>9, <1>12, <1>13, EvolvesFrame
  <1>15. Keeps(p, q)
    BY <1>13, <1>14 DEF Keeps
  <1>16. Keeps(p, g)
    BY <1>5, <1>9, <1>12, <1>15, LaunchKeeps, KeepsTrans, KeepsRefl
  <1> HIDE DEF g
  <1>17. Evolves(f, g) /\ OneEach(g) /\ ~AllAnsweredRFC(g, g.waiting)
    <2>1. Evolves(f, g)
      BY <1>1, <1>8, <1>9, <1>16, EvolvesTrans DEF Removes, Keeps
    <2>2. OneEach(g)
      BY <1>9, <1>11, <1>16, KeepsOneEach
    <2>3. n \in g.waiting /\ g.br[n].status = 0
      BY <1>9, <1>16 DEF Keeps
    <2> QED BY <2>1, <2>2, <2>3 DEF AllAnsweredRFC, NeedsDeliveryRFC
  <1>18. /\ p.finished = f.finished /\ p.finishTimer = f.finishTimer
         /\ p.lateTimer = f.lateTimer /\ p.timer = f.timer
    BY <1>8, <1>9, <1>10 DEF Removes
  <1>19. g.incoming => f.incoming
    BY <1>1, <1>17 DEF Evolves, ForkContext
  <1>20. Steps(f, g)
    BY <1>16, <1>17, <1>18, <1>19 DEF Steps, Keeps, Fit
  <1> QED BY <1>20 DEF g

-----------------------------------------------------------------------------
(***************************************************************************)
(* The inductive invariant: the fork is fit.                               *)
(***************************************************************************)
IInv == Fit(fork)

(* What KeptUntilDelivered says of a step.                                 *)
KeptIn(f, g) ==
    f.cfg.forkLate /\ ~f.finished /\ g.finished =>
        AllAnsweredForkLate(g, g.waiting) \/ g.br = f.br

Holds(f, g) == Fit(g) /\ KeptIn(f, g) /\ (LongDelivery => Moves(f, g))

(* A step of a fork that lives.                                            *)
LEMMA StepsHolds ==
    ASSUME NEW f, Fit(f), NEW g, Steps(f, g), f.life # "destroyed" PROVE Holds(f, g)
  <1>1. Fit(g) /\ Moves(f, g)
    BY StepsFit
  <1>2. KeptIn(f, g)
    BY DEF KeptIn, Steps, Evolves
  <1> QED BY <1>1, <1>2 DEF Holds

(* Every step of a message fork: one step of the proof for each handler.   *)
LEMMA NextHolds ==
    ASSUME IInv, Next PROVE Holds(fork, fork')
  <1>0. Fit(fork) /\ fork \in ForkContext
    BY DEF IInv, Fit
  <1>1. ASSUME NEW b \in Branches, NEW code \in ProvisionalCodes \cup FinalCodes, Response(b, code)
        PROVE  Holds(fork, fork')
    <2> DEFINE s == WithStatus(fork, b, code)
               f1 == OnResponse(s, b, code)
    <2>1. /\ fork.life # "destroyed" /\ b \in fork.waiting /\ code \in Codes
          /\ fork' = f1 \/ \E failing : fork' = Start(f1, failing)
      BY <1>1 DEF Response, Codes
    <2>2. /\ Evolves(fork, s) /\ s \in ForkContext /\ s.waiting = fork.waiting
          /\ s.created = fork.created /\ s.finished = fork.finished
          /\ s.finishTimer = fork.finishTimer /\ s.br[b].status = code
          /\ \A x \in Branches : s.br[x].uid = fork.br[x].uid
      BY <1>0, <2>1, WithStatusShape
    <2>3. s.lateTimer = fork.lateTimer /\ s.timer = fork.timer
      BY <1>0 DEF WithStatus, ForkContext
    <2> HIDE DEF s
    <2>4. /\ Keeps(s, f1)
          /\ f1.timer /\ f1.incoming => f1.finished \/ ~AllAnsweredRFC(f1, f1.waiting)
      BY <2>1, <2>2, OnResponseKeeps
    <2> HIDE DEF f1
    <2>5. f1 \in ForkContext
      BY <2>4 DEF Keeps, Evolves
    <2>6. Keeps(f1, fork')
      BY <2>1, <2>5, StartKeeps, KeepsRefl
    <2>7. Keeps(s, fork')
      BY <2>2, <2>4, <2>6, KeepsTrans
    <2>8. Evolves(fork, fork')
      BY <1>0, <2>2, <2>7, EvolvesTrans DEF Keeps
    <2>9. OneEach(fork')
      <3>1. OneEach(s)
        BY <1>0, <2>2 DEF OneEach, Fit, ForkContext
      <3> QED BY <2>2, <2>7, <3>1, KeepsOneEach
    <2>10. fork'.timer /\ fork'.incoming => ~fork'.finished /\ ~AllAnsweredRFC(fork', fork'.waiting)
      <3> SUFFICES ASSUME fork'.timer, fork'.incoming
                   PROVE  ~fork'.finished /\ ~AllAnsweredRFC(fork', fork'.waiting)
        OBVIOUS
      <3>1. f1.timer /\ f1.incoming /\ s.timer /\ s.incoming /\ fork.incoming
        BY <1>0, <2>2, <2>4, <2>5, <2>6 DEF Keeps, Evolves, ForkContext
      <3>2. ~fork.finished
        BY <1>0, <2>3, <3>1 DEF Fit
      <3>3. ~f1.finished /\ ~fork'.finished
        BY <2>2, <2>4, <2>7, <3>1, <3>2 DEF Keeps
      <3>4. ~AllAnsweredRFC(f1, f1.waiting)
        BY <2>4, <3>1, <3>3
      <3>5. f1.waiting \subseteq Branches
        BY <2>5 DEF ForkContext
      <3> QED BY <2>6, <3>3, <3>4, <3>5 DEF Keeps, AllAnsweredRFC
    <2>11. Steps(fork, fork')
      BY <2>2, <2>3, <2>7, <2>8, <2>9, <2>10 DEF Steps, Keeps
    <2> QED BY <1>0, <2>1, <2>11, StepsHolds
  <1>2. ASSUME NEW b \in Branches, LostResponse(b) PROVE Holds(fork, fork')
    <2> DEFINE info == [fork.br[b] EXCEPT !.out = "done"]
               nbr == [fork.br EXCEPT ![b] = info]
               g == [fork EXCEPT !.br = nbr]
    <2>1. fork.life # "destroyed" /\ fork' = g
      BY <1>2 DEF LostResponse
    <2>2. fork.br \in [Branches -> BranchInfo] /\ fork.br[b] \in BranchInfo
      BY <1>0 DEF ForkContext
    <2>3. info \in BranchInfo /\ info.uid = fork.br[b].uid /\ info.status = fork.br[b].status
      BY <2>2 DEF BranchInfo, OutStates
    <2> HIDE DEF info
    <2>4. /\ nbr \in [Branches -> BranchInfo]
          /\ \A x \in Branches : nbr[x].uid = fork.br[x].uid /\ nbr[x].status = fork.br[x].status
      BY <2>2, <2>3
    <2> HIDE DEF nbr
    <2>5. g \in ForkContext
      BY <1>0, <2>4 DEF ForkContext
    <2>6. /\ g.cfg = fork.cfg /\ g.life = fork.life /\ g.incoming = fork.incoming
          /\ g.finals = fork.finals /\ g.direct = fork.direct /\ g.lastSent = fork.lastSent /\ g.br = nbr
          /\ g.finished = fork.finished /\ g.finishTimer = fork.finishTimer
          /\ g.lateTimer = fork.lateTimer /\ g.timer = fork.timer
          /\ g.created = fork.created /\ g.waiting = fork.waiting
      BY <1>0 DEF ForkContext
    <2> HIDE DEF g
    <2>7. Evolves(fork, g)
      BY <1>0, <2>5, <2>6, EvolvesFrame
    <2>8. Keeps(fork, g)
      BY <2>4, <2>6, <2>7 DEF Keeps
    <2> QED BY <1>0, <2>1, <2>8, KeepsSteps, StepsHolds
  <1>3. CASE PushSent
    <2> DEFINE s == SendResponse(fork, 110)
               g == [s EXCEPT !.sent110 = TRUE]
    <2>1. fork.life # "destroyed" /\ fork' \in {fork, g}
      BY <1>3 DEF PushSent, OnPushSentBase
    <2>2. Keeps(fork, s) /\ Keeps(fork, fork)
      BY <1>0, ForwardEventKeeps, KeepsRefl DEF SendResponse, Codes, OwnCodes
    <2> HIDE DEF s
    <2>3. s \in ForkContext
      BY <2>2 DEF Keeps, Evolves
    <2>4. g \in ForkContext
      BY <2>3 DEF ForkContext
    <2>5. /\ g.cfg = s.cfg /\ g.life = s.life /\ g.incoming = s.incoming
          /\ g.finals = s.finals /\ g.direct = s.direct /\ g.lastSent = s.lastSent
          /\ g.finished = s.finished /\ g.finishTimer = s.finishTimer
          /\ g.lateTimer = s.lateTimer /\ g.timer = s.timer
          /\ g.created = s.created /\ g.waiting = s.waiting /\ g.br = s.br
      BY <2>3 DEF ForkContext
    <2> HIDE DEF g
    <2>6. Evolves(s, g)
      BY <2>3, <2>4, <2>5, EvolvesFrame
    <2>7. Keeps(s, g)
      BY <2>5, <2>6 DEF Keeps
    <2>8. Keeps(fork, fork')
      BY <1>0, <2>1, <2>2, <2>7, KeepsTrans
    <2> QED BY <1>0, <2>1, <2>8, KeepsSteps, StepsHolds
  <1>4. ASSUME NEW c \in LateContacts, NewRegister(c) PROVE Holds(fork, fork')
    <2>1. /\ c \in Contacts /\ fork.life # "destroyed" /\ fork.created < MaxBranches
          /\ \E failing : fork' = AddBranch(fork, c, failing)
      BY <1>4, MessageAssumption DEF NewRegister
    <2> QED BY <1>0, <2>1, AddBranchSteps, StepsHolds
  <1>5. CASE AcceptanceTimer
    <2>1. Keeps(fork, fork') /\ fork.life # "destroyed"
      BY <1>0, <1>5, AcceptanceKeeps DEF AcceptanceTimer
    <2> QED BY <1>0, <2>1, KeepsSteps, StepsHolds
  <1>6. CASE LateTimer
    <2> DEFINE g == [fork EXCEPT !.lateTimer = FALSE]
    <2>1. /\ fork.life # "destroyed" /\ fork.lateTimer /\ ~fork.timer /\ fork' = SetFinished(g)
          /\ LongDelivery => ~fork.incoming
      BY <1>0, <1>6 DEF LateTimer, Fit
    <2>2. g \in ForkContext
      BY <1>0 DEF ForkContext
    <2>3. /\ g.cfg = fork.cfg /\ g.life = fork.life /\ g.incoming = fork.incoming
          /\ g.finals = fork.finals /\ g.direct = fork.direct /\ g.lastSent = fork.lastSent /\ ~g.lateTimer
          /\ g.timer = fork.timer /\ g.created = fork.created /\ g.waiting = fork.waiting
          /\ g.br = fork.br
      BY <1>0 DEF ForkContext
    <2> HIDE DEF g
    <2>4. /\ Quiet(g, fork') /\ fork'.incoming = g.incoming /\ fork'.timer = g.timer
          /\ ~fork'.lateTimer /\ fork'.br = g.br /\ fork'.waiting = g.waiting
      BY <2>1, <2>2, <2>3, SetFinishedFrame
    <2>5. Evolves(fork, fork')
      BY <1>0, <2>2, <2>3, <2>4, EvolvesFrame, EvolvesTrans DEF Quiet
    <2>6. OneEach(fork')
      BY <1>0, <2>3, <2>4 DEF OneEach, Fit, Quiet
    <2>7. Steps(fork, fork')
      BY <2>1, <2>3, <2>4, <2>5, <2>6 DEF Steps
    <2> QED BY <1>0, <2>1, <2>7, StepsHolds
  <1>7. CASE FinishTimer
    <2>1. /\ fork.life # "destroyed" /\ fork.finishTimer
          /\ fork' = [fork EXCEPT !.finishTimer = FALSE, !.life = "destroyed"]
      BY <1>7 DEF FinishTimer
    <2>2. fork' \in ForkContext
      BY <1>0, <2>1 DEF ForkContext, Lives
    <2>3. /\ fork'.incoming = fork.incoming /\ fork'.finals = fork.finals /\ fork'.direct = fork.direct
          /\ fork'.lastSent = fork.lastSent /\ fork'.lateTimer = fork.lateTimer
          /\ fork'.cfg = fork.cfg /\ fork'.timer = fork.timer /\ fork'.finished = fork.finished
          /\ fork'.waiting = fork.waiting /\ fork'.created = fork.created /\ fork'.br = fork.br
      BY <1>0, <2>1 DEF ForkContext
    <2>4. Fit(fork')
      BY <1>0, <2>1, <2>2, <2>3 DEF Fit, OneEach, AllAnsweredRFC
    <2>5. LongDelivery => Moves(fork, fork')
      BY <1>0, <2>1, <2>2, <2>3 DEF Moves, Fit
    <2> QED BY <2>3, <2>4, <2>5 DEF Holds, KeptIn
  <1> QED BY <1>1, <1>2, <1>3, <1>4, <1>5, <1>6, <1>7 DEF Next

(* The fork routeRequest makes is fit.                                     *)
LEMMA InitInvariant ==
    ASSUME Init PROVE IInv /\ fork.life = "registered"
  <1>1. PICK cfg \in MessageConfigs, cs \in InitialContacts :
          \E failing : fork = Start(NewFork(cfg, cfg.forkLate /\ LongDelivery, cs), failing)
    BY DEF Init
  <1>2. PICK n \in 1..MaxBranches : cs \in [1..n -> Contacts]
    BY MessageAssumption
  <1>3. cfg \in ForkContextConfig /\ cfg.forkLate \in BOOLEAN /\ LongDelivery \in BOOLEAN
    BY MessageAssumption DEF ForkContextConfig
  <1> DEFINE t == cfg.forkLate /\ LongDelivery
             f == NewFork(cfg, t, cs)
  <1>4. t \in BOOLEAN /\ (cfg.forkLate /\ LongDelivery => t)
    BY <1>3
  <1> HIDE DEF t
  <1>5. /\ f \in ForkContext /\ f.incoming /\ f.life = "registered" /\ f.cfg = cfg
        /\ ~f.finished /\ ~f.finishTimer /\ f.waiting = 1..n /\ f.created = n
        /\ \A b \in Branches : f.br[b].status = 0
        /\ \A b \in 1..n : f.br[b].uid = cs[b].uid
    BY <1>2, <1>3, <1>4, NewForkShape
  <1>6. f.lateTimer = cfg.forkLate /\ f.timer = t
    BY DEF NewFork
  <1>7. OneEach(f)
    <2>1. DOMAIN cs = 1..n
      BY <1>2
    <2>2. \A i, j \in 1..n : cs[i].uid = cs[j].uid => i = j
      BY <2>1, MessageAssumption
    <2> HIDE DEF f
    <2> QED BY <1>5, <2>2 DEF OneEach
  <1>8. ~AllAnsweredRFC(f, f.waiting)
    <2>1. 1 \in 1..n /\ 1 \in Branches
      BY <1>2, ForkAssumption DEF Branches
    <2> HIDE DEF f
    <2> QED BY <1>5, <2>1 DEF AllAnsweredRFC, NeedsDeliveryRFC
  <1> HIDE DEF f
  <1>9. Fit(f)
    BY <1>4, <1>5, <1>6, <1>7, <1>8 DEF Fit
  <1>10. Keeps(f, fork)
    BY <1>1, <1>5, StartKeeps DEF f, t
  <1>11. Fit(fork)
    BY <1>5, <1>9, <1>10, KeepsSteps, StepsFit
  <1> QED BY <1>5, <1>10, <1>11 DEF IInv, Keeps, Evolves

(* ... and stays so.                                                       *)
LEMMA StepInvariant ==
    ASSUME IInv, [Next]_vars PROVE IInv'
  <1>1. CASE UNCHANGED vars
    BY <1>1 DEF IInv, vars
  <1>2. CASE Next
    BY <1>2, NextHolds DEF Holds, IInv
  <1> QED BY <1>1, <1>2

(* A step of the fork is a step of ForkedRequest, or leaves it alone.      *)
LEMMA StepKeepsPromise ==
    ASSUME LongDelivery, IInv, IInv', [Next]_vars PROVE [Promise!Next]_(Promise!vars)
  <1> DEFINE answer == IF fork.incoming THEN 0 ELSE fork.lastSent
             gone == fork.life = "destroyed"
  <1>1. CASE UNCHANGED vars
    BY <1>1 DEF vars, Promise!vars
  <1>2. CASE Next
    <2>1. Moves(fork, fork')
      BY <1>2, NextHolds DEF Holds
    <2>2. /\ fork.lastSent \in Codes /\ fork'.lastSent \in Codes
          /\ fork.incoming \in BOOLEAN /\ fork'.incoming \in BOOLEAN
      BY DEF IInv, Fit, ForkContext
    <2>3. ~gone
      BY <2>1 DEF Moves
    <2>4. CASE fork.incoming /\ fork'.incoming
      <3>1. ~gone' /\ answer' = answer
        BY <2>1, <2>4 DEF Moves
      <3> QED BY <2>3, <3>1 DEF Promise!vars
    <2>5. CASE fork.incoming /\ ~fork'.incoming
      <3>1. answer = 0 /\ answer' = fork'.lastSent /\ fork'.lastSent >= 200
        BY <2>1, <2>5 DEF Moves
      <3>2. answer' \in {c \in Codes : c >= 200}
        BY <2>2, <3>1
      <3>3. gone' \in BOOLEAN
        OBVIOUS
      <3> QED BY <2>3, <3>1, <3>2, <3>3 DEF Promise!Next, Promise!Answer, Promise!NoAnswer
    <2>6. CASE ~fork.incoming
      <3>1. answer' = answer /\ answer = fork.lastSent
        BY <2>1, <2>6 DEF Moves
      <3>2. answer # 0
        BY <2>2, <2>6, <3>1, CodesAreInts DEF IInv, Fit
      <3>3. CASE gone'
        BY <2>3, <3>1, <3>2, <3>3 DEF Promise!Next, Promise!Forget, Promise!NoAnswer
      <3>4. CASE ~gone'
        BY <2>3, <3>1, <3>4 DEF Promise!vars
      <3> QED BY <3>3, <3>4
    <2> QED BY <2>2, <2>4, <2>5, <2>6
  <1> QED BY <1>1, <1>2

(* A message fork implements ForkedRequest when mDeliveryTimeout is over   *)
(* 30 s: a message is never dropped, after its delivery, its last error or *)
(* its late timer, before the sender has one final answer.                 *)
THEOREM MessageKeepsPromise ==
    ASSUME LongDelivery PROVE Spec => KeepsPromise
  <1>1. Init => Promise!Init
    <2> SUFFICES ASSUME Init PROVE Promise!Init
      OBVIOUS
    <2>1. IInv /\ fork.life # "destroyed"
      BY InitInvariant
    <2>2. fork.lastSent \in Codes
      BY <2>1 DEF IInv, Fit, ForkContext
    <2> QED BY <2>1, <2>2 DEF Promise!Init, Promise!NoAnswer, IInv, Fit
  <1>2. Init => IInv
    BY InitInvariant
  <1>3. IInv /\ [Next]_vars => IInv'
    BY StepInvariant
  <1>4. IInv /\ IInv' /\ [Next]_vars => [Promise!Next]_(Promise!vars)
    BY StepKeepsPromise
  <1> QED BY <1>1, <1>2, <1>3, <1>4, PTL DEF Spec, KeepsPromise, Promise!Spec

(* However often devices reconnect, from the same address or another one,  *)
(* a device never has two branches whose answers count: onNewBranch finds  *)
(* and removes the only one there is.                                      *)
THEOREM DevicesHaveOneBranch == Spec => []OneBranchPerDevice
  <1>1. IInv => OneBranchPerDevice
    BY DEF IInv, Fit, OneEach, OneBranchPerDevice
  <1>2. Init => IInv
    BY InitInvariant
  <1>3. IInv /\ [Next]_vars => IInv'
    BY StepInvariant
  <1> QED BY <1>1, <1>2, <1>3, PTL DEF Spec

(* While the sender waits for the acceptance timer there is a branch to be *)
(* answered: onResponse tells the sender with the last answer, unless      *)
(* checkFinished has, and a branch that is added is to be answered.        *)
THEOREM AcceptedWithLastAnswer == Spec => []AcceptedOnceAnswered
  <1>1. IInv => AcceptedOnceAnswered
    BY DEF IInv, Fit, AcceptedOnceAnswered
  <1>2. Init => IInv
    BY InitInvariant
  <1>3. IInv /\ [Next]_vars => IInv'
    BY StepInvariant
  <1> QED BY <1>1, <1>2, <1>3, PTL DEF Spec

(* In fork-late mode nothing but the definite answer of each device or the *)
(* delivery timeout ends a message: not the answer to the sender, not an   *)
(* internal error, not the replacement of a branch.                        *)
THEOREM MessagesAreKept == Spec => KeptUntilDelivered
  <1>1. Init => IInv
    BY InitInvariant
  <1>2. IInv /\ [Next]_vars => IInv'
    BY StepInvariant
  <1>3. IInv /\ [Next]_vars =>
          [fork.cfg.forkLate /\ ~fork.finished /\ fork'.finished
             => AllAnsweredForkLate(fork', fork'.waiting) \/ fork'.br = fork.br]_vars
    BY NextHolds DEF Holds, KeptIn, vars
  <1> QED BY <1>1, <1>2, <1>3, PTL DEF Spec, KeptUntilDelivered
=============================================================================
