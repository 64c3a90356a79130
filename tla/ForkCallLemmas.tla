---------------------------- MODULE ForkCallLemmas ----------------------------
(***************************************************************************)
(* What the methods of ForkCallContext do to a fork, for every number of   *)
(* branches, set of contacts, codes and configuration: they keep the       *)
(* invariant below and move the answer to the caller forward.  The steps   *)
(* of the fork and the theorems are in ForkCallProofs.                     *)
(***************************************************************************)
EXTENDS ForkCall, ForkContextProofs

(***************************************************************************)
(* The inductive invariant, of the record of the fork.                     *)
(*                                                                         *)
(* NoPhantomRinging is not inductive.  cancelOthers looks at the waiting   *)
(* branches: a request that was sent must belong to one of them.  It skips *)
(* the branches that have answered: a request without an answer must be of *)
(* a branch without a final status.  And start() must not send the request *)
(* of a branch again: those whose turn has not come hold theirs.           *)
(***************************************************************************)
Shape(f) ==
    \A b \in Branches :
      /\ f.br[b].out = "queued" => f.cfg.scheduled
      /\ f.br[b].out \in {"held", "queued", "live"} => f.br[b].status < 200
      /\ f.br[b].out \in {"queued", "live"} => b \in f.waiting
      /\ b \in f.waiting /\ NotYet(f, b) => f.br[b].out = "held"
      /\ b \in f.waiting \/ f.br[b].out # "held" => b <= f.created

(***************************************************************************)
(* FailureIsComplete is not inductive either.  The 503 of ~ForkCallContext *)
(* is a failure too, which is why the end of the fork matters:             *)
(* setFinished() must not be reached before the caller has an answer,      *)
(* unless the call is cancelled, and checkFinished() reaches it when all   *)
(* branches have answered; so it rests on findBestBranch finding one of    *)
(* them, that is, on the fork having a branch.                             *)
(***************************************************************************)
Ended(f) ==
    /\ f.waiting # {}
    /\ f.finishTimer => f.finished
    /\ (f.finishTimer \/ f.life = "released") /\ f.incoming => f.cancelled

Form(f) == f \in ForkContext /\ Shape(f) /\ Ended(f)

AllCancelled(f) == \A b \in Live(f) : f.br[b].cancelled

(* The ScheduleInjector lets requests go long after they were cancelled,   *)
(* so this is about Routers without it.                                    *)
Silent(f) ==
    /\ f.cancelled \/ Stopped(f) => AllCancelled(f)
    /\ Stopped(f) => ~f.incoming

Fit(f) == Form(f) /\ (~f.cfg.scheduled => Silent(f))

(* What justifies a failure that no timer explains.                        *)
Excused(g) == g.cancelled \/ Stopped(g) \/ AllAnsweredRFC(g, g.waiting)

Justified(f, g) == f.incoming /\ ~g.incoming /\ g.lastSent >= 300 => Excused(g)

-----------------------------------------------------------------------------
(* A quiet method that fails for a reason.                                 *)
Calm(f, g) == Quiet(f, g) /\ Form(g) /\ Justified(f, g)

(* A quiet method keeps the shape of the branches, and the rest of the     *)
(* invariant as well unless it finishes a call that has no answer.         *)
LEMMA QuietForm ==
    ASSUME NEW f, NEW g, Form(f), Quiet(f, g),
           g.finishTimer => \/ f.finishTimer /\ g.finished = f.finished
                            \/ g.finished /\ (~g.incoming \/ g.cancelled)
    PROVE  Form(g)
  <1>1. g \in ForkContext /\ g.cfg = f.cfg /\ g.life = f.life /\ (~f.incoming => ~g.incoming)
    BY DEF Quiet, Evolves
  <1>2. \A b \in Branches : NotYet(g, b) <=> NotYet(f, b)
    BY DEF Quiet, NotYet
  <1>3. Shape(g)
    BY <1>1, <1>2 DEF Quiet, Shape, Form
  <1>4. Ended(g)
    BY <1>1 DEF Quiet, Ended, Form
  <1> QED BY <1>1, <1>3, <1>4 DEF Form

(* ... and wakes nobody.                                                   *)
LEMMA QuietSilent ==
    ASSUME NEW f \in ForkContext, NEW g, Quiet(f, g)
    PROVE  /\ Live(g) = Live(f) /\ (Stopped(g) <=> Stopped(f))
           /\ AllCancelled(f) => AllCancelled(g)
           /\ Silent(f) => Silent(g)
           /\ Excused(f) => Excused(g)
  <1>1. Live(g) = Live(f) /\ (Stopped(g) <=> Stopped(f))
    BY DEF Quiet, Live, Stopped
  <1>2. AllCancelled(f) => AllCancelled(g)
    BY <1>1 DEF AllCancelled, Live, Quiet
  <1>3. g.cancelled = f.cancelled /\ (~f.incoming => ~g.incoming)
    BY DEF Quiet, Evolves
  <1>4. AllAnsweredRFC(f, f.waiting) => AllAnsweredRFC(g, g.waiting)
    BY DEF AllAnsweredRFC, Quiet, ForkContext
  <1> QED BY <1>1, <1>2, <1>3, <1>4 DEF Silent, Excused

(* A quiet method that leaves incoming alone, or that was excused before.  *)
LEMMA QuietCalm ==
    ASSUME NEW f \in ForkContext, NEW g, Quiet(f, g), Form(g),
           g.incoming = f.incoming \/ Excused(f)
    PROVE  Calm(f, g)
  BY QuietSilent DEF Calm, Justified

(* Two of them, one after the other.                                       *)
LEMMA CalmTrans ==
    ASSUME NEW f \in ForkContext, NEW g, NEW h, Calm(f, g), Calm(g, h)
    PROVE  Calm(f, h)
  <1>1. Quiet(f, h) /\ g \in ForkContext
    BY QuietTrans DEF Calm, Form
  <1>2. ~g.incoming => h.lastSent = g.lastSent
    BY DEF Calm, Quiet, Evolves
  <1>3. Excused(g) => Excused(h)
    BY <1>1, QuietSilent DEF Calm
  <1>4. g.incoming \in BOOLEAN
    BY <1>1 DEF ForkContext
  <1> QED BY <1>1, <1>2, <1>3, <1>4 DEF Calm, Justified

(* A fork whose branches and lists are those of another one.               *)
LEMMA FrameShape ==
    ASSUME NEW f, NEW g, Shape(f), g.br = f.br, g.waiting = f.waiting, g.cfg = f.cfg,
           g.created = f.created, g.currentPriority = f.currentPriority
    PROVE  /\ Shape(g) /\ Live(g) = Live(f) /\ (Stopped(g) <=> Stopped(f))
           /\ AllCancelled(g) <=> AllCancelled(f)
  <1>1. \A b \in Branches : NotYet(g, b) <=> NotYet(f, b)
    BY DEF NotYet
  <1>2. Shape(g)
    BY <1>1 DEF Shape
  <1> QED BY <1>2 DEF Live, Stopped, AllCancelled

(* The timers of the context are not the devices' business.                *)
LEMMA FlagsCalm ==
    ASSUME NEW f, Form(f), NEW t \in BOOLEAN
    PROVE  /\ LET g == [f EXCEPT !.timer = t] IN Calm(f, g) /\ g.incoming = f.incoming /\ g.timer = t
           /\ LET g == [f EXCEPT !.lateTimer = t]
              IN Calm(f, g) /\ g.incoming = f.incoming /\ g.lateTimer = t
           /\ LET g == [f EXCEPT !.nextTimer = t] IN Calm(f, g) /\ g.incoming = f.incoming
           /\ LET g == [f EXCEPT !.sent110 = t] IN Calm(f, g) /\ g.incoming = f.incoming
  <1> DEFINE Same(g) ==
               /\ g.cfg = f.cfg /\ g.life = f.life /\ g.incoming = f.incoming
               /\ g.finals = f.finals /\ g.direct = f.direct /\ g.lastSent = f.lastSent /\ g.br = f.br
               /\ g.waiting = f.waiting /\ g.current = f.current /\ g.created = f.created
               /\ g.currentPriority = f.currentPriority /\ g.cancelled = f.cancelled
               /\ g.finishTimer = f.finishTimer /\ g.finished = f.finished
  <1>1. f \in ForkContext
    BY DEF Form
  <1>2. ASSUME NEW g \in ForkContext, Same(g) PROVE Calm(f, g) /\ g.incoming = f.incoming
    <2>1. Quiet(f, g)
      BY <1>1, <1>2, EvolvesFrame, QuietFrame
    <2>2. Form(g)
      BY <1>2, <2>1, QuietForm
    <2> QED BY <1>1, <1>2, <2>1, <2>2, QuietCalm
  <1> DEFINE g1 == [f EXCEPT !.timer = t]
             g2 == [f EXCEPT !.lateTimer = t]
             g3 == [f EXCEPT !.nextTimer = t]
             g4 == [f EXCEPT !.sent110 = t]
  <1>3. g1 \in ForkContext /\ g2 \in ForkContext /\ g3 \in ForkContext /\ g4 \in ForkContext
    BY <1>1 DEF ForkContext
  <1>4. Same(g1) /\ g1.timer = t /\ Same(g2) /\ g2.lateTimer = t
    BY <1>1 DEF ForkContext
  <1>5. Same(g3) /\ Same(g4)
    BY <1>1 DEF ForkContext
  <1> HIDE DEF g1, g2, g3, g4, Same
  <1>6. Calm(f, g1) /\ Calm(f, g2) /\ g1.incoming = f.incoming /\ g2.incoming = f.incoming
    BY <1>2, <1>3, <1>4
  <1>7. Calm(f, g3) /\ Calm(f, g4) /\ g3.incoming = f.incoming /\ g4.incoming = f.incoming
    BY <1>2, <1>3, <1>5
  <1> QED BY <1>4, <1>6, <1>7 DEF g1, g2, g3, g4

(* setFinished(), of a call that is answered or cancelled.                 *)
LEMMA SetFinishedCalm ==
    ASSUME NEW f, Form(f), ~f.incoming \/ f.cancelled
    PROVE  LET g == SetFinished(f)
           IN /\ Calm(f, g) /\ g.incoming = f.incoming /\ g.finished
              /\ g.timer = f.timer /\ (g.lateTimer => f.lateTimer)
  <1> DEFINE g == SetFinished(f)
  <1>1. f \in ForkContext /\ (f.finishTimer => f.finished)
    BY DEF Form, Ended
  <1>2. Quiet(f, g)
    BY <1>1, SetFinishedQuiet
  <1>3. g.incoming = f.incoming /\ g.finished /\ g.timer = f.timer /\ (g.lateTimer => f.lateTimer)
    BY <1>1 DEF SetFinished, ForkContext
  <1> HIDE DEF g
  <1>4. Form(g)
    BY <1>2, <1>3, QuietForm DEF Quiet
  <1>5. Calm(f, g)
    BY <1>1, <1>2, <1>3, <1>4, QuietCalm
  <1> QED BY <1>3, <1>5 DEF g

(* forwardResponse(ev): only a final answer ends the wait of the caller.   *)
LEMMA ForwardEventForm ==
    ASSUME NEW f, f \in ForkContext, NEW code \in Codes
    PROVE  LET g == ForwardEvent(f, code)
           IN /\ Quiet(f, g)
              /\ g.finishTimer => \/ f.finishTimer /\ g.finished = f.finished
                                  \/ g.finished /\ ~g.incoming
              /\ Form(f) => Form(g)
              /\ code < 200 => g.incoming = f.incoming
              /\ code >= 200 => ~g.incoming
              /\ g.timer = f.timer /\ (g.lateTimer => f.lateTimer)
              /\ Form(f) /\ (code < 200 \/ Excused(f)) => Calm(f, g)
  <1> DEFINE sent == [f EXCEPT !.lastSent = code]
             k == f.finals + 1
             final == [f EXCEPT !.lastSent = code, !.incoming = FALSE, !.finals = k]
             ended == SetFinished(final)
             g == ForwardEvent(f, code)
  <1>1. Quiet(f, g) /\ code \in Int
    BY ForwardEventQuiet, CodesAreInts
  <1>2. g = IF ~f.incoming THEN f ELSE IF code < 200 THEN sent
            ELSE IF ShouldFinish(f) THEN ended ELSE final
    BY DEF ForwardEvent
  <1>3. /\ sent.finishTimer = f.finishTimer /\ sent.finished = f.finished
        /\ sent.incoming = f.incoming /\ sent.timer = f.timer /\ sent.lateTimer = f.lateTimer
    BY DEF ForkContext
  <1>4. /\ final.finishTimer = f.finishTimer /\ final.finished = f.finished
        /\ ~final.incoming /\ final.timer = f.timer /\ final.lateTimer = f.lateTimer
    BY DEF ForkContext
  <1>5. /\ ended.finishTimer => ended.finished \/ (final.finishTimer /\ ended.finished = final.finished)
        /\ ~ended.incoming /\ ended.timer = f.timer /\ (ended.lateTimer => f.lateTimer)
    <2>1. final \in ForkContext
      <3>1. k \in Nat
        BY DEF ForkContext
      <3> HIDE DEF k
      <3> QED BY Zenon, <3>1 DEF ForkContext
    <2> DEFINE h == [final EXCEPT !.finished = TRUE, !.finishTimer = TRUE,
                                  !.lateTimer = FALSE, !.nextTimer = FALSE]
    <2>2. ended = IF final.finishTimer THEN final ELSE h
      BY DEF SetFinished
    <2> HIDE DEF final, ended
    <2>3. h.finished /\ h.incoming = final.incoming /\ h.timer = final.timer /\ ~h.lateTimer
      BY <2>1 DEF ForkContext
    <2> HIDE DEF h
    <2> QED BY <1>4, <2>2, <2>3
  <1> HIDE DEF g, sent, final, ended
  <1>6. /\ g.finishTimer => \/ f.finishTimer /\ g.finished = f.finished
                            \/ g.finished /\ ~g.incoming
        /\ code < 200 => g.incoming = f.incoming
        /\ code >= 200 => ~g.incoming
        /\ g.timer = f.timer /\ (g.lateTimer => f.lateTimer)
    BY <1>1, <1>2, <1>3, <1>4, <1>5
  <1>7. Form(f) => Form(g)
    BY <1>1, <1>6, QuietForm
  <1>8. Form(f) /\ (code < 200 \/ Excused(f)) => Calm(f, g)
    BY <1>1, <1>6, <1>7, QuietCalm
  <1> QED BY <1>1, <1>6, <1>7, <1>8 DEF g

(* sendResponse(110) and sendResponse(180) end nothing.                    *)
LEMMA SendResponseCalm ==
    ASSUME NEW f, Form(f), NEW code \in Codes, code < 200
    PROVE  Calm(f, SendResponse(f, code))
  <1>1. f \in ForkContext
    BY DEF Form
  <1>2. Calm(f, ForwardEvent(f, code)) /\ Calm(f, f)
    BY <1>1, ForwardEventForm, QuietRefl, QuietCalm
  <1> QED BY <1>2 DEF SendResponse

(* cancelBranch sends CANCELs.                                             *)
LEMMA CancelBranchesCalm ==
    ASSUME NEW f, Form(f), NEW bs
    PROVE  LET g == CancelBranches(f, bs)
           IN /\ Calm(f, g) /\ g.incoming = f.incoming
              /\ g.timer = f.timer /\ g.lateTimer = f.lateTimer
              /\ \A b \in Branches \cap bs :
                   f.br[b].out = "live" /\ f.br[b].status < 200 => g.br[b].cancelled
  <1> DEFINE br == [b \in Branches |->
                      IF b \in bs /\ f.br[b].status < 200 /\ f.br[b].out = "live"
                      THEN [f.br[b] EXCEPT !.cancelled = TRUE] ELSE f.br[b]]
             g == [f EXCEPT !.br = br]
  <1>1. CancelBranches(f, bs) = g /\ f \in ForkContext
    BY DEF CancelBranches, Form
  <1>2. \A b \in Branches : f.br[b] \in BranchInfo
    BY <1>1 DEF ForkContext
  <1>3. \A b \in Branches : [f.br[b] EXCEPT !.cancelled = TRUE] \in BranchInfo
    BY Zenon, <1>2 DEF BranchInfo
  <1>4. br \in [Branches -> BranchInfo]
    BY <1>2, <1>3
  <1>5. \A b \in Branches :
          /\ br[b].uid = f.br[b].uid /\ br[b].prio = f.br[b].prio
          /\ br[b].status = f.br[b].status /\ br[b].out = f.br[b].out
          /\ f.br[b].cancelled => br[b].cancelled
    BY <1>2 DEF BranchInfo
  <1>6. \A b \in Branches \cap bs :
          f.br[b].out = "live" /\ f.br[b].status < 200 => br[b].cancelled
    BY <1>2 DEF BranchInfo
  <1> HIDE DEF br
  <1>7. g \in ForkContext
    BY <1>1, <1>4 DEF ForkContext
  <1>8. /\ g.br = br /\ g.cfg = f.cfg /\ g.life = f.life /\ g.incoming = f.incoming
        /\ g.finals = f.finals /\ g.direct = f.direct /\ g.lastSent = f.lastSent /\ g.waiting = f.waiting
        /\ g.current = f.current /\ g.created = f.created
        /\ g.currentPriority = f.currentPriority /\ g.cancelled = f.cancelled
        /\ g.finishTimer = f.finishTimer /\ g.finished = f.finished
        /\ g.timer = f.timer /\ g.lateTimer = f.lateTimer
    BY <1>1 DEF ForkContext
  <1> HIDE DEF g
  <1>9. Quiet(f, g)
    <2>1. Evolves(f, g)
      BY <1>1, <1>7, <1>8, EvolvesFrame
    <2> QED BY <1>5, <1>8, <2>1 DEF Quiet
  <1>10. Form(g)
    BY <1>8, <1>9, QuietForm
  <1>11. Calm(f, g)
    BY <1>1, <1>8, <1>9, <1>10, QuietCalm
  <1> QED BY <1>1, <1>6, <1>8, <1>11

(* cancelOthers cancels every branch that waits for an answer but one, so  *)
(* no device keeps ringing but that one.                                   *)
LEMMA CancelOthersCalm ==
    ASSUME NEW f, Form(f), NEW x
    PROVE  LET g == CancelOthers(f, x)
           IN /\ Calm(f, g) /\ g.incoming = f.incoming
              /\ g.lateTimer => f.lateTimer
              /\ x \notin Live(f) => AllCancelled(g)
  <1> DEFINE c == CancelBranches(f, f.waiting \ {x})
             g == [c EXCEPT !.nextTimer = FALSE]
  <1>1. f \in ForkContext /\ f.waiting \subseteq Branches
    BY DEF Form, ForkContext
  <1>2. /\ Calm(f, c) /\ Form(c) /\ c \in ForkContext /\ c.incoming = f.incoming
        /\ c.lateTimer = f.lateTimer
        /\ \A b \in f.waiting \ {x} :
             f.br[b].out = "live" /\ f.br[b].status < 200 => c.br[b].cancelled
    BY <1>1, CancelBranchesCalm DEF Calm, Form
  <1>3. CancelOthers(f, x) = g
    BY DEF CancelOthers
  <1> HIDE DEF c
  <1>4. Calm(c, g) /\ g.incoming = c.incoming
    BY Zenon, <1>2, FlagsCalm
  <1>5. g.lateTimer = c.lateTimer /\ g.br = c.br
    BY <1>2 DEF ForkContext
  <1> HIDE DEF g
  <1>6. Calm(f, g)
    BY <1>1, <1>2, <1>4, CalmTrans
  <1>7. ASSUME x \notin Live(f), NEW b \in Live(g) PROVE g.br[b].cancelled
    <2>1. b \in Branches /\ f.br[b].out = "live" /\ b # x
      BY <1>1, <1>6, <1>7, QuietSilent DEF Calm, Live
    <2>2. b \in f.waiting /\ f.br[b].status < 200
      BY <2>1 DEF Form, Shape
    <2> QED BY <1>2, <1>5, <2>1, <2>2
  <1> QED BY <1>2, <1>3, <1>4, <1>5, <1>6, <1>7 DEF AllCancelled

(* processInternalError ends the call and cancels all its branches.        *)
LEMMA ProcessInternalErrorCalm ==
    ASSUME NEW f, Form(f), Stopped(f)
    PROVE  LET g == ProcessInternalError(f)
           IN Calm(f, g) /\ ~g.incoming /\ Silent(g) /\ Stopped(g)
  <1> DEFINE e == ForwardEvent(f, 500)
             g == CancelOthers(e, NoBranch)
  <1>1. f \in ForkContext /\ Excused(f) /\ 500 \in Codes
    BY DEF Form, Excused, Codes, OwnCodes
  <1>2. Calm(f, e) /\ Form(e) /\ e \in ForkContext /\ ~e.incoming
    BY <1>1, ForwardEventForm DEF Calm, Form
  <1> HIDE DEF e
  <1>3. NoBranch \notin Live(e)
    BY DEF Live, Branches, NoBranch
  <1>4. Calm(e, g) /\ g.incoming = e.incoming /\ AllCancelled(g)
    BY <1>2, <1>3, CancelOthersCalm
  <1> HIDE DEF g
  <1>5. Calm(f, g)
    BY <1>1, <1>2, <1>4, CalmTrans
  <1>6. Stopped(g)
    BY <1>1, <1>5, QuietSilent DEF Calm
  <1> QED BY <1>2, <1>4, <1>5, <1>6 DEF ProcessInternalError, Silent, g, e

(* ForkContextBase::checkFinished(): it forwards an answer when all the    *)
(* branches have one, and then it has one to forward.                      *)
LEMMA CheckFinishedBaseCalm ==
    ASSUME NEW f, Form(f) PROVE Calm(f, CheckFinishedBase(f).fork)
  <1> DEFINE best == FindBestBranch(f, f.cfg.forkLate)
             all == ~f.cfg.forkLate \/ AllAnsweredForkLate(f, f.waiting)
             f1 == IF all THEN SetFinished(f) ELSE f
             g == CheckFinishedBase(f).fork
             over == ~f.incoming /\ ~f.cfg.forkLate
  <1>1. f \in ForkContext /\ Calm(f, f)
    BY QuietRefl, QuietCalm DEF Form
  <1>2. CASE over
    <2>1. g = SetFinished(f)
      BY <1>2 DEF CheckFinishedBase
    <2> QED BY <1>2, <2>1, SetFinishedCalm
  <1>3. CASE ~over /\ ~AllAnsweredRFC(f, f.waiting)
    <2>1. g = f
      BY <1>3 DEF CheckFinishedBase
    <2> QED BY <1>1, <2>1
  <1>4. CASE ~over /\ AllAnsweredRFC(f, f.waiting) /\ best = NoBranch
    <2>1. g = f1
      BY <1>4 DEF CheckFinishedBase
    <2>2. PICK a \in f.waiting : TRUE
      BY DEF Form, Ended
    <2>3. f.br[a].status \in Int
      BY <1>1, <2>2, BranchNumbers DEF ForkContext
    <2>4. f.br[a].status >= 200
      BY <1>4, <2>2, <2>3 DEF AllAnsweredRFC, NeedsDeliveryRFC
    <2>5. ~all
      <3>1. SUFFICES ASSUME all PROVE FALSE
        OBVIOUS
      <3>2. IsConsidered(f.br[a].status, f.cfg.forkLate)
        BY <2>2, <3>1 DEF IsConsidered, AllAnsweredForkLate, NeedsDeliveryForkLate
      <3> QED BY <1>1, <1>4, <2>2, <2>4, <3>2, BestExists
    <2> QED BY <1>1, <2>1, <2>5
  <1>5. CASE ~over /\ AllAnsweredRFC(f, f.waiting) /\ best # NoBranch
    <2>1. g = ForwardResponse(f1, best)
      BY <1>5 DEF CheckFinishedBase
    <2>2. best \in Branches /\ f.br[best].status >= 200 /\ f.br[best].status \in Codes
      BY <1>1, <1>5, BestIsFinal
    <2>3. Quiet(f, f1) /\ f1 \in ForkContext
      <3>1. Quiet(f, f1)
        BY <1>1, SetFinishedQuiet, QuietRefl
      <3> HIDE DEF f1
      <3> QED BY <3>1 DEF Quiet, Evolves
    <2>4. f1.finishTimer => f1.finished
      BY <1>1 DEF Form, Ended, SetFinished, ForkContext
    <2> DEFINE code == f1.br[best].status
    <2>5. g = ForwardEvent(f1, code)
      BY <2>1 DEF ForwardResponse
    <2> HIDE DEF best, f1, g
    <2>6. code = f.br[best].status
      BY <2>2, <2>3 DEF Quiet
    <2> HIDE DEF code
    <2>7. /\ Quiet(f1, g) /\ ~g.incoming
          /\ g.finishTimer => \/ f1.finishTimer /\ g.finished = f1.finished
                              \/ g.finished /\ ~g.incoming
      BY <2>2, <2>3, <2>5, <2>6, ForwardEventForm
    <2>8. Quiet(f, g)
      BY <1>1, <2>3, <2>7, QuietTrans
    <2>9. Form(g)
      BY <2>4, <2>7, <2>8, QuietForm
    <2>10. Excused(f)
      BY <1>5 DEF Excused
    <2> QED BY <1>1, <2>8, <2>9, <2>10, QuietCalm DEF g
  <1> QED BY <1>2, <1>3, <1>4, <1>5

(* checkFinished() of a call: a cancelled one does not wait for the rest.  *)
LEMMA CheckFinishedCalm ==
    ASSUME NEW f, Form(f) PROVE Calm(f, CheckFinished(f))
  <1> DEFINE f1 == CheckFinishedBase(f).fork
             best == FindBestBranch(f1, FALSE)
             g == CheckFinished(f)
  <1>1. f \in ForkContext /\ Calm(f, f1) /\ Form(f1) /\ f1 \in ForkContext
    BY CheckFinishedBaseCalm DEF Calm, Form
  <1>2. g = f1 \/ (f1.cancelled /\ best # NoBranch /\ g = ForwardResponse(f1, best))
    BY Zenon DEF CheckFinished
  <1> HIDE DEF f1, g
  <1>3. CASE f1.cancelled /\ best # NoBranch /\ g = ForwardResponse(f1, best)
    <2>1. f1.br[best].status \in Codes /\ Excused(f1)
      BY Zenon, <1>1, <1>3, BestIsFinal DEF Excused
    <2> HIDE DEF best
    <2>2. Calm(f1, g)
      BY <1>1, <1>3, <2>1, ForwardEventForm DEF ForwardResponse
    <2> QED BY <1>1, <2>2, CalmTrans DEF g
  <1> QED BY Zenon, <1>1, <1>2, <1>3 DEF g

-----------------------------------------------------------------------------
(***************************************************************************)
(* What the methods that are not quiet leave alone: no branch comes, goes  *)
(* or answers; requests only leave, and only those a branch still holds.   *)
(***************************************************************************)
Serves(f, g) ==
    /\ Evolves(f, g)
    /\ g.waiting = f.waiting /\ g.created = f.created
    /\ f.cancelled => g.cancelled
    /\ \A b \in Branches :
         /\ g.br[b].uid = f.br[b].uid /\ g.br[b].prio = f.br[b].prio
         /\ g.br[b].status = f.br[b].status
         /\ g.br[b].out = f.br[b].out \/ (f.br[b].out = "held" /\ b \in f.waiting)
         /\ f.br[b].cancelled => g.br[b].cancelled

(* Quiet methods serve, and so do two methods that do.                     *)
LEMMA QuietServes ==
    ASSUME NEW f, NEW g, Quiet(f, g) PROVE Serves(f, g)
  BY DEF Quiet, Serves

(* ... one after the other.                                                *)
LEMMA ServesTrans ==
    ASSUME NEW f \in ForkContext, NEW g, NEW h, Serves(f, g), Serves(g, h)
    PROVE  Serves(f, h)
  <1>1. Evolves(f, h)
    BY EvolvesTrans DEF Serves
  <1> QED BY <1>1 DEF Serves

(* The call that is cancelled, as onCancel and onResponse do: no device    *)
(* keeps ringing, but the one whose answer it is.                          *)
LEMMA CancelledServes ==
    ASSUME NEW f, Form(f), NEW x
    PROVE  LET g == CancelOthers([f EXCEPT !.cancelled = TRUE], x)
           IN /\ Serves(f, g) /\ Form(g) /\ g.cancelled /\ g.incoming = f.incoming
              /\ Live(g) = Live(f)
              /\ Fit(f) /\ x \notin Live(f) => Fit(g)
  <1> DEFINE c == [f EXCEPT !.cancelled = TRUE]
             g == CancelOthers(c, x)
  <1>1. f \in ForkContext /\ Shape(f) /\ Ended(f)
    BY DEF Form
  <1>2. c \in ForkContext
    BY Zenon, <1>1 DEF ForkContext
  <1>3. /\ c.cfg = f.cfg /\ c.life = f.life /\ c.incoming = f.incoming /\ c.finals = f.finals
        /\ c.direct = f.direct /\ c.lastSent = f.lastSent /\ c.br = f.br /\ c.waiting = f.waiting
        /\ c.created = f.created /\ c.currentPriority = f.currentPriority /\ c.cancelled
        /\ c.finishTimer = f.finishTimer /\ c.finished = f.finished
    BY <1>1 DEF ForkContext
  <1> HIDE DEF c
  <1>4. Shape(c) /\ Live(c) = Live(f) /\ (Stopped(c) <=> Stopped(f))
    BY <1>1, <1>3, FrameShape
  <1>5. Serves(f, c)
    <2>1. Evolves(f, c)
      BY <1>1, <1>2, <1>3, EvolvesFrame
    <2> QED BY <1>3, <2>1 DEF Serves
  <1>6. Form(c)
    BY <1>1, <1>2, <1>3, <1>4 DEF Form, Ended
  <1>7. /\ Calm(c, g) /\ g.incoming = c.incoming
        /\ x \notin Live(c) => AllCancelled(g)
    BY <1>6, CancelOthersCalm
  <1> HIDE DEF g
  <1>8. Live(g) = Live(c) /\ (Stopped(g) <=> Stopped(c)) /\ g.cancelled /\ g.cfg = f.cfg
    BY Zenon, <1>2, <1>3, <1>7, QuietSilent DEF Calm, Quiet, Evolves
  <1>9. Serves(f, g) /\ Form(g)
    BY <1>1, <1>5, <1>7, QuietServes, ServesTrans DEF Calm
  <1>10. Fit(f) /\ x \notin Live(f) => Fit(g)
    BY <1>3, <1>4, <1>7, <1>8, <1>9 DEF Fit, Silent
  <1> QED BY <1>3, <1>4, <1>7, <1>8, <1>9, <1>10 DEF g, c

(* Calm methods keep the whole invariant.                                  *)
LEMMA CalmFit ==
    ASSUME NEW f, NEW g, Fit(f), Calm(f, g) PROVE Fit(g)
  <1>1. f \in ForkContext /\ g.cfg = f.cfg
    BY DEF Fit, Form, Calm, Quiet, Evolves
  <1> QED BY <1>1, QuietSilent DEF Fit, Calm

(* onResponse(): what it answers is a provisional answer, an acceptance,   *)
(* a decline, or what checkFinished() finds; it launches nothing.          *)
LEMMA OnResponseServes ==
    ASSUME NEW f, Fit(f), NEW x \in Branches, NEW code \in Codes,
           f.br[x].status = code, code >= 200 => x \notin Live(f)
    PROVE  LET g == OnResponse(f, x, code)
           IN /\ Serves(f, g) /\ Fit(g) /\ Justified(f, g) /\ Live(g) = Live(f)
              /\ g.cancelled => \/ f.cancelled \/ code \in 200..299
                                \/ code >= 600 /\ ~f.cfg.noGlobalDecline
  <1> DEFINE r == ForwardResponse(f, x)
             t == f.timer \/ IsUrgent(f, code)
             urgent == [f EXCEPT !.timer = t]
             declined == CancelOthers([f EXCEPT !.cancelled = TRUE], x)
             accepted == CancelOthers([r EXCEPT !.cancelled = TRUE], x)
             f1 == CASE code >= 600 /\ ~f.cfg.noGlobalDecline -> declined
                [] code >= 600 /\ f.cfg.noGlobalDecline -> f
                [] code \in 300..599 -> urgent
                [] code \in 200..299 -> accepted
                [] OTHER -> r
             declines == code >= 600 /\ ~f.cfg.noGlobalDecline
             g == CheckFinished(f1)
  <1>1. f \in ForkContext /\ Form(f) /\ code \in Int
    BY CodesAreInts DEF Fit, Form
  <1>2. OnResponse(f, x, code) = g
    BY DEF OnResponse
  <1>3. \/ f1 = f
        \/ f1 = urgent
        \/ f1 = declined /\ code >= 200 /\ declines
        \/ f1 = accepted /\ code >= 200 /\ code \in 200..299
        \/ f1 = r /\ code < 200
    <2> HIDE DEF r, urgent, declined, accepted, g
    <2>1. code >= 600 => f1 = IF f.cfg.noGlobalDecline THEN f ELSE declined
      BY <1>1
    <2>2. code \in 300..599 => f1 = urgent
      BY <1>1
    <2>3. code \in 200..299 => f1 = accepted
      BY <1>1
    <2>4. code < 200 => f1 = r
      BY <1>1
    <2>5. code >= 600 \/ code \in 300..599 \/ code \in 200..299 \/ code < 200
      BY <1>1
    <2>6. (code >= 600 => code >= 200) /\ (code \in 200..299 => code >= 200)
      BY <1>1
    <2> HIDE DEF f1
    <2> QED BY <2>1, <2>2, <2>3, <2>4, <2>5, <2>6
  <1>4. Quiet(f, r) /\ Form(r) /\ (code < 200 => Calm(f, r))
    BY <1>1, ForwardEventForm DEF ForwardResponse
  <1>5. Calm(f, urgent) /\ Calm(f, f)
    <2>1. t \in BOOLEAN
      BY <1>1 DEF ForkContext, ForkContextConfig, IsUrgent
    <2> HIDE DEF t
    <2> QED BY Zenon, <1>1, <2>1, FlagsCalm, QuietRefl, QuietCalm
  <1>6. code >= 200 => Serves(f, declined) /\ Fit(declined) /\ declined.cancelled /\ Live(declined) = Live(f)
    BY <1>1, CancelledServes
  <1>7. code >= 200 => Serves(f, accepted) /\ Fit(accepted) /\ accepted.cancelled /\ Live(accepted) = Live(f)
    <2> HIDE DEF r
    <2>1. Serves(f, r) /\ Live(r) = Live(f) /\ Fit(r)
      BY <1>1, <1>4, QuietServes, QuietSilent DEF Fit, Quiet, Evolves
    <2>2. code >= 200 => Serves(r, accepted) /\ Fit(accepted) /\ accepted.cancelled
                         /\ Live(accepted) = Live(r)
      BY <1>4, <2>1, CancelledServes
    <2> HIDE DEF accepted
    <2> QED BY <1>1, <2>1, <2>2, ServesTrans
  <1>8. /\ Serves(f, f1) /\ Fit(f1) /\ Live(f1) = Live(f) /\ (Justified(f, f1) \/ f1.cancelled)
        /\ f1.cancelled => f.cancelled \/ code \in 200..299 \/ declines
    <2> HIDE DEF f1, r, urgent, declined, accepted, declines
    <2>1. ASSUME Calm(f, f1)
          PROVE  /\ Serves(f, f1) /\ Fit(f1) /\ Live(f1) = Live(f) /\ Justified(f, f1)
                 /\ f1.cancelled = f.cancelled
      BY <1>1, <2>1, CalmFit, QuietServes, QuietSilent DEF Calm, Quiet
    <2> QED BY <1>3, <1>4, <1>5, <1>6, <1>7, <2>1
  <1> HIDE DEF f1, declines
  <1>9. Form(f1) /\ f1 \in ForkContext
    BY <1>8 DEF Fit, Form
  <1>10. Calm(f1, g)
    BY <1>9, CheckFinishedCalm
  <1> HIDE DEF g
  <1>11. Serves(f, g) /\ Fit(g) /\ Live(g) = Live(f) /\ g.cancelled = f1.cancelled
    BY <1>1, <1>8, <1>9, <1>10, QuietServes, QuietSilent, ServesTrans, CalmFit DEF Calm, Quiet
  <1>12. Justified(f, g)
    <2>1. ~f1.incoming => ~g.incoming /\ g.lastSent = f1.lastSent
      BY <1>10 DEF Calm, Quiet, Evolves
    <2>2. Excused(f1) => Excused(g)
      BY <1>9, <1>10, QuietSilent DEF Calm
    <2>3. f1.incoming \in BOOLEAN
      BY <1>9 DEF ForkContext
    <2> QED BY <1>8, <1>10, <2>1, <2>2, <2>3 DEF Calm, Justified, Excused
  <1> QED BY <1>2, <1>8, <1>11, <1>12 DEF declines

(* Requests that are refused: the caller is answered at most once by it.   *)
LEMMA RefuseSends ==
    ASSUME NEW f \in ForkContext, NEW bs
    PROVE  LET g == Refuse(f, bs)
           IN /\ Evolves(f, g) /\ Transmits(f, g)
              /\ \A b \in Branches : g.br[b].out = IF b \in bs THEN "lost" ELSE f.br[b].out
  <1> DEFINE s == SetOut(f, bs, "lost")
             code == IF f.incoming /\ f.direct = 0 THEN 503 ELSE f.direct
             g == [s EXCEPT !.direct = code]
  <1>1. Refuse(f, bs) = g
    BY DEF Refuse
  <1>2. /\ Evolves(f, s) /\ Transmits(f, s) /\ s \in ForkContext
        /\ \A b \in Branches : s.br[b].out = IF b \in bs THEN "lost" ELSE f.br[b].out
    BY SetOutSends DEF OutStates, Transmits
  <1>3. s.direct = f.direct
    BY DEF SetOut, ForkContext
  <1>4. code \in Codes /\ (code = f.direct \/ (f.incoming /\ f.direct = 0 /\ code >= 200))
    <2>1. f.direct \in Codes
      BY DEF ForkContext
    <2>2. 503 \in Codes /\ 503 >= 200
      BY DEF Codes, OwnCodes
    <2> QED BY <2>1, <2>2
  <1> HIDE DEF s, code
  <1>5. g \in ForkContext
    BY <1>2, <1>4 DEF ForkContext
  <1>6. /\ g.cfg = s.cfg /\ g.life = s.life /\ g.incoming = s.incoming /\ g.finals = s.finals
        /\ g.lastSent = s.lastSent /\ g.br = s.br /\ g.waiting = s.waiting /\ g.direct = code
        /\ g.current = s.current /\ g.created = s.created /\ g.currentPriority = s.currentPriority
        /\ g.cancelled = s.cancelled /\ g.finished = s.finished /\ g.finishTimer = s.finishTimer
        /\ g.timer = s.timer /\ g.lateTimer = s.lateTimer
    BY <1>2 DEF ForkContext
  <1> HIDE DEF g
  <1>7. Evolves(f, g) /\ Transmits(f, g)
    BY <1>2, <1>4, <1>5, <1>6 DEF Evolves, Transmits
  <1> QED BY <1>1, <1>2, <1>6, <1>7

(* Requests that leave, are refused, or meet an error and end the call.    *)
LEMMA LaunchServes ==
    ASSUME NEW f, Form(f), NEW bs \in SUBSET f.waiting, NEW failing \in (SUBSET bs) \cup {AllRefused},
           f.cfg.scheduled => failing = {},
           \A b \in bs : f.br[b].out = "held" /\ ~NotYet(f, b)
    PROVE  LET g == Launch(f, bs, failing)
           IN /\ Serves(f, g) /\ Form(g) /\ g.cancelled = f.cancelled
              /\ Live(g) \subseteq Live(f) \cup bs
              /\ \A b \in Branches \ bs : g.br[b].out = f.br[b].out
              /\ failing \in {{}, AllRefused} => (Stopped(g) => Stopped(f)) /\ g.incoming = f.incoming
              /\ failing \notin {{}, AllRefused} => Stopped(g) /\ ~g.incoming /\ Silent(g)
  <1> DEFINE n == SendToInjector(f, bs, failing)
             r == Refuse(f, bs)
             s == IF failing = AllRefused THEN r ELSE n
             e == ProcessInternalError(s)
             g == Launch(f, bs, failing)
  <1>1. /\ f \in ForkContext /\ Shape(f) /\ bs \subseteq Branches
        /\ AllRefused # {} /\ AllRefused \cap Branches = {}
    BY DEF Form, ForkContext, AllRefused, NoBranch, Branches
  <1>2. /\ Evolves(f, s) /\ Transmits(f, s) /\ s \in ForkContext
        /\ \A b \in Branches :
             /\ b \notin bs => s.br[b].out = f.br[b].out
             /\ b \in bs => s.br[b].out \in {"queued", "void", "live", "lost"}
             /\ s.br[b].out = "queued" => f.cfg.scheduled \/ f.br[b].out = "queued"
             /\ s.br[b].out = "void" => f.br[b].out = "void" \/ b \in failing
        /\ failing \notin {{}, AllRefused} => \A b \in failing : s.br[b].out = "void"
    <2>1. /\ Evolves(f, r) /\ Transmits(f, r)
          /\ \A b \in Branches : r.br[b].out = IF b \in bs THEN "lost" ELSE f.br[b].out
      BY <1>1, RefuseSends
    <2>2. /\ Evolves(f, n) /\ Transmits(f, n)
          /\ f.cfg.scheduled => \A b \in Branches :
               n.br[b].out = IF b \in bs THEN "queued" ELSE f.br[b].out
          /\ ~f.cfg.scheduled => \A b \in Branches :
               /\ b \notin bs => n.br[b].out = f.br[b].out
               /\ b \in bs \cap failing => n.br[b].out = "void"
               /\ b \in bs \ failing => n.br[b].out \in {"live", "lost"}
      BY <1>1, SendToInjectorSends
    <2> HIDE DEF n, r
    <2>3. CASE failing = AllRefused
      BY <2>1, <2>3 DEF Transmits
    <2>4. CASE failing # AllRefused
      <3>1. failing \subseteq bs /\ s = n
        BY <2>4
      <3> HIDE DEF s
      <3> QED BY <1>1, <2>2, <2>4, <3>1 DEF Transmits
    <2> QED BY <2>3, <2>4
  <1>3. g = IF failing \in {{}, AllRefused} THEN s ELSE e
    BY <1>1 DEF Launch
  <1> HIDE DEF s, g
  <1>4. \A b \in Branches :
          /\ b \notin bs => s.br[b].out = f.br[b].out
          /\ b \in bs => s.br[b].out \in {"queued", "void", "live", "lost"}
          /\ s.br[b].out = "queued" => f.cfg.scheduled \/ f.br[b].out = "queued"
          /\ s.br[b].out = "void" => f.br[b].out = "void" \/ b \in failing
    BY <1>2
  <1>5. Serves(f, s)
    BY <1>1, <1>2, <1>4 DEF Transmits, Serves
  <1>6. Shape(s)
    <2>1. \A b \in Branches : NotYet(s, b) <=> NotYet(f, b)
      BY <1>2 DEF Transmits, NotYet
    <2>2. /\ s.cfg = f.cfg /\ s.waiting = f.waiting /\ s.created = f.created
          /\ \A b \in Branches : s.br[b].status = f.br[b].status
      BY <1>2 DEF Transmits
    <2>3. ASSUME NEW b \in bs
          PROVE  f.br[b].status < 200 /\ b \in f.waiting /\ ~NotYet(f, b) /\ b <= f.created
      BY <1>1, <2>3 DEF Shape
    <2>4. ASSUME NEW b \in Branches
          PROVE  /\ s.br[b].out = "queued" => s.cfg.scheduled
                 /\ s.br[b].out \in {"held", "queued", "live"} => s.br[b].status < 200
                 /\ s.br[b].out \in {"queued", "live"} => b \in s.waiting
                 /\ b \in s.waiting /\ NotYet(s, b) => s.br[b].out = "held"
                 /\ b \in s.waiting \/ s.br[b].out # "held" => b <= s.created
      <3>1. CASE b \in bs
        BY <1>1, <1>4, <2>1, <2>2, <2>3, <3>1 DEF Shape
      <3>2. CASE b \notin bs
        BY <1>1, <1>4, <2>1, <2>2, <3>2 DEF Shape
      <3> QED BY <3>1, <3>2
    <2> QED BY <2>4 DEF Shape
  <1>7. Form(s)
    BY <1>2, <1>6 DEF Form, Ended, Transmits
  <1>8. Live(s) \subseteq Live(f) \cup bs /\ s.cancelled = f.cancelled /\ s.incoming = f.incoming
    BY <1>2, <1>4 DEF Live, Transmits
  <1>9. CASE failing \in {{}, AllRefused}
    <2>1. Stopped(s) => Stopped(f)
      BY <1>1, <1>4, <1>9 DEF Stopped
    <2> QED BY <1>3, <1>4, <1>5, <1>7, <1>8, <1>9, <2>1 DEF g
  <1>10. CASE failing \notin {{}, AllRefused}
    <2>1. Stopped(s)
      BY <1>1, <1>2, <1>10 DEF Stopped
    <2>2. Calm(s, e) /\ ~e.incoming /\ Silent(e) /\ Stopped(e)
      BY <1>7, <2>1, ProcessInternalErrorCalm
    <2> HIDE DEF e
    <2>3. /\ Live(e) = Live(s) /\ e.cancelled = s.cancelled /\ Form(e) /\ Serves(s, e)
          /\ \A b \in Branches : e.br[b].out = s.br[b].out
      BY <1>2, <2>2, QuietSilent, QuietServes DEF Calm, Quiet
    <2>4. Serves(f, e)
      BY <1>1, <1>5, <2>3, ServesTrans
    <2> QED BY <1>3, <1>4, <1>8, <1>10, <2>2, <2>3, <2>4 DEF g
  <1> QED BY <1>9, <1>10

(* start() calls the next devices, of a call that is not over.             *)
LEMMA StartServes ==
    ASSUME NEW f, Fit(f), HasNextBranches(f), NEW failing \in Failures(f, NextBranches(f).current)
    PROVE  LET g == Start(f, failing)
           IN /\ Serves(f, g) /\ Fit(g) /\ g.cancelled = f.cancelled
              /\ IsCompleted(f) => g = f
              /\ g.incoming = f.incoming \/ Stopped(g)
  <1> DEFINE n == NextBranches(f)
             q == NextPriority(f)
             l == Launch(n, n.current, failing)
             a == ArmNextTimer(l)
             g == Start(f, failing)
  <1>1. f \in ForkContext /\ Form(f) /\ Shape(f)
    BY DEF Fit, Form
  <1>2. CASE IsCompleted(f) \/ f.finished
    <2>1. g = f
      BY <1>2 DEF Start
    <2> QED BY <1>1, <2>1, QuietRefl, QuietServes
  <1>3. CASE ~IsCompleted(f) /\ ~f.finished
    <2>1. f.incoming /\ ~f.cancelled /\ (~f.cfg.scheduled => ~Stopped(f))
      BY <1>3 DEF IsCompleted, Fit, Silent
    <2>2. /\ Evolves(f, n) /\ n \in ForkContext /\ n.cfg = f.cfg /\ n.br = f.br
          /\ n.waiting = f.waiting /\ n.created = f.created
          /\ n.cancelled = f.cancelled /\ n.incoming = f.incoming /\ n.finished = f.finished
          /\ n.finishTimer = f.finishTimer /\ n.life = f.life /\ n.currentPriority = q
          /\ n.current = {b \in f.waiting : f.br[b].prio = q}
      BY <1>1, NextBranchesShape
    <2>3. /\ q \in Qs
          /\ \A b \in f.waiting : f.br[b].prio = q => NotYet(f, b)
          /\ \A b \in f.waiting : f.br[b].prio < q => NotYet(f, b)
      BY <1>1, NextPriorityFound
    <2>4. failing \in (SUBSET n.current) \cup {AllRefused} /\ (n.cfg.scheduled => failing = {})
      BY <2>2 DEF Failures, FailingSets
    <2>5. g = a
      BY <1>3 DEF Start
    <2> HIDE DEF n, q, g
    <2>6. q \in Nat /\ q # NoPriority
      BY <2>3, ForkAssumption DEF NoPriority
    <2>7. \A b \in n.waiting : NotYet(n, b) => f.br[b].prio < q
      BY <2>2, <2>6 DEF NotYet
    <2>8. Form(n)
      <3>1. Shape(n)
        BY <1>1, <2>2, <2>3, <2>7 DEF Shape
      <3> QED BY <1>1, <2>2, <3>1 DEF Form, Ended
    <2>9. n.current \in SUBSET n.waiting /\ f.waiting \subseteq Branches
      BY <1>1, <2>2 DEF ForkContext
    <2>10. \A b \in n.current : n.br[b].out = "held" /\ ~NotYet(n, b)
      <3>1. \A b \in n.current : b \in Branches /\ b \in f.waiting /\ f.br[b].prio = q
        BY <2>2, <2>9
      <3> QED BY <1>1, <2>2, <2>3, <2>6, <3>1 DEF Shape, NotYet
    <2>11. Serves(f, n) /\ (Stopped(n) <=> Stopped(f))
      BY <2>2 DEF Serves, Stopped
    <2>12. /\ Serves(n, l) /\ Form(l) /\ l.cancelled = n.cancelled
           /\ failing \in {{}, AllRefused} => (Stopped(l) => Stopped(n)) /\ l.incoming = n.incoming
           /\ failing \notin {{}, AllRefused} => Stopped(l) /\ ~l.incoming /\ Silent(l)
      BY Zenon, <2>4, <2>8, <2>9, <2>10, LaunchServes
    <2> HIDE DEF l
    <2>13. l \in ForkContext /\ l.cfg = f.cfg
      BY <2>2, <2>12 DEF Form, Serves, Evolves
    <2>14. Fit(l) /\ (l.incoming = f.incoming \/ Stopped(l)) /\ Serves(f, l)
      BY Zenon, <1>1, <2>1, <2>2, <2>11, <2>12, <2>13, ServesTrans DEF Fit, Silent
    <2>15. Calm(l, a) /\ a.incoming = l.incoming
      <3> DEFINE t == l.cfg.nextTimeout /\ HasNextBranches(l)
      <3>1. t \in BOOLEAN /\ a = [l EXCEPT !.nextTimer = t]
        BY <2>13 DEF ForkContext, ForkContextConfig, HasNextBranches, ArmNextTimer
      <3>2. Form(l)
        BY <2>12
      <3> HIDE DEF t
      <3>3. LET h == [l EXCEPT !.nextTimer = t] IN Calm(l, h) /\ h.incoming = l.incoming
        BY Zenon, <3>1, <3>2, FlagsCalm
      <3> QED BY <3>1, <3>3
    <2> HIDE DEF a
    <2>16. Fit(a) /\ Serves(l, a) /\ (Stopped(l) => Stopped(a)) /\ a.cancelled = l.cancelled
      BY <2>13, <2>14, <2>15, CalmFit, QuietServes, QuietSilent DEF Calm, Quiet
    <2>17. Serves(f, a)
      BY <1>1, <2>14, <2>16, ServesTrans
    <2> QED BY <1>3, <2>2, <2>5, <2>12, <2>14, <2>15, <2>16, <2>17 DEF g
  <1> QED BY <1>2, <1>3

(* A contact joins the fork as its newest branch, in the place of the      *)
(* answered branch of the same device if there is one.                     *)
Joins(f, c, g) ==
    LET n == f.created + 1
    IN /\ n \in Branches /\ g.created = n
       /\ g.waiting \subseteq f.waiting \cup {n} /\ n \in g.waiting
       /\ \A b \in f.waiting \ g.waiting : b = FindBranchByUid(f, c.uid)
       /\ \A b \in Branches \ {n} :
            /\ g.br[b].uid = f.br[b].uid /\ g.br[b].status = f.br[b].status
            /\ g.br[b].out = f.br[b].out
            /\ f.br[b].cancelled => g.br[b].cancelled
       /\ g.br[n].uid = c.uid /\ g.br[n].status = 0
       /\ g.cancelled = f.cancelled

(* addBranch(): the new branch may leave at once, whatever state the call  *)
(* is in; an internal error of it stops the call; nobody else is called.   *)
LEMMA AddBranchForm ==
    ASSUME NEW f, Form(f), NEW c \in Contacts, f.created < MaxBranches,
           NEW failing \in {{}, {f.created + 1}, AllRefused}, f.cfg.scheduled => failing = {}
    PROVE  LET g == AddBranch(f, c, failing)
           IN /\ Evolves(f, g) /\ Form(g) /\ Joins(f, c, g)
              /\ \/ (Stopped(g) => Stopped(f)) /\ g.incoming = f.incoming
                 \/ Stopped(g) /\ ~g.incoming /\ Silent(g)
  <1> DEFINE n == f.created + 1
             old == FindBranchByUid(f, c.uid)
             f0 == ClearAnswered(f, c.uid)
             f1 == PushBranch(f0, c)
             cur == f1.current \cup {n}
             f2 == [f1 EXCEPT !.current = cur]
             bs == {n}
             l == Launch(f2, bs, failing)
             g == AddBranch(f, c, failing)
  <1>1. f \in ForkContext /\ Shape(f)
    BY DEF Form
  <1>2. /\ Evolves(f, f0) /\ f0 \in ForkContext /\ f0.cfg = f.cfg /\ f0.br = f.br
        /\ f0.created = f.created /\ f0.currentPriority = f.currentPriority
        /\ f0.cancelled = f.cancelled /\ f0.incoming = f.incoming
        /\ f0.finished = f.finished /\ f0.finishTimer = f.finishTimer /\ f0.life = f.life
        /\ f0.waiting \subseteq f.waiting
        /\ \A b \in f.waiting \ f0.waiting : b = old /\ f.br[b].status >= 200
    <2>1. f0 = IF old # NoBranch /\ f.br[old].status >= 200 THEN RemoveBranch(f, old) ELSE f
      BY DEF ClearAnswered
    <2>2. Evolves(f, f)
      BY <1>1, QuietRefl DEF Quiet
    <2> HIDE DEF f0, old
    <2> QED BY <1>1, <2>1, <2>2, RemoveBranchShape
  <1> HIDE DEF f0, old
  <1>3. /\ Evolves(f0, f1) /\ f1 \in ForkContext /\ f1.cfg = f.cfg /\ f1.waiting = f0.waiting \cup {n}
        /\ f1.created = n /\ n \in Branches
        /\ f1.currentPriority = f.currentPriority /\ f1.cancelled = f.cancelled
        /\ f1.incoming = f.incoming /\ f1.finished = f.finished
        /\ f1.finishTimer = f.finishTimer /\ f1.life = f.life
        /\ \A b \in Branches \ {n} : f1.br[b] = f.br[b]
        /\ f1.br[n].uid = c.uid /\ f1.br[n].prio = c.prio /\ f1.br[n].status = 0
        /\ f1.br[n].out = "held"
    BY <1>2, PushBranchShape
  <1>4. g = IF StartsAtOnce(f, c.prio) THEN l ELSE f1
    BY <1>3 DEF AddBranch, f0
  <1> HIDE DEF f1, g
  <1>5. Evolves(f, f1)
    BY <1>1, <1>2, <1>3, EvolvesTrans
  <1>6. f.created \in Nat /\ f.created <= n /\ n <= n /\ n \notin f.waiting
        /\ \A b \in Branches : b <= f.created => b <= n
    <2>1. f.created \in Nat /\ \A b \in Branches : b \in Nat
      BY <1>1 DEF ForkContext, Branches
    <2>2. n \in f.waiting => n <= f.created
      BY <1>1, <1>3 DEF Shape
    <2> QED BY <2>1, <2>2
  <1>7. ASSUME NEW b \in Branches
        PROVE  /\ f1.br[b].out = "queued" => f1.cfg.scheduled
               /\ f1.br[b].out \in {"held", "queued", "live"} => f1.br[b].status < 200
               /\ f1.br[b].out \in {"queued", "live"} => b \in f1.waiting
               /\ b \in f1.waiting /\ NotYet(f1, b) => f1.br[b].out = "held"
               /\ b \in f1.waiting \/ f1.br[b].out # "held" => b <= f1.created
    <2>1. CASE b = n
      BY <1>3, <1>6, <2>1
    <2>2. CASE b # n
      <3>1. f1.br[b] = f.br[b] /\ (b \in f1.waiting <=> b \in f0.waiting)
            /\ (NotYet(f1, b) <=> NotYet(f, b)) /\ (b \in f0.waiting => b \in f.waiting)
        BY <1>2, <1>3, <2>2 DEF NotYet
      <3>2. f.br[b].status < 200 /\ b \in f.waiting => b \in f0.waiting
        BY <1>1, <1>2, BranchNumbers
      <3> QED BY <1>1, <1>3, <1>6, <3>1, <3>2 DEF Shape
    <2> QED BY <2>1, <2>2
  <1>8. Form(f1)
    <2>1. Ended(f1)
      BY <1>3 DEF Form, Ended
    <2> QED BY <1>3, <1>7, <2>1 DEF Form, Shape
  <1>9. Stopped(f1) => Stopped(f)
    <2>1. \A b \in Branches : f1.br[b].out # "held" => f1.br[b] = f.br[b]
      BY <1>3
    <2> QED BY <2>1 DEF Stopped
  <1>10. CASE ~StartsAtOnce(f, c.prio)
    <2>1. g = f1
      BY <1>4, <1>10
    <2> QED BY <1>2, <1>3, <1>5, <1>8, <1>9, <2>1 DEF g, old, Joins
  <1>11. CASE StartsAtOnce(f, c.prio)
    <2>1. g = l
      BY <1>4, <1>11
    <2>2. cur \in SUBSET Branches
      BY <1>3 DEF ForkContext
    <2> HIDE DEF cur
    <2>3. f2 \in ForkContext
      BY <1>3, <2>2 DEF ForkContext
    <2>4. /\ f2.cfg = f1.cfg /\ f2.life = f1.life /\ f2.incoming = f1.incoming
          /\ f2.finals = f1.finals /\ f2.direct = f1.direct /\ f2.lastSent = f1.lastSent
          /\ f2.br = f1.br /\ f2.waiting = f1.waiting /\ f2.created = f1.created
          /\ f2.currentPriority = f1.currentPriority /\ f2.cancelled = f1.cancelled
          /\ f2.finished = f1.finished /\ f2.finishTimer = f1.finishTimer
      BY <1>3 DEF ForkContext
    <2> HIDE DEF f2
    <2>5. Form(f2) /\ (Stopped(f2) <=> Stopped(f1)) /\ Evolves(f, f2)
      <3>1. Shape(f2) /\ (Stopped(f2) <=> Stopped(f1))
        BY <1>8, <2>4, FrameShape DEF Form
      <3>2. Evolves(f1, f2)
        BY <1>3, <2>3, <2>4, EvolvesFrame
      <3>3. Form(f2)
        BY <1>8, <2>3, <2>4, <3>1 DEF Form, Ended
      <3> QED BY <1>1, <1>5, <3>1, <3>2, <3>3, EvolvesTrans
    <2>6. f2.br[n].out = "held" /\ ~NotYet(f2, n)
      <3>1. c.prio \in Nat
        BY Zenon, ForkAssumption DEF Contacts
      <3>2. f.currentPriority \in Nat /\ f.currentPriority # NoPriority
        BY Zenon, <1>1, <1>11, ForkAssumption DEF ForkContext, StartsAtOnce
      <3> QED BY <1>3, <1>11, <2>4, <3>1, <3>2 DEF StartsAtOnce, NotYet
    <2>7. /\ bs \in SUBSET f2.waiting /\ failing \in (SUBSET bs) \cup {AllRefused}
          /\ f2.cfg.scheduled => failing = {}
          /\ \A b \in bs : f2.br[b].out = "held" /\ ~NotYet(f2, b)
      BY <1>3, <2>4, <2>6
    <2> HIDE DEF n, bs
    <2>8. /\ Serves(f2, l) /\ Form(l) /\ l.cancelled = f2.cancelled
          /\ \A b \in Branches \ bs : l.br[b].out = f2.br[b].out
          /\ failing \in {{}, AllRefused} => (Stopped(l) => Stopped(f2)) /\ l.incoming = f2.incoming
          /\ failing \notin {{}, AllRefused} => Stopped(l) /\ ~l.incoming /\ Silent(l)
      BY Zenon, <2>5, <2>7, LaunchServes
    <2> HIDE DEF l
    <2>9. Evolves(f, l)
      BY <1>1, <2>5, <2>8, EvolvesTrans DEF Serves
    <2>10. /\ l.created = n /\ l.waiting = f0.waiting \cup {n}
           /\ l.br[n].uid = c.uid /\ l.br[n].status = 0 /\ l.cancelled = f.cancelled
      BY <1>3, <2>4, <2>8 DEF Serves
    <2>11. \A b \in Branches \ {n} :
             /\ l.br[b].uid = f.br[b].uid /\ l.br[b].status = f.br[b].status
             /\ l.br[b].out = f.br[b].out
             /\ f.br[b].cancelled => l.br[b].cancelled
      BY <1>3, <2>4, <2>8 DEF Serves, bs
    <2> QED BY Zenon, <1>2, <1>3, <1>9, <2>1, <2>4, <2>5, <2>8, <2>9, <2>10, <2>11 DEF g, n, old, Joins
  <1> QED BY <1>10, <1>11

====
