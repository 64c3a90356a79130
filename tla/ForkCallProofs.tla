---------------------------- MODULE ForkCallProofs ----------------------------
(***************************************************************************)
(* For every number of branches, set of contacts, codes and configuration: *)
(* a call fork is well typed, answers its caller exactly once, and so      *)
(* implements ForkedRequest; it reports a failure only when it has asked   *)
(* everyone; and in a Router that sends its requests at once no device     *)
(* rings for a call that is over.                                          *)
(***************************************************************************)
EXTENDS ForkCallLemmas
-----------------------------------------------------------------------------
(***************************************************************************)
(* What every step of the fork respects: it moves its caller's answer      *)
(* forward, keeps the invariant, reports a failure for a reason, and calls *)
(* nobody for a call that is over but to cancel at once.                   *)
(***************************************************************************)
Fails(f, g) ==
    f.incoming /\ ~g.incoming /\ g.lastSent >= 300
      => \/ g.cancelled \/ Stopped(g)
         \/ f.timer /\ ~g.timer
         \/ f.lateTimer /\ g.finished /\ ~g.lateTimer
         \/ AllAnsweredRFC(g, g.waiting)

Acts(f, g) ==
    /\ Moves(f, g) /\ Fit(g) /\ Fails(f, g) /\ g.cfg = f.cfg
    /\ ~f.cfg.scheduled /\ IsCompleted(f) => \A b \in Live(g) \ Live(f) : g.br[b].cancelled

IInv ==
    /\ Fit(fork) /\ AnsweredOnce
    /\ ~fork.incoming <=> fork.lastSent >= 200
    /\ fork.cfg \in CallConfigs

(* A handler that calls nobody.                                            *)
LEMMA ServesActs ==
    ASSUME NEW f, NEW g, Fit(f), f.life # "destroyed", Serves(f, g), Fit(g), Fails(f, g),
           Live(g) \subseteq Live(f)
    PROVE  Acts(f, g)
  <1>1. f \in ForkContext /\ Evolves(f, g)
    BY DEF Fit, Form, Serves
  <1>2. Moves(f, g) /\ g.cfg = f.cfg
    BY <1>1, EvolvesMoves DEF Evolves
  <1> QED BY <1>2 DEF Acts

(* A calm one.                                                             *)
LEMMA CalmActs ==
    ASSUME NEW f, NEW g, Fit(f), f.life # "destroyed", Calm(f, g)
    PROVE  Acts(f, g) /\ Serves(f, g)
  <1>1. Fit(g) /\ Quiet(f, g) /\ Justified(f, g) /\ f \in ForkContext
    BY CalmFit DEF Calm, Fit, Form
  <1>2. Serves(f, g) /\ Live(g) = Live(f)
    BY <1>1, QuietServes, QuietSilent
  <1>3. Fails(f, g)
    BY <1>1 DEF Justified, Excused, Fails
  <1> QED BY <1>1, <1>2, <1>3, ServesActs

(* processResponse() stores the status of the branch first.                *)
LEMMA WithStatusFit ==
    ASSUME NEW f, Fit(f), NEW x \in f.waiting, NEW code \in Codes, f.br[x].out = "live"
    PROVE  LET s == WithStatus(f, x, code)
           IN /\ Fit(s) /\ Evolves(f, s) /\ x \in Branches /\ s.br[x].status = code
              /\ code >= 200 => x \notin Live(s)
              /\ s.cancelled = f.cancelled /\ s.incoming = f.incoming
              /\ s.lastSent = f.lastSent /\ Live(s) \subseteq Live(f)
  <1> DEFINE s == WithStatus(f, x, code)
  <1>1. f \in ForkContext /\ Form(f) /\ Shape(f) /\ Ended(f) /\ x \in Branches /\ code \in Int
    BY CodesAreInts DEF Fit, Form, ForkContext
  <1>2. /\ Evolves(f, s) /\ s \in ForkContext
        /\ s.cfg = f.cfg /\ s.waiting = f.waiting
        /\ s.created = f.created /\ s.currentPriority = f.currentPriority
        /\ s.cancelled = f.cancelled /\ s.incoming = f.incoming /\ s.lastSent = f.lastSent
        /\ s.finished = f.finished /\ s.finishTimer = f.finishTimer /\ s.life = f.life
        /\ \A b \in Branches :
             /\ s.br[b].prio = f.br[b].prio
             /\ s.br[b].cancelled = f.br[b].cancelled
             /\ s.br[b].status = IF b = x THEN code ELSE f.br[b].status
             /\ s.br[b].out = IF b = x /\ code >= 200 THEN "done" ELSE f.br[b].out
    BY <1>1, WithStatusShape
  <1> HIDE DEF s
  <1>3. Live(s) \subseteq Live(f) /\ (Stopped(s) => Stopped(f)) /\ (code >= 200 => x \notin Live(s))
    BY <1>2 DEF Live, Stopped
  <1>4. ASSUME NEW b \in Branches
        PROVE  /\ s.br[b].out = "queued" => s.cfg.scheduled
               /\ s.br[b].out \in {"held", "queued", "live"} => s.br[b].status < 200
               /\ s.br[b].out \in {"queued", "live"} => b \in s.waiting
               /\ b \in s.waiting /\ NotYet(s, b) => s.br[b].out = "held"
               /\ b \in s.waiting \/ s.br[b].out # "held" => b <= s.created
    <2>1. NotYet(s, b) <=> NotYet(f, b)
      BY <1>2 DEF NotYet
    <2>2. CASE b # x
      BY <1>1, <1>2, <2>1, <2>2 DEF Shape
    <2>3. CASE b = x
      <3>1. ~NotYet(s, x) /\ x <= f.created /\ x \in s.waiting
        BY <1>1, <1>2, <2>1, <2>3 DEF Shape
      <3>2. s.br[x].status = code /\ (code >= 200 => s.br[x].out = "done")
            /\ (~(code >= 200) => s.br[x].out = "live")
        BY <1>1, <1>2
      <3> QED BY <1>1, <1>2, <2>3, <3>1, <3>2
    <2> QED BY <2>2, <2>3
  <1>5. Form(s)
    BY <1>1, <1>2, <1>4 DEF Form, Shape, Ended
  <1>6. Silent(f) => Silent(s)
    BY <1>2, <1>3 DEF Silent, AllCancelled, Live
  <1> QED BY <1>1, <1>2, <1>3, <1>5, <1>6 DEF Fit, s

(* A device answers; the devices of the next priority may be called.       *)
LEMMA ResponseActs ==
    ASSUME IInv, NEW b \in Branches, NEW code \in Codes, Response(b, code)
    PROVE  /\ Acts(fork, fork') /\ Serves(WithStatus(fork, b, code), fork')
           /\ fork'.cancelled => \/ fork.cancelled \/ code \in 200..299
                                 \/ code >= 600 /\ ~fork.cfg.noGlobalDecline
  <1> DEFINE s == WithStatus(fork, b, code)
             f1 == OnResponse(s, b, code)
  <1>1. /\ Fit(fork) /\ fork \in ForkContext /\ b \in fork.waiting /\ fork.br[b].out = "live"
        /\ fork.life # "destroyed" /\ (fork.lastSent >= 200 => ~fork.incoming)
    BY DEF IInv, Fit, Form, Response
  <1>2. /\ Fit(s) /\ Evolves(fork, s) /\ s.br[b].status = code
        /\ code >= 200 => b \notin Live(s)
        /\ s.cancelled = fork.cancelled /\ s.incoming = fork.incoming
        /\ Live(s) \subseteq Live(fork)
    BY <1>1, WithStatusFit
  <1>3. \/ fork' = f1
        \/ HasNextBranches(f1)
           /\ \E failing \in Failures(f1, NextBranches(f1).current) : fork' = Start(f1, failing)
    BY DEF Response, MovesOn
  <1> HIDE DEF s
  <1>4. /\ Serves(s, f1) /\ Fit(f1) /\ Justified(s, f1) /\ Live(f1) = Live(s)
        /\ f1.cancelled => \/ s.cancelled \/ code \in 200..299
                           \/ code >= 600 /\ ~s.cfg.noGlobalDecline
    BY <1>2, OnResponseServes
  <1> HIDE DEF f1
  <1>5. /\ Serves(f1, fork') /\ Fit(fork') /\ fork'.cancelled = f1.cancelled
        /\ IsCompleted(f1) => fork' = f1
        /\ fork'.incoming = f1.incoming \/ Stopped(fork')
    <2>1. CASE fork' = f1
      <3>1. Quiet(f1, f1)
        BY <1>4, QuietRefl DEF Fit, Form
      <3> QED BY <1>4, <2>1, <3>1, QuietServes
    <2>2. CASE /\ HasNextBranches(f1)
               /\ \E failing \in Failures(f1, NextBranches(f1).current) : fork' = Start(f1, failing)
      BY <1>4, <2>2, StartServes
    <2> QED BY <1>3, <2>1, <2>2
  <1>6. s \in ForkContext /\ f1 \in ForkContext /\ s.cfg = fork.cfg /\ fork'.cfg = fork.cfg
    BY Zenon, <1>2, <1>4, <1>5 DEF Fit, Form, Serves, Evolves
  <1>7. Serves(s, fork')
    BY <1>4, <1>5, <1>6, ServesTrans
  <1>8. Moves(fork, fork')
    <2>1. Evolves(fork, fork')
      BY <1>1, <1>2, <1>7, EvolvesTrans DEF Serves
    <2> QED BY <1>1, <2>1, EvolvesMoves
  <1>9. Fails(fork, fork')
    <2>1. CASE f1.incoming
      BY Zenon, <1>5, <2>1 DEF Fails
    <2>2. CASE ~f1.incoming
      <3>1. fork' = f1
        BY <1>5, <2>2 DEF IsCompleted
      <3> QED BY <1>2, <1>4, <3>1 DEF Fails, Justified, Excused
    <2> QED BY <2>1, <2>2
  <1>10. IsCompleted(fork) => Live(fork') \subseteq Live(fork)
    <2>1. (~s.incoming => ~f1.incoming) /\ (s.cancelled => f1.cancelled)
      BY <1>4 DEF Serves, Evolves
    <2>2. IsCompleted(fork) => IsCompleted(f1)
      BY <1>1, <1>2, <2>1 DEF IsCompleted
    <2> QED BY <1>2, <1>4, <1>5, <2>2
  <1> QED BY <1>2, <1>4, <1>5, <1>6, <1>7, <1>8, <1>9, <1>10 DEF Acts, s

(* The caller gives up.                                                    *)
LEMMA CancelActs ==
    ASSUME IInv, Cancel PROVE Acts(fork, fork') /\ Serves(fork, fork')
  <1> DEFINE f1 == CancelOthers([fork EXCEPT !.cancelled = TRUE], NoBranch)
  <1>1. Fit(fork) /\ Form(fork) /\ fork \in ForkContext /\ fork.life # "destroyed"
    BY DEF IInv, Fit, Form, Cancel
  <1>2. NoBranch \notin Live(fork)
    BY DEF Live, Branches, NoBranch
  <1>3. fork' = IF ShouldFinish(f1) THEN SetFinished(f1) ELSE CheckFinished(f1)
    BY DEF Cancel
  <1>4. /\ Serves(fork, f1) /\ Form(f1) /\ f1.cancelled /\ Live(f1) = Live(fork) /\ Fit(f1)
    BY <1>1, <1>2, CancelledServes
  <1> HIDE DEF f1
  <1>5. Calm(f1, fork') /\ f1 \in ForkContext
    BY <1>3, <1>4, SetFinishedCalm, CheckFinishedCalm DEF Form
  <1>6. Fit(fork') /\ Serves(f1, fork') /\ Live(fork') = Live(f1) /\ fork'.cancelled
    BY Zenon, <1>4, <1>5, CalmFit, QuietServes, QuietSilent DEF Calm, Quiet
  <1>7. Serves(fork, fork') /\ Fails(fork, fork')
    BY <1>1, <1>4, <1>6, ServesTrans DEF Fails
  <1> QED BY <1>1, <1>4, <1>6, <1>7, ServesActs

(* A push notification was sent: no final answer.                          *)
LEMMA PushSentActs ==
    ASSUME IInv, NEW ringing, PushSent(ringing) PROVE Acts(fork, fork') /\ Serves(fork, fork')
  <1> DEFINE s == SendResponse(fork, 110)
             m == [s EXCEPT !.sent110 = TRUE]
             f1 == OnPushSentBase(fork)
  <1>1. Fit(fork) /\ Form(fork) /\ fork \in ForkContext /\ fork.life # "destroyed"
    BY DEF IInv, Fit, Form, PushSent
  <1>2. 110 \in Codes /\ 180 \in Codes
    BY DEF Codes, OwnCodes
  <1>3. Calm(fork, s)
    BY <1>1, <1>2, SendResponseCalm
  <1>4. f1 = IF fork.sent110 THEN fork ELSE m
    BY DEF OnPushSentBase
  <1>5. fork' = IF ringing /\ ~IsRingingSomewhere(f1) THEN SendResponse(f1, 180) ELSE f1
    BY DEF PushSent, OnPushSent
  <1> HIDE DEF s, f1
  <1>6. Calm(s, m)
    BY Zenon, <1>3, FlagsCalm DEF Calm
  <1> HIDE DEF m
  <1>7. Calm(fork, fork)
    BY <1>1, QuietRefl, QuietCalm
  <1>8. Calm(fork, f1)
    BY <1>1, <1>3, <1>4, <1>6, <1>7, CalmTrans
  <1>9. Calm(f1, SendResponse(f1, 180))
    BY <1>2, <1>8, SendResponseCalm DEF Calm
  <1>10. Calm(fork, fork')
    BY <1>1, <1>5, <1>8, <1>9, CalmTrans
  <1> QED BY <1>1, <1>10, CalmActs

(* A device that registers may be called; if the call is over, only to     *)
(* hear its CANCEL.                                                        *)
LEMMA NewRegisterActs ==
    ASSUME IInv, NEW c \in LateContacts, NewRegister(c)
    PROVE  Acts(fork, fork') /\ Joins(fork, c, fork')
  <1> DEFINE n == fork.created + 1
  <1>1. /\ Fit(fork) /\ Form(fork) /\ fork \in ForkContext /\ fork.life # "destroyed"
        /\ fork.created < MaxBranches /\ c \in Contacts
        /\ fork.lastSent >= 200 => ~fork.incoming
    BY CallAssumption DEF IInv, Fit, Form, NewRegister
  <1>2. PICK failing \in {{}, {n}, AllRefused} :
          /\ fork.cfg.scheduled => failing = {}
          /\ LET g == AddBranch(fork, c, failing)
             IN fork' = CheckFinished(IF IsCompleted(fork) THEN CancelBranches(g, {n}) ELSE g)
    BY DEF NewRegister
  <1> DEFINE g == AddBranch(fork, c, failing)
             bs == {n}
             h == IF IsCompleted(fork) THEN CancelBranches(g, bs) ELSE g
  <1>0. /\ Evolves(fork, g) /\ Form(g) /\ Joins(fork, c, g)
        /\ \/ (Stopped(g) => Stopped(fork)) /\ g.incoming = fork.incoming
           \/ Stopped(g) /\ ~g.incoming /\ Silent(g)
    BY <1>1, <1>2, AddBranchForm
  <1>3. /\ n \in Branches
        /\ \A b \in Branches \ {n} :
             g.br[b].out = fork.br[b].out /\ (fork.br[b].cancelled => g.br[b].cancelled)
        /\ g.br[n].status = 0 /\ g.cancelled = fork.cancelled
    BY Zenon, <1>0 DEF Joins
  <1>4. fork' = CheckFinished(h)
    BY <1>2
  <1> HIDE DEF g, n
  <1>5. /\ Calm(g, h) /\ h.incoming = g.incoming
        /\ IsCompleted(fork) /\ n \in Live(h) => h.br[n].cancelled
    <2>1. CASE IsCompleted(fork)
      <3>1. h = CancelBranches(g, bs) /\ n \in bs
        BY <2>1
      <3> HIDE DEF h, bs
      <3>2. /\ Calm(g, h) /\ h.incoming = g.incoming
            /\ g.br[n].out = "live" /\ g.br[n].status < 200 => h.br[n].cancelled
        BY <1>0, <1>3, <3>1, CancelBranchesCalm
      <3>3. Live(h) = Live(g)
        BY <1>0, <3>2, QuietSilent DEF Calm, Form
      <3> QED BY <1>3, <3>2, <3>3 DEF Live
    <2>2. CASE ~IsCompleted(fork)
      <3>1. h = g
        BY <2>2
      <3> QED BY <1>0, <2>2, <3>1, QuietRefl, QuietCalm DEF Form
    <2> QED BY <2>1, <2>2
  <1> HIDE DEF h
  <1>6. /\ Form(h) /\ Quiet(g, h) /\ g \in ForkContext /\ h \in ForkContext
        /\ Live(h) = Live(g) /\ (Stopped(h) <=> Stopped(g)) /\ (Silent(g) => Silent(h))
        /\ h.cancelled = fork.cancelled
    BY Zenon, <1>0, <1>3, <1>5, QuietSilent DEF Calm, Form, Quiet
  <1>7. \A b \in Live(h) \ {n} : b \in Live(fork) /\ (fork.br[b].cancelled => h.br[b].cancelled)
    BY <1>3, <1>6 DEF Live, Quiet
  <1>8. ~fork.cfg.scheduled => Silent(h)
    <2>1. CASE (Stopped(g) => Stopped(fork)) /\ g.incoming = fork.incoming
      <3> SUFFICES ASSUME ~fork.cfg.scheduled PROVE Silent(h)
        OBVIOUS
      <3>1. Silent(fork)
        BY <1>1 DEF Fit
      <3>2. h.cancelled \/ Stopped(h) => IsCompleted(fork) /\ AllCancelled(fork)
        BY <1>6, <2>1, <3>1 DEF Silent, IsCompleted
      <3>3. h.cancelled \/ Stopped(h) => AllCancelled(h)
        BY <1>5, <1>7, <3>2 DEF AllCancelled
      <3>4. Stopped(h) => ~h.incoming
        BY <1>5, <1>6, <2>1, <3>1 DEF Silent
      <3> QED BY <3>3, <3>4 DEF Silent
    <2>2. CASE Stopped(g) /\ ~g.incoming /\ Silent(g)
      BY <1>6, <2>2
    <2> QED BY <1>0, <2>1, <2>2
  <1>9. Calm(h, fork') /\ Quiet(h, fork')
    BY <1>4, <1>6, CheckFinishedCalm DEF Calm
  <1>10. h.cfg = fork.cfg /\ fork'.cfg = fork.cfg
    BY <1>0, <1>6, <1>9 DEF Evolves, Quiet
  <1>11. Fit(h) /\ Fit(fork')
    BY Zenon, <1>6, <1>8, <1>9, <1>10, CalmFit DEF Fit
  <1>12. Moves(fork, fork')
    <2>1. Evolves(g, fork')
      BY Zenon, <1>6, <1>9, QuietTrans DEF Quiet
    <2>2. Evolves(fork, fork')
      BY <1>1, <1>0, <2>1, EvolvesTrans
    <2> QED BY <1>1, <2>2, EvolvesMoves
  <1>13. Fails(fork, fork')
    <2>1. CASE h.incoming
      BY <1>9, <2>1 DEF Calm, Justified, Excused, Fails
    <2>2. CASE ~h.incoming
      <3>1. fork.incoming => Stopped(h)
        BY Zenon, <1>0, <1>5, <1>6, <2>2
      <3>2. Stopped(h) => Stopped(fork')
        BY <1>6, <1>9, QuietSilent
      <3> QED BY <3>1, <3>2 DEF Fails
    <2> QED BY <2>1, <2>2
  <1>14. IsCompleted(fork) => \A b \in Live(fork') \ Live(fork) : fork'.br[b].cancelled
    <2>1. Live(fork') = Live(h) /\ \A b \in Branches : h.br[b].cancelled => fork'.br[b].cancelled
      BY Zenon, <1>6, <1>9, QuietSilent DEF Quiet
    <2> QED BY <1>3, <1>5, <1>7, <2>1
  <1>15. Quiet(g, fork')
    BY <1>6, <1>9, QuietTrans
  <1>16. Joins(fork, c, fork')
    BY Zenon, <1>0, <1>15 DEF Joins, Quiet
  <1>17. Acts(fork, fork')
    BY <1>10, <1>11, <1>12, <1>13, <1>14 DEF Acts
  <1> QED BY <1>16, <1>17

(* onShortTimer(): the timer explains the failure.                         *)
LEMMA ShortTimerActs ==
    ASSUME IInv, ShortTimer PROVE Acts(fork, fork') /\ Serves(fork, fork')
  <1> DEFINE f1 == [fork EXCEPT !.timer = FALSE]
             best == FindBestBranch(f1, f1.cfg.forkLate)
  <1>1. Fit(fork) /\ Form(fork) /\ fork \in ForkContext /\ fork.life # "destroyed" /\ fork.timer
    BY DEF IInv, Fit, Form, ShortTimer
  <1>2. fork' = IF IsRingingSomewhere(f1) \/ best = NoBranch THEN f1 ELSE ForwardResponse(f1, best)
    BY DEF ShortTimer
  <1>3. Calm(fork, f1) /\ ~f1.timer
    <2>1. FALSE \in BOOLEAN
      OBVIOUS
    <2> QED BY Zenon, <1>1, <2>1, FlagsCalm
  <1> HIDE DEF f1
  <1>4. f1 \in ForkContext /\ Form(f1)
    BY <1>3 DEF Calm, Form
  <1>5. Quiet(f1, fork') /\ Form(fork') /\ ~fork'.timer
    <2>1. CASE IsRingingSomewhere(f1) \/ best = NoBranch
      BY <1>2, <1>3, <1>4, <2>1, QuietRefl
    <2>2. CASE ~(IsRingingSomewhere(f1) \/ best = NoBranch)
      <3>1. f1.br[best].status \in Codes
        BY <1>4, <2>2, BestIsFinal
      <3>2. fork' = ForwardEvent(f1, f1.br[best].status)
        BY <1>2, <2>2 DEF ForwardResponse
      <3> HIDE DEF best
      <3> QED BY <1>3, <1>4, <3>1, <3>2, ForwardEventForm
    <2> QED BY <2>1, <2>2
  <1>6. Quiet(fork, fork')
    BY <1>1, <1>3, <1>5, QuietTrans DEF Calm
  <1>7. Serves(fork, fork') /\ Live(fork') = Live(fork) /\ (Silent(fork) => Silent(fork'))
    BY <1>1, <1>6, QuietServes, QuietSilent
  <1>8. Fit(fork') /\ Fails(fork, fork')
    BY <1>1, <1>5, <1>6, <1>7 DEF Fit, Fails, Quiet, Evolves
  <1> QED BY <1>1, <1>7, <1>8, ServesActs

(* processLateTimeout(): so does the end of the fork.                      *)
LEMMA LateTimerActs ==
    ASSUME IInv, LateTimer PROVE Acts(fork, fork') /\ Serves(fork, fork')
  <1> DEFINE f1 == [fork EXCEPT !.lateTimer = FALSE]
             best == FindBestBranch(f1, f1.cfg.forkLate)
             code == IF best = NoBranch THEN 408 ELSE f1.br[best].status
             e == ForwardEvent(f1, code)
             f2 == OnLateTimeout(f1)
  <1>1. /\ Fit(fork) /\ Form(fork) /\ fork \in ForkContext /\ fork.life # "destroyed"
        /\ fork.lateTimer
    BY DEF IInv, Fit, Form, LateTimer
  <1>2. f2 = IF f1.incoming THEN CancelOthers(e, NoBranch) ELSE f1
    BY DEF OnLateTimeout, ForwardResponse
  <1>3. fork' = SetFinished(f2)
    BY DEF LateTimer
  <1>4. Calm(fork, f1) /\ ~f1.lateTimer
    <2>1. FALSE \in BOOLEAN
      OBVIOUS
    <2> QED BY Zenon, <1>1, <2>1, FlagsCalm
  <1> HIDE DEF f1, f2
  <1>5. f1 \in ForkContext /\ Form(f1)
    BY <1>4 DEF Calm, Form
  <1>6. code \in Codes /\ code >= 200
    BY <1>5, BestIsFinal DEF Codes, OwnCodes
  <1> HIDE DEF code
  <1>7. Quiet(f1, e) /\ Form(e) /\ ~e.incoming /\ ~e.lateTimer
    BY <1>4, <1>5, <1>6, ForwardEventForm
  <1> HIDE DEF e
  <1>8. Quiet(f1, f2) /\ Form(f2) /\ ~f2.incoming /\ ~f2.lateTimer
    <2>1. CASE f1.incoming
      <3>1. Calm(e, f2) /\ f2.incoming = e.incoming /\ (f2.lateTimer => e.lateTimer)
        BY <1>2, <1>7, <2>1, CancelOthersCalm
      <3> QED BY <1>5, <1>7, <3>1, QuietTrans DEF Calm, Form
    <2>2. CASE ~f1.incoming
      BY <1>2, <1>4, <1>5, <2>2, QuietRefl
    <2> QED BY <2>1, <2>2
  <1>9. Calm(f2, fork') /\ fork'.finished /\ ~fork'.lateTimer
    BY <1>3, <1>8, SetFinishedCalm
  <1>10. Quiet(fork, fork') /\ Form(fork')
    <2>1. Quiet(fork, f2)
      BY <1>1, <1>4, <1>8, QuietTrans DEF Calm
    <2> QED BY <1>1, <1>9, <2>1, QuietTrans DEF Calm
  <1>11. Serves(fork, fork') /\ Live(fork') = Live(fork) /\ (Silent(fork) => Silent(fork'))
    BY <1>1, <1>10, QuietServes, QuietSilent
  <1>12. Fit(fork') /\ Fails(fork, fork')
    BY <1>1, <1>9, <1>10, <1>11 DEF Fit, Fails, Quiet, Evolves
  <1> QED BY <1>1, <1>11, <1>12, ServesActs

(* onNextBranches(): the devices of the next priority are called.          *)
LEMMA NextBranchesTimerActs ==
    ASSUME IInv, NextBranchesTimer PROVE Acts(fork, fork') /\ Serves(fork, fork')
  <1> DEFINE f1 == [fork EXCEPT !.nextTimer = FALSE]
  <1>1. /\ Fit(fork) /\ Form(fork) /\ fork \in ForkContext /\ fork.life # "destroyed"
        /\ fork.lastSent >= 200 => ~fork.incoming
    BY DEF IInv, Fit, Form, NextBranchesTimer
  <1>2. \/ fork' = f1
        \/ HasNextBranches(f1)
           /\ \E failing \in Failures(f1, NextBranches(f1).current) : fork' = Start(f1, failing)
    BY Zenon DEF NextBranchesTimer
  <1>3. Calm(fork, f1) /\ f1.incoming = fork.incoming
    <2>1. FALSE \in BOOLEAN
      OBVIOUS
    <2> QED BY Zenon, <1>1, <2>1, FlagsCalm
  <1> HIDE DEF f1
  <1>4. /\ Fit(f1) /\ Serves(fork, f1) /\ f1 \in ForkContext /\ Live(f1) = Live(fork)
        /\ f1.cancelled = fork.cancelled /\ Acts(fork, f1)
    BY <1>1, <1>3, CalmFit, CalmActs, QuietSilent DEF Calm, Form, Quiet
  <1>5. CASE fork' = f1
    BY <1>4, <1>5
  <1>6. CASE /\ HasNextBranches(f1)
             /\ \E failing \in Failures(f1, NextBranches(f1).current) : fork' = Start(f1, failing)
    <2>1. /\ Serves(f1, fork') /\ Fit(fork') /\ (IsCompleted(f1) => fork' = f1)
          /\ fork'.incoming = f1.incoming \/ Stopped(fork')
      BY <1>4, <1>6, StartServes
    <2>2. Serves(fork, fork') /\ Moves(fork, fork') /\ fork'.cfg = fork.cfg
      <3>1. Serves(fork, fork')
        BY <1>1, <1>4, <2>1, ServesTrans
      <3> QED BY <1>1, <3>1, EvolvesMoves DEF Serves, Evolves
    <2>3. Fails(fork, fork')
      BY Zenon, <1>3, <2>1 DEF Fails
    <2>4. IsCompleted(fork) => Live(fork') = Live(fork)
      BY <1>1, <1>3, <1>4, <2>1 DEF IsCompleted
    <2> QED BY <2>1, <2>2, <2>3, <2>4 DEF Acts
  <1> QED BY <1>2, <1>5, <1>6

-----------------------------------------------------------------------------
(* What the end of the context leaves alone.                               *)
Rests(f, g) ==
    /\ g.br = f.br /\ g.waiting = f.waiting /\ g.created = f.created
    /\ g.cancelled = f.cancelled /\ g.cfg = f.cfg /\ g.currentPriority = f.currentPriority

(* ~ForkCallContext(): the 503 is for a caller who has given up.           *)
LEMMA DestroyActs ==
    ASSUME NEW f, NEW g, Fit(g), Evolves(f, g), f \in ForkContext, f.life # "destroyed",
           ~g.finishTimer \/ g.finished, g.incoming => g.cancelled
    PROVE  LET h == Destroy(g)
           IN Moves(f, h) /\ Fit(h) /\ Rests(g, h) /\ (g.incoming \/ h.lastSent = g.lastSent)
  <1> DEFINE h == Destroy(g)
             n == g.finals + 1
             code == 503
             life == "destroyed"
             answered == [g EXCEPT !.life = life, !.finals = n, !.incoming = FALSE, !.lastSent = code]
             dropped == [g EXCEPT !.life = life]
  <1>1. g \in ForkContext /\ Form(g) /\ g.incoming \in BOOLEAN
    BY DEF Fit, Form, ForkContext
  <1>2. h = IF g.incoming THEN answered ELSE dropped
    BY DEF Destroy
  <1>3. n \in Nat /\ code \in Codes /\ code >= 200 /\ life \in Lives
    BY <1>1 DEF ForkContext, Codes, OwnCodes, Lives
  <1>4. g.incoming => n = f.finals + 1 /\ f.incoming
    BY DEF Evolves
  <1> HIDE DEF n, code
  <1>5. /\ Rests(g, answered) /\ answered.finals = n /\ answered.lastSent = code
        /\ ~answered.incoming /\ answered.life = life
        /\ answered.finishTimer = g.finishTimer /\ answered.finished = g.finished
        /\ answered.direct = g.direct
    BY <1>1 DEF ForkContext, Rests
  <1>6. /\ Rests(g, dropped) /\ dropped.finals = g.finals /\ dropped.lastSent = g.lastSent
        /\ dropped.incoming = g.incoming /\ dropped.life = life
        /\ dropped.finishTimer = g.finishTimer /\ dropped.finished = g.finished
        /\ dropped.direct = g.direct
    BY <1>1 DEF ForkContext, Rests
  <1>7. answered \in ForkContext /\ dropped \in ForkContext
    BY Zenon, <1>1, <1>3 DEF ForkContext
  <1> HIDE DEF answered, dropped, h
  <1>8. Moves(f, h) /\ Rests(g, h) /\ (g.incoming \/ h.lastSent = g.lastSent) /\ ~h.incoming
    <2>1. CASE g.incoming
      BY <1>2, <1>3, <1>4, <1>5, <1>7, <2>1 DEF Moves, Evolves
    <2>2. CASE ~g.incoming
      BY <1>2, <1>6, <1>7, <2>2 DEF Moves, Evolves
    <2> QED BY <2>1, <2>2
  <1>9. Form(h) /\ (Silent(g) => Silent(h))
    <2>1. Shape(h) /\ (Stopped(h) <=> Stopped(g)) /\ (AllCancelled(h) <=> AllCancelled(g))
      BY <1>1, <1>8, FrameShape DEF Form, Rests
    <2>2. Ended(h)
      BY <1>1, <1>2, <1>5, <1>6, <1>8 DEF Ended, Form, Rests
    <2>3. h \in ForkContext
      BY <1>8 DEF Moves
    <2> QED BY <1>8, <2>1, <2>2, <2>3 DEF Form, Silent, Rests
  <1> QED BY <1>8, <1>9 DEF Fit, Rests, h

(* onFinished(): the Router drops the fork.                                *)
LEMMA FinishTimerActs ==
    ASSUME IInv, FinishTimer PROVE Acts(fork, fork') /\ Rests(fork, fork')
  <1> DEFINE f1 == [fork EXCEPT !.finishTimer = FALSE]
             life == "released"
             r == [f1 EXCEPT !.life = life]
  <1>1. /\ Fit(fork) /\ Form(fork) /\ fork \in ForkContext /\ fork.life # "destroyed"
        /\ fork.incoming => fork.cancelled
    BY DEF IInv, Fit, Form, Ended, FinishTimer
  <1>2. fork' = r \/ fork' = Destroy(f1)
    BY Zenon DEF FinishTimer
  <1>3. f1 \in ForkContext
    BY Zenon, <1>1 DEF ForkContext
  <1>4. /\ Rests(fork, f1) /\ ~f1.finishTimer /\ f1.incoming = fork.incoming
        /\ f1.lastSent = fork.lastSent /\ f1.finals = fork.finals /\ f1.life = fork.life
        /\ f1.direct = fork.direct
    BY <1>1 DEF ForkContext, Rests
  <1> HIDE DEF f1
  <1>5. life \in Lives
    BY DEF Lives
  <1>6. r \in ForkContext
    BY <1>3, <1>5 DEF ForkContext
  <1>7. /\ Rests(f1, r) /\ ~r.finishTimer /\ r.incoming = f1.incoming
        /\ r.lastSent = f1.lastSent /\ r.finals = f1.finals /\ r.life = life
        /\ r.direct = f1.direct
    BY <1>3, <1>4 DEF ForkContext, Rests
  <1> HIDE DEF r
  <1>8. ASSUME NEW g \in ForkContext, Rests(fork, g), ~g.finishTimer, g.incoming = fork.incoming
        PROVE  Fit(g)
    <2>1. Shape(g) /\ (Stopped(g) <=> Stopped(fork)) /\ (AllCancelled(g) <=> AllCancelled(fork))
      BY <1>1, <1>8, FrameShape DEF Form, Rests
    <2>2. Ended(g)
      BY <1>1, <1>8 DEF Form, Ended, Rests
    <2> QED BY <1>1, <1>8, <2>1, <2>2 DEF Fit, Form, Silent, Rests
  <1>9. Fit(f1) /\ Evolves(fork, f1) /\ (f1.incoming => f1.cancelled)
    BY <1>1, <1>3, <1>4, <1>8, EvolvesFrame DEF Rests
  <1>10. Moves(fork, fork') /\ Fit(fork') /\ Rests(fork, fork')
    <2>1. CASE fork' = r
      <3>1. fork' = r /\ Rests(fork, r)
        BY <1>4, <1>7, <2>1 DEF Rests
      <3>2. Fit(r)
        BY <1>4, <1>6, <1>7, <1>8, <3>1
      <3>3. Moves(fork, r)
        BY <1>1, <1>4, <1>6, <1>7 DEF Moves
      <3> QED BY <3>1, <3>2, <3>3
    <2>2. CASE fork' = Destroy(f1)
      <3>1. Moves(fork, Destroy(f1)) /\ Fit(Destroy(f1)) /\ Rests(f1, Destroy(f1))
        BY <1>1, <1>4, <1>9, DestroyActs
      <3> QED BY <1>4, <2>2, <3>1 DEF Rests
    <2> QED BY <1>2, <2>1, <2>2
  <1>11. Live(fork') = Live(fork) /\ Fails(fork, fork')
    BY <1>1, <1>10 DEF Live, Rests, Fails
  <1> QED BY <1>10, <1>11 DEF Acts, Rests

(* The last announcements of a fork that the Router has dropped expire.    *)
LEMMA AnnouncementsExpireActs ==
    ASSUME IInv, AnnouncementsExpire PROVE Acts(fork, fork') /\ Rests(fork, fork')
  <1>1. /\ Fit(fork) /\ Form(fork) /\ fork \in ForkContext /\ fork.life = "released"
        /\ fork' = Destroy(fork)
    BY DEF IInv, Fit, Form, AnnouncementsExpire
  <1>2. Evolves(fork, fork) /\ (~fork.finishTimer \/ fork.finished) /\ (fork.incoming => fork.cancelled)
    BY <1>1, QuietRefl DEF Quiet, Form, Ended
  <1>3. Moves(fork, fork') /\ Fit(fork') /\ Rests(fork, fork')
    BY <1>1, <1>2, DestroyActs
  <1>4. Live(fork') = Live(fork) /\ Fails(fork, fork')
    BY <1>2, <1>3 DEF Live, Rests, Fails
  <1> QED BY <1>3, <1>4 DEF Acts, Rests

(* The ScheduleInjector lets a request go, or meets an error; the last one *)
(* may end the fork.                                                       *)
LEMMA InjectActs ==
    ASSUME IInv, NEW b \in Branches, Inject(b)
    PROVE  Acts(fork, fork') /\ fork.cfg.scheduled
  <1>1. /\ Fit(fork) /\ Form(fork) /\ fork \in ForkContext /\ fork.life # "destroyed"
        /\ fork.br[b].out = "queued" /\ Shape(fork) /\ fork.cfg.scheduled
    BY Zenon DEF IInv, Fit, Form, Shape, Inject
  <1> DEFINE bs == {b}
             passed == PassOn(fork, bs)
             refused == Refuse(fork, bs)
             void == SetOut(fork, bs, "void")
  <1>2. PICK failing \in {{}, {b}, AllRefused} :
          LET g == CASE failing = {} -> PassOn(fork, {b})
                     [] failing = AllRefused -> Refuse(fork, {b})
                     [] OTHER -> ProcessInternalError(SetOut(fork, {b}, "void"))
          IN fork' = IF g.life = "released" /\ ~Queued(g) /\ ~Announced(g) THEN Destroy(g) ELSE g
    BY Zenon DEF Inject
  <1> DEFINE sent == IF failing = {} THEN passed ELSE IF failing = AllRefused THEN refused ELSE void
             f1 == CASE failing = {} -> passed
                     [] failing = AllRefused -> refused
                     [] OTHER -> ProcessInternalError(void)
  <1>3. fork' = f1 \/ (f1.life = "released" /\ fork' = Destroy(f1))
    <2>1. fork' = IF f1.life = "released" /\ ~Queued(f1) /\ ~Announced(f1) THEN Destroy(f1) ELSE f1
      BY Zenon, <1>2
    <2> HIDE DEF f1
    <2> QED BY <2>1
  <1>4. /\ Evolves(fork, passed) /\ Transmits(fork, passed)
        /\ \A c \in Branches : IF c \in bs THEN passed.br[c].out \in {"live", "lost"}
                               ELSE passed.br[c].out = fork.br[c].out
    BY <1>1, PassOnSends
  <1>5. /\ Evolves(fork, refused) /\ Transmits(fork, refused)
        /\ \A c \in Branches : refused.br[c].out = IF c \in bs THEN "lost" ELSE fork.br[c].out
    BY <1>1, RefuseSends
  <1>6. /\ Evolves(fork, void) /\ Transmits(fork, void)
        /\ \A c \in Branches : void.br[c].out = IF c \in bs THEN "void" ELSE fork.br[c].out
    BY <1>1, SetOutSends DEF OutStates
  <1> HIDE DEF passed, refused, void
  <1>7. sent \in {passed, refused, void} /\ (f1 = sent \/ (sent = void /\ f1 = ProcessInternalError(sent)))
    <2>1. AllRefused # {}
      BY DEF AllRefused
    <2> QED BY <2>1
  <1> HIDE DEF f1, sent
  <1>8. /\ Evolves(fork, sent) /\ Transmits(fork, sent)
        /\ \A c \in Branches : c # b => sent.br[c].out = fork.br[c].out
        /\ sent.br[b].out \in {"live", "lost", "void"}
        /\ sent = void => sent.br[b].out = "void"
    BY <1>4, <1>5, <1>6, <1>7
  <1>9. Form(sent)
    <2>1. ASSUME NEW c \in Branches
          PROVE  /\ sent.br[c].out = "queued" => sent.cfg.scheduled
                 /\ sent.br[c].out \in {"held", "queued", "live"} => sent.br[c].status < 200
                 /\ sent.br[c].out \in {"queued", "live"} => c \in sent.waiting
                 /\ c \in sent.waiting /\ NotYet(sent, c) => sent.br[c].out = "held"
                 /\ c \in sent.waiting \/ sent.br[c].out # "held" => c <= sent.created
      <3>1. /\ NotYet(sent, c) <=> NotYet(fork, c)
            /\ sent.cfg = fork.cfg /\ sent.waiting = fork.waiting /\ sent.created = fork.created
            /\ sent.br[c].status = fork.br[c].status
        BY <1>8 DEF Transmits, NotYet
      <3>2. CASE c # b
        BY <1>1, <1>8, <3>1, <3>2 DEF Shape
      <3>3. CASE c = b
        <4>1. sent.br[b].out \in {"live", "lost", "void"}
          BY <1>8
        <4>2. fork.br[b].status < 200 /\ b \in fork.waiting /\ b <= fork.created /\ ~NotYet(fork, b)
          BY <1>1 DEF Shape
        <4> QED BY <1>1, <3>1, <3>3, <4>1, <4>2
      <3> QED BY <3>2, <3>3
    <2>2. Ended(sent) /\ sent \in ForkContext
      BY <1>1, <1>8 DEF Form, Ended, Transmits
    <2> QED BY <2>1, <2>2 DEF Form, Shape
  <1>10. /\ Form(f1) /\ Evolves(sent, f1) /\ f1.cancelled = sent.cancelled
         /\ f1.incoming = sent.incoming \/ Stopped(f1)
    <2>1. CASE f1 = sent
      BY <1>9, <2>1, QuietRefl DEF Form, Quiet
    <2>2. CASE sent = void /\ f1 = ProcessInternalError(sent)
      <3>1. Stopped(sent)
        BY <1>8, <2>2 DEF Stopped
      <3> QED BY <1>9, <2>2, <3>1, ProcessInternalErrorCalm DEF Calm, Quiet
    <2> QED BY <1>7, <2>1, <2>2
  <1>11. /\ Evolves(fork, f1) /\ f1.cfg = fork.cfg /\ f1.cancelled = fork.cancelled
         /\ f1.incoming = fork.incoming \/ Stopped(f1)
    <2>1. Evolves(fork, f1)
      BY <1>1, <1>8, <1>10, EvolvesTrans
    <2> QED BY <1>8, <1>10, <2>1 DEF Transmits, Evolves
  <1>12. Fit(f1)
    BY <1>1, <1>10, <1>11 DEF Fit
  <1>13. CASE f1.life = "released" /\ fork' = Destroy(f1)
    <2>1. /\ fork' = Destroy(f1) /\ (~f1.finishTimer \/ f1.finished)
          /\ f1.incoming => f1.cancelled
      BY <1>10, <1>13 DEF Form, Ended
    <2>2. /\ Moves(fork, fork') /\ Fit(fork') /\ Rests(f1, fork')
      BY <1>1, <1>11, <1>12, <2>1, DestroyActs
    <2>3. Fails(fork, fork')
      <3>1. Stopped(f1) => Stopped(fork')
        BY <2>2 DEF Stopped, Rests
      <3> QED BY Zenon, <1>11, <2>1, <2>2, <3>1 DEF Fails, Rests
    <2> QED BY <1>1, <1>11, <2>2, <2>3 DEF Acts, Rests
  <1>14. CASE fork' = f1
    <2>1. fork' = f1 /\ Moves(fork, f1)
      BY <1>1, <1>11, <1>14, EvolvesMoves
    <2> QED BY <1>1, <1>11, <1>12, <2>1 DEF Acts, Fails
  <1> QED BY <1>1, <1>3, <1>13, <1>14

-----------------------------------------------------------------------------
(* Every step of a call.                                                   *)
LEMMA NextActs ==
    ASSUME IInv, Next PROVE Acts(fork, fork')
  <1>1. CASE AnyResponse
    <2>1. PICK b \in Branches, code \in ProvisionalCodes \cup FinalCodes \cup {487} : Response(b, code)
      BY <1>1 DEF AnyResponse
    <2>2. code \in Codes
      BY DEF Codes, OwnCodes
    <2> QED BY <2>1, <2>2, ResponseActs
  <1>2. CASE \E ringing \in BOOLEAN : PushSent(ringing)
    BY <1>2, PushSentActs
  <1>3. CASE \E c \in LateContacts : NewRegister(c)
    BY <1>3, NewRegisterActs
  <1>4. CASE \E b \in Branches : Inject(b)
    BY <1>4, InjectActs
  <1> QED BY <1>1, <1>2, <1>3, <1>4, CancelActs, ShortTimerActs, LateTimerActs,
             NextBranchesTimerActs, FinishTimerActs, AnnouncementsExpireActs DEF Next

(* A new fork calls its first devices.                                     *)
LEMMA InitInvariant ==
    ASSUME Init PROVE IInv /\ fork.life # "destroyed" /\ (fork.direct = 0 \/ fork.direct >= 200)
  <1>0. PICK cfg \in CallConfigs, cs \in InitialContacts :
          LET f == NewFork(cfg, FALSE, cs)
          IN \E failing \in Failures(f, NextBranches(f).current) : fork = Start(f, failing)
    BY Zenon DEF Init
  <1>1. PICK n \in 1..MaxBranches : cs \in [1..n -> Contacts]
    BY CallAssumption
  <1>2. cfg \in ForkContextConfig
    BY CallAssumption
  <1> DEFINE f == NewFork(cfg, FALSE, cs)
  <1>3. /\ f \in ForkContext /\ f.cfg = cfg
        /\ f.incoming /\ f.lastSent = 0 /\ f.finals = 0 /\ f.direct = 0
        /\ ~f.finished /\ ~f.finishTimer /\ ~f.cancelled
        /\ f.currentPriority = NoPriority /\ f.waiting = 1..n /\ f.created = n
        /\ f.life = "registered"
        /\ \A b \in Branches : f.br[b].status = 0 /\ f.br[b].out = "held"
    <2>1. ASSUME NEW t \in BOOLEAN
          PROVE  LET g == NewFork(cfg, t, cs)
                 IN /\ g \in ForkContext /\ g.cfg = cfg
                    /\ g.incoming /\ g.lastSent = 0 /\ g.finals = 0 /\ g.direct = 0
                    /\ ~g.finished /\ ~g.finishTimer /\ ~g.cancelled
                    /\ g.currentPriority = NoPriority /\ g.waiting = 1..n /\ g.created = n
                    /\ g.life = "registered"
                    /\ \A b \in Branches : g.br[b].status = 0 /\ g.br[b].out = "held"
      BY <1>1, <1>2, NewForkShape
    <2> QED BY Zenon, <2>1
  <1>4. PICK failing \in Failures(f, NextBranches(f).current) : fork = Start(f, failing)
    BY Zenon, <1>0
  <1> HIDE DEF f
  <1>5. 1 \in f.waiting /\ \A b \in f.waiting : b <= f.created
    BY <1>1, <1>3, ForkAssumption
  <1>6. Shape(f)
    BY <1>3, <1>5 DEF Shape
  <1>7. Fit(f) /\ HasNextBranches(f)
    <2>1. Ended(f)
      BY Zenon, <1>3, <1>5 DEF Ended
    <2>2. Silent(f)
      BY <1>3 DEF Silent, Stopped
    <2> QED BY <1>3, <1>5, <1>6, <2>1, <2>2 DEF Fit, Form, HasNextBranches
  <1>8. Evolves(f, fork) /\ Fit(fork)
    BY <1>4, <1>7, StartServes DEF Serves
  <1>9. fork.lastSent \in Int /\ fork.incoming \in BOOLEAN
    BY Zenon, <1>8, CodesAreInts DEF Fit, Form, ForkContext
  <1> QED BY <1>3, <1>8, <1>9 DEF IInv, AnsweredOnce, Evolves

(* Every step keeps the invariant.                                         *)
LEMMA StepInvariant ==
    ASSUME IInv, [Next]_vars PROVE IInv'
  <1>1. CASE UNCHANGED vars
    BY <1>1 DEF IInv, AnsweredOnce, vars
  <1>2. CASE Next
    <2>1. Acts(fork, fork') /\ Moves(fork, fork') /\ Fit(fork')
      BY <1>2, NextActs DEF Acts
    <2>2. fork \in ForkContext /\ fork' \in ForkContext
      BY <2>1 DEF IInv, Fit, Form
    <2>3. fork.finals \in Nat /\ fork'.finals \in Nat /\ fork.incoming \in BOOLEAN
          /\ fork'.incoming \in BOOLEAN
      BY <2>2 DEF ForkContext
    <2>4. AnsweredOnce'
      BY <2>1, <2>3 DEF Moves, IInv, AnsweredOnce
    <2>5. ~fork'.incoming <=> fork'.lastSent >= 200
      <3>1. fork.lastSent \in Int /\ fork'.lastSent \in Int
        BY Zenon, <2>2, CodesAreInts DEF ForkContext
      <3> QED BY <2>1, <2>3, <3>1 DEF Moves, IInv
    <2> QED BY <2>1, <2>4, <2>5 DEF IInv, Acts
  <1> QED BY <1>1, <1>2

(* The inductive invariant holds in every state of every call fork.        *)
THEOREM Invariance == Spec => []IInv
  <1>1. Init => IInv
    BY InitInvariant
  <1>2. IInv /\ [Next]_vars => IInv'
    BY StepInvariant
  <1> QED BY <1>1, <1>2, PTL DEF Spec

(* The fork and its branches keep their types, for any number of contacts, *)
(* devices, priorities and response codes.                                 *)
THEOREM TypeCorrect == Spec => []TypeOK
  <1>1. IInv => TypeOK
    BY DEF IInv, Fit, Form, TypeOK
  <1> QED BY <1>1, Invariance, PTL

(* The caller never gets two final answers, and always has one when the    *)
(* context is destroyed.                                                   *)
THEOREM CallerAnsweredOnce == Spec => []AnsweredOnce
  <1>1. IInv => AnsweredOnce
    BY DEF IInv
  <1> QED BY <1>1, Invariance, PTL

(* The caller hears of a failure only when every contact has answered,     *)
(* unless the call was cancelled, declined, stopped by an error, timed     *)
(* out, or has an urgent answer: for all forks and all configurations, the *)
(* ScheduleInjector included.                                              *)
THEOREM FailuresAreComplete == Spec => FailureIsComplete
  <1>1. IInv /\ [Next]_vars => [Fails(fork, fork')]_vars
    BY NextActs DEF Acts
  <1> QED BY <1>1, Invariance, PTL DEF Spec, FailureIsComplete, Fails

-----------------------------------------------------------------------------
(* Once a device has accepted or declined, the caller has given up, or an  *)
(* error has ended the call, every device with a pending INVITE was sent a *)
(* CANCEL, for any number of devices and priorities, in a Router that      *)
(* sends its requests at once.                                             *)
THEOREM NoDeviceKeepsRinging == Spec => []NoPhantomRinging
  <1>1. IInv => NoPhantomRinging
    BY DEF IInv, Fit, Silent, NoPhantomRinging, AllCancelled
  <1> QED BY <1>1, Invariance, PTL

(* An INVITE that leaves after the call is completed is cancelled by the   *)
(* handler that sends it, in a Router that sends its requests at once.     *)
THEOREM CompletedCallsStayQuiet == Spec => NoCallAfterCompletion
  <1> DEFINE A == ~fork.cfg.scheduled /\ IsCompleted(fork) =>
                    \A b \in Live(fork') \ Live(fork) : fork'.br[b].cancelled
  <1>1. IInv /\ [Next]_vars => [A]_vars
    <2> SUFFICES ASSUME IInv, Next PROVE A
      OBVIOUS
    <2> QED BY NextActs DEF Acts
  <1> QED BY <1>1, Invariance, PTL DEF Spec, NoCallAfterCompletion

-----------------------------------------------------------------------------
(* A step of the fork is a step of ForkedRequest, or leaves it alone.      *)
LEMMA StepKeepsPromise ==
    ASSUME IInv, IInv', [Next]_vars PROVE [Promise!Next]_(Promise!vars)
  <1> DEFINE answer == Answer(fork)
             gone == fork.life = "destroyed"
  <1>1. CASE UNCHANGED vars
    BY <1>1 DEF vars, Promise!vars, Answer
  <1>2. CASE Next
    <2>1. Moves(fork, fork')
      BY <1>2, NextActs DEF Acts
    <2>2. /\ fork \in ForkContext /\ fork' \in ForkContext
          /\ fork.lastSent \in Codes /\ fork'.lastSent \in Codes
          /\ fork.direct \in Codes /\ fork'.direct \in Codes
          /\ fork.incoming \in BOOLEAN /\ fork'.incoming \in BOOLEAN
      BY DEF IInv, Fit, Form, ForkContext
    <2>3. ~gone /\ (gone' => ~fork'.incoming)
      BY <2>1 DEF Moves
    <2>4. answer' = answer \/ (answer = 0 /\ answer' >= 200)
      <3>1. CASE fork'.direct = fork.direct
        BY <2>1, <3>1 DEF Moves, Answer
      <3>2. CASE fork.incoming /\ fork.direct = 0 /\ fork'.direct >= 200
        BY <2>2, <3>2, CodesAreInts DEF Answer
      <3> QED BY <2>1, <3>1, <3>2 DEF Moves
    <2>5. answer' \in Codes /\ (~fork'.incoming => answer' # 0)
      BY <2>2, CodesAreInts DEF Answer, IInv, Codes, OwnCodes
    <2> HIDE DEF answer
    <2>6. CASE answer' = answer
      <3>1. CASE gone'
        BY <2>3, <2>5, <2>6, <3>1 DEF Promise!Next, Promise!Forget, Promise!NoAnswer, answer
      <3>2. CASE ~gone'
        BY <2>3, <2>6, <3>2 DEF Promise!vars, answer
      <3> QED BY <3>1, <3>2
    <2>7. CASE answer = 0 /\ answer' >= 200
      <3>1. answer' \in {c \in Codes : c >= 200} /\ gone' \in BOOLEAN
        BY <2>5, <2>7
      <3> QED BY <2>3, <2>7, <3>1 DEF Promise!Next, Promise!Answer, Promise!NoAnswer, answer
    <2> QED BY <2>4, <2>6, <2>7
  <1> QED BY <1>1, <1>2

(* A call fork implements ForkedRequest: what its caller sees is one final *)
(* answer, never revised, and given before the context goes.               *)
THEOREM CallKeepsPromise == Spec => KeepsPromise
  <1>1. Init => Promise!Init
    <2> SUFFICES ASSUME Init PROVE Promise!Init
      OBVIOUS
    <2>1. IInv /\ fork.life # "destroyed" /\ (fork.direct = 0 \/ fork.direct >= 200)
      BY InitInvariant
    <2>2. fork.lastSent \in Codes /\ fork.direct \in Codes
      BY <2>1 DEF IInv, Fit, Form, ForkContext
    <2> QED BY <2>1, <2>2 DEF Promise!Init, Promise!NoAnswer, IInv, Answer
  <1>2. IInv /\ IInv' /\ [Next]_vars => [Promise!Next]_(Promise!vars)
    BY StepKeepsPromise
  <1> QED BY <1>1, <1>2, Invariance, PTL DEF Spec, KeepsPromise, Promise!Spec
=============================================================================
