---------------------------- MODULE ForkBasicProofs ----------------------------
(***************************************************************************)
(* For every number of contacts, set of codes and configuration: a basic   *)
(* fork implements ForkedRequest.  It has no destructor that answers in    *)
(* the last resort, as calls have: it must not end unanswered.  At the end *)
(* the Router, which keeps the late forks of every kind: it listens to the *)
(* registrations of every topic it has a late fork for.                    *)
(***************************************************************************)
EXTENDS ForkBasic, ForkContextProofs, LateForks

(***************************************************************************)
(* The methods of ForkBasicContext are evolutions (see ForkContextProofs)  *)
(* that start the end of the fork only with an answer.                     *)
(***************************************************************************)
Settles(f, g) ==
    /\ Evolves(f, g)
    /\ g.finishTimer => f.finishTimer \/ ~g.incoming

(* A call that does nothing.                                               *)
LEMMA SettlesRefl ==
    ASSUME NEW f \in ForkContext PROVE Settles(f, f)
  BY QuietRefl DEF Quiet, Settles

(* Two calls, one after the other: an answer given is not taken back.      *)
LEMMA SettlesTrans ==
    ASSUME NEW f \in ForkContext, NEW g, NEW h, Settles(f, g), Settles(g, h)
    PROVE  Settles(f, h)
  <1>1. Evolves(f, h)
    BY EvolvesTrans DEF Settles
  <1>2. ~g.incoming => ~h.incoming
    BY DEF Settles, Evolves
  <1> QED BY <1>1, <1>2 DEF Settles

(* A branch settles nothing when it is sent or queued.                     *)
LEMMA SetOutSettles ==
    ASSUME NEW f \in ForkContext, NEW bs, NEW state \in OutStates
    PROVE  Settles(f, SetOut(f, bs, state))
  <1>1. SetOut(f, bs, state).finishTimer = f.finishTimer
    BY DEF SetOut, ForkContext
  <1> QED BY <1>1, SetOutSends DEF Settles

(* forwardResponse(ev): a final answer starts the end, and is one.         *)
LEMMA ForwardEventSettles ==
    ASSUME NEW f \in ForkContext, NEW code \in Codes PROVE Settles(f, ForwardEvent(f, code))
  <1> DEFINE sent == [f EXCEPT !.lastSent = code]
             final == [f EXCEPT !.lastSent = code, !.incoming = FALSE, !.finals = @ + 1]
  <1>1. Evolves(f, ForwardEvent(f, code))
    BY ForwardEventQuiet DEF Quiet
  <1>2. sent.finishTimer = f.finishTimer
    BY DEF ForkContext
  <1>3. ~final.incoming /\ ~SetFinished(final).incoming
    BY DEF ForkContext, SetFinished
  <1>4. ForwardEvent(f, code) \in {f, sent, final, SetFinished(final)}
    BY DEF ForwardEvent
  <1> HIDE DEF sent, final
  <1> QED BY <1>1, <1>2, <1>3, <1>4 DEF Settles

(* forwardResponse(br) does so with the answer of a branch.                *)
LEMMA ForwardResponseSettles ==
    ASSUME NEW f \in ForkContext, NEW b \in Branches PROVE Settles(f, ForwardResponse(f, b))
  <1>1. f.br[b].status \in Codes
    BY DEF ForkContext, BranchInfo
  <1> QED BY <1>1, ForwardEventSettles DEF ForwardResponse

(* The decision timer is stopped.                                          *)
LEMMA TimerSettles ==
    ASSUME NEW f \in ForkContext PROVE Settles(f, [f EXCEPT !.timer = FALSE])
  <1> DEFINE g == [f EXCEPT !.timer = FALSE]
  <1>1. g \in ForkContext
    BY Zenon DEF ForkContext
  <1>2. Evolves(f, g) /\ g.finishTimer = f.finishTimer
    BY <1>1, EvolvesFrame DEF ForkContext
  <1> QED BY <1>2 DEF Settles

(* processInternalError: 483 to the sender.                                *)
LEMMA ProcessInternalErrorSettles ==
    ASSUME NEW f \in ForkContext PROVE Settles(f, ProcessInternalError(f))
  <1> DEFINE g == [f EXCEPT !.timer = FALSE]
  <1>1. Settles(f, g) /\ g \in ForkContext
    BY TimerSettles DEF Settles, Evolves
  <1> HIDE DEF g
  <1>2. Settles(g, ForwardEvent(g, 483))
    BY <1>1, ForwardEventSettles DEF Codes, OwnCodes
  <1>3. Settles(f, ForwardEvent(g, 483))
    BY <1>1, <1>2, SettlesTrans
  <1> QED BY <1>3 DEF ProcessInternalError, g

(* The requests of a set of branches go, or meet an internal error.        *)
LEMMA LaunchSettles ==
    ASSUME NEW f \in ForkContext, NEW bs, NEW failing PROVE Settles(f, Launch(f, bs, failing))
  <1> DEFINE sent == SendToInjector(f, bs, failing)
  <1>1. Evolves(f, sent) /\ sent \in ForkContext
    BY SendToInjectorSends DEF Evolves
  <1>2. sent.finishTimer = f.finishTimer
    BY SendToInjectorSends DEF Transmits
  <1>3. Settles(f, sent)
    BY <1>1, <1>2 DEF Settles
  <1> HIDE DEF sent
  <1>4. Settles(f, ProcessInternalError(sent))
    BY <1>1, <1>3, ProcessInternalErrorSettles, SettlesTrans
  <1> QED BY <1>3, <1>4 DEF Launch, sent

(* start() moves to the next branches unless the fork is over.             *)
LEMMA StartSettles ==
    ASSUME NEW f \in ForkContext, NEW failing PROVE Settles(f, Start(f, failing))
  <1> DEFINE n == NextBranches(f)
             l == Launch(n, n.current, failing)
             a == ArmNextTimer(l)
  <1>1. Evolves(f, n) /\ n \in ForkContext
    BY NextBranchesShape
  <1>2. n.finishTimer = f.finishTimer
    BY DEF NextBranches, ForkContext
  <1>3. Settles(f, n)
    BY <1>1, <1>2 DEF Settles
  <1> HIDE DEF n
  <1>4. Settles(n, l) /\ l \in ForkContext
    BY <1>1, LaunchSettles DEF Settles, Evolves
  <1> HIDE DEF l
  <1>5. Evolves(l, a) /\ a.finishTimer = l.finishTimer
    BY <1>4, ArmNextTimerQuiet DEF Quiet, ArmNextTimer, ForkContext
  <1>6. Settles(l, a)
    BY <1>5 DEF Settles
  <1>7. Settles(f, a)
    BY <1>1, <1>3, <1>4, <1>6, SettlesTrans
  <1> QED BY <1>7, SettlesRefl DEF Start, n, l

(* finishIncomingTransaction() answers, with 408 if nobody has.            *)
LEMMA FinishIncomingTransactionSettles ==
    ASSUME NEW f \in ForkContext PROVE Settles(f, FinishIncomingTransaction(f))
  <1> DEFINE g == [f EXCEPT !.timer = FALSE]
             best == FindBestBranch(g, FALSE)
             h == IF best = NoBranch THEN ForwardEvent(g, 408) ELSE ForwardResponse(g, best)
  <1>1. Settles(f, g) /\ g \in ForkContext
    BY TimerSettles DEF Settles, Evolves
  <1> HIDE DEF g
  <1>2. best # NoBranch => best \in Branches
    BY Zenon, <1>1, BestIsFinal
  <1> HIDE DEF best
  <1>3. Settles(g, h)
    BY <1>1, <1>2, ForwardEventSettles, ForwardResponseSettles DEF Codes, OwnCodes
  <1>4. Settles(f, h)
    BY <1>1, <1>3, SettlesTrans
  <1> QED BY Zenon, <1>4 DEF FinishIncomingTransaction, g, best

(* onResponse(), whichever way the code of the response leads.             *)
LEMMA OnResponseSettles ==
    ASSUME NEW f \in ForkContext, NEW b \in Branches, NEW code \in Codes
    PROVE  Settles(f, OnResponse(f, b, code))
  <1> DEFINE r == ForwardResponse(f, b)
             s == [r EXCEPT !.timer = FALSE]
  <1>1. Settles(f, r) /\ r \in ForkContext
    BY ForwardResponseSettles DEF Settles, Evolves
  <1> HIDE DEF r
  <1>2. Settles(f, s)
    BY <1>1, TimerSettles, SettlesTrans
  <1>3. OnResponse(f, b, code) \in {f, s, FinishIncomingTransaction(f)}
    <2>1. code \in Int
      BY CodesAreInts
    <2> QED BY <2>1 DEF OnResponse, r
  <1> HIDE DEF s
  <1> QED BY <1>2, <1>3, SettlesRefl, FinishIncomingTransactionSettles

-----------------------------------------------------------------------------
(***************************************************************************)
(* The inductive invariant.  The promise needs a destroyed fork to have    *)
(* answered, hence one that is about to go; and what was sent when         *)
(* mIncoming was reset to be a final answer.                               *)
(***************************************************************************)
IInv ==
    /\ fork \in ForkContext
    /\ fork.finishTimer \/ fork.life # "registered" => ~fork.incoming
    /\ ~fork.incoming => fork.lastSent >= 200

(* The steps of the fork keep it, and are moves (see ForkContextProofs).   *)
Holds(f, g) ==
    /\ Moves(f, g)
    /\ g.finishTimer \/ g.life # "registered" => ~g.incoming

(* A call that settles the fork, while the fork lives.                     *)
LEMMA SettlesHolds ==
    ASSUME IInv, NEW g, Settles(fork, g), fork.life # "destroyed"
    PROVE  Holds(fork, g)
  <1>1. Evolves(fork, g) /\ Moves(fork, g)
    BY EvolvesMoves DEF Settles, IInv
  <1>2. g.finishTimer => ~g.incoming
    BY <1>1 DEF Settles, Evolves, IInv
  <1>3. g.life # "registered" => ~g.incoming
    BY <1>1 DEF Evolves, IInv
  <1> QED BY <1>1, <1>2, <1>3 DEF Holds

(* The Router, or the injector, gives up a fork that has answered.         *)
LEMMA GoneHolds ==
    ASSUME IInv, NEW g, Holds(fork, g), ~g.incoming, NEW life \in Lives
    PROVE  Holds(fork, [g EXCEPT !.life = life])
  <1> DEFINE h == [g EXCEPT !.life = life]
  <1>1. g \in ForkContext
    BY DEF Holds, Moves
  <1>2. h \in ForkContext
    BY <1>1 DEF ForkContext
  <1>3. /\ h.incoming = g.incoming /\ h.finals = g.finals /\ h.lastSent = g.lastSent
        /\ h.direct = g.direct
    BY <1>1 DEF ForkContext
  <1> HIDE DEF h
  <1>4. Holds(fork, h)
    BY <1>2, <1>3 DEF Holds, Moves
  <1> QED BY <1>4 DEF h

(* A response of a contact (ForkContext::processResponse).                 *)
LEMMA ResponseHolds ==
    ASSUME IInv, NEW b \in Branches, NEW code \in Codes, Response(b, code)
    PROVE  Holds(fork, fork')
  <1> DEFINE s == WithStatus(fork, b, code)
             f1 == OnResponse(s, b, code)
  <1>1. fork \in ForkContext /\ fork.life # "destroyed"
    BY DEF IInv, Response
  <1>2. Evolves(fork, s) /\ s \in ForkContext
    BY <1>1, WithStatusShape
  <1>3. s.finishTimer = fork.finishTimer
    BY <1>1 DEF WithStatus, ForkContext
  <1>4. Settles(fork, s)
    BY <1>2, <1>3 DEF Settles
  <1> HIDE DEF s
  <1>5. Settles(s, f1) /\ f1 \in ForkContext
    BY <1>2, OnResponseSettles DEF Settles, Evolves
  <1>6. Settles(fork, f1)
    BY <1>1, <1>4, <1>5, SettlesTrans
  <1>7. fork' = f1 \/ \E failing : fork' = Start(f1, failing)
    BY DEF Response, s
  <1> HIDE DEF f1
  <1>8. Settles(fork, fork')
    BY <1>1, <1>5, <1>6, <1>7, StartSettles, SettlesTrans
  <1> QED BY <1>1, <1>8, SettlesHolds

(* The Router forgets the fork (onFinished), which has answered.           *)
LEMMA FinishTimerHolds ==
    ASSUME IInv, FinishTimer PROVE Holds(fork, fork')
  <1> DEFINE g == [fork EXCEPT !.finishTimer = FALSE]
  <1>1. fork \in ForkContext /\ fork.life # "destroyed" /\ ~fork.incoming
    BY DEF IInv, FinishTimer
  <1>2. g \in ForkContext
    BY Zenon, <1>1 DEF ForkContext
  <1>3. Evolves(fork, g) /\ ~g.finishTimer /\ ~g.incoming
    BY <1>1, <1>2, EvolvesFrame DEF ForkContext
  <1>4. PICK life \in {"released", "destroyed"} : fork' = [fork EXCEPT !.finishTimer = FALSE, !.life = life]
    BY Zenon DEF FinishTimer
  <1>5. fork' = [g EXCEPT !.life = life] /\ life \in Lives
    BY <1>1, <1>4 DEF ForkContext, Lives
  <1> HIDE DEF g
  <1>6. Holds(fork, g)
    BY <1>1, <1>3, SettlesHolds DEF Settles
  <1> QED BY <1>3, <1>5, <1>6, GoneHolds

(* The last announcements expire, of a fork that was dropped before.       *)
LEMMA AnnouncementsExpireHolds ==
    ASSUME IInv, AnnouncementsExpire PROVE Holds(fork, fork')
  <1>1. fork \in ForkContext /\ fork.life = "released" /\ ~fork.incoming
    BY DEF IInv, AnnouncementsExpire
  <1>2. Holds(fork, fork)
    BY <1>1, SettlesRefl, SettlesHolds
  <1>3. fork' = [fork EXCEPT !.life = "destroyed"] /\ "destroyed" \in Lives
    BY DEF AnnouncementsExpire, Lives
  <1> QED BY <1>1, <1>2, <1>3, GoneHolds

(* The injector lets a request go.                                         *)
LEMMA InjectHolds ==
    ASSUME IInv, NEW b \in Branches, Inject(b) PROVE Holds(fork, fork')
  <1>1. fork \in ForkContext /\ fork.life # "destroyed"
    BY DEF IInv, Inject
  <1>2. PICK failing \in BOOLEAN :
          LET f1 == IF failing THEN ProcessInternalError(SetOut(fork, {b}, "void")) ELSE PassOn(fork, {b})
          IN fork' = IF f1.life = "released" /\ ~Queued(f1) /\ ~Announced(f1)
                     THEN [f1 EXCEPT !.life = "destroyed"] ELSE f1
    BY Zenon DEF Inject
  <1> DEFINE void == SetOut(fork, {b}, "void")
             sent == PassOn(fork, {b})
             f1 == IF failing THEN ProcessInternalError(void) ELSE sent
  <1>3. fork' = f1 \/ (f1.life = "released" /\ fork' = [f1 EXCEPT !.life = "destroyed"])
    BY <1>2
  <1>4. "void" \in OutStates
    BY DEF OutStates
  <1>5. Settles(fork, void) /\ void \in ForkContext
    BY <1>1, <1>4, SetOutSettles DEF Settles, Evolves
  <1>6. Settles(fork, f1)
    <2>1. Settles(fork, sent)
      BY <1>1, PassOnSends DEF Settles, Transmits
    <2> HIDE DEF void, sent
    <2> QED BY <1>1, <1>5, <2>1, ProcessInternalErrorSettles, SettlesTrans
  <1> HIDE DEF f1
  <1>7. Holds(fork, f1)
    BY <1>1, <1>6, SettlesHolds
  <1>8. f1.life = "released" => ~f1.incoming
    BY <1>7 DEF Holds
  <1>9. "destroyed" \in Lives
    BY DEF Lives
  <1> QED BY <1>3, <1>7, <1>8, <1>9, GoneHolds

(* Every step of a basic fork.                                             *)
LEMMA NextHolds ==
    ASSUME IInv, Next PROVE Holds(fork, fork')
  <1>1. CASE \E b \in Branches, code \in ProvisionalCodes \cup FinalCodes : Response(b, code)
    BY Zenon, <1>1, ResponseHolds DEF Codes
  <1>2. CASE DecisionTimer
    <2>1. Settles(fork, fork') /\ fork.life # "destroyed"
      BY <1>2, FinishIncomingTransactionSettles DEF DecisionTimer, IInv
    <2> QED BY <2>1, SettlesHolds
  <1>3. CASE FinishTimer
    BY <1>3, FinishTimerHolds
  <1>4. CASE \E b \in Branches : Inject(b)
    BY <1>4, InjectHolds
  <1>5. CASE AnnouncementsExpire
    BY <1>5, AnnouncementsExpireHolds
  <1> QED BY <1>1, <1>2, <1>3, <1>4, <1>5 DEF Next

(* The fork routeRequest makes satisfies the invariant.                    *)
LEMMA InitInvariant ==
    ASSUME Init PROVE IInv /\ fork.life = "registered"
  <1>1. PICK cfg \in BasicConfigs, cs \in InitialContacts :
          \E failing : fork = Start(NewFork(cfg, TRUE, cs), failing)
    BY Zenon DEF Init
  <1>2. PICK n \in 1..MaxBranches : cs \in [1..n -> Contacts]
    BY BasicAssumption
  <1>3. cfg \in ForkContextConfig
    BY BasicAssumption
  <1> DEFINE f == NewFork(cfg, TRUE, cs)
  <1>4. f \in ForkContext /\ f.incoming /\ f.life = "registered" /\ ~f.finishTimer
    <2>1. ASSUME NEW t \in BOOLEAN
          PROVE  LET g == NewFork(cfg, t, cs)
                 IN g \in ForkContext /\ g.incoming /\ g.life = "registered" /\ ~g.finishTimer
      BY <1>2, <1>3, NewForkShape
    <2> QED BY Zenon, <2>1
  <1> HIDE DEF f
  <1>5. Settles(f, fork)
    BY Zenon, <1>1, <1>4, StartSettles DEF f
  <1>6. fork \in ForkContext /\ fork.life = "registered"
    BY <1>4, <1>5 DEF Settles, Evolves
  <1>7. fork.finishTimer => ~fork.incoming
    BY <1>4, <1>5 DEF Settles
  <1>8. ~fork.incoming => fork.lastSent >= 200
    BY <1>4, <1>5 DEF Settles, Evolves
  <1> QED BY <1>6, <1>7, <1>8 DEF IInv

(* ... which every step preserves.                                         *)
LEMMA StepInvariant ==
    ASSUME IInv, [Next]_vars PROVE IInv'
  <1>1. CASE UNCHANGED vars
    BY <1>1 DEF IInv, vars
  <1>2. CASE Next
    <2>1. Holds(fork, fork')
      BY <1>2, NextHolds
    <2>2. ~fork'.incoming => fork'.lastSent >= 200
      BY <2>1 DEF Holds, Moves, IInv
    <2> QED BY <2>1, <2>2 DEF IInv, Holds, Moves
  <1> QED BY <1>1, <1>2

(* A step of the fork is a step of ForkedRequest, or leaves it alone.      *)
LEMMA StepKeepsPromise ==
    ASSUME IInv, IInv', [Next]_vars PROVE [Promise!Next]_(Promise!vars)
  <1> DEFINE answer == IF fork.incoming THEN 0 ELSE fork.lastSent
             gone == fork.life = "destroyed"
  <1>1. CASE UNCHANGED vars
    BY <1>1 DEF vars, Promise!vars
  <1>2. CASE Next
    <2>1. Moves(fork, fork')
      BY <1>2, NextHolds DEF Holds
    <2>2. /\ fork.lastSent \in Codes /\ fork'.lastSent \in Codes
          /\ fork.incoming \in BOOLEAN /\ fork'.incoming \in BOOLEAN
      BY DEF IInv, ForkContext
    <2>3. ~gone
      BY <2>1 DEF Moves
    <2>4. CASE fork.incoming /\ fork'.incoming
      <3>1. ~gone' /\ answer' = answer
        BY <2>1, <2>4 DEF Moves
      <3> QED BY <2>3, <3>1 DEF Promise!vars
    <2>5. CASE fork.incoming /\ ~fork'.incoming
      <3>1. answer = 0 /\ answer' = fork'.lastSent /\ fork'.lastSent >= 200
        BY <2>1, <2>5 DEF Moves
      <3>2. answer' \in {c \in Codes : c >= 200}
        BY <2>2, <3>1
      <3>3. gone' \in BOOLEAN
        OBVIOUS
      <3> QED BY <2>3, <3>1, <3>2, <3>3 DEF Promise!Next, Promise!Answer, Promise!NoAnswer
    <2>6. CASE ~fork.incoming
      <3>1. answer' = answer /\ answer = fork.lastSent
        BY <2>1, <2>6 DEF Moves
      <3>2. answer # 0
        BY <2>2, <2>6, <3>1, CodesAreInts DEF IInv
      <3>3. CASE gone'
        BY <2>3, <3>1, <3>2, <3>3 DEF Promise!Next, Promise!Forget, Promise!NoAnswer
      <3>4. CASE ~gone'
        BY <2>3, <3>1, <3>4 DEF Promise!vars
      <3> QED BY <3>3, <3>4
    <2> QED BY <2>2, <2>4, <2>5, <2>6
  <1> QED BY <1>1, <1>2

(* A basic fork implements ForkedRequest: it is never given up before its  *)
(* sender has one final answer, by a contact, an internal error or the     *)
(* decision timer, although nothing but setFinished() sees to it.          *)
THEOREM BasicKeepsPromise == Spec => KeepsPromise
  <1>1. Init => Promise!Init
    <2> SUFFICES ASSUME Init PROVE Promise!Init
      OBVIOUS
    <2>1. IInv /\ fork.life # "destroyed"
      BY InitInvariant
    <2>2. fork.lastSent \in Codes
      BY <2>1 DEF IInv, ForkContext
    <2> QED BY <2>1, <2>2 DEF Promise!Init, Promise!NoAnswer, IInv
  <1>2. Init => IInv
    BY InitInvariant
  <1>3. IInv /\ [Next]_vars => IInv'
    BY StepInvariant
  <1>4. IInv /\ IInv' /\ [Next]_vars => [Promise!Next]_(Promise!vars)
    BY StepKeepsPromise
  <1> QED BY <1>1, <1>2, <1>3, <1>4, PTL DEF Spec, KeepsPromise, Promise!Spec

-----------------------------------------------------------------------------
(***************************************************************************)
(* The late forks of the Router: it listens to every topic it has a        *)
(* late fork for, for any number of topics and forks, and whatever happens *)
(* to the sessions (module LateForks).                                     *)
(***************************************************************************)
Listens == mForks \in [Topics -> Nat] /\ LateForksListen

(* The Router starts without forks.                                        *)
LEMMA InitListens == LateInit => Listens
  BY DEF LateInit, Listens, LateForksListen

(* Only the Router changes forks and listeners, and it gives a topic up    *)
(* when no fork is left (onContactRegistered).                             *)
LEMMA NextListens == Listens /\ [LateNext]_lateVars => Listens'
  <1> SUFFICES ASSUME Listens, [LateNext]_lateVars PROVE Listens'
    OBVIOUS
  <1> USE DEF Listens, LateForksListen
  <1>1. ASSUME NEW t \in Topics, NewLateFork(t) PROVE Listens'
    BY <1>1 DEF NewLateFork, SubscribeListener
  <1>2. ASSUME NEW t \in Topics, ForkFinished(t) PROVE Listens'
    BY <1>2 DEF ForkFinished
  <1>3. ASSUME NEW t \in Topics, Register(t) PROVE Listens'
    BY <1>3 DEF Register
  <1>4. ASSUME NEW t \in Topics, Fetched(t) PROVE Listens'
    <2>1. mForks' = mForks
      BY <1>4 DEF Fetched
    <2>2. \A u \in Topics : mForks[u] > 0 => u \in mContactListenersMap'
      BY <1>4 DEF Fetched, OnContactRegistered, UnsubscribeListener
    <2> QED BY <2>1, <2>2
  <1>5. ASSUME UNCHANGED <<mForks, mContactListenersMap>> PROVE Listens'
    BY <1>5
  <1>6. ASSUME NEW s \in Sessions, Connected(s) \/ Break(s) PROVE Listens'
    BY <1>5, <1>6 DEF Connected, Break, Router
  <1>7. CASE \/ ReplyArrives \/ Silence \/ KeepAliveTimer
             \/ ReconnectTimer \/ Second
    BY <1>5, <1>7 DEF ReplyArrives, Silence, KeepAliveTimer, ReconnectTimer,
                      Second, Router
  <1>8. CASE UNCHANGED lateVars
    BY <1>5, <1>8 DEF lateVars
  <1> QED BY <1>1, <1>2, <1>3, <1>4, <1>6, <1>7, <1>8 DEF LateNext

(* ModuleRouter::onContactRegistered gives up a topic only when no late    *)
(* fork is left for it, however long ago the record was asked for.         *)
THEOREM RouterListens == LateSpec => []LateForksListen
  <1>1. Listens => LateForksListen
    BY DEF Listens
  <1> QED BY <1>1, InitListens, NextListens, PTL DEF LateSpec
=============================================================================
