--------------------------- MODULE ScheduleInjector ---------------------------
(***************************************************************************)
(* The ScheduleInjector of the Router module: for one contact it keeps the *)
(* requests of the forks in the order in which the forks were announced    *)
(* (addContext), one list per message priority.  A request handed over by  *)
(* injectRequestEvent is parked in the context of its fork until nothing   *)
(* announced before it is still expected.                                  *)
(*                                                                         *)
(* The maps of the code are keyed by contactId and two contacts never      *)
(* share anything, so the module is the part of the maps that belongs to   *)
(* one contact.  Time is counted in ticks: a context is expired when it is *)
(* older than RetentionTime (InjectContext::sMaxRequestRetentionTime).     *)
(*                                                                         *)
(* The callers are the Router's: it announces a fork, and later, for that  *)
(* announcement, either hands over a request (dispatch), or withdraws      *)
(* (useless register), or does nothing (the request is still being loaded  *)
(* from the database, or waits in a branch of lower priority).             *)
(***************************************************************************)
EXTENDS Integers, Sequences, FiniteSets, SequencesExt

CONSTANTS
    Forks,          \* fork contexts that target this contact
    ForkPriority,   \* [Forks -> 0..3], ForkContext::getMsgPriority
    RetentionTime,  \* ticks a context may block the others
    MaxPerFork,     \* bound: requests and open announcements per fork
    MaxAnnounced    \* bound: addContext calls

Priorities == 0..3  \* MsgSipPriority: NonUrgent, Normal, Urgent, Emergency

ASSUME InjectorAssumption ==
    /\ ForkPriority \in [Forks -> Priorities]
    /\ RetentionTime \in Nat
    /\ MaxPerFork \in [Forks -> Nat]
    /\ MaxAnnounced \in Nat

NoEvent == 0        \* the null waitForInject

VARIABLES
    contexts,   \* [Priorities -> Seq(InjectContext)]: the four maps at this contact
    mapped,     \* priorities whose map has an entry for this contact
    announced,  \* history: number of addContext calls, the id of the next context
    owed,       \* [Forks -> Nat]: announcements the Router has not followed up
    submitted,  \* [Forks -> Nat]: requests handed over so far, the last one's number
    injected    \* history: what reached Module::injectRequestEvent, in order

vars == <<contexts, mapped, announced, owed, submitted, injected>>

(* An InjectContext.  "id" (the rank of its addContext call) is history.   *)
InjectContext ==
    [id : 1..MaxAnnounced, fork : Forks, waitForInject : Nat, age : 0..(RetentionTime + 1)]

MakeContext(f, i) == [id |-> i, fork |-> f, waitForInject |-> NoEvent, age |-> 0]

IsExpired(ctx) == ctx.age > RetentionTime

-----------------------------------------------------------------------------
(***************************************************************************)
(* startInject(contactId), on a value cs of the lists.  Each list loses    *)
(* its longest prefix of contexts that hold a request or are expired; the  *)
(* lists are visited from the highest priority down to the first one that  *)
(* is left non-empty.                                                      *)
(***************************************************************************)
Blocks(ctx) == ctx.waitForInject = NoEvent /\ ~IsExpired(ctx)

FirstBlocked(list) ==
    LET blocked == {i \in DOMAIN list : Blocks(list[i])}
    IN IF blocked = {} THEN Len(list) + 1
       ELSE CHOOSE i \in blocked : \A j \in blocked : i <= j

Popped(list) == SubSeq(list, 1, FirstBlocked(list) - 1)
Kept(list)   == SubSeq(list, FirstBlocked(list), Len(list))

(* Mutation: the scan goes on below a priority that is still blocked.      *)
MutReached(cs, p) == TRUE

Reached(cs, p) == \A q \in Priorities : q > p => Kept(cs[q]) = <<>>

StartInjectLists(cs) ==
    [p \in Priorities |-> IF Reached(cs, p) THEN Kept(cs[p]) ELSE cs[p]]

(* Mutation: expiry is tested before the parked request is looked at.      *)
MutReleased(cs, p) ==
    LET HoldsRequest(ctx) == ~IsExpired(ctx) /\ ctx.waitForInject # NoEvent
    IN IF Reached(cs, p) THEN SelectSeq(Popped(cs[p]), HoldsRequest) ELSE <<>>

Released(cs, p) ==
    LET HoldsRequest(ctx) == ctx.waitForInject # NoEvent
    IN IF Reached(cs, p) THEN SelectSeq(Popped(cs[p]), HoldsRequest) ELSE <<>>

(* An entry of "injected": which request, from which announcement (0 when  *)
(* it did not go through a list), its priority, and how many announcements *)
(* had been made by then.                                                  *)
Handed(f, n, i) == [fork |-> f, event |-> n, id |-> i, priority |-> ForkPriority[f], at |-> announced]

StartInjectEvents(cs) ==
    LET entry(ctx) == Handed(ctx.fork, ctx.waitForInject, ctx.id)
        of(p) == LET s == Released(cs, p)
                 IN [i \in DOMAIN s |-> entry(s[i])]
    IN of(3) \o of(2) \o of(1) \o of(0)

-----------------------------------------------------------------------------
Init ==
    /\ contexts = [p \in Priorities |-> <<>>]
    /\ mapped = {}
    /\ announced = 0
    /\ owed = [f \in Forks |-> 0]
    /\ submitted = [f \in Forks |-> 0]
    /\ injected = <<>>

(* addContext(fork, contactId): purge, then append a context for the fork. *)
(* The overload for a vector of forks purges once and appends them all; as *)
(* a fresh context blocks its list, it equals one call per fork.           *)
AddContext(f) ==
    LET p == ForkPriority[f]
        cs == StartInjectLists(contexts)
    IN /\ owed[f] + submitted[f] < MaxPerFork[f]
       /\ announced < MaxAnnounced
       /\ injected' = injected \o StartInjectEvents(contexts)
       /\ contexts' = [cs EXCEPT ![p] = Append(@, MakeContext(f, announced + 1))]
       /\ mapped' = mapped \cup {p}
       /\ announced' = announced + 1
       /\ owed' = [owed EXCEPT ![f] = @ + 1]
       /\ UNCHANGED submitted

(* The first context of the fork in its list, 0 when it has none.          *)
FirstContextOf(list, f) ==
    LET mine == {i \in DOMAIN list : list[i].fork = f}
    IN IF mine = {} THEN 0 ELSE CHOOSE i \in mine : \A j \in mine : i <= j

(* injectRequestEvent(ev, fork, contactId): the request of a dispatched    *)
(* branch.  With no entry in the map, or no context of the fork in the     *)
(* list, it is sent at once, out of order.                                 *)
InjectRequestEvent(f) ==
    LET p == ForkPriority[f]
        n == submitted[f] + 1
        i == FirstContextOf(contexts[p], f)
        cs == [contexts EXCEPT ![p][i].waitForInject = n]
        direct == injected \o <<Handed(f, n, 0)>>
    IN /\ owed[f] > 0
       /\ owed' = [owed EXCEPT ![f] = @ - 1]
       /\ submitted' = [submitted EXCEPT ![f] = n]
       /\ \/ /\ p \notin mapped
             /\ injected' = direct
             /\ UNCHANGED contexts
          \/ /\ p \in mapped /\ i = 0
             /\ injected' = direct \o StartInjectEvents(contexts)
             /\ contexts' = StartInjectLists(contexts)
          \/ /\ p \in mapped /\ i # 0
             /\ injected' = injected \o StartInjectEvents(cs)
             /\ contexts' = StartInjectLists(cs)
       /\ UNCHANGED <<mapped, announced>>

(* Mutation: removeContext without its trailing startInject.               *)
MutRemoveContext(f) ==
    LET p == ForkPriority[f]
        i == FirstContextOf(contexts[p], f)
    IN /\ owed[f] > 0
       /\ owed' = [owed EXCEPT ![f] = @ - 1]
       /\ contexts' = IF p \in mapped /\ i # 0 THEN [contexts EXCEPT ![p] = RemoveAt(@, i)]
                      ELSE contexts
       /\ UNCHANGED <<mapped, announced, submitted, injected>>

(* removeContext(fork, contactId): the fork has nothing for this register. *)
RemoveContext(f) ==
    LET p == ForkPriority[f]
        i == FirstContextOf(contexts[p], f)
        cs == IF p \in mapped /\ i # 0 THEN [contexts EXCEPT ![p] = RemoveAt(@, i)]
              ELSE contexts
    IN /\ owed[f] > 0
       /\ owed' = [owed EXCEPT ![f] = @ - 1]
       /\ injected' = injected \o StartInjectEvents(cs)
       /\ contexts' = StartInjectLists(cs)
       /\ UNCHANGED <<mapped, announced, submitted>>

(* steady_clock advances by one tick; nothing else happens: no timer calls *)
(* startInject.                                                            *)
Tick ==
    LET Older(ctx) == [ctx EXCEPT !.age = IF @ > RetentionTime THEN @ ELSE @ + 1]
    IN /\ contexts' = [p \in Priorities |-> [i \in DOMAIN contexts[p] |-> Older(contexts[p][i])]]
       /\ contexts' # contexts
       /\ UNCHANGED <<mapped, announced, owed, submitted, injected>>

Next ==
    \/ \E f \in Forks : AddContext(f) \/ InjectRequestEvent(f) \/ RemoveContext(f)
    \/ Tick

Spec == Init /\ [][Next]_vars
-----------------------------------------------------------------------------
Waiting(f, n) == \E i \in DOMAIN contexts[ForkPriority[f]] :
    LET ctx == contexts[ForkPriority[f]][i] IN ctx.fork = f /\ ctx.waitForInject = n

(* Ordering (schedule-injector.hh, class comment): a request that went     *)
(* through its context never overtook a context still expected: nothing    *)
(* announced earlier at its priority is left in the list, and whatever is  *)
(* left at a higher priority was announced after the injection.            *)
NothingOvertaken ==
    \A k \in DOMAIN injected : injected[k].id # 0 =>
        \A q \in Priorities : \A i \in DOMAIN contexts[q] :
            /\ q = injected[k].priority => contexts[q][i].id > injected[k].id
            /\ q > injected[k].priority => contexts[q][i].id > injected[k].at

(* Injection is work-conserving: between two calls no request is parked    *)
(* at the head of its list unless a higher priority is still expected.     *)
NoIdleHead ==
    \A p \in Priorities :
        contexts[p] # <<>> /\ Head(contexts[p]).waitForInject # NoEvent
            => \E q \in Priorities : q > p /\ contexts[q] # <<>>

(* A request handed over is parked in a context or was injected, once.     *)
IsKept(f, n) ==
    LET out == {k \in DOMAIN injected : injected[k].fork = f /\ injected[k].event = n}
    IN IF Waiting(f, n) THEN out = {} ELSE Cardinality(out) = 1

(* A fork with one announcement at a time (injectRequestEvent and          *)
(* removeContext then cannot mistake its contexts) loses no request and    *)
(* has none sent twice, whatever expires and whatever other forks do.      *)
KeptWhenAnnouncedOnce ==
    \A f \in Forks : MaxPerFork[f] = 1 => \A n \in 1..submitted[f] : IsKept(f, n)
=============================================================================
