--------------------------- MODULE RegistrarDbRedis ---------------------------
(***************************************************************************)
(* RegistrarDbRedisAsync: proxies that share one Redis server register     *)
(* contacts for one address of record.  A bind reads the hash of the       *)
(* record (HGETALL), applies the REGISTER to the contacts it read, and     *)
(* sends the difference back in a transaction (MULTI, HDEL, HMSET,         *)
(* EXPIREAT, EXEC), which it repeats, some seconds later, when it fails.   *)
(* Nothing locks the record in between.                                    *)
(* Removing all contacts (Clear) is one command, DEL.                      *)
(*                                                                         *)
(* The commands of a proxy go through one connection: the server executes  *)
(* them, and their callbacks are called, in the order they were sent.  A   *)
(* read and its callback are one step, as the commands that overtake the   *)
(* reply can equally well have been sent before the read.  When the        *)
(* connection breaks, the server may have executed the first of the        *)
(* commands that were not answered.                                        *)
(***************************************************************************)
EXTENDS Record

CONSTANTS
    Proxies,
    UAs,            \* user agents; one Call-ID each
    Patient,        \* the ones that wait for an answer before they register again
    Via,            \* [UAs -> SUBSET Proxies]: the proxies they send their REGISTERs to
    Offers,         \* [UAs -> sets of [contacts, lifetime]]: what they may register, a sequence of
                    \* [key, uri, push], and for how long; 0 to unregister
    NoKey,          \* no unique id
    Clearing,       \* the ones that may remove all contacts ("Contact: *")
    Stored,         \* the contacts Redis may hold at the start
    MaxOps,         \* bound: REGISTERs
    MaxOpen,        \* bound: REGISTERs under way at a time
    MaxTime,        \* bound: the clock
    MaxBreaks       \* bound: failures of connections and commands

ASSUME RedisAssumption ==
    /\ Patient \subseteq UAs /\ Clearing \subseteq UAs
    /\ \A u \in UAs : Via[u] \subseteq Proxies
    /\ \A u \in UAs : \A offer \in Offers[u] : offer.lifetime \in Nat
    /\ {MaxOps, MaxOpen, MaxTime, MaxBreaks} \subseteq Nat

MaxRetries == 2

VARIABLES
    now,        \* getCurrentTime()
    rows,       \* the hash in Redis: a set of contacts, one per key
    expireAt,   \* when Redis drops the hash
    up,         \* [Proxies -> BOOLEAN]: there is a session ready for commands
    pipe,       \* [Proxies -> Seq(Ops)]: the commands sent and not answered
    ops,        \* the REGISTERs so far, each with its RedisRegisterContext
    cseq,       \* the last CSeq of each user agent
    breaks      \* failures so far

vars == <<now, rows, expireAt, up, pipe, ops, cseq, breaks>>

Ops == 1..MaxOps

Open == {n \in DOMAIN ops : ops[n].stage # "done"}

Max0(S) == IF S = {} THEN 0 ELSE CHOOSE x \in S : \A y \in S : y <= x

Init ==
    /\ now = 0
    /\ rows \in Stored /\ expireAt = Max0({c.until : c \in rows})
    /\ up = [p \in Proxies |-> TRUE]
    /\ pipe = [p \in Proxies |-> <<>>]
    /\ ops = <<>>
    /\ cseq = [u \in UAs |-> 0]
    /\ breaks = 0

----------------------------------------------------------------------------
(* The listener of a bind is called back and the context is given up. *)
Answered(op, reply) ==
    [op EXCEPT !.stage = "done", !.replies = Append(@, reply),
               !.read = {}, !.record = {}, !.mDelete = {}, !.mUpsert = {}, !.expireAt = 0, !.mRetryCount = 0]

(* Without a session the listener is forgotten. *)
MutSends(op, p) == IF up[p] THEN [op EXCEPT !.stage = "exec"] ELSE [op EXCEPT !.stage = "idle"]

(* serializeAndSendToRedis *)
Sends(op, p) == IF up[p] THEN [op EXCEPT !.stage = "exec"] ELSE Answered(op, "error")

(* The contacts of a REGISTER, made when the read is answered.  A contact  *)
(* without a unique id gets a fresh placeholder.                           *)
ExtendedContacts(n, op) ==
    [i \in DOMAIN op.offer |->
        [key |-> IF op.offer[i].key = NoKey THEN <<"fs-gen", n, i>> ELSE <<"id", op.offer[i].key, 0>>,
         gen |-> op.offer[i].key = NoKey,
         uri |-> op.offer[i].uri, push |-> op.offer[i].push,
         callId |-> op.ua, cseq |-> op.cseq, time |-> now, until |-> now + op.lifetime]]

(* HGETALL returns the contacts in no particular order; the record orders  *)
(* them by time.                                                           *)
Orders(S) == {s \in SetToSeqs(S) : \A i, j \in DOMAIN s : i < j => s[i].time <= s[j].time}

(* HMSET, then HDEL. *)
MutReplays(R, op) ==
    {{c \in R \cup op.mUpsert : /\ \A d \in op.mDelete : d.key # c.key
                              /\ c \in R => \A d \in op.mUpsert : d.key # c.key}}

(* HDEL, then HMSET.  Of two contacts with one key in mUpsert the last one *)
(* stays, and their order is that of their addresses in memory.            *)
Replays(R, op) ==
    LET kept == {c \in R : \A d \in op.mDelete \cup op.mUpsert : d.key # c.key}
    IN {kept \cup S : S \in {T \in SUBSET op.mUpsert :
                               /\ {c.key : c \in T} = {c.key : c \in op.mUpsert}
                               /\ \A c, d \in T : c.key = d.key => c = d}}

----------------------------------------------------------------------------
(* A command is sent, or an error reported when there is no session. *)
Sent(u, p, offer, lifetime, stage) ==
    LET op == [ua |-> u, proxy |-> p, offer |-> offer, lifetime |-> lifetime,
               cseq |-> cseq[u] + 1, stage |-> stage, read |-> {}, record |-> {},
               mDelete |-> {}, mUpsert |-> {}, expireAt |-> 0,
               mRetryCount |-> 0, replies |-> <<>>]
    IN /\ Len(ops) < MaxOps /\ Cardinality(Open) < MaxOpen
       /\ u \in Patient => \A n \in DOMAIN ops : ops[n].ua = u => ops[n].replies # <<>>
       /\ ops' = Append(ops, IF up[p] THEN op ELSE Answered(op, "error"))
       /\ pipe' = IF up[p] THEN [pipe EXCEPT ![p] = Append(@, Len(ops) + 1)] ELSE pipe
       /\ cseq' = [cseq EXCEPT ![u] = @ + 1]
       /\ UNCHANGED <<now, rows, expireAt, up, breaks>>

(* doBind: HGETALL. *)
Bind(u, p) ==
    \E offer \in Offers[u] :
        /\ offer.lifetime > 0 => Len(offer.contacts) <= mMaxContacts   \* RegistrarDb::bind refuses more
        /\ Sent(u, p, offer.contacts, offer.lifetime, "read")

(* doClear: DEL. *)
Clear(u, p) == u \in Clearing /\ Sent(u, p, <<>>, 0, "clear")

(* The callback of HGETALL: the record is made from the rows that have not *)
(* expired, updated, and the changes are sent.                             *)
Updated(n, op, contacts) ==
    LET u == Update(contacts, ExtendedContacts(n, op), now)
    IN IF u.invalid THEN Answered(op, "invalid")
       ELSE Sends([op EXCEPT
                     !.read = rows,
                     !.record = ToSet(u.contacts),
                     !.mDelete = u.mDelete \cup {c \in rows : IsExpired(c, now)},
                     !.mUpsert = u.mUpsert,
                     !.expireAt = Max0({c.until : c \in ToSet(u.contacts)})], op.proxy)

Read(p) ==
    LET n == Head(pipe[p])
    IN /\ pipe[p] # <<>> /\ ops[n].stage = "read"
       /\ \E contacts \in Orders({c \in rows : ~IsExpired(c, now)}) :
            LET op == Updated(n, ops[n], contacts)
            IN /\ ops' = [ops EXCEPT ![n] = op]
               /\ pipe' = [pipe EXCEPT ![p] = IF op.stage = "exec" THEN Append(Tail(@), n) ELSE Tail(@)]
       /\ UNCHANGED <<now, rows, expireAt, up, cseq, breaks>>

(* What the server makes of a transaction; EXPIREAT of a time that has     *)
(* come deletes the hash at once.                                          *)
Executions(db, op) ==
    {[rows |-> IF op.expireAt <= now THEN {} ELSE R, expireAt |-> op.expireAt] : R \in Replays(db.rows, op)}

Executed(dbs) == \E db \in dbs : rows' = db.rows /\ expireAt' = db.expireAt

Redis == [rows |-> rows, expireAt |-> expireAt]

(* handleBind: the answer is an array. *)
Exec(p) ==
    LET n == Head(pipe[p])
    IN /\ pipe[p] # <<>> /\ ops[n].stage = "exec"
       /\ Executed(Executions(Redis, ops[n]))
       /\ ops' = [ops EXCEPT ![n] = Answered(@, "found")]
       /\ pipe' = [pipe EXCEPT ![p] = Tail(@)]
       /\ UNCHANGED <<now, up, cseq, breaks>>

(* handleClear: 500 when there was nothing to delete. *)
Cleared(p) ==
    LET n == Head(pipe[p])
    IN /\ pipe[p] # <<>> /\ ops[n].stage = "clear"
       /\ rows' = {} /\ expireAt' = 0
       /\ ops' = [ops EXCEPT ![n] = Answered(@, IF rows # {} THEN "found" ELSE "error")]
       /\ pipe' = [pipe EXCEPT ![p] = Tail(@)]
       /\ UNCHANGED <<now, up, cseq, breaks>>

(* The failure is reported, and tried again all the same. *)
MutHandleBindFailure(op) ==
    IF op.mRetryCount < MaxRetries
      THEN [op EXCEPT !.mRetryCount = @ + 1, !.stage = "timer", !.replies = Append(@, "error")]
      ELSE Answered(op, "error")

(* handleBind: anything else.  The bind is tried again when the timer      *)
(* fires, at most twice.                                                   *)
HandleBindFailure(op) ==
    IF op.mRetryCount < MaxRetries
      THEN [op EXCEPT !.mRetryCount = @ + 1, !.stage = "timer"]
      ELSE Answered(op, "error")

(* The callback of a command whose answer is an error or a disconnection.  *)
Failed(op) == IF op.stage = "exec" THEN HandleBindFailure(op) ELSE Answered(op, "error")

(* The server refuses a command. *)
Refuse(p) ==
    LET n == Head(pipe[p])
    IN /\ pipe[p] # <<>> /\ breaks < MaxBreaks
       /\ breaks' = breaks + 1
       /\ \/ ops' = [ops EXCEPT ![n] = Failed(@)]
          \/ /\ ops[n].stage = "clear"   \* handleClear: READONLY, onRecordFound(nullptr)
             /\ ops' = [ops EXCEPT ![n] = Answered(@, "null")]
       /\ pipe' = [pipe EXCEPT ![p] = Tail(@)]
       /\ UNCHANGED <<now, rows, expireAt, up, cseq>>

(* sBindRetry *)
Retry(n) ==
    /\ n \in Open /\ ops[n].stage = "timer"
    /\ LET p == ops[n].proxy
           op == Sends(ops[n], p)
       IN /\ ops' = [ops EXCEPT ![n] = op]
          /\ pipe' = IF op.stage = "exec" THEN [pipe EXCEPT ![p] = Append(@, n)] ELSE pipe
    /\ UNCHANGED <<now, rows, expireAt, up, cseq, breaks>>

(* The connection of a proxy breaks: the callbacks of all commands that    *)
(* wait are called with a disconnection, and the server has executed the   *)
(* first k of them.                                                        *)
Disconnect(p) ==
    LET Step(dbs, n) == CASE ops[n].stage = "exec" -> UNION {Executions(db, ops[n]) : db \in dbs}
                          [] ops[n].stage = "clear" -> {[rows |-> {}, expireAt |-> 0]}
                          [] OTHER -> dbs
    IN /\ up[p] /\ breaks < MaxBreaks
       /\ breaks' = breaks + 1
       /\ up' = [up EXCEPT ![p] = FALSE]
       /\ \E k \in 0..Len(pipe[p]) : Executed(FoldLeft(Step, {Redis}, SubSeq(pipe[p], 1, k)))
       /\ ops' = [n \in DOMAIN ops |-> IF n \in ToSet(pipe[p]) THEN Failed(ops[n]) ELSE ops[n]]
       /\ pipe' = [pipe EXCEPT ![p] = <<>>]
       /\ UNCHANGED <<now, cseq>>

(* RedisClient::tryReconnect *)
Reconnect(p) ==
    /\ ~up[p]
    /\ up' = [up EXCEPT ![p] = TRUE]
    /\ UNCHANGED <<now, rows, expireAt, pipe, ops, cseq, breaks>>

(* Time passes; Redis drops the hash at expireAt. *)
Tick ==
    /\ now < MaxTime
    /\ now' = now + 1
    /\ rows' = IF expireAt <= now + 1 THEN {} ELSE rows
    /\ UNCHANGED <<expireAt, up, pipe, ops, cseq, breaks>>

Next ==
    \/ \E u \in UAs : \E p \in Via[u] : Bind(u, p) \/ Clear(u, p)
    \/ \E p \in Proxies : Read(p) \/ Exec(p) \/ Cleared(p) \/ Refuse(p) \/ Disconnect(p) \/ Reconnect(p)
    \/ \E n \in Ops : Retry(n)
    \/ Tick

(* The first command that waits is answered, by the server or by a         *)
(* disconnection; retry timers fire.                                       *)
Served(p) == pipe[p] # <<>> /\ ops'[Head(pipe[p])].stage # ops[Head(pipe[p])].stage

Fairness ==
    /\ \A p \in Proxies : []<>(pipe[p] = <<>>) \/ []<><<Served(p)>>_vars
    /\ \A n \in Ops : []<>(n \notin DOMAIN ops \/ ops[n].stage # "timer")

Spec == Init /\ [][Next]_vars /\ Fairness

----------------------------------------------------------------------------
(* handleFetch: the rows are inserted one by one, those that throw are     *)
(* skipped.                                                                *)
HandleFetch(order) ==
    LET Insert(cs, c) == IF IsExpired(c, now) THEN cs ELSE InsertOrUpdateBinding(cs, c, now).contacts
    IN FoldLeft(Insert, <<>>, order)

----------------------------------------------------------------------------
(* Properties. *)

(* The listener of a bind is called back at most once, whatever happens to *)
(* the read, the transaction and its repetitions: a REGISTER never gets    *)
(* two answers, and none before its context is given up.                   *)
BindAnsweredOnce ==
    \A n \in DOMAIN ops :
        /\ Len(ops[n].replies) = IF ops[n].stage = "done" THEN 1 ELSE 0
        /\ (ops[n].stage \in {"read", "exec", "clear"}) <=> (n \in ToSet(pipe[ops[n].proxy]))

Clashes(c, d) == c # d /\ (SamePush(c, d) \/ (c.gen /\ d.gen /\ c.uri = d.uri))

(* A transaction that nothing overtook since its read leaves in Redis      *)
(* exactly the record that is reported: no row that matches a registered   *)
(* contact survives beside it, and the limit holds (for REGISTERs whose    *)
(* contacts do not replace each other).  handleFetch() relies on it for    *)
(* what concurrent REGISTERs leave behind: "This situation will be         *)
(* resolved on the next bind".                                             *)
BindResolves ==
    \A n \in DOMAIN ops :
        (ops[n].stage \in {"exec", "timer"} /\ rows = ops[n].read) =>
            /\ Replays(rows, ops[n]) = {ops[n].record}
            /\ Cardinality(ops[n].record) <= mMaxContacts
            /\ \A c \in ops[n].mUpsert, d \in ops[n].record : ~Clashes(c, d)

MostOffered == Max0({Len(offer.contacts) : offer \in UNION {Offers[u] : u \in UAs}})

(* However binds interleave, an address of record never has more rows than *)
(* the limit and, for each other REGISTER that was under way, the contacts *)
(* of one: each bind applies the limit to what it read.                    *)
OvershootBounded == Cardinality(rows) <= mMaxContacts + (MaxOpen - 1) * MostOffered

(* A REGISTER concerns the addresses it names, one for "*" all of them. *)
Concerns(op, uri) == op.offer = <<>> \/ \E i \in DOMAIN op.offer : op.offer[i].uri = uri

Acknowledged(u, uri) ==
    Max0({ops[n].cseq : n \in {m \in DOMAIN ops : /\ ops[m].ua = u /\ Concerns(ops[m], uri)
                                                 /\ ops[m].replies = <<"found">>}})

(* A user agent that waits for its answers never has a binding of an       *)
(* address older than the last REGISTER for it that was acknowledged, even *)
(* one that unregisters: a transaction repeated late never undoes a later  *)
(* REGISTER.                                                               *)
NoStaleBinding ==
    \A c \in rows : c.callId \in Patient => c.cseq >= Acknowledged(c.callId, c.uri)

(* What a fetch returns never holds two contacts without unique id for one *)
(* address, whatever concurrent binds left behind and in whatever order    *)
(* Redis returns it.                                                       *)
FetchIsClean ==
    \A order \in SetToSeqs(rows) :
        LET found == ToSet(HandleFetch(order))
        IN \A c, d \in found : c # d => ~(c.gen /\ d.gen /\ c.uri = d.uri)

(* Every REGISTER is answered. *)
BindAnswered == \A n \in Ops : (n \in DOMAIN ops) ~> (n \in DOMAIN ops /\ ops[n].stage = "done")
=============================================================================
