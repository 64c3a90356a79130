------------------------ MODULE RegistrarDbRedisProofs ------------------------
(***************************************************************************)
(* A REGISTER is answered once, for any number of proxies, user agents,    *)
(* REGISTERs and failures, and whatever the record makes of the contacts.  *)
(* The invariant that the steps preserve adds that a command waits on the  *)
(* connection of its own proxy, once.                                      *)
(***************************************************************************)
EXTENDS RegistrarDbRedis, SequenceTheorems, TLAPS

Distinct(s) == \A i, j \in DOMAIN s : s[i] = s[j] => i = j

Fields == {"ua", "proxy", "offer", "lifetime", "cseq", "stage", "read", "record",
           "mDelete", "mUpsert", "expireAt", "mRetryCount", "replies"}

Waiting == {"read", "exec", "clear"}

(* One REGISTER: it has an answer when its context is given up, not before. *)
Consistent(op) ==
    /\ op = [f \in Fields |-> op[f]]
    /\ op.proxy \in Proxies
    /\ op.stage \in Waiting \cup {"timer", "done"}
    /\ op.stage = "done" => Len(op.replies) = 1
    /\ op.stage # "done" => op.replies = <<>>

(* The commands that wait on the connection of p are those of its REGISTERs *)
(* that wait for an answer, each once.                                     *)
Pipelined ==
    /\ pipe \in [Proxies -> Seq(Nat)]
    /\ \A p \in Proxies :
        /\ Distinct(pipe[p])
        /\ ToSet(pipe[p]) = {n \in DOMAIN ops : ops[n].proxy = p /\ ops[n].stage \in Waiting}

IInv ==
    /\ ops \in Seq(ToSet(ops))
    /\ \A n \in DOMAIN ops : Consistent(ops[n])
    /\ Pipelined

-----------------------------------------------------------------------------
(* A function on 1..k is a sequence.                                       *)
LEMMA IsSequence ==
    ASSUME NEW S, NEW k \in Nat, NEW f, f = [i \in 1..k |-> f[i]], \A i \in 1..k : f[i] \in S
    PROVE  f \in Seq(S)
  <1>1. f \in [1..k -> S]
    OBVIOUS
  <1> QED BY <1>1, SeqDef

(* A command is sent last.                                                 *)
LEMMA AppendItems ==
    ASSUME NEW S, NEW s \in Seq(S), NEW e \in S, e \notin ToSet(s), Distinct(s)
    PROVE  /\ Append(s, e) \in Seq(S)
           /\ ToSet(Append(s, e)) = ToSet(s) \cup {e}
           /\ Distinct(Append(s, e))
  <1>1. /\ Append(s, e) \in Seq(S)
        /\ Len(Append(s, e)) = Len(s) + 1 /\ Len(s) \in Nat
        /\ DOMAIN s = 1..Len(s) /\ DOMAIN Append(s, e) = 1..(Len(s) + 1)
        /\ Append(s, e)[Len(s) + 1] = e
    OBVIOUS
  <1>2. \A i \in 1..Len(s) : Append(s, e)[i] = s[i]
    OBVIOUS
  <1>3. \A i \in 1..(Len(s) + 1) : i \in 1..Len(s) \/ i = Len(s) + 1
    BY <1>1
  <1>4. ToSet(Append(s, e)) = ToSet(s) \cup {e}
    BY <1>1, <1>2, <1>3 DEF ToSet
  <1>5. Distinct(Append(s, e))
    BY <1>1, <1>2, <1>3 DEF ToSet, Distinct
  <1> QED BY <1>1, <1>4, <1>5

(* The first command is answered.                                          *)
LEMMA TailItems ==
    ASSUME NEW S, NEW s \in Seq(S), s # <<>>, Distinct(s)
    PROVE  /\ Head(s) \in ToSet(s) /\ Tail(s) \in Seq(S)
           /\ ToSet(Tail(s)) = ToSet(s) \ {Head(s)}
           /\ Distinct(Tail(s))
  <1>1. /\ Len(s) \in Nat \ {0} /\ DOMAIN s = 1..Len(s) /\ Tail(s) \in Seq(S)
        /\ DOMAIN Tail(s) = 1..(Len(s) - 1) /\ Head(s) = s[1] /\ s[1] \in S
    OBVIOUS
  <1>2. \A i \in 1..(Len(s) - 1) : Tail(s)[i] = s[i + 1] /\ i + 1 \in 1..Len(s)
    BY <1>1
  <1>3. Head(s) \in ToSet(s)
    BY <1>1 DEF ToSet
  <1>4. ToSet(Tail(s)) \subseteq ToSet(s) \ {Head(s)}
    BY <1>1, <1>2 DEF ToSet, Distinct
  <1>5. ASSUME NEW x \in ToSet(s) \ {Head(s)}
        PROVE  x \in ToSet(Tail(s))
    <2>1. PICK i \in 1..Len(s) : x = s[i]
      BY <1>1 DEF ToSet
    <2>2. i # 1 /\ i - 1 \in 1..(Len(s) - 1)
      BY <1>1, <2>1
    <2>3. Tail(s)[i - 1] = s[i]
      BY <1>2, <2>2
    <2> QED BY Zenon, <1>1, <2>1, <2>2, <2>3 DEF ToSet
  <1>6. Distinct(Tail(s))
    BY <1>1, <1>2 DEF Distinct
  <1> QED BY <1>1, <1>3, <1>4, <1>5, <1>6

-----------------------------------------------------------------------------
(* The answers of a REGISTER.                                              *)

(* Calling the listener back ends a bind that was not answered.            *)
LEMMA AnsweredConsistent ==
    ASSUME NEW op, Consistent(op), op.stage # "done", NEW reply
    PROVE  /\ Consistent(Answered(op, reply))
           /\ Answered(op, reply).stage = "done" /\ Answered(op, reply).proxy = op.proxy
  <1>1. DOMAIN op = Fields /\ op.replies = <<>>
    BY DEF Consistent
  <1>2. DOMAIN Answered(op, reply) = Fields
    BY <1>1 DEF Answered
  <1>3. Answered(op, reply) = [f \in Fields |-> Answered(op, reply)[f]]
    BY Zenon, <1>1, <1>2 DEF Answered
  <1>4. Answered(op, reply).stage = "done" /\ Answered(op, reply).proxy = op.proxy
    BY <1>1 DEF Answered, Fields
  <1>5. Answered(op, reply).replies = Append(op.replies, reply)
    BY <1>1 DEF Answered, Fields
  <1>6. Len(Append(<<>>, reply)) = 1
    OBVIOUS
  <1> QED BY Zenon, <1>1, <1>3, <1>4, <1>5, <1>6 DEF Consistent

(* The transaction is sent, or the bind fails for want of a session.       *)
LEMMA SendsConsistent ==
    ASSUME NEW op, Consistent(op), op.stage # "done", NEW p
    PROVE  /\ Consistent(Sends(op, p))
           /\ Sends(op, p).stage \in {"exec", "done"} /\ Sends(op, p).proxy = op.proxy
  <1>1. CASE ~up[p]
    BY <1>1, AnsweredConsistent DEF Sends
  <1>2. CASE up[p]
    <2>1. DOMAIN op = Fields /\ Sends(op, p) = [op EXCEPT !.stage = "exec"]
      BY <1>2 DEF Consistent, Sends
    <2>2. DOMAIN Sends(op, p) = Fields /\ Sends(op, p) = [f \in Fields |-> Sends(op, p)[f]]
      BY <2>1
    <2>3. Sends(op, p).stage = "exec" /\ Sends(op, p).proxy = op.proxy /\ Sends(op, p).replies = op.replies
      BY <2>1 DEF Fields
    <2> QED BY <2>2, <2>3 DEF Consistent, Waiting
  <1> QED BY <1>1, <1>2

(* The reply to HGETALL: the record is updated and sent, or the CSeq is    *)
(* refused.                                                                *)
LEMMA UpdatedConsistent ==
    ASSUME NEW op, Consistent(op), op.stage # "done", NEW n, NEW contacts
    PROVE  /\ Consistent(Updated(n, op, contacts))
           /\ Updated(n, op, contacts).stage \in {"exec", "done"}
           /\ Updated(n, op, contacts).proxy = op.proxy
  <1> DEFINE u == Update(contacts, ExtendedContacts(n, op), now)
             new == [op EXCEPT
                     !.read = rows,
                     !.record = ToSet(u.contacts),
                     !.mDelete = u.mDelete \cup {c \in rows : IsExpired(c, now)},
                     !.mUpsert = u.mUpsert,
                     !.expireAt = Max0({c.until : c \in ToSet(u.contacts)})]
  <1>1. Updated(n, op, contacts) = IF u.invalid THEN Answered(op, "invalid") ELSE Sends(new, op.proxy)
    BY DEF Updated
  <1>2. Consistent(new) /\ new.stage = op.stage /\ new.proxy = op.proxy
    <2> HIDE DEF u
    <2>1. DOMAIN op = Fields
      BY DEF Consistent
    <2>2. DOMAIN new = Fields /\ new = [f \in Fields |-> new[f]]
      BY Zenon, <2>1
    <2>3. new.stage = op.stage /\ new.proxy = op.proxy /\ new.replies = op.replies
      BY <2>1 DEF Fields
    <2> QED BY Zenon, <2>2, <2>3 DEF Consistent
  <1> HIDE DEF u, new
  <1>3. CASE u.invalid
    BY <1>1, <1>3, AnsweredConsistent
  <1>4. CASE ~u.invalid
    BY <1>1, <1>2, <1>4, SendsConsistent
  <1> QED BY <1>3, <1>4

(* A command that fails: the bind waits for its retry timer or gives up.   *)
LEMMA FailedConsistent ==
    ASSUME NEW op, Consistent(op), op.stage \in Waiting
    PROVE  /\ Consistent(Failed(op))
           /\ Failed(op).stage \in {"timer", "done"} /\ Failed(op).proxy = op.proxy
  <1>0. op.stage # "done"
    BY DEF Waiting
  <1>1. CASE Failed(op) = Answered(op, "error")
    BY <1>0, <1>1, AnsweredConsistent
  <1>2. CASE Failed(op) = [op EXCEPT !.mRetryCount = @ + 1, !.stage = "timer"]
    <2>1. DOMAIN op = Fields
      BY DEF Consistent
    <2>2. DOMAIN Failed(op) = Fields /\ Failed(op) = [f \in Fields |-> Failed(op)[f]]
      BY Zenon, <1>2, <2>1
    <2>3. Failed(op).stage = "timer" /\ Failed(op).proxy = op.proxy /\ Failed(op).replies = op.replies
      BY <1>2, <2>1 DEF Fields
    <2> QED BY <1>0, <2>2, <2>3 DEF Consistent
  <1> QED BY <1>1, <1>2 DEF Failed, HandleBindFailure

-----------------------------------------------------------------------------
(* The steps.                                                              *)

(* The first command of a connection belongs to a REGISTER that waits.     *)
LEMMA FirstWaits ==
    ASSUME IInv, NEW p \in Proxies, pipe[p] # <<>>
    PROVE  /\ Head(pipe[p]) \in DOMAIN ops
           /\ ops[Head(pipe[p])].proxy = p /\ ops[Head(pipe[p])].stage \in Waiting
           /\ ops[Head(pipe[p])].stage # "done" /\ Consistent(ops[Head(pipe[p])])
  <1>1. pipe[p] \in Seq(Nat) /\ Distinct(pipe[p])
    BY DEF IInv, Pipelined
  <1>2. Head(pipe[p]) \in ToSet(pipe[p])
    BY <1>1, TailItems
  <1> QED BY <1>2 DEF IInv, Pipelined, Waiting

(* One REGISTER changes.                                                   *)
LEMMA OneChanges ==
    ASSUME IInv, NEW n \in DOMAIN ops, NEW op, Consistent(op), ops' = [ops EXCEPT ![n] = op]
    PROVE  /\ DOMAIN ops' = DOMAIN ops /\ ops'[n] = op
           /\ \A m \in DOMAIN ops \ {n} : ops'[m] = ops[m]
           /\ ops' \in Seq(ToSet(ops)') /\ \A m \in DOMAIN ops' : Consistent(ops[m])'
  <1>1. ops \in Seq(ToSet(ops)) /\ \A m \in DOMAIN ops : Consistent(ops[m])
    BY DEF IInv
  <1>2. Len(ops) \in Nat /\ DOMAIN ops = 1..Len(ops)
    BY <1>1
  <1>3. DOMAIN ops' = DOMAIN ops /\ ops'[n] = op /\ \A m \in DOMAIN ops \ {n} : ops'[m] = ops[m]
    BY <1>1
  <1>4. ops' = [m \in 1..Len(ops) |-> ops'[m]]
    BY Zenon, <1>1, <1>2
  <1>5. \A m \in 1..Len(ops) : ops'[m] \in ToSet(ops')
    BY <1>2, <1>3 DEF ToSet
  <1>6. ops' \in Seq(ToSet(ops'))
    BY Zenon, <1>2, <1>4, <1>5, IsSequence
  <1>7. \A m \in DOMAIN ops' : Consistent(ops'[m])
    BY <1>1, <1>3
  <1> QED BY <1>3, <1>6, <1>7 DEF Consistent, ToSet

(* The first command of a connection is answered, and another one is sent  *)
(* when the REGISTER goes on with its transaction.                         *)
LEMMA FirstMoves ==
    ASSUME IInv, NEW p \in Proxies, pipe[p] # <<>>, NEW op, Consistent(op),
           op.proxy = p, op.stage \in {"exec", "timer", "done"},
           ops' = [ops EXCEPT ![Head(pipe[p])] = op],
           pipe' = [pipe EXCEPT ![p] = IF op.stage = "exec" THEN Append(Tail(@), Head(pipe[p])) ELSE Tail(@)]
    PROVE  IInv'
  <1> DEFINE n == Head(pipe[p])
  <1>1. n \in DOMAIN ops /\ ops[n].proxy = p /\ ops[n].stage \in Waiting
    BY FirstWaits
  <1>2. /\ DOMAIN ops' = DOMAIN ops /\ ops'[n] = op
        /\ \A m \in DOMAIN ops \ {n} : ops'[m] = ops[m]
        /\ ops' \in Seq(ToSet(ops)') /\ \A m \in DOMAIN ops' : Consistent(ops[m])'
    BY Zenon, <1>1, OneChanges
  <1>3. /\ pipe \in [Proxies -> Seq(Nat)]
        /\ \A q \in Proxies : /\ Distinct(pipe[q])
                              /\ ToSet(pipe[q]) = {m \in DOMAIN ops : ops[m].proxy = q /\ ops[m].stage \in Waiting}
    BY DEF IInv, Pipelined
  <1>4. /\ Tail(pipe[p]) \in Seq(Nat) /\ Distinct(Tail(pipe[p]))
        /\ ToSet(Tail(pipe[p])) = ToSet(pipe[p]) \ {n}
    BY <1>3, TailItems
  <1>5. n \in Nat
    <2>1. ops \in Seq(ToSet(ops))
      BY DEF IInv
    <2>2. DOMAIN ops = 1..Len(ops) /\ Len(ops) \in Nat
      BY <2>1
    <2> QED BY <1>1, <2>2
  <1> HIDE DEF n
  <1>6. /\ pipe'[p] \in Seq(Nat) /\ Distinct(pipe'[p])
        /\ ToSet(pipe'[p]) = IF op.stage = "exec" THEN ToSet(pipe[p]) \cup {n} ELSE ToSet(pipe[p]) \ {n}
    <2>1. CASE op.stage = "exec"
      <3>1. pipe'[p] = Append(Tail(pipe[p]), n)
        BY <1>3, <2>1 DEF n
      <3>2. /\ Append(Tail(pipe[p]), n) \in Seq(Nat) /\ Distinct(Append(Tail(pipe[p]), n))
            /\ ToSet(Append(Tail(pipe[p]), n)) = ToSet(Tail(pipe[p])) \cup {n}
        <4> DEFINE t == Tail(pipe[p])
        <4>1. n \notin ToSet(t) /\ t \in Seq(Nat) /\ Distinct(t)
          BY <1>4
        <4> HIDE DEF t
        <4>2. /\ Append(t, n) \in Seq(Nat) /\ Distinct(Append(t, n))
              /\ ToSet(Append(t, n)) = ToSet(t) \cup {n}
          BY <1>5, <4>1, AppendItems
        <4> QED BY <4>2 DEF t
      <3> QED BY Zenon, <1>4, <2>1, <3>1, <3>2
    <2>2. CASE op.stage # "exec"
      BY <1>3, <1>4, <2>2
    <2> QED BY <2>1, <2>2
  <1>7. pipe' \in [Proxies -> Seq(Nat)] /\ \A q \in Proxies \ {p} : pipe'[q] = pipe[q]
    BY <1>3, <1>6
  <1>8. ToSet(pipe'[p]) = {m \in DOMAIN ops' : ops'[m].proxy = p /\ ops'[m].stage \in Waiting}
    BY <1>1, <1>2, <1>3, <1>6 DEF Waiting
  <1>9. ASSUME NEW q \in Proxies
        PROVE  /\ Distinct(pipe'[q])
               /\ ToSet(pipe'[q]) = {m \in DOMAIN ops' : ops'[m].proxy = q /\ ops'[m].stage \in Waiting}
    BY <1>1, <1>2, <1>3, <1>6, <1>7, <1>8
  <1>10. Pipelined'
    BY <1>7, <1>9 DEF Pipelined
  <1> QED BY <1>2, <1>10 DEF IInv

(* What a sequence is after one more element.                              *)
LEMMA OneMore ==
    ASSUME NEW s, s \in Seq(ToSet(s)), NEW e
    PROVE  /\ DOMAIN Append(s, e) = DOMAIN s \cup {Len(s) + 1} /\ Append(s, e)[Len(s) + 1] = e
           /\ \A m \in DOMAIN s : Append(s, e)[m] = s[m]
           /\ Append(s, e) = [m \in 1..(Len(s) + 1) |-> Append(s, e)[m]]
  <1> DEFINE S == ToSet(s) \cup {e}
  <1>1. Len(s) \in Nat /\ DOMAIN s = 1..Len(s) /\ s = [m \in 1..Len(s) |-> s[m]]
    OBVIOUS
  <1>2. \A m \in 1..Len(s) : s[m] \in S
    BY <1>1 DEF ToSet
  <1>3. s \in Seq(S) /\ e \in S
    BY <1>1, <1>2, IsSequence
  <1> HIDE DEF S
  <1>4. /\ Append(s, e) \in Seq(S) /\ Len(Append(s, e)) = Len(s) + 1
        /\ DOMAIN Append(s, e) = 1..(Len(s) + 1)
        /\ Append(s, e)[Len(s) + 1] = e /\ \A m \in 1..Len(s) : Append(s, e)[m] = s[m]
    BY <1>3
  <1>5. 1..(Len(s) + 1) = 1..Len(s) \cup {Len(s) + 1}
    BY <1>1
  <1>6. Append(s, e) = [m \in 1..(Len(s) + 1) |-> Append(s, e)[m]]
    <2> DEFINE t == Append(s, e)
    <2>1. t \in Seq(S) /\ Len(t) = Len(s) + 1
      BY <1>4
    <2> HIDE DEF t
    <2>2. t = [m \in 1..Len(t) |-> t[m]]
      BY <2>1
    <2> QED BY <2>1, <2>2 DEF t
  <1> QED BY <1>1, <1>4, <1>5, <1>6

(* A REGISTER arrives: its first command is the last of the connection.    *)
LEMMA SentKeeps ==
    ASSUME IInv, NEW u, NEW p \in Proxies, NEW offer, NEW lifetime, NEW stage \in {"read", "clear"},
           Sent(u, p, offer, lifetime, stage)
    PROVE  IInv'
  <1> DEFINE op == [ua |-> u, proxy |-> p, offer |-> offer, lifetime |-> lifetime,
                    cseq |-> cseq[u] + 1, stage |-> stage, read |-> {}, record |-> {},
                    mDelete |-> {}, mUpsert |-> {}, expireAt |-> 0,
                    mRetryCount |-> 0, replies |-> <<>>]
             new == IF up[p] THEN op ELSE Answered(op, "error")
             n == Len(ops) + 1
  <1>1. /\ ops' = Append(ops, new)
        /\ pipe' = IF up[p] THEN [pipe EXCEPT ![p] = Append(@, n)] ELSE pipe
    BY DEF Sent
  <1>2. Consistent(op) /\ op.stage = stage /\ op.proxy = p /\ stage # "done"
    BY Zenon DEF Consistent, Fields, Waiting
  <1> HIDE DEF op
  <1>3. Consistent(new) /\ new.proxy = p /\ new.stage = IF up[p] THEN stage ELSE "done"
    BY <1>2, AnsweredConsistent
  <1> HIDE DEF new
  <1>4. /\ ops \in Seq(ToSet(ops)) /\ \A m \in DOMAIN ops : Consistent(ops[m])
        /\ pipe \in [Proxies -> Seq(Nat)]
        /\ \A q \in Proxies : /\ Distinct(pipe[q])
                              /\ ToSet(pipe[q]) = {m \in DOMAIN ops : ops[m].proxy = q /\ ops[m].stage \in Waiting}
    BY DEF IInv, Pipelined
  <1>5. Len(ops) \in Nat /\ DOMAIN ops = 1..Len(ops) /\ n \in Nat /\ n \notin DOMAIN ops
    BY <1>4
  <1>6. /\ DOMAIN ops' = DOMAIN ops \cup {n} /\ ops'[n] = new
        /\ \A m \in DOMAIN ops : ops'[m] = ops[m]
        /\ ops' = [m \in 1..n |-> ops'[m]]
    BY <1>1, <1>4, OneMore
  <1> HIDE DEF n
  <1>7. ops' \in Seq(ToSet(ops'))
    <2>1. \A m \in 1..n : ops'[m] \in ToSet(ops')
      BY <1>6 DEF ToSet
    <2> QED BY <1>5, <1>6, <2>1, IsSequence
  <1>8. \A m \in DOMAIN ops' : Consistent(ops'[m])
    BY <1>3, <1>4, <1>6
  <1>9. /\ pipe'[p] \in Seq(Nat) /\ Distinct(pipe'[p])
        /\ ToSet(pipe'[p]) = ToSet(pipe[p]) \cup IF up[p] THEN {n} ELSE {}
    <2>1. CASE up[p]
      <3> DEFINE t == pipe[p]
      <3>1. n \notin ToSet(t) /\ t \in Seq(Nat) /\ Distinct(t) /\ pipe'[p] = Append(t, n)
        BY <1>1, <1>4, <1>5, <2>1
      <3> HIDE DEF t
      <3>2. /\ Append(t, n) \in Seq(Nat) /\ Distinct(Append(t, n))
            /\ ToSet(Append(t, n)) = ToSet(t) \cup {n}
        BY <1>5, <3>1, AppendItems
      <3> QED BY <2>1, <3>1, <3>2 DEF t
    <2>2. CASE ~up[p]
      BY <1>1, <1>4, <2>2
    <2> QED BY <2>1, <2>2
  <1>10. pipe' \in [Proxies -> Seq(Nat)] /\ \A q \in Proxies \ {p} : pipe'[q] = pipe[q]
    BY <1>1, <1>4, <1>9
  <1>11. ASSUME NEW q \in Proxies
         PROVE  /\ Distinct(pipe'[q])
                /\ ToSet(pipe'[q]) = {m \in DOMAIN ops' : ops'[m].proxy = q /\ ops'[m].stage \in Waiting}
    <2>1. \A m \in DOMAIN ops : ops'[m].proxy = ops[m].proxy /\ ops'[m].stage = ops[m].stage
      BY <1>6
    <2>2. ops'[n].proxy = p /\ (ops'[n].stage \in Waiting <=> up[p])
      BY <1>3, <1>6 DEF Waiting
    <2>3. CASE q = p
      BY <1>4, <1>6, <1>9, <2>1, <2>2, <2>3
    <2>4. CASE q # p
      BY <1>4, <1>6, <1>10, <2>1, <2>2, <2>4
    <2> QED BY <2>3, <2>4
  <1>12. Pipelined'
    BY <1>10, <1>11 DEF Pipelined
  <1> QED BY <1>7, <1>8, <1>12 DEF IInv, Consistent, ToSet

(* A retry timer fires: the transaction is sent again.                     *)
LEMMA RetryKeeps ==
    ASSUME IInv, NEW n, Retry(n)
    PROVE  IInv'
  <1> DEFINE p == ops[n].proxy
             op == Sends(ops[n], p)
  <1>1. /\ n \in DOMAIN ops /\ ops[n].stage = "timer"
        /\ ops' = [ops EXCEPT ![n] = op]
        /\ pipe' = IF op.stage = "exec" THEN [pipe EXCEPT ![p] = Append(@, n)] ELSE pipe
    BY DEF Retry, Open
  <1>2. p \in Proxies /\ Consistent(ops[n])
    BY <1>1 DEF IInv, Consistent
  <1>3. Consistent(op) /\ op.stage \in {"exec", "done"} /\ op.proxy = p
    BY <1>1, <1>2, SendsConsistent
  <1> HIDE DEF op
  <1>4. /\ DOMAIN ops' = DOMAIN ops /\ ops'[n] = op
        /\ \A m \in DOMAIN ops \ {n} : ops'[m] = ops[m]
        /\ ops' \in Seq(ToSet(ops)') /\ \A m \in DOMAIN ops' : Consistent(ops[m])'
    BY Zenon, <1>1, <1>3, OneChanges
  <1>5. /\ ops \in Seq(ToSet(ops)) /\ pipe \in [Proxies -> Seq(Nat)]
        /\ \A q \in Proxies : /\ Distinct(pipe[q])
                              /\ ToSet(pipe[q]) = {m \in DOMAIN ops : ops[m].proxy = q /\ ops[m].stage \in Waiting}
    BY DEF IInv, Pipelined
  <1>6. n \in Nat /\ n \notin ToSet(pipe[p])
    <2>1. DOMAIN ops = 1..Len(ops) /\ Len(ops) \in Nat
      BY <1>5
    <2>2. ops[n].stage \notin Waiting
      BY <1>1 DEF Waiting
    <2> HIDE DEF p
    <2>3. n \notin ToSet(pipe[p])
      BY <1>2, <1>5, <2>2
    <2> QED BY <1>1, <2>1, <2>3
  <1>7. /\ pipe'[p] \in Seq(Nat) /\ Distinct(pipe'[p])
        /\ ToSet(pipe'[p]) = ToSet(pipe[p]) \cup IF op.stage = "exec" THEN {n} ELSE {}
    <2>1. CASE op.stage = "exec"
      <3> DEFINE t == pipe[p]
      <3>1. n \notin ToSet(t) /\ t \in Seq(Nat) /\ Distinct(t) /\ pipe'[p] = Append(t, n)
        BY <1>1, <1>2, <1>5, <1>6, <2>1
      <3> HIDE DEF t
      <3>2. /\ Append(t, n) \in Seq(Nat) /\ Distinct(Append(t, n))
            /\ ToSet(Append(t, n)) = ToSet(t) \cup {n}
        BY <1>6, <3>1, AppendItems
      <3> QED BY <2>1, <3>1, <3>2 DEF t
    <2>2. CASE op.stage # "exec"
      BY <1>1, <1>2, <1>5, <2>2
    <2> QED BY <2>1, <2>2
  <1>8. pipe' \in [Proxies -> Seq(Nat)] /\ \A q \in Proxies \ {p} : pipe'[q] = pipe[q]
    BY <1>1, <1>2, <1>5, <1>7
  <1>9. ASSUME NEW q \in Proxies
        PROVE  /\ Distinct(pipe'[q])
               /\ ToSet(pipe'[q]) = {m \in DOMAIN ops' : ops'[m].proxy = q /\ ops'[m].stage \in Waiting}
    BY <1>1, <1>2, <1>3, <1>4, <1>5, <1>7, <1>8 DEF Waiting
  <1>10. Pipelined'
    BY <1>8, <1>9 DEF Pipelined
  <1> QED BY <1>4, <1>10 DEF IInv

(* A connection breaks: every bind that waits on it fails.                 *)
LEMMA DisconnectKeeps ==
    ASSUME IInv, NEW p \in Proxies, Disconnect(p)
    PROVE  IInv'
  <1>1. /\ ops' = [n \in DOMAIN ops |-> IF n \in ToSet(pipe[p]) THEN Failed(ops[n]) ELSE ops[n]]
        /\ pipe' = [pipe EXCEPT ![p] = <<>>]
    BY DEF Disconnect
  <1>2. /\ ops \in Seq(ToSet(ops)) /\ \A m \in DOMAIN ops : Consistent(ops[m])
        /\ pipe \in [Proxies -> Seq(Nat)]
        /\ \A q \in Proxies : /\ Distinct(pipe[q])
                              /\ ToSet(pipe[q]) = {m \in DOMAIN ops : ops[m].proxy = q /\ ops[m].stage \in Waiting}
    BY DEF IInv, Pipelined
  <1>3. Len(ops) \in Nat /\ DOMAIN ops = 1..Len(ops) /\ DOMAIN ops' = DOMAIN ops
    BY <1>1, <1>2
  <1>4. ASSUME NEW n \in DOMAIN ops
        PROVE  /\ Consistent(ops'[n]) /\ ops'[n].proxy = ops[n].proxy
               /\ ops'[n].stage \in Waiting <=> ops[n].stage \in Waiting /\ ops[n].proxy # p
    <2>1. CASE n \in ToSet(pipe[p])
      <3>1. ops'[n] = Failed(ops[n]) /\ ops[n].stage \in Waiting /\ ops[n].proxy = p
        BY <1>1, <1>2, <2>1
      <3>2. Consistent(Failed(ops[n])) /\ Failed(ops[n]).stage \in {"timer", "done"}
               /\ Failed(ops[n]).proxy = ops[n].proxy
        BY <1>2, <3>1, FailedConsistent
      <3> QED BY <3>1, <3>2 DEF Waiting
    <2>2. CASE n \notin ToSet(pipe[p])
      <3>1. ops'[n] = ops[n]
        BY <1>1, <2>2
      <3> QED BY <1>2, <2>2, <3>1
    <2> QED BY <2>1, <2>2
  <1>5. ops' \in Seq(ToSet(ops'))
    <2>1. ops' = [m \in 1..Len(ops) |-> ops'[m]]
      BY <1>1, <1>3
    <2>2. \A m \in 1..Len(ops) : ops'[m] \in ToSet(ops')
      BY <1>3 DEF ToSet
    <2> QED BY <1>3, <2>1, <2>2, IsSequence
  <1>6. /\ pipe' \in [Proxies -> Seq(Nat)] /\ pipe'[p] = <<>>
        /\ \A q \in Proxies \ {p} : pipe'[q] = pipe[q]
    BY <1>1, <1>2
  <1>7. Distinct(<<>>) /\ ToSet(<<>>) = {}
    <2>1. DOMAIN <<>> = {}
      OBVIOUS
    <2> QED BY <2>1 DEF Distinct, ToSet
  <1>8. ASSUME NEW q \in Proxies
        PROVE  /\ Distinct(pipe'[q])
               /\ ToSet(pipe'[q]) = {m \in DOMAIN ops' : ops'[m].proxy = q /\ ops'[m].stage \in Waiting}
    <2>1. CASE q = p
      BY <1>3, <1>4, <1>6, <1>7, <2>1
    <2>2. CASE q # p
      <3>1. \A m \in DOMAIN ops : (ops'[m].proxy = q /\ ops'[m].stage \in Waiting)
                                    <=> (ops[m].proxy = q /\ ops[m].stage \in Waiting)
        BY <1>4, <2>2
      <3>2. pipe'[q] = pipe[q]
        BY <1>6, <2>2
      <3> QED BY <1>2, <1>3, <3>1, <3>2
    <2> QED BY <2>1, <2>2
  <1>9. Pipelined'
    BY <1>6, <1>8 DEF Pipelined
  <1> QED BY <1>3, <1>4, <1>5, <1>9 DEF IInv, Consistent, ToSet

(* No REGISTER is under way at the start.                                  *)
LEMMA InitIInv == Init => IInv
  <1> SUFFICES ASSUME Init PROVE IInv
    OBVIOUS
  <1>1. ops = <<>> /\ pipe = [p \in Proxies |-> <<>>] /\ DOMAIN <<>> = {}
    BY DEF Init
  <1>2. ToSet(<<>>) = {} /\ Distinct(<<>>)
    BY <1>1 DEF ToSet, Distinct
  <1>3. <<>> \in Seq(Nat) /\ <<>> \in Seq({})
    OBVIOUS
  <1>4. Pipelined
    BY <1>1, <1>2, <1>3 DEF Pipelined
  <1> QED BY <1>1, <1>2, <1>3, <1>4 DEF IInv

(* Every step preserves the invariant.                                     *)
LEMMA NextIInv == IInv /\ [Next]_vars => IInv'
  <1> SUFFICES ASSUME IInv, [Next]_vars PROVE IInv'
    OBVIOUS
  <1>0. ASSUME UNCHANGED <<ops, pipe>> PROVE IInv'
    BY <1>0 DEF IInv, Pipelined, Consistent, ToSet, Distinct
  <1>1. ASSUME NEW u \in UAs, NEW p \in Via[u], Bind(u, p) \/ Clear(u, p) PROVE IInv'
    <2>1. p \in Proxies
      BY <1>1, RedisAssumption
    <2> QED BY <1>1, <2>1, SentKeeps DEF Bind, Clear
  <1>2. ASSUME NEW p \in Proxies, Read(p) PROVE IInv'
    <2> DEFINE n == Head(pipe[p])
    <2>1. pipe[p] # <<>>
      BY <1>2 DEF Read
    <2>2. PICK contacts :
            LET op == Updated(n, ops[n], contacts)
            IN /\ ops' = [ops EXCEPT ![n] = op]
               /\ pipe' = [pipe EXCEPT ![p] = IF op.stage = "exec" THEN Append(Tail(@), n) ELSE Tail(@)]
      BY Zenon, <1>2 DEF Read
    <2> DEFINE op == Updated(n, ops[n], contacts)
    <2>3. Consistent(ops[n]) /\ ops[n].stage # "done" /\ ops[n].proxy = p
      BY <2>1, FirstWaits
    <2>4. Consistent(op) /\ op.stage \in {"exec", "done"} /\ op.proxy = p
      BY <2>3, UpdatedConsistent
    <2>5. /\ ops' = [ops EXCEPT ![n] = op]
          /\ pipe' = [pipe EXCEPT ![p] = IF op.stage = "exec" THEN Append(Tail(@), n) ELSE Tail(@)]
      BY <2>2
    <2> HIDE DEF op
    <2> QED BY Zenon, <2>1, <2>4, <2>5, FirstMoves
  <1>3. ASSUME NEW p \in Proxies, Exec(p) \/ Cleared(p) \/ Refuse(p) PROVE IInv'
    <2> DEFINE n == Head(pipe[p])
    <2>1. pipe[p] # <<>> /\ pipe' = [pipe EXCEPT ![p] = Tail(@)]
      BY <1>3 DEF Exec, Cleared, Refuse
    <2>2. Consistent(ops[n]) /\ ops[n].stage # "done" /\ ops[n].stage \in Waiting /\ ops[n].proxy = p
             /\ n \in DOMAIN ops
      BY <2>1, FirstWaits
    <2>3. \E op : /\ Consistent(op) /\ op.stage \in {"timer", "done"} /\ op.proxy = p
                  /\ ops' = [ops EXCEPT ![n] = op]
      <3>1. CASE Exec(p) \/ Cleared(p)
        <4>1. PICK reply : ops' = [ops EXCEPT ![n] = Answered(ops[n], reply)]
          BY <2>2, <3>1 DEF Exec, Cleared
        <4> QED BY Zenon, <2>2, <4>1, AnsweredConsistent
      <3>2. CASE Refuse(p)
        <4>1. \/ ops' = [ops EXCEPT ![n] = Failed(ops[n])]
              \/ ops' = [ops EXCEPT ![n] = Answered(ops[n], "null")]
          BY <2>2, <3>2 DEF Refuse
        <4>2. CASE ops' = [ops EXCEPT ![n] = Failed(ops[n])]
          BY Zenon, <2>2, <4>2, FailedConsistent
        <4>3. CASE ops' = [ops EXCEPT ![n] = Answered(ops[n], "null")]
          BY Zenon, <2>2, <4>3, AnsweredConsistent
        <4> QED BY Zenon, <4>1, <4>2, <4>3
      <3> QED BY <1>3, <3>1, <3>2
    <2>4. PICK op : /\ Consistent(op) /\ op.stage \in {"timer", "done"} /\ op.proxy = p
                    /\ ops' = [ops EXCEPT ![n] = op]
      BY Zenon, <2>3
    <2>5. pipe' = [pipe EXCEPT ![p] = IF op.stage = "exec" THEN Append(Tail(@), n) ELSE Tail(@)]
      BY Zenon, <2>1, <2>4
    <2> QED BY Zenon, <2>1, <2>4, <2>5, FirstMoves
  <1>4. ASSUME NEW p \in Proxies, Disconnect(p) PROVE IInv'
    BY <1>4, DisconnectKeeps
  <1>5. ASSUME NEW p \in Proxies, Reconnect(p) PROVE IInv'
    BY <1>0, <1>5 DEF Reconnect
  <1>6. ASSUME NEW n \in Ops, Retry(n) PROVE IInv'
    BY <1>6, RetryKeeps
  <1>7. ASSUME Tick PROVE IInv'
    BY <1>0, <1>7 DEF Tick
  <1>8. ASSUME UNCHANGED vars PROVE IInv'
    BY <1>0, <1>8 DEF vars
  <1> QED BY <1>1, <1>2, <1>3, <1>4, <1>5, <1>6, <1>7, <1>8 DEF Next

(* The listener of a bind is called back once, when its context is given   *)
(* up, and a command waits on a connection exactly while its REGISTER      *)
(* waits: for any number of proxies, REGISTERs, retries and disconnections *)
(* of RegistrarDbRedisAsync.                                               *)
THEOREM RegisterAnsweredOnce == Spec => []BindAnsweredOnce
  <1>1. IInv => BindAnsweredOnce
    <2> SUFFICES ASSUME IInv, NEW n \in DOMAIN ops
                 PROVE  /\ Len(ops[n].replies) = IF ops[n].stage = "done" THEN 1 ELSE 0
                        /\ (ops[n].stage \in {"read", "exec", "clear"}) <=> (n \in ToSet(pipe[ops[n].proxy]))
      BY DEF BindAnsweredOnce
    <2>1. Len(<<>>) = 0
      OBVIOUS
    <2>2. Consistent(ops[n])
      BY DEF IInv
    <2>3. Len(ops[n].replies) = IF ops[n].stage = "done" THEN 1 ELSE 0
      BY Zenon, <2>1, <2>2 DEF Consistent
    <2>4. (ops[n].stage \in Waiting) <=> (n \in ToSet(pipe[ops[n].proxy]))
      BY <2>2 DEF IInv, Pipelined, Consistent
    <2> QED BY <2>3, <2>4 DEF Waiting
  <1> QED BY <1>1, InitIInv, NextIInv, PTL DEF Spec
=============================================================================
