------------------------------ MODULE RedisClient ------------------------------
(***************************************************************************)
(* RedisClient: the two sessions (commands, subscriptions) of a proxy with *)
(* its Redis server, how they are opened again, the keep-alive of the      *)
(* second, and the subscriptions it keeps.  The client is a record         *)
(*   cmd, sub          the state of each session; Ready is "Connecting" or *)
(*                     "Connected",                                        *)
(*   paced, timer      mLastReconnectRotation is less than 1 s ago,        *)
(*                     mReconnectTimer is set,                             *)
(*   mSubSessionState  of the keep-alive,                                  *)
(*   mSubscriptions    topic -> [fresh, unsubbed], or None,                *)
(* and, outside of the proxy, for the connection of the second session,    *)
(*   callbacks         what hiredis keeps: topic -> how many SUBSCRIBEs    *)
(*                     are not answered, or None without a callback,       *)
(*   sent              the commands not answered,                          *)
(*   server            the topics the server sends us,                     *)
(*   silent            nothing goes through it any more, unnoticed,        *)
(*   breaks            failures so far.                                    *)
(* There are no replicas: a rotation is one attempt.                       *)
(***************************************************************************)
EXTENDS Integers, SequencesExt

CONSTANTS
    Topics,
    None,
    MaxFailures       \* bound: failures of connections and of attempts to connect

ASSUME ClientAssumption == MaxFailures \in Nat

Sessions == {"cmd", "sub"}

(* Both sessions are connected, and no replies are awaited. *)
Fresh ==
    [cmd |-> "Connected", sub |-> "Connected", paced |-> FALSE, timer |-> FALSE,
     mSubSessionState |-> "DISCONNECTED", mSubscriptions |-> [t \in Topics |-> None],
     callbacks |-> [t \in Topics |-> None], sent |-> <<>>, server |-> {}, silent |-> FALSE, breaks |-> 0]

IsReady(c) == c.cmd # "Disconnected" /\ c.sub # "Disconnected"

Broken(c) == [c EXCEPT !.breaks = @ + 1]

(* connect(): opens the sessions that are closed, the first one first;     *)
(* hiredis may refuse at once.                                             *)
Connect(c) ==
    LET opened == [c EXCEPT !.cmd = IF @ = "Disconnected" THEN "Connecting" ELSE @]
        refused == (IF c.cmd = "Disconnected" THEN {Broken(c)} ELSE {})
                     \cup (IF c.sub = "Disconnected" THEN {Broken(opened)} ELSE {})
    IN {[opened EXCEPT !.sub = IF @ = "Disconnected" THEN "Connecting" ELSE @, !.paced = FALSE]}
         \cup (IF c.breaks < MaxFailures THEN refused ELSE {})

TryReconnect(c) ==
    CASE IsReady(c) -> {c}
      [] ~IsReady(c) /\ c.paced -> {[c EXCEPT !.timer = TRUE]}
      [] OTHER -> Connect([c EXCEPT !.paced = TRUE])

(* The reply to a subscription that was given up removes it from the map   *)
(* once the server does not have it any more.                              *)
Replied(subscription, serverHasIt) ==
    CASE subscription = None -> None
      [] subscription # None /\ subscription.unsubbed /\ ~serverHasIt -> None
      [] OTHER -> [subscription EXCEPT !.fresh = FALSE]

(* A context is freed: what waits for a reply is told of the disconnection. *)
Closed(c, s) ==
    IF s = "cmd" THEN [c EXCEPT !.cmd = "Disconnected"]
    ELSE [c EXCEPT !.sub = "Disconnected", !.sent = <<>>, !.server = {}, !.silent = FALSE,
                   !.callbacks = [t \in Topics |-> None],
                   !.mSubscriptions = [t \in Topics |-> IF c.callbacks[t] = None THEN @[t] ELSE Replied(@[t], FALSE)]]

(* The entry of a subscription that was given up is reused as it is. *)
MutSubscribeEntry(c, t) ==
    [c EXCEPT !.mSubscriptions[t] = IF @ = None THEN [fresh |-> TRUE, unsubbed |-> FALSE] ELSE @,
              !.callbacks[t] = IF @ = None THEN 1 ELSE @ + 1,
              !.sent = Append(@, <<"SUBSCRIBE", t>>)]

(* SubscriptionEntry::subscribe *)
SubscribeEntry(c, t) ==
    [c EXCEPT !.mSubscriptions[t] = [fresh |-> TRUE, unsubbed |-> FALSE],
              !.callbacks[t] = IF @ = None THEN 1 ELSE @ + 1,
              !.sent = Append(@, <<"SUBSCRIBE", t>>)]

(* SubscriptionEntry::unsubscribe *)
UnsubscribeEntry(c, t) ==
    IF c.mSubscriptions[t] = None THEN c
    ELSE [c EXCEPT !.mSubscriptions[t].unsubbed = TRUE, !.sent = Append(@, <<"UNSUBSCRIBE", t>>)]

(* Only the subscriptions made since the connection was opened are made again. *)
MutReSubscribed(c) ==
    LET again == {t \in Topics : c.mSubscriptions[t] # None /\ c.mSubscriptions[t].fresh}
    IN FoldLeft(SubscribeEntry, c, SetToSeq(again))

(* SubscriptionSession::onConnect: subscriptions of a previous connection  *)
(* are made again.                                                         *)
ReSubscribed(c) ==
    LET again == {t \in Topics : c.mSubscriptions[t] # None /\ ~c.mSubscriptions[t].fresh
                                                           /\ ~c.mSubscriptions[t].unsubbed}
    IN FoldLeft(SubscribeEntry, c, SetToSeq(again))

OnConnect(c, s) == IF s = "cmd" THEN [c EXCEPT !.cmd = "Connected"]
                                ELSE ReSubscribed([c EXCEPT !.sub = "Connected"])

(* RegistrarDbRedisAsync::subscribe *)
Subscribe(c, t) == {IF IsReady(d) THEN SubscribeEntry(d, t) ELSE d : d \in TryReconnect(c)}

(* RegistrarDbRedisAsync::unsubscribe *)
Unsubscribe(c, t) == {IF IsReady(d) THEN UnsubscribeEntry(d, t) ELSE d : d \in TryReconnect(c)}

(* The next reply on the subscription session. *)
Answer(c) ==
    LET command == Head(c.sent)
        t == command[2]
        rest == [c EXCEPT !.sent = Tail(@)]
    IN CASE command[1] = "SUBSCRIBE" ->
              [rest EXCEPT !.server = @ \cup {t}, !.callbacks[t] = @ - 1, !.mSubscriptions[t] = Replied(@, TRUE)]
         [] command[1] = "UNSUBSCRIBE" ->
              [rest EXCEPT !.server = @ \ {t},
                           !.mSubscriptions[t] = IF c.callbacks[t] = None THEN @ ELSE Replied(@, FALSE),
                           !.callbacks[t] = IF @ = 0 THEN None ELSE @]
         [] OTHER -> [rest EXCEPT !.mSubSessionState = "ACTIVE"]

(* handlePingReply: an error is no answer. *)
PingFails(c) == [Broken(c) EXCEPT !.sent = Tail(@)]

(* A PING that is not answered is waited for. *)
MutKeepAlive(c) ==
    {IF IsReady(d) /\ d.mSubSessionState # "PENDING"
       THEN [d EXCEPT !.mSubSessionState = "PENDING", !.sent = Append(@, <<"PING", None>>)]
       ELSE d : d \in TryReconnect(c)}

(* onSubSessionKeepAliveTimer: the second session is given up when its     *)
(* last PING is not answered.                                              *)
KeepAlive(c) ==
    UNION {CASE ~IsReady(d) -> {d}
             [] IsReady(d) /\ d.mSubSessionState = "PENDING" ->
                  Connect(Closed([d EXCEPT !.mSubSessionState = "DISCONNECTED"], "sub"))
             [] OTHER -> {[d EXCEPT !.mSubSessionState = "PENDING", !.sent = Append(@, <<"PING", None>>)]}
             : d \in TryReconnect(c)}
=============================================================================
