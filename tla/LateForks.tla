------------------------------- MODULE LateForks -------------------------------
(***************************************************************************)
(* How a late fork learns that a device has registered: the Router keeps   *)
(* the fork contexts of each topic (mForks) and subscribes its listener to *)
(* the topic in RegistrarDb, which subscribes to it in Redis.  The proxy   *)
(* that serves the REGISTER publishes the topic; the message makes this    *)
(* proxy fetch the record, and tell its listeners.  The Router gives up    *)
(* the topic when it is told and has no late fork left.                    *)
(*                                                                         *)
(* A message and its callback are one step, so is the reply to a fetch.    *)
(***************************************************************************)
EXTENDS RedisClient

CONSTANTS
    MaxForks,       \* bound: late forks
    MaxRegisters    \* bound: REGISTERs

ASSUME LateForksAssumption == {MaxForks, MaxRegisters} \subseteq Nat

VARIABLES
    client,                 \* RedisClient
    mContactListenersMap,   \* the topics the Router's listener is subscribed to
    mForks,                 \* topic -> late forks under way
    fetching,               \* topic -> fetches of the record not answered
    started,                \* late forks so far
    registers               \* REGISTERs so far

lateVars == <<client, mContactListenersMap, mForks, fetching, started, registers>>

LateInit ==
    /\ client = Fresh
    /\ mContactListenersMap = {}
    /\ mForks = [t \in Topics |-> 0]
    /\ fetching = [t \in Topics |-> 0]
    /\ started = 0
    /\ registers = 0

Router == <<mContactListenersMap, mForks, fetching, started, registers>>

(* The requests that wait on a session that is closed fail; nobody is told *)
(* of a fetch that fails.                                                  *)
Dropped(s) == fetching' = IF s = "cmd" THEN [t \in Topics |-> 0] ELSE fetching

----------------------------------------------------------------------------
(* The Router. *)

(* RegistrarDb::subscribe, which calls the backend for a new listener only *)
SubscribeListener(t) ==
    /\ mContactListenersMap' = mContactListenersMap \cup {t}
    /\ client' \in (IF t \in mContactListenersMap THEN {client} ELSE Subscribe(client, t))

(* RegistrarDb::unsubscribe, the Router having the only listener *)
UnsubscribeListener(t) ==
    /\ mContactListenersMap' = mContactListenersMap \ {t}
    /\ client' \in Unsubscribe(client, t)

(* routeRequest, for a fork context that is late *)
NewLateFork(t) ==
    /\ started < MaxForks
    /\ started' = started + 1
    /\ mForks' = [mForks EXCEPT ![t] = @ + 1]
    /\ SubscribeListener(t)
    /\ UNCHANGED <<fetching, registers>>

(* onForkContextFinished *)
ForkFinished(t) ==
    /\ mForks[t] > 0
    /\ mForks' = [mForks EXCEPT ![t] = @ - 1]
    /\ UNCHANGED <<client, mContactListenersMap, fetching, started, registers>>

(* The topic is given up whenever a contact is registered. *)
MutOnContactRegistered(t) == UnsubscribeListener(t)

(* onContactRegistered, called back by notifyContactListener. *)
OnContactRegistered(t) ==
    IF t \in mContactListenersMap /\ mForks[t] = 0
      THEN UnsubscribeListener(t)
      ELSE UNCHANGED <<client, mContactListenersMap>>

----------------------------------------------------------------------------
(* Notifications. *)

(* Another proxy serves a REGISTER and publishes it.  handlePublish, and   *)
(* the fetch of the record, unless the session for it cannot be had.       *)
Register(t) ==
    /\ registers < MaxRegisters
    /\ registers' = registers + 1
    /\ IF client.sub = "Connected" /\ ~client.silent /\ t \in client.server /\ client.callbacks[t] # None
         THEN \E d \in TryReconnect([client EXCEPT !.mSubscriptions[t] = Replied(@, TRUE)]) :
                /\ client' = d
                /\ fetching' = IF IsReady(d) THEN [fetching EXCEPT ![t] = @ + 1] ELSE fetching
         ELSE UNCHANGED <<client, fetching>>
    /\ UNCHANGED <<mContactListenersMap, mForks, started>>

Fetched(t) ==
    /\ fetching[t] > 0 /\ client.cmd = "Connected"
    /\ fetching' = [fetching EXCEPT ![t] = @ - 1]
    /\ OnContactRegistered(t)
    /\ UNCHANGED <<mForks, started, registers>>

----------------------------------------------------------------------------
(* The sessions. *)

ReplyArrives ==
    /\ client.sub = "Connected" /\ ~client.silent /\ client.sent # <<>>
    /\ \/ client' = Answer(client)
       \/ /\ Head(client.sent)[1] = "PING" /\ client.breaks < MaxFailures
          /\ client' = PingFails(client)
    /\ UNCHANGED Router

Connected(s) ==
    /\ client[s] = "Connecting"
    /\ client' = OnConnect(client, s)
    /\ UNCHANGED Router

(* An attempt to connect fails, or a connection breaks: onConnect(),       *)
(* onDisconnect() with an error.                                           *)
Break(s) ==
    /\ client[s] # "Disconnected" /\ client.breaks < MaxFailures
    /\ client' \in TryReconnect(Broken(Closed(client, s)))
    /\ Dropped(s)
    /\ UNCHANGED <<mContactListenersMap, mForks, started, registers>>

(* The subscription connection is cut without notice. *)
Silence ==
    /\ client.sub = "Connected" /\ ~client.silent /\ client.breaks < MaxFailures
    /\ client' = [Broken(client) EXCEPT !.silent = TRUE, !.server = {}]
    /\ UNCHANGED Router

(* onSubSessionKeepAliveTimer *)
KeepAliveTimer ==
    /\ client' \in KeepAlive(client)
    /\ UNCHANGED Router

(* onTryReconnectTimer *)
ReconnectTimer ==
    /\ client.timer
    /\ \E d \in TryReconnect(client) : client' = [d EXCEPT !.timer = FALSE]
    /\ UNCHANGED Router

(* A second passes since the last rotation. *)
Second ==
    /\ client.paced
    /\ client' = [client EXCEPT !.paced = FALSE]
    /\ UNCHANGED Router

LateNext ==
    \/ \E t \in Topics : NewLateFork(t) \/ ForkFinished(t) \/ Register(t) \/ Fetched(t)
    \/ \E s \in Sessions : Connected(s) \/ Break(s)
    \/ ReplyArrives \/ Silence \/ KeepAliveTimer \/ ReconnectTimer \/ Second

Working == client.sub = "Connected" /\ ~client.silent

(* Redis accepts connections and answers on those that work, faster than   *)
(* the keep-alive gives up connections; the timers fire.                   *)
LateFairness ==
    /\ []<>Working => []<>(Working /\ client.sent = <<>>)
    /\ \A s \in Sessions : SF_lateVars(Connected(s))
    /\ WF_lateVars(KeepAliveTimer)
    /\ WF_lateVars(Second)

LateSpec == LateInit /\ [][LateNext]_lateVars /\ LateFairness

----------------------------------------------------------------------------
(* Properties. *)

(* As long as there is a late fork for a topic, the Router listens to it.  *)
LateForksListen == \A t \in Topics : mForks[t] > 0 => t \in mContactListenersMap

Wanted(t) == client.mSubscriptions[t] # None /\ ~client.mSubscriptions[t].unsubbed

(* On a connection that works and has answered everything, Redis sends the *)
(* topics of mSubscriptions that were not given up and no others, and      *)
(* there is a callback for each.                                           *)
SubscriptionsAgree ==
    (Working /\ client.sent = <<>>) =>
        \A t \in Topics : /\ (t \in client.server) <=> Wanted(t)
                          /\ Wanted(t) => client.callbacks[t] # None

(* A subscription that was made is made again on every new connection:     *)
(* Redis has it in the end, until it is given up.                          *)
EventuallySubscribed == \A t \in Topics : Wanted(t) ~> (t \in client.server \/ ~Wanted(t))

(* A connection that was cut without notice is replaced. *)
SilenceDetected == client.silent ~> ~client.silent
=============================================================================
