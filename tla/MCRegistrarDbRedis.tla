-------------------------- MODULE MCRegistrarDbRedis ---------------------------
(* Instances of RegistrarDbRedis for TLC.                                  *)
EXTENDS RegistrarDbRedis

CONSTANTS plain, again, p1, p2

Contact(key, uri, push) == [key |-> key, uri |-> uri, push |-> push]

Offer(contacts, lifetime) == [contacts |-> contacts, lifetime |-> lifetime]

(* plain and again register the same address without unique id, as a       *)
(* client does before and after a restart; again registers a second one    *)
(* with it, which has a unique id and push parameters, plain one without;  *)
(* plain also removes the first.                                           *)
MCOffers ==
    [u \in UAs |->
        CASE u = plain -> {Offer(<<Contact(NoKey, "u1", {}), Contact(NoKey, "u4", {})>>, 2),
                           Offer(<<Contact(NoKey, "u1", {})>>, 0)}
          [] OTHER -> {Offer(<<Contact(NoKey, "u1", {}),
                               Contact("k1", "u2", {"p", "voip"})>>, 2)}]

(* Earlier binds left one row too many: the second contact of again before *)
(* its application was installed anew (another unique id, one push         *)
(* parameter the same), one of another device, which expires at time 1,    *)
(* and one with an address that is not valid.                              *)
Row(key, uri, push, until) ==
    [key |-> <<"id", key, 0>>, gen |-> FALSE, uri |-> uri, push |-> push,
     callId |-> "c0", cseq |-> 1, time |-> 0, until |-> until]

MCStored == {{Row("k0", "u2", {"p"}, 2), Row("k2", "u0", {}, 1), Row("k4", "bad", {}, 2)}}

(* again is served by either proxy, so that its REGISTERs may overtake.    *)
MCVia == [u \in UAs |-> IF u = again THEN {p1, p2} ELSE {p2}]
=============================================================================
