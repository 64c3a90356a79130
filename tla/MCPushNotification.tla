-------------------------- MODULE MCPushNotification --------------------------
(* Instances of PushNotification for TLC: two devices, one or two tokens.  *)
EXTENDS PushNotification

CONSTANTS u1, u2, d1, d2, d3, k1, k2

MCUids == {u1, u2}
MCDests == {d1, d2, d3}
MCQs == {1, 3}
MCTokens == {k1, k2}
MCToken == [u \in MCUids |-> IF u = u1 THEN k1 ELSE k2]
MCKind == [t \in MCTokens |-> IF t = k1 THEN "ring" ELSE "wake"]

Contact(u, d, q) == [uid |-> u, dest |-> d, prio |-> q]

Config(late, scheduled) ==
    [forkLate |-> late, nextTimeout |-> ~late, permitSelf |-> FALSE,
     noGlobalDecline |-> FALSE, treatAllUrgent |-> ~late, treatDeclineUrgent |-> FALSE,
     scheduled |-> scheduled]

MCConfigs == {Config(TRUE, FALSE), Config(FALSE, TRUE)}
PlainConfigs == {Config(FALSE, FALSE)}

(* The devices are called one after the other, the second one when the     *)
(* first has answered (fork-late) or after a while; the first one, which   *)
(* rings by notifications, or the one that is woken up, reconnects.        *)
MCContacts == {<<Contact(u1, d1, 3), Contact(u2, d2, 1)>>}
MCReconnections == {Contact(u1, d3, 3), Contact(u2, d3, 3)}
=============================================================================
