---------------------------- MODULE MCForkMessage ----------------------------
(* Instances of ForkMessage for TLC.                                       *)
EXTENDS ForkMessage

CONSTANTS u1, u2, u3, d1, d2, d3, d4

MCUids == {u1, u2, u3}
MCDests == {d1, d2, d3, d4}
MCQs == {1, 3}

Contact(u, d, q) == [uid |-> u, dest |-> d, prio |-> q]

Config(late) ==
    [forkLate |-> late, nextTimeout |-> FALSE, permitSelf |-> TRUE, noGlobalDecline |-> FALSE,
     treatAllUrgent |-> FALSE, treatDeclineUrgent |-> FALSE, scheduled |-> FALSE]

BothConfigs == {Config(late) : late \in BOOLEAN}
OneDevice == {<<Contact(u1, d1, 3)>>, <<Contact(u1, d1, 1)>>}
TwoDevices == {<<Contact(u1, d1, p[1]), Contact(u2, d2, p[2])>> : p \in [1..2 -> MCQs]}
SelfDevice == {<<Contact(u1, d1, 3), Contact(u2, d3, 3)>>}
Start12 == OneDevice \cup TwoDevices \cup SelfDevice

(* A device back from a new address or from the same one, and a new device *)
(* with the address of another one or of the proxy itself.                 *)
Reconnections == {Contact(u1, d4, 3), Contact(u1, d1, 1), Contact(u3, d3, 1), Contact(u3, d2, 3)}
=============================================================================
