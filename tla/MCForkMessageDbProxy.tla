------------------------- MODULE MCForkMessageDbProxy -------------------------
(* Instances of ForkMessageDbProxy for TLC.                                *)
EXTENDS ForkMessageDbProxy

CONSTANTS u1, u2, d1, d2, d3

MCUids == {u1, u2}
MCDests == {d1, d2, d3}
MCQs == {1, 3}

Contact(u, d, q) == [uid |-> u, dest |-> d, prio |-> q]

Configs ==
    {[forkLate |-> TRUE, nextTimeout |-> FALSE, permitSelf |-> TRUE, noGlobalDecline |-> FALSE,
      treatAllUrgent |-> FALSE, treatDeclineUrgent |-> FALSE, scheduled |-> TRUE]}

(* Two devices, called together or one after the other                     *)
TwoDevices == {<<Contact(u1, d1, q), Contact(u2, d2, 1)>> : q \in MCQs}

(* The first device from another address; the second one from its own      *)
Registrations == {Contact(u1, d3, 1), Contact(u2, d2, 1)}
=============================================================================
