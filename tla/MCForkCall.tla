------------------------------ MODULE MCForkCall ------------------------------
(* Instances of ForkCall for TLC: one callee with two or three devices.    *)
EXTENDS ForkCall

CONSTANTS u1, u2, u3, d1, d2, d3, d4

MCUids == {u1, u2, u3}
MCDests == {d1, d2, d3, d4}
MCQs == {1, 3}

Contact(u, d, q) == [uid |-> u, dest |-> d, prio |-> q]

Config(late, urgent, noGlobal) ==
    [forkLate |-> late, nextTimeout |-> TRUE, permitSelf |-> FALSE,
     noGlobalDecline |-> noGlobal, treatAllUrgent |-> FALSE, treatDeclineUrgent |-> urgent,
     scheduled |-> FALSE]

(* One, two or three devices with two priorities; one of two may have      *)
(* registered an address of the proxy itself.                              *)
AnyDevices == {<<Contact(u1, d1, 3)>>, <<Contact(u1, d1, 3), Contact(u2, d3, 3)>>,
               <<Contact(u1, d1, 3), Contact(u2, d2, 3)>>, <<Contact(u1, d1, 1), Contact(u2, d2, 3)>>,
               <<Contact(u1, d1, 3), Contact(u2, d2, 3), Contact(u3, d4, 1)>>}

(* One reconnects from another address, or a third one registers.          *)
Reconnections == {Contact(u1, d4, 3), Contact(u3, d3, 1)}

(* Sent at once, or behind the ScheduleInjector; with and without          *)
(* fork-late, fork-no-global-decline (together with                        *)
(* treat-decline-as-urgent), treat-all-as-urgent and the proxy's own 1xx.  *)
AllConfigs ==
    {[Config(late, FALSE, FALSE) EXCEPT !.scheduled = s] : late \in BOOLEAN, s \in BOOLEAN}
    \cup {[Config(FALSE, TRUE, TRUE) EXCEPT !.permitSelf = TRUE],
          [Config(FALSE, FALSE, FALSE) EXCEPT !.treatAllUrgent = TRUE]}
=============================================================================
