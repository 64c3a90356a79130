------------------------- MODULE MCScheduleInjector --------------------------
(* Instances of ScheduleInjector for TLC: two message forks of normal      *)
(* priority and, for the priorities, a call fork (urgent).                 *)
EXTENDS ScheduleInjector

CONSTANTS m1, m2, call

MixedPriority == [f \in Forks |-> IF f = call THEN 2 ELSE 1]

(* A device that registers twice while a message is pending: m2 and call   *)
(* may have two announcements, m1 has one at a time.                       *)
Announcements == [f \in Forks |-> IF f = m1 THEN 1 ELSE 2]
=============================================================================
