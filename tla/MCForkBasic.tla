----------------------------- MODULE MCForkBasic -----------------------------
(* Instances of ForkBasic for TLC: three contacts, two priorities; or two, *)
(* the second one with an address of the proxy itself.                     *)
EXTENDS ForkBasic, BestBranch

CONSTANTS u1, u2, u3, d1, d2, d3, d4

MCUids == {u1, u2, u3}
MCDests == {d1, d2, d3, d4}
MCQs == {1, 3}

Contact(u, d, q) == [uid |-> u, dest |-> d, prio |-> q]

MCConfigs ==
    {[forkLate |-> FALSE, nextTimeout |-> FALSE, permitSelf |-> TRUE, noGlobalDecline |-> FALSE,
      treatAllUrgent |-> FALSE, treatDeclineUrgent |-> FALSE, scheduled |-> s] : s \in BOOLEAN}

ThreeContacts ==
    {<<Contact(u1, d1, p[1]), Contact(u2, d2, p[2]), Contact(u3, d3, p[3])>> : p \in [1..3 -> MCQs]}
SelfContacts == {<<Contact(u1, d1, 3), Contact(u2, d4, q)>> : q \in MCQs}
AnyContacts == ThreeContacts \cup SelfContacts

(* The loop of findBestBranch returns the branch the ordering of answers   *)
(* puts first, for every list of answers and both values of its argument:  *)
(* its choice does not depend on the order in which it meets the branches, *)
(* beyond the tie between equally good answers.                            *)
LoopFindsBest ==
    \A ignore \in BOOLEAN : LoopBest(fork, ignore) = FindBestBranch(fork, ignore)
=============================================================================
