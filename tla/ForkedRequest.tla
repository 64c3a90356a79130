---------------------------- MODULE ForkedRequest ----------------------------
(***************************************************************************)
(* What every fork context promises the sender of a request, whatever      *)
(* happens on the branches: one final answer, which never changes, and no  *)
(* context that goes away before it has given it.  The start of a fork may *)
(* already fail the request.                                               *)
(***************************************************************************)
EXTENDS Integers

CONSTANT Answers        \* the final answers, not containing NoAnswer

VARIABLES answer, gone
vars == <<answer, gone>>

NoAnswer == 0

Init == answer \in Answers \cup {NoAnswer} /\ gone = FALSE

(* The sender is answered, by a context that lives on or by its destructor *)
Answer ==
    /\ ~gone
    /\ answer = NoAnswer
    /\ answer' \in Answers
    /\ gone' \in BOOLEAN

(* The context of an answered request is destroyed.                        *)
Forget ==
    /\ ~gone
    /\ answer # NoAnswer
    /\ gone' = TRUE
    /\ UNCHANGED answer

Next == Answer \/ Forget

Spec == Init /\ [][Next]_vars
=============================================================================
