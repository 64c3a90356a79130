-------------------------------- MODULE Record --------------------------------
(***************************************************************************)
(* Record: the contacts registered for one address of record, and what a   *)
(* REGISTER does to them.  A contact (ExtendedContact) is a record         *)
(*   key, gen     mKey, and whether it is a placeholder the proxy made up  *)
(*                for a contact without a unique id,                       *)
(*   uri, push    mSipContact and mPushParamList, a set of parameters,     *)
(*   callId, cseq of the REGISTER,                                         *)
(*   time, until  register time and expiry time.                           *)
(* mContacts is a multiset ordered by register time: here, a sequence in   *)
(* that order.  Operations return the contacts together with the           *)
(* ChangeSet, and whether an InvalidCSeq was thrown; contacts already      *)
(* erased when it is thrown stay erased.                                   *)
(***************************************************************************)
EXTENDS Integers, FiniteSets, SequencesExt

CONSTANTS
    InvalidUris,        \* addresses isValidSipUri() does not accept
    mMaxContacts, mAssumeUniqueDomains

ASSUME RecordAssumption ==
    /\ mMaxContacts \in Nat \ {0}
    /\ mAssumeUniqueDomains \in BOOLEAN   \* for an address of record that is a domain

IsExpired(c, now) == c.until <= now

(* PushParamList::operator== : one parameter in common. *)
SamePush(c, d) == c.push \cap d.push # {}

(* Only contacts of the same Call-ID are compared by address. *)
MutMatchContacts(existing, neo, now) ==
    CASE SamePush(existing, neo) /\ existing.time <= neo.time -> "ForceErase"
      [] ~(existing.gen /\ neo.gen) /\ existing.key = neo.key -> "EraseAndNotify"
      [] existing.gen /\ neo.gen /\ existing.uri = neo.uri /\ existing.callId = neo.callId -> "EraseAndNotify"
      [] OTHER -> "Skip"

MatchContacts(existing, neo, now) ==
    CASE SamePush(existing, neo) /\ existing.time <= neo.time -> "ForceErase"
      [] OTHER ->
    CASE ~(existing.gen /\ neo.gen) /\ existing.key = neo.key -> "EraseAndNotify"
      [] ~(existing.gen /\ neo.gen) /\ existing.key # neo.key -> "Skip"
      [] OTHER ->
    CASE existing.uri = neo.uri -> IF existing.callId # neo.callId \/ existing.cseq < neo.cseq
                                     THEN "EraseAndNotify"
                                     ELSE "InvalidCSeq"
      [] OTHER -> IF IsExpired(existing, now) THEN "ForceErase" ELSE "Skip"

(* emplace() in a multiset: behind the contacts of the same time. *)
Emplace(contacts, c) ==
    SelectSeq(contacts, LAMBDA x : x.time <= c.time) \o <<c>>
        \o SelectSeq(contacts, LAMBDA x : x.time > c.time)

NoChange(contacts) == [contacts |-> contacts, mDelete |-> {}, mUpsert |-> {}, invalid |-> FALSE]

(* A contact that matches several updates the first, whose key it takes    *)
(* over, and erases the others.                                            *)
InsertOrUpdateBinding(before, ec, now) ==
    LET contacts == IF mAssumeUniqueDomains THEN <<>> ELSE before
        cleared == IF mAssumeUniqueDomains THEN ToSet(before) ELSE {}
        Match(i) == MatchContacts(contacts[i], ec, now)
        thrown == {i \in DOMAIN contacts : Match(i) = "InvalidCSeq"}
        seen == {i \in DOMAIN contacts : \A j \in thrown : i < j}
        matched == {i \in seen : Match(i) = "EraseAndNotify"}
        erased == matched \cup {i \in seen : Match(i) = "ForceErase"}
        updated == IF IsExpired(ec, now) THEN {} ELSE {i \in matched : \A j \in matched : i <= j}
        neo == IF updated = {} THEN ec ELSE [ec EXCEPT !.key = contacts[CHOOSE i \in updated : TRUE].key]
        kept == SelectSeq(contacts, LAMBDA c : \A i \in erased : contacts[i] # c)
        added == thrown = {} /\ ~IsExpired(ec, now)
    IN [contacts |-> IF added THEN Emplace(kept, neo) ELSE kept,
        mDelete |-> cleared \cup {contacts[i] : i \in erased \ updated},
        mUpsert |-> IF added THEN {neo} ELSE {},
        invalid |-> thrown # {}]

(* The contacts over the limit leave the record and not Redis. *)
MutApplyMaxAor(contacts) ==
    NoChange(SubSeq(contacts, IF Len(contacts) > mMaxContacts THEN Len(contacts) - mMaxContacts + 1 ELSE 1,
                    Len(contacts)))

(* Only the most recent contacts are kept. *)
ApplyMaxAor(contacts) ==
    LET over == IF Len(contacts) > mMaxContacts THEN Len(contacts) - mMaxContacts ELSE 0
    IN [NoChange(SubSeq(contacts, over + 1, Len(contacts))) EXCEPT
           !.mDelete = {contacts[i] : i \in 1..over}]

(* ChangeSet::operator+=, and nothing more once an exception is thrown.    *)
Then(r, next) ==
    IF r.invalid THEN r
    ELSE [next EXCEPT !.mDelete = @ \cup r.mDelete, !.mUpsert = @ \cup r.mUpsert]

(* A contact that is removed and, with the same unique id, registered in   *)
(* the same REGISTER is not removed.                                       *)
EliminateAmbiguousContacts(ecs) ==
    LET Removed(i) == ecs[i].until = ecs[i].time /\ ~ecs[i].gen
        Ambiguous(i) ==
            Removed(i) /\ \E j \in DOMAIN ecs \ {i} : ecs[j].key = ecs[i].key /\ (j > i \/ ~Removed(j))
    IN SelectSeq(ecs, LAMBDA c : \E i \in DOMAIN ecs : ecs[i] = c /\ ~Ambiguous(i))

RemoveInvalidContacts(contacts) ==
    [NoChange(SelectSeq(contacts, LAMBDA c : c.uri \notin InvalidUris)) EXCEPT
        !.mDelete = {c \in ToSet(contacts) : c.uri \in InvalidUris}]

(* Record::update: the contacts of a REGISTER. *)
Update(contacts, ecs, now) ==
    LET Insert(r, ec) == Then(r, InsertOrUpdateBinding(r.contacts, ec, now))
        inserted == FoldLeft(Insert, RemoveInvalidContacts(contacts), EliminateAmbiguousContacts(ecs))
    IN Then(inserted, ApplyMaxAor(inserted.contacts))
=============================================================================
