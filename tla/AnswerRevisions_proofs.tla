----------------------- MODULE AnswerRevisions_proofs -----------------------
(***************************************************************************)
(* Proofs about AnswerRevisions for any number of clients, questions and   *)
(* requests in flight.  The argument: as long as a question's answer was   *)
(* never cleared, its revision counts its versions, so the revision that a *)
(* request expects says exactly which version its sender had read.         *)
(***************************************************************************)
EXTENDS AnswerRevisions, TLAPS

\* For a question never cleared, every revision in the system is a version number.
RevisionsCount ==
    \A q \in Questions \ cleared :
        /\ version[q] = RevisionOf(q)
        /\ \A c \in Clients :
             known[c][q].revision = known[c][q].version /\ known[c][q].version <= version[q]
        /\ \A m \in inFlight : m.items[q] # NoItem =>
             m.items[q].expected = m.items[q].basis /\ m.items[q].basis <= version[q]

IInv == TypeOK /\ RevisionsCount /\ BlindOnlyAfterClear

(***************************************************************************)
(* Types.                                                                  *)
(***************************************************************************)
LEMMA RevisionType ==
    ASSUME TypeOK, NEW q \in Questions
    PROVE  RevisionOf(q) \in Nat
BY AnswerAssumption DEF TypeOK, RevisionOf, Row

LEMMA ItemType ==
    ASSUME TypeOK, NEW m \in inFlight, NEW q \in Touched(m)
    PROVE  q \in Questions /\ m.items[q] \in Item
BY DEF TypeOK, Message, Touched

LEMMA ConsumeShrinks ==
    ASSUME NEW m, Consume(m)
    PROVE  inFlight' \subseteq inFlight
BY DEF Consume

LEMMA TypeInit == Init => TypeOK
BY DEF Init, TypeOK

\* Every step keeps every variable in its type.
LEMMA TypeStep == TypeOK /\ [Next]_vars => TypeOK'
<1> SUFFICES ASSUME TypeOK, [Next]_vars PROVE TypeOK'
    OBVIOUS
<1>1. ASSUME NEW c \in Clients, NEW questions \in SUBSET Questions, Refresh(c, questions)
      PROVE  TypeOK'
  <2>1. \A q \in Questions : [revision |-> RevisionOf(q), version |-> version[q]]
                               \in [revision : Nat, version : Nat]
    BY RevisionType DEF TypeOK
  <2>2. [q \in Questions |-> IF q \in questions
                             THEN [revision |-> RevisionOf(q), version |-> version[q]]
                             ELSE known[c][q]]
          \in [Questions -> [revision : Nat, version : Nat]]
    BY <2>1 DEF TypeOK
  <2>3. known' \in [Clients -> [Questions -> [revision : Nat, version : Nat]]]
    BY <1>1, <2>2 DEF Refresh, TypeOK
  <2> QED
    BY <1>1, <2>3 DEF Refresh, TypeOK
<1>2. ASSUME NEW c \in Clients, NEW kind \in Kinds, NEW questions \in SUBSET Questions,
             NEW value \in Values, Send(c, kind, questions, value)
      PROVE  TypeOK'
  <2> DEFINE items == [q \in Questions |->
                 IF q \in questions
                 THEN [value |-> value, expected |-> known[c][q].revision,
                       basis |-> known[c][q].version]
                 ELSE NoItem]
  <2>1. \A q \in Questions : known[c][q] \in [revision : Nat, version : Nat]
    BY DEF TypeOK
  <2>2. items \in [Questions -> Item \cup {NoItem}]
    BY <2>1 DEF Item
  <2>3. [kind |-> kind, items |-> items] \in Message
    BY <2>2 DEF Message
  <2> QED
    BY <1>2, <2>3 DEF Send, TypeOK
<1>3. ASSUME NEW m \in inFlight, SaveAnswers(m)
      PROVE  TypeOK'
  <2> DEFINE written == {q \in Touched(m) : Writes(m.kind, q, m.items[q])}
  <2>1. \A q \in written : q \in Questions /\ m.items[q].value \in Values /\ NextRevision(q) \in Nat
    BY ItemType, RevisionType DEF Item, NextRevision
  <2>2. \A q \in written : [value |-> m.items[q].value, revision |-> NextRevision(q)] \in Row
    BY <2>1 DEF Row
  <2>3. answer' \in [Questions -> Row \cup {NoAnswer}]
    BY <1>3, <2>2 DEF SaveAnswers, TypeOK
  <2>4. version' \in [Questions -> Nat]
    BY <1>3 DEF SaveAnswers, TypeOK
  <2>5. blind' \subseteq Questions
    BY <1>3, <2>1 DEF SaveAnswers, TypeOK
  <2>6. inFlight' \subseteq Message
    BY <1>3, ConsumeShrinks DEF SaveAnswers, TypeOK
  <2> QED
    BY <1>3, <2>3, <2>4, <2>5, <2>6 DEF SaveAnswers, TypeOK
<1>4. ASSUME NEW m \in inFlight, ClearAnswer(m)
      PROVE  TypeOK'
  <2>1. inFlight' \subseteq Message
    BY <1>4, ConsumeShrinks DEF ClearAnswer, TypeOK
  <2> QED
    BY <1>4, <2>1, ItemType DEF ClearAnswer, AfterClear, TypeOK
<1>5. ASSUME NEW m \in inFlight, Drop(m)
      PROVE  TypeOK'
  BY <1>5 DEF Drop, TypeOK
<1>6. CASE UNCHANGED vars
  BY <1>6 DEF vars, TypeOK
<1> QED
  BY <1>1, <1>2, <1>3, <1>4, <1>5, <1>6 DEF Next

(***************************************************************************)
(* The invariant.                                                          *)
(***************************************************************************)
\* What an accepted item of a question never cleared says: its sender had
\* read the current version.
LEMMA AcceptedIsCurrent ==
    ASSUME IInv, NEW m \in inFlight, NEW q \in Touched(m), q \notin cleared,
           Writes(m.kind, q, m.items[q])
    PROVE  m.items[q].basis = version[q]
<1>1. q \in Questions /\ m.items[q] # NoItem /\ m.items[q] \in Item
  BY ItemType DEF IInv, Touched
<1>2. m.items[q].expected = m.items[q].basis /\ m.items[q].basis <= version[q]
  BY <1>1 DEF IInv, RevisionsCount
<1>3. version[q] = RevisionOf(q) /\ version[q] \in Nat
  BY <1>1 DEF IInv, RevisionsCount, TypeOK
<1>4. CASE Updates(q, m.items[q])
  BY <1>2, <1>3, <1>4 DEF Updates, RevisionOf
<1>5. CASE Inserts(m.kind, q, m.items[q])
  <2>1. version[q] = 0
    BY <1>3, <1>5 DEF Inserts, RevisionOf
  <2> QED
    BY <1>1, <1>2, <2>1 DEF Item
<1> QED
  BY <1>4, <1>5 DEF Writes

LEMMA InvInit == Init => IInv
<1> SUFFICES ASSUME Init PROVE IInv
    OBVIOUS
<1>1. RevisionsCount
  BY DEF Init, RevisionsCount, RevisionOf
<1> QED
  BY <1>1, TypeInit DEF IInv, Init, BlindOnlyAfterClear

LEMMA InvStep == IInv /\ [Next]_vars => IInv'
<1> SUFFICES ASSUME IInv, [Next]_vars PROVE IInv'
    OBVIOUS
<1> TypeOK /\ TypeOK'
  BY TypeStep DEF IInv
<1>1. ASSUME NEW c \in Clients, NEW questions \in SUBSET Questions, Refresh(c, questions)
      PROVE  IInv'
  <2>1. \A q \in Questions : RevisionOf(q)' = RevisionOf(q)
    BY <1>1 DEF Refresh, RevisionOf
  <2>2. \A d \in Clients, q \in Questions :
          known'[d][q] = IF d = c /\ q \in questions
                         THEN [revision |-> RevisionOf(q), version |-> version[q]]
                         ELSE known[d][q]
    BY <1>1 DEF Refresh, TypeOK
  <2>3. \A q \in Questions : version[q] \in Nat
    BY DEF TypeOK
  <2>4. RevisionsCount'
    BY <1>1, <2>1, <2>2, <2>3 DEF Refresh, IInv, RevisionsCount
  <2> QED
    BY <1>1, <2>4 DEF Refresh, IInv, BlindOnlyAfterClear
<1>2. ASSUME NEW c \in Clients, NEW kind \in Kinds, NEW questions \in SUBSET Questions,
             NEW value \in Values, Send(c, kind, questions, value)
      PROVE  IInv'
  <2> DEFINE new == [kind |-> kind,
                     items |-> [q \in Questions |->
                         IF q \in questions
                         THEN [value |-> value, expected |-> known[c][q].revision,
                               basis |-> known[c][q].version]
                         ELSE NoItem]]
  <2>1. inFlight' = inFlight \cup {new}
    BY <1>2 DEF Send
  <2>2. \A q \in Questions \ cleared : new.items[q] # NoItem =>
          new.items[q].expected = new.items[q].basis /\ new.items[q].basis <= version[q]
    BY DEF IInv, RevisionsCount
  <2>3. \A q \in Questions : RevisionOf(q)' = RevisionOf(q)
    BY <1>2 DEF Send, RevisionOf
  <2> HIDE DEF new
  <2>4. RevisionsCount'
    BY <1>2, <2>1, <2>2, <2>3 DEF Send, IInv, RevisionsCount
  <2> QED
    BY <1>2, <2>4 DEF Send, IInv, BlindOnlyAfterClear
<1>3. ASSUME NEW m \in inFlight, SaveAnswers(m)
      PROVE  IInv'
  <2> DEFINE written == {q \in Touched(m) : Writes(m.kind, q, m.items[q])}
  <2>1. \A q \in written : q \in Questions
    BY ItemType
  <2>2. \A q \in Questions : RevisionOf(q) \in Nat /\ version[q] \in Nat
    BY RevisionType DEF TypeOK
  <2>3. \A q \in Questions :
          version'[q] = IF q \in written THEN version[q] + 1 ELSE version[q]
    BY <1>3 DEF SaveAnswers
  <2>4. \A q \in Questions :
          answer'[q] = IF q \in written
                       THEN [value |-> m.items[q].value, revision |-> RevisionOf(q) + 1]
                       ELSE answer[q]
    BY <1>3 DEF SaveAnswers, NextRevision
  <2>5. \A q \in written : [value |-> m.items[q].value, revision |-> RevisionOf(q) + 1] # NoAnswer
    <3>1. \A q \in written : m.items[q].value \in Values /\ RevisionOf(q) + 1 \in Nat
      BY ItemType, <2>1, <2>2 DEF Item
    <3> QED
      BY <3>1, AnswerAssumption
  <2>6. \A q \in Questions :
          RevisionOf(q)' = IF q \in written THEN RevisionOf(q) + 1 ELSE RevisionOf(q)
    <3> HIDE DEF written
    <3> SUFFICES ASSUME NEW q \in Questions
                 PROVE  RevisionOf(q)' = IF q \in written THEN RevisionOf(q) + 1 ELSE RevisionOf(q)
      OBVIOUS
    <3>1. RevisionOf(q)' = IF answer'[q] = NoAnswer THEN 0 ELSE answer'[q].revision
      BY DEF RevisionOf
    <3>2. CASE q \in written
      <4>1. answer'[q] = [value |-> m.items[q].value, revision |-> RevisionOf(q) + 1]
        BY <2>4, <3>2
      <4>2. answer'[q] # NoAnswer
        BY <2>5, <3>2, <4>1
      <4> QED
        BY <3>1, <3>2, <4>1, <4>2
    <3>3. CASE q \notin written
      BY <2>4, <3>1, <3>3 DEF RevisionOf
    <3> QED
      BY <3>2, <3>3
  <2>7. inFlight' \subseteq inFlight /\ known' = known /\ cleared' = cleared
    BY <1>3, ConsumeShrinks DEF SaveAnswers
  <2>8. \A q \in Questions : version[q] <= version'[q]
    BY <2>2, <2>3
  <2>9. RevisionsCount'
    <3> SUFFICES ASSUME NEW q \in Questions \ cleared
                 PROVE  /\ version'[q] = RevisionOf(q)'
                        /\ \A c \in Clients : /\ known[c][q].revision = known[c][q].version
                                              /\ known[c][q].version <= version'[q]
                        /\ \A n \in inFlight : n.items[q] # NoItem =>
                             n.items[q].expected = n.items[q].basis /\ n.items[q].basis <= version'[q]
      BY <2>7 DEF RevisionsCount
    <3>1. version'[q] = RevisionOf(q)'
      BY <2>3, <2>6 DEF IInv, RevisionsCount
    <3>2. ASSUME NEW c \in Clients
          PROVE  known[c][q].revision = known[c][q].version /\ known[c][q].version <= version'[q]
      <4>1. known[c][q].version \in Nat /\ version[q] \in Nat /\ version'[q] \in Nat
        BY DEF TypeOK
      <4> QED
        BY <4>1, <2>8 DEF IInv, RevisionsCount
    <3>3. ASSUME NEW n \in inFlight, n.items[q] # NoItem
          PROVE  n.items[q].expected = n.items[q].basis /\ n.items[q].basis <= version'[q]
      <4>1. n.items[q].basis \in Nat /\ version[q] \in Nat /\ version'[q] \in Nat
        BY <3>3 DEF TypeOK, Message, Item
      <4> QED
        BY <3>3, <4>1, <2>8 DEF IInv, RevisionsCount
    <3> QED
      BY <3>1, <3>2, <3>3
  <2>10. BlindOnlyAfterClear'
    <3>1. blind' = blind \cup {q \in written : m.items[q].basis # version[q]}
      BY <1>3 DEF SaveAnswers
    <3>2. \A q \in written : q \notin cleared => m.items[q].basis = version[q]
      BY AcceptedIsCurrent
    <3> QED
      BY <2>7, <3>1, <3>2 DEF IInv, BlindOnlyAfterClear
  <2> QED
    BY <2>9, <2>10 DEF IInv
<1>4. ASSUME NEW m \in inFlight, ClearAnswer(m)
      PROVE  IInv'
  <2>1. PICK q \in Touched(m) :
          /\ Updates(q, m.items[q])
          /\ answer' = [answer EXCEPT ![q] = NoAnswer]
          /\ version' = [version EXCEPT ![q] = @ + 1]
          /\ blind' = IF m.items[q].basis # version[q] THEN blind \cup {q} ELSE blind
          /\ cleared' = cleared \cup {q}
          /\ Consume(m)
          /\ UNCHANGED known
    BY <1>4 DEF ClearAnswer, AfterClear
  <2>2. inFlight' \subseteq inFlight
    BY <2>1, ConsumeShrinks
  <2>3. \A p \in Questions \ cleared' :
          p \notin cleared /\ version'[p] = version[p] /\ RevisionOf(p)' = RevisionOf(p)
    BY <2>1 DEF RevisionOf, TypeOK
  <2>4. RevisionsCount'
    BY <2>1, <2>2, <2>3 DEF IInv, RevisionsCount
  <2> QED
    BY <2>1, <2>4 DEF IInv, BlindOnlyAfterClear
<1>5. ASSUME NEW m \in inFlight, Drop(m)
      PROVE  IInv'
  BY <1>5 DEF Drop, IInv, RevisionsCount, RevisionOf, BlindOnlyAfterClear
<1>6. CASE UNCHANGED vars
  BY <1>6 DEF vars, IInv, RevisionsCount, RevisionOf, BlindOnlyAfterClear
<1> QED
  BY <1>1, <1>2, <1>3, <1>4, <1>5, <1>6 DEF Next

(***************************************************************************)
(* Theorems.                                                               *)
(***************************************************************************)
\* The type invariant of the answers, the clients and the network.
THEOREM TypeCorrect == Spec => []TypeOK
<1>1. TypeOK /\ [Next]_vars => TypeOK'
  BY TypeStep
<1> QED
  BY <1>1, TypeInit, PTL DEF Spec

\* The OCC rules of all four write paths let no write of a never-cleared answer
\* replace a version that its sender had not read, with any number of tabs,
\* questions, delayed and duplicated requests.
THEOREM NoLostUpdate == Spec => [](BlindOnlyAfterClear)
<1>1. IInv => BlindOnlyAfterClear
  BY DEF IInv
<1> QED
  BY <1>1, InvInit, InvStep, PTL DEF Spec

\* Equal revisions in two tabs mean equal answers, until the answer is cleared.
THEOREM RevisionsIdentify == Spec => []RevisionNamesVersion
<1>1. IInv => RevisionNamesVersion
  BY DEF IInv, RevisionsCount, RevisionNamesVersion
<1> QED
  BY <1>1, InvInit, InvStep, PTL DEF Spec
=============================================================================
