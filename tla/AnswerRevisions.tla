--------------------------- MODULE AnswerRevisions ---------------------------
(***************************************************************************)
(* Optimistic concurrency control on the answers of one ACTIVE attempt     *)
(* (saveAnswer, clearAnswer, batchSaveAnswers and the dirty answers of     *)
(* submitAttempt).  Several clients, browser tabs of the candidate, act on *)
(* what they last read; their requests are delayed, duplicated and lost by *)
(* the network.  Each handler holds the attempt row lock, so it is one     *)
(* step.                                                                   *)
(***************************************************************************)
EXTENDS Naturals, FiniteSets

CONSTANTS
    Clients, Questions, Values,
    NoAnswer,       \* no row in answers: the question is unanswered
    NoItem,         \* a request that does not touch a question
    MaxVersion,     \* bound on the committed changes of an answer
    MaxInFlight     \* bound on the requests in the network

ASSUME AnswerAssumption ==
    /\ NoItem \notin [value : Values, expected : Nat, basis : Nat]
    /\ NoAnswer \notin [value : Values, revision : Nat]
    /\ MaxVersion \in Nat /\ MaxInFlight \in Nat

VARIABLES
    answer,     \* the answers table: value and revision, or no row
    version,    \* history: how many times the answer was changed or cleared
    known,      \* what each client last read: the revision, and its version
    inFlight,   \* requests in the network
    active,     \* the attempt is ACTIVE: not yet submitted
    blind,      \* history: questions where a write replaced a version unseen by its sender
    cleared     \* history: questions whose answer was cleared at some time

vars == <<answer, version, known, inFlight, active, blind, cleared>>

Row == [value : Values, revision : Nat]
Item == [value : Values, expected : Nat, basis : Nat]
Kinds == {"save", "batch", "submit", "clear"}
Message == [kind : Kinds, items : [Questions -> Item \cup {NoItem}]]

TypeOK ==
    /\ answer \in [Questions -> Row \cup {NoAnswer}]
    /\ version \in [Questions -> Nat]
    /\ known \in [Clients -> [Questions -> [revision : Nat, version : Nat]]]
    /\ inFlight \subseteq Message
    /\ active \in BOOLEAN
    /\ blind \subseteq Questions
    /\ cleared \subseteq Questions

Init ==
    /\ answer = [q \in Questions |-> NoAnswer]
    /\ version = [q \in Questions |-> 0]
    /\ known = [c \in Clients |-> [q \in Questions |-> [revision |-> 0, version |-> 0]]]
    /\ inFlight = {}
    /\ active = TRUE
    /\ blind = {} /\ cleared = {}

\* The revision a client is told for a question; an unanswered one counts as 0.
RevisionOf(q) == IF answer[q] = NoAnswer THEN 0 ELSE answer[q].revision

Touched(m) == {q \in Questions : m.items[q] # NoItem}

(***************************************************************************)
(* The server's OCC rules, per item of a request.                          *)
(***************************************************************************)
\* Mutant: the expected revision of an answered question is not compared.
Updates_NoCheck(q, item) == answer[q] # NoAnswer

\* An answered question: the expected revision is the current one.
Updates(q, item) == answer[q] # NoAnswer /\ item.expected = answer[q].revision

\* Network retry of the save that was committed just before: same payload, no write.
IsRetry(q, item) ==
    /\ answer[q] # NoAnswer
    /\ item.expected + 1 = answer[q].revision /\ item.value = answer[q].value

\* An unanswered question takes 0 or 1, and in a batch only 0.
Inserts(kind, q, item) ==
    answer[q] = NoAnswer /\ item.expected \in (IF kind = "batch" THEN {0} ELSE {0, 1})

Writes(kind, q, item) == Updates(q, item) \/ Inserts(kind, q, item)

\* Mutant: the UPDATE leaves the revision of an answered question as it is.
NextRevision_Kept(q) == IF answer[q] = NoAnswer THEN 1 ELSE answer[q].revision

\* insertAnswer starts at 1, updateAnswer adds 1.
NextRevision(q) == RevisionOf(q) + 1

\* deleteAnswer: no row is left, and no trace of its revision.
AfterClear(q) == NoAnswer

(***************************************************************************)
(* Clients.                                                                *)
(***************************************************************************)
\* GET answers (all of them), or the revision in the response to a save.
Refresh(c, questions) ==
    /\ known' = [known EXCEPT ![c] =
         [q \in Questions |-> IF q \in questions
                              THEN [revision |-> RevisionOf(q), version |-> version[q]]
                              ELSE known[c][q]]]
    /\ UNCHANGED <<answer, version, inFlight, active, blind, cleared>>

\* A request for some questions, expecting the revisions the client knows of.
Send(c, kind, questions, value) ==
    /\ kind # "submit" => questions # {}
    /\ Cardinality(inFlight) < MaxInFlight
    /\ kind \in {"save", "clear"} => Cardinality(questions) = 1
    /\ inFlight' = inFlight \cup
         {[kind |-> kind,
           items |-> [q \in Questions |->
               IF q \in questions
               THEN [value |-> value, expected |-> known[c][q].revision,
                     basis |-> known[c][q].version]
               ELSE NoItem]]}
    /\ UNCHANGED <<answer, version, known, active, blind, cleared>>

(***************************************************************************)
(* The server handles a request; the network may keep a duplicate of it.   *)
(***************************************************************************)
Consume(m) == inFlight' \in {inFlight, inFlight \ {m}}

\* All items are acceptable: every one is applied, in one transaction, which
\* for a submission also ends the attempt.
SaveAnswers(m) ==
    LET written == {q \in Touched(m) : Writes(m.kind, q, m.items[q])}
    IN  /\ active /\ m.kind # "clear"
        /\ \A q \in Touched(m) \ written : IsRetry(q, m.items[q])
        /\ \A q \in written : version[q] < MaxVersion
        /\ answer' = [q \in Questions |->
             IF q \in written
             THEN [value |-> m.items[q].value, revision |-> NextRevision(q)]
             ELSE answer[q]]
        /\ version' = [q \in Questions |-> IF q \in written THEN version[q] + 1 ELSE version[q]]
        /\ blind' = blind \cup {q \in written : m.items[q].basis # version[q]}
        /\ active' = (m.kind # "submit")
        /\ Consume(m)
        /\ UNCHANGED <<known, cleared>>

\* clearAnswer deletes the row: the next save starts again at revision 1.
ClearAnswer(m) ==
    \E q \in Touched(m) :
        /\ active /\ m.kind = "clear"
        /\ Updates(q, m.items[q])
        /\ version[q] < MaxVersion
        /\ answer' = [answer EXCEPT ![q] = AfterClear(q)]
        /\ version' = [version EXCEPT ![q] = @ + 1]
        /\ blind' = IF m.items[q].basis # version[q] THEN blind \cup {q} ELSE blind
        /\ cleared' = cleared \cup {q}
        /\ Consume(m)
        /\ UNCHANGED <<known, active>>

\* Rejected as stale (the transaction rolls back), a no-op clear, or lost.
Drop(m) ==
    /\ inFlight' = inFlight \ {m}
    /\ UNCHANGED <<answer, version, known, active, blind, cleared>>

Next ==
    \/ \E c \in Clients, questions \in SUBSET Questions :
         \/ Refresh(c, questions)
         \/ \E kind \in Kinds, value \in Values : Send(c, kind, questions, value)
    \/ \E m \in inFlight : SaveAnswers(m) \/ ClearAnswer(m) \/ Drop(m)

Spec == Init /\ [][Next]_vars

(***************************************************************************)
(* Properties.                                                             *)
(***************************************************************************)
\* As long as nobody clears an answer, every write that the OCC rules accept
\* replaces the very version its sender had read, whatever was delayed,
\* duplicated, or sent from a stale tab or in a batch with other answers.
BlindOnlyAfterClear == blind \subseteq cleared

\* A revision number names one state of the answer: two tabs that were told the
\* same revision were shown the same answer (again until it is cleared).
RevisionNamesVersion ==
    \A c, d \in Clients, q \in Questions \ cleared :
        known[c][q].revision = known[d][q].revision =>
            known[c][q].version = known[d][q].version

\* README: "OCC with monotonic revision sequence numbers (expected_revision),
\* preventing overwrite races".
NoBlindOverwrite == blind = {}
==============================================================================
