\* Two graders of two questions, two attempts, one reader of the analytics.
SPECIFICATION Spec
CONSTANTS
    Attempts = {a1, a2}
    Questions = {q1, q2}
    Subjective = {q1}
    MaxPoints = 1
    Bank <- MCBank
    Paper <- MCPaper
    Sheet <- MCSheet
    NoAnswer = NoAnswer
    Graders = {g1, g2}
    Readers = {r1}
    NoResult = NoResult
    NoGrade = NoGrade
    NoRow = NoRow
    MaxGrades = 3
SYMMETRY Symmetry
INVARIANTS AuditIsAChain ScoreMissesOnlyRacingGrades GradesOnlyAddPoints CacheMissesOnlyOverlaps
