SPECIFICATION Spec
CONSTANTS
    NoKey = NoKey
    NoStatus = NoStatus
    None = None
    alice = alice
    eve = eve
    Requests = {r1, r2, r3}
    Callers = {alice, eve}
    Keys = {k1}
    Bodies = {b1, b2}
    Statuses = {retired}
    Operations <- AllOperations
    Permitted <- OnlyAlice
SYMMETRY Symmetry
INVARIANT RefusalsTellOnlyOfTheRowAddressed
INVARIANT AnswersConverge
INVARIANT EventsTellTheWrites
INVARIANT WritesAreLostOnlyByRace
PROPERTY ImplementsTable
CHECK_DEADLOCK FALSE
