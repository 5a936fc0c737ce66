SPECIFICATION Spec
CONSTANTS
    Users = {1, 2}
    Scenarios <- SafetyScenarios
    Workers = {w1, w2}
    MaxNow = 2
    MaxLag = 1
    ReplayWindow = 1
    MaxCrashes = 0
    None = None
    NoRow = NoRow
    Free = Free
SYMMETRY WorkerSymmetry
INVARIANTS SnapshotFresh NoLockCycle GuardsAgree AckedIsSettled
PROPERTIES ServesEntitlements StaleOnlyUnguarded
