SPECIFICATION Spec
CONSTANTS
    EmergencyMax = 5
    BatchSize = 2
    Totals <- MCTotals
    Requested <- MCRequested
    NoCap = NoCap
INVARIANTS NeverSilentlyShort ExactlyCapped
