SPECIFICATION Spec
CONSTANTS
    User = {u1, u2}
    Proc = {w1}
    Worker = {k1, k2}
    None = None
    LastDay = 1
    MaxRequests = 2
    MonthStart <- MCMonthStart
    Epochs <- MCEpochs
SYMMETRY MCSymmetry
INVARIANTS TypeOK NeverOvercounts SettledDayExact ChartWindow
CHECK_DEADLOCK FALSE
