SPECIFICATION Spec
CONSTANTS
    Calls = {c1, c2}
    Symbols = {s1, s2}
    MaxOpenPositions = 1
    Troubles = {"NoEquity", "DailyLoss", "VaR", "Drawdown"}
    MaxTrips = 2
SYMMETRY Interchangeable
PROPERTIES
    FailedProbeReopens
