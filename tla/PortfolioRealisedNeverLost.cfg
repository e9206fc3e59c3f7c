SPECIFICATION Spec
CONSTANTS
    Symbols = {s1, s2}
    Prices = {9, 14}
    Quantities = {1, 2}
    Commission = 1
    Initial = 200
    Cent = 2
    VolShare = 250
    KellyShare = 12
    MaxShare = 5
    MaxFills = 3
SYMMETRY Interchangeable
INVARIANT RealisedNeverLost
