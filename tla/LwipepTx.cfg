CONSTANTS
    ConsoleRatios <- MCConsoleRatios
    AutoRatios <- MCAutoRatios
    CounterMod = 16
    MaxRouted = 5
SPECIFICATION Spec
INVARIANTS TypeOK RatioHonoured
PROPERTY RouteFound
CHECK_DEADLOCK FALSE
