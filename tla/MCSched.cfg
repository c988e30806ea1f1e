SPECIFICATION Spec
CONSTANTS
    Cores = {"AVR", "Cygwin"}
    Proc = {p1, p2, p3}
    MAX_TIMER_PROCS = 2
    MaxNest = 5
INVARIANTS OneCallsDrivers FlagIsTrue SuspendedIsQuiet MissedIsMadeUp CallsRegistered
PROPERTY FailsafeRuns
