\* Two calls; a review, an allowance and a retention of one tick each, so that each
\* lapses in the run, and every goroutine scheduled.
CONSTANTS
    Report = {r1, r2}
    NoReport = none
    Review = 1
    Allowance = 1
    Retention = 1
    PollFailures = 1
    Horizon = 2
SPECIFICATION FairSpec
CHECK_DEADLOCK FALSE
INVARIANTS
    TypeOK
    NeverDeniedThenFiled
    FiledOnce
    LiveIsReachable
PROPERTIES
    OutcomesAreFinal
    EveryCallAnswered
