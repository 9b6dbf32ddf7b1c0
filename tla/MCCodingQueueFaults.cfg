SPECIFICATION FairSpec
CONSTANTS
    Run <- MCRun
    MaxConcurrent = 1
    Fallible <- MCRun
    Refusable <- MCRun
    Expirable <- MCRun
    NoRun = NoRun
INVARIANTS SlotCap
PROPERTIES TimeOutSparesClaimed EveryRunEnds
