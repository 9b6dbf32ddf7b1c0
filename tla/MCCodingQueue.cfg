SPECIFICATION Spec
CONSTANTS
    Run <- MCRun
    MaxConcurrent = 2
    Fallible = {}
    Refusable <- MCRefusable
    Expirable = {}
    NoRun = NoRun
VIEW MCView
INVARIANTS TypeOK SlotCap
PROPERTIES QueueFirst
