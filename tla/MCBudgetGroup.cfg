SPECIFICATION Spec
CONSTANTS
    n1 = n1
    n2 = n2
    c1 = c1
    c2 = c2
    Run <- MCRun
    Coding <- MCCoding
    Cap = 2
    Ask <- MCAsk
    Limit <- MCLimit
    Step = 1
    Mortal <- MCMortal
    Editable <- MCEditable
    Nobody = Nobody
VIEW MCView
INVARIANTS TypeOK 
