SPECIFICATION FairSpec
CONSTANTS
    NPROC = 2
    NINIT = 2
    CLocks = {L1}
    Chans = {C1}
    Ptable = Ptable
    NoChan = NoChan
    Wild = FALSE
PROPERTY
    InterruptsForceSwitch
