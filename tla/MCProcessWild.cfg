\* Clients that may break every locking rule.
SPECIFICATION Spec
CONSTANTS
    NPROC = 3
    NINIT = 3
    CLocks = {L1}
    Chans = {C1}
    Ptable = Ptable
    NoChan = NoChan
    Wild = TRUE
PROPERTY
    SwitchOnlyUnderPtable
