\* Clients that keep the locking rules.
SPECIFICATION FairSpec
CONSTANTS
    NPROC = 3
    NINIT = 3
    CLocks = {L1}
    Chans = {C1, C2}
    Ptable = Ptable
    NoChan = NoChan
    Wild = FALSE
INVARIANTS
    NoPanic
    InterruptsOnlyUnlocked
    SyscallKeepsIFOff
    RunningIsCurrent
    ParkedHoldsNothing
    SleepersHaveChannel
    IInv
PROPERTIES
    NoStarvation
    IdleInterruptible
