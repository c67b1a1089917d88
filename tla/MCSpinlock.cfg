\* Two locks, nested in any order by a thread and by the handler that
\* interrupts it.
SPECIFICATION FairSpec
CONSTANTS
    Locks = {L1, L2}
    Base = Base
    Irq = Irq
INVARIANTS
    TypeOK
    NeverStuck
PROPERTIES
    ActsAtOneInstant
    CallsReturn
