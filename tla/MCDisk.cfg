SPECIFICATION FairSpec
CONSTANTS
    NPROC = 2
    NINIT = 2
    b1 = b1
    b2 = b2
    Bufs = {b1, b2}
    FS_SIZE = 1000
    blockno <- FirstAndLast
    IdeLock = ide_lock
    Ptable = ptable_lock
    NoChan = NoChan
    NoBuf = no_buf
    Spurious = TRUE
INVARIANTS
    TypeOK
    QueueServed
    SleepersQueued
    BufferMatchesDisk
PROPERTIES
    KeepsTheRules
    IoCompletes
