\* The three lines whose handlers send an EOI; a user program with every kind
\* of exception there is for it (one that the kernel skips, one it lets pass,
\* one with an error code that halts), INT with and without privilege, and a
\* page fault and NMI in the kernel.
SPECIFICATION FairSpec
CONSTANTS
    Lines = {0, 1, 14}
    Clients = {0, 2}
    UserFaults = {0, 5, 13, 14}
    UserInts = {3, 128}
    KernelFaults = {2, 14}
    MaxDepth = 3
INVARIANTS
    TypesOK
    ServiceMatchesStack
    StackUnwound
    FrameNamesInterrupted
PROPERTIES
    OpenLineServed
    ResumesInterrupted
