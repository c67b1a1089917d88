\* Tables of 16 entries: 256 virtual pages, the upper half for the kernel, 24
\* pages of memory.  The further up the kernel ends, the earlier memory runs
\* out: before init_kvm is done, or anywhere in the creation of a process.
SPECIFICATION Spec
CONSTANTS
    N = 16
    KERNBASE = 128
    EXTMEM = 1
    KDATA = 2
    PHYSTOP = 24
    DEVSPACE = 250
    KENDS = {3, 4, 5, 6, 7, 8, 9, 10, 11, 12, 13, 14, 15, 16}
    NINIT = 3
INVARIANTS
    TypeOK
    PagesOwnedOnce
    KernelHalfExact
    UserHalfExact
    OnlyOutOfMemoryStops
