\* mkfs: up to three files of every length up to and beyond the four blocks a
\* file can have, read in every division into pieces.  A fourth argument finds
\* the inode table full, the largest files do not fit on the image, and one
\* image is a block too large for its bitmap.  Programs and calls end.
SPECIFICATION SequentialSpec
CONSTANTS
    FS_SIZE = 24
    LOG_SIZE = 1
    INODES_NUM = 4
    DIRECT_NUM = 2
    INDIRECT_NUM = 2
    B_SIZE = 2
    IPB = 5
    BPB = 24
    MAXARG = 5
    MAXLEN = 9
    Nodes = {n1, n2, n3}
    NULL = NULL
    MEM = 5
    BYTE = 3
    COUNT = 4
    Tokens = {"a", "%", "s", "c", "d", "x", "p"}
    FormatLength = 4
    Ints <- MCInts
    Strs <- MCStrs
    NIBBLES = 2
    LIMIT = 4
    ROWS = 2
    COLS = 3
    WORD = 8
    MB = 2
    SLOTS = 2
    MaxEntries = 3
    MaxTags = 2
    Starts = {0, 2, 5, 9}
    Lengths = {1, 4, 10}
    Sizes = {9, 16, 21}
INVARIANTS
    TypeOK
    BlocksUsedOnce
    BitmapExact
    RootNamesEveryFile
    PrintsMeaning
    MemInfoExact
PROPERTIES
    WritesFiles
    QueueIsFifo
    StringsAsDocumented
CHECK_DEADLOCK FALSE
