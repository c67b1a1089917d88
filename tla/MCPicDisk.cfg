\* The masks exactly as the kernel programs them at boot.
SPECIFICATION FairSpec
CONSTANTS
    Lines = {1, 14}
    Clients = {}
PROPERTY
    DiskInterruptArrives
