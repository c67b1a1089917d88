\* A page fault in user mode.
SPECIFICATION Spec
CONSTANTS
    UserFaults = {14}
    UserInts = {128}
    KernelFaults = {}
    OpenVectors = {33}
    MaxDepth = 3
INVARIANT
    FrameHoldsErrorCode
