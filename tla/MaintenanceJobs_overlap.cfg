CONSTANTS
    scan1 = scan1
    scan2 = scan2
    other = other
    root = root
    NoRoot = NoRoot
    Jobs <- MCJobs
    Root <- MCRoot
    MaximumJobs = 2
    Cancellable <- MCJobs
SPECIFICATION Spec
INVARIANT OneScanPerRoot
