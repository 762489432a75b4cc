SPECIFICATION Spec
CONSTANTS
    MaxPid = 1
    MaxTid = 2
    MutexNames = {1}
    Priorities = {0}
    Algorithm = "FIFO"
    Partitions = 1
    Syscalls = {"THREAD_CREATE", "THREAD_EXIT", "PROCESS_EXIT", "MUTEX_CREATE", "MUTEX_LOCK"}
    Segfaults = FALSE
    MaxCalls = 4
INVARIANTS BlockedMutexFound
CHECK_DEADLOCK FALSE
