SPECIFICATION Spec
CONSTANTS
    MaxPid = 1
    MaxTid = 2
    MutexNames = {1}
    Priorities = {0}
    Algorithm = "FIFO"
    Partitions = 1
    Syscalls = {"THREAD_CREATE", "THREAD_EXIT", "PROCESS_EXIT", "THREAD_CANCEL", "IO"}
    Segfaults = FALSE
    MaxCalls = 3
INVARIANTS ShortTermMutex
CHECK_DEADLOCK FALSE
