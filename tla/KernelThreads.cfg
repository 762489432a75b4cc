SPECIFICATION Spec
CONSTANTS
    MaxPid = 1
    MaxTid = 3
    MutexNames = {1, 2}
    Priorities = {0}
    Algorithm = "FIFO"
    Partitions = 1
    Syscalls = {"THREAD_CREATE", "THREAD_EXIT", "PROCESS_EXIT", "THREAD_JOIN", "THREAD_CANCEL",
                "MUTEX_CREATE", "MUTEX_LOCK", "MUTEX_UNLOCK", "IO", "DUMP_MEMORY"}
    Segfaults = TRUE
    MaxCalls = 6
INVARIANTS ShortTermPermits ReleasedOnce WaitingPlace NoIdleWaiter
PROPERTIES ExitIsFinal ImplementsLocks
CHECK_DEADLOCK FALSE
