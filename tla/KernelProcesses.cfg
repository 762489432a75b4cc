SPECIFICATION Spec
CONSTANTS
    MaxPid = 3
    MaxTid = 2
    MutexNames = {1}
    Priorities = {0, 1}
    Algorithm = "CMN"
    Partitions = 2
    Syscalls = {"THREAD_CREATE", "THREAD_EXIT", "PROCESS_EXIT", "PROCESS_CREATE", "THREAD_JOIN", "DUMP_MEMORY"}
    Segfaults = TRUE
    MaxCalls = 3
INVARIANTS TypeOK QueueCounts RetryAnnounced ExecIsLive MemoryAgrees SchedulingToken
CHECK_DEADLOCK FALSE
