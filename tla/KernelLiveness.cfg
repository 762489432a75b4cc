SPECIFICATION FairSpec
CONSTANTS
    MaxPid = 2
    MaxTid = 2
    MutexNames = {1}
    Priorities = {0}
    Algorithm = "FIFO"
    Partitions = 1
    Syscalls = {"THREAD_CREATE", "THREAD_EXIT", "PROCESS_EXIT", "PROCESS_CREATE", "THREAD_JOIN", "THREAD_CANCEL", "IO"}
    Segfaults = FALSE
    MaxCalls = 3
PROPERTIES ProcessReleased NewAdmitted ReadyRuns
CHECK_DEADLOCK FALSE
