----------------------------- MODULE Semaphores -----------------------------
(* The semaphores of init_semaphores and what sem_wait and sem_post do to them. *)
EXTENDS Integers

VARIABLE sem            \* the value of each semaphore

SemNames == {
    "new",              \* sem_counter_new
    "retry",            \* sem_retry_process_creation
    "plan",             \* plan_new_thread
    "response",         \* wait_cpu_response
    "ready",            \* sem_counter_ready
    "io",               \* sem_counter_io_block_list
    "long",             \* sem_long_term
    "short"}            \* sem_short_term

\* init_semaphores, then the post of sem_counter_new for the first process.
SemInit ==
    sem = [n \in SemNames |-> IF n \in {"new", "plan", "long", "short"} THEN 1 ELSE 0]

\* sem_wait: the thread goes on when the value is positive.
Wait(n) == sem[n] > 0 /\ sem' = [sem EXCEPT ![n] = @ - 1]

\* The values after one sem_post of each semaphore in S.
Post(s, S) == [n \in SemNames |-> IF n \in S THEN s[n] + 1 ELSE s[n]]
=============================================================================
