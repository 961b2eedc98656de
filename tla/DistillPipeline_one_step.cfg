\* Two teacher threads, one time-out or error, one step off.
CONSTANTS
    Scheduler = "one_step_off"
    Batches = 4
    Workers = 2
    MaxTroubles = 1
SPECIFICATION Spec
INVARIANT EachBatchOnce
