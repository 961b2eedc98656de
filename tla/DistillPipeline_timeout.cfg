\* Two teacher threads, one time-out or error, two steps off.
CONSTANTS
    Scheduler = "two_step_off"
    Batches = 4
    Workers = 2
    MaxTroubles = 1
SPECIFICATION Spec
INVARIANT OnlyOwnFailures
