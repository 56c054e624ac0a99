\* Polls from instant to longer than two intervals; a cooldown above zero.
SPECIFICATION Spec
CONSTANTS
    Interval = 3
    Cooldown = 2
    MaxPoll = 7
\* A ConfigurationError ends run_forever, and with it the program.
CHECK_DEADLOCK FALSE
INVARIANTS
    StaleReported
    SnapshotTruthful
PROPERTIES
    PollsSpaced
    NoFalseAlert
