\* Lines shorter than, as long as and longer than a message.
SPECIFICATION Spec
CONSTANTS
    MaxText = 8
    Lengths = {1, 2, 3, 7, 8, 9}
    MaxLines = 4
\* A notification ends.
CHECK_DEADLOCK FALSE
INVARIANTS
    MessagesFit
    LinesOnce
