CONSTANTS garbage = garbage  random = random  none = none
CONSTANT Garbage = garbage
CONSTANT Random = random
CONSTANT None = none
CONSTANT MaxProc = 2
CONSTANT NQ = 2
CONSTANT MaxCols = 2
CONSTANT Lens = {1, 2}
\* The program stops after the reading run.
CHECK_DEADLOCK FALSE
SPECIFICATION Spec
INVARIANT IOTypeOK
INVARIANT WriteLayout
INVARIANT ReadRoundTrip
INVARIANT BandsComplete
PROPERTY Termination
