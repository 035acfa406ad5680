CONSTANT Unset = Unset
CONSTANT Jobs <- ValidJobs
SPECIFICATION Spec
INVARIANT BPTypeOK
INVARIANT TiledProductCorrect
INVARIANT SpinorLayoutCorrect
INVARIANT WannierMetricConsistent
INVARIANT ProductsNeverAssert
\* A call ends when it returns or dies.
CHECK_DEADLOCK FALSE
