\* Claims that TLC refutes, each; it shows the first that it meets.
\* CommittedKept: goroutine 1's condition is committed (rv 2), and of its answer only
\* the resourceVersion is decoded into res when goroutine 2 loads the conditions of
\* the cache (none), appends its own and sends that list under rv 2: it is taken.
SPECIFICATION Spec
CONSTANTS
    N = 2
    Steps = 5
INVARIANTS EachSuccessRecorded FailureReported
PROPERTIES CommittedKept
CHECK_DEADLOCK FALSE
