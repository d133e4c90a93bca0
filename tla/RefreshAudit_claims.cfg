\* The claims of migrations/014 that the workflow refutes, one at a time:
\* UpdatedOnExit, RowPerInvocation.
SPECIFICATION Spec
CONSTANTS
    Jobs = 2
    Steps = 2
INVARIANTS UpdatedOnExit
CHECK_DEADLOCK FALSE
