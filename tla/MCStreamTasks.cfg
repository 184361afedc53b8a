CONSTANTS
    Broad = {b}
    Permanent = {p}
    Dynamic = {c}
    Context = {c}
    MaxTasks = 4
SPECIFICATION Spec
INVARIANTS TypeOK OneWriterPerKey EveryTaskIsReachable StopsClean
PROPERTIES PermanentStreamsReturn EndsQuietly
CHECK_DEADLOCK FALSE
