\* A window of two instants, a checkpoint on each of them, an extension of one,
\* and a clock that runs past the extended end.
SPECIFICATION Spec
CONSTANTS
    Commands = {c1, c2}
    Starts = {0, 1}
    Duration = 2
    CheckpointDays = {1, 2}
    MaxExtension = 1
    MaxClock = 4
    NoPlan = NoPlan
    NoRecord = NoRecord
    Nobody = Nobody
    None = None
INVARIANTS
    StoredRecordValid
    StopNeverRefused
PROPERTIES
    HistoryOnlyGrows
    GateStaysClosed
