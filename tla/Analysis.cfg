SPECIFICATION MCSpec
CONSTANTS
    Streams = {1, 2}
    QueueMax = 2
    Limit = 1
    Keep = 2
    PollMax = 1
    CaptureScopes <- Captured
    Entries = {1, 2, 3}
    EntryBytes = 2
    TotalBytes = 1
    RecordingScopes <- Recorded
INVARIANTS
    RecordingSound
PROPERTIES
    CaptureSound
