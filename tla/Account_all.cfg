CONSTANTS
    Requests = {q1, q2}
    Tokens = {t1, t2, t3}
    Resets = {r1, r2}
    MaxVersion = 3
    None = None
    Address = address
    MaxNotes = 1
    MaxTries = 2
    MaxAttempts = 2
    Keys = {q1, q2}
    FileRequests = {t1, t2, t3}
    Limit = 2
    MaxClock = 5
    NoteSetup <- MCNoteSetup
    SearchSetup <- MCSearchSetup
    i1 = i1
    i2 = i2
    i3 = i3
    i4 = i4
SPECIFICATION AccountSpec
SYMMETRY Interchangeable
INVARIANTS SessionsSound NotificationsSound FilesSound SearchesSound
PROPERTY StaleFailureHarmless
CHECK_DEADLOCK FALSE
