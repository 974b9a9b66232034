\* Three archivers with two kills or crashes; two finalisers of sources that change once;
\* captures of up to four frames; two training sessions; two modes and two signals.
SPECIFICATION OfflineSpec
CONSTANTS
    Proc = {a1, a2, a3}
    Absent = Absent
    MaxChanges = 1
    MaxCrashes = 2
    Inv = {f1, f2}
    None = None
    MaxWrites = 1
    NTrain = 2
    History = 2
    Spans = {1, 2}
    Group <- MCGroup
    GROUPS <- MCGROUPS
    Regimes = {1, 2}
    FprNum = 1
    FprDen = 3
    Corpora <- MCCorpora
    Scorers <- MCScorers
    MaxEdits = 2
    Key <- MCKey
    Path <- MCPath
    Frames <- MCFrames
    Options <- MCOptions
    Window = 2
    DIR_FRACS = {"etc", "other"}
    NoUnit = NoUnit
    MaxFrames = 4
    MaxStats = 1
    Modes = 2
    MaxSignals = 2
SYMMETRY Symmetry
INVARIANTS
    ArtifactsSound
    ReservationSound
    PublicationSound
    LockSound
    ResultOfOneVersion
    WindowsComplete
    NoLeak
    CutoffTight
    WindowsExact
    SampleUniform
    RowsExact
    CleanupSound
PROPERTY
    PublishedKept
CHECK_DEADLOCK FALSE
