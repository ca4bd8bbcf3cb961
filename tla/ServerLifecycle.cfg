SPECIFICATION Spec
CONSTANTS
    pid1 = pid1
    pid2 = pid2
    start1 = start1
    start2 = start2
    stop1 = stop1
    stop2 = stop2
    file1 = file1
    file2 = file2
    Pid = {pid1, pid2}
    File = {file1, file2}
    StartCmd = {start1, start2}
    StopCmd = {stop1, stop2}
    NoFile = NoFile
    Empty = Empty
    Nobody = Nobody
    Foreground = Foreground
    Tool = Tool
    Stranger = Stranger
SYMMETRY Symmetry
INVARIANTS
    ServingHasTables
    HalfMadeLedgerIsFinished
    PidFileNamesServer
PROPERTIES
    StopHitsItsServer
