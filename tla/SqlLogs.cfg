CONSTANTS
    w1 = w1  w2 = w2  main = main  db1 = db1  odd = odd  q1 = q1  q2 = q2
    Bad = Bad  Blank = Blank  None = None
    Workers = {w1, w2}
    Main = main
    DBs = {db1, odd}
    SafeDBs = {db1}
    Queries = {q1, q2}
    StarQueries = {q2}
    ScanMs = 1  ScanCount = 1
    SlowMs = 2  FreqSlowMs = 1  FreqCount = 1
    DefaultScan = 2  MaxScan = 3
    DefaultAnomalies = 2  AnomaliesCap = 3
    DefaultTop = 2  MaxTop = 3
    DefaultPcts = {50, 100}  MaxPcts = 2
    Week = 1  Day = 1  ZeroTime <- MCZeroTime
    DefaultAI = 1
    InitLog <- MCOneRow
    BootFile <- MCBoot
    Requests <- MCRequests
    BatchSize = 1
    Faults = {"refused", "unacked", "cancel", "pdf", "crash"}
    MaxRows = 5
    MaxTime = 1
SPECIFICATION Spec
INVARIANTS TypeOK UploadAccounted ScanCoversTotal ListedDatabasesAnswer ReportOrdered AnomaliesExplained
PROPERTIES BatchLogSpec
