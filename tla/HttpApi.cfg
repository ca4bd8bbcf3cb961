SPECIFICATION HttpSpec
CONSTANTS
    r1 = r1
    r2 = r2
    r3 = r3
    batch = batch
    single = single
    g1 = g1
    other1 = other1
    id1 = id1
    id2 = id2
    placeX = placeX
    placeY = placeY
    placeZ = placeZ
    dirXY = dirXY
    dirZ = dirZ
    pay1 = pay1
    pay2 = pay2
    wrong = wrong
    NoRow = NoRow
    None = None
    Absent = Absent
    Torn = Torn
    EventId = {id1}
    Payload = {pay1, pay2}
    Dir = {dirXY, dirZ}
    Place <- MCPlace
    SafeDir <- MCSafeDir
    Digest <- MCDigest
    RawText <- MCRawText
    Uri <- MCUri
    Request = {r1, r2, r3}
    Envelope <- Sent
    Post = {batch, single}
    Single = {single}
    Events <- MCEvents
    Get = {g1}
    PathText <- MCPathText
    IdOf <- MCIdOf
    DebugMode = TRUE
    require_payload_hash = TRUE
    require_event_hash = TRUE
    reject_hash_conflicts = TRUE
    PoolSize = 2
    Faults = {"storage", "ledger"}
CHECK_DEADLOCK FALSE
INVARIANTS
    ReportedIsArchived
    BatchReportsEveryEvent
    RepeatIsReportedDuplicate
    StatusTellsWhetherToRetry
    LookupFindsAcknowledged
    
