SPECIFICATION Spec
CONSTANTS
    r1 = r1
    r2 = r2
    r3 = r3
    id1 = id1
    id2 = id2
    placeX = placeX
    placeY = placeY
    placeZ = placeZ
    dirXY = dirXY
    dirZ = dirZ
    pay1 = pay1
    pay2 = pay2
    wrong = wrong
    NoRow = NoRow
    None = None
    Absent = Absent
    Torn = Torn
    EventId = {id1, id2}
    Payload = {pay1, pay2}
    Dir = {dirXY, dirZ}
    Place <- MCPlace
    SafeDir <- MCSafeDir
    Digest <- MCDigest
    RawText <- MCRawText
    Uri <- MCUri
    Request = {r1, r2}
    Envelope <- Unverified
    require_payload_hash = TRUE
    require_event_hash = FALSE
    reject_hash_conflicts = TRUE
    PoolSize = 2
    Faults = {}
SYMMETRY Symmetry
CHECK_DEADLOCK FALSE
INVARIANTS
    OneContentPerId
