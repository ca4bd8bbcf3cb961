SPECIFICATION FairSpec
CONSTANTS
    pub1 = pub1
    pub2 = pub2
    cl1 = cl1
    Free = Free
    Main = Main
    Handler = Handler
    Publisher = {pub1, pub2}
    Client = {cl1}
    Lines <- TwoLines
    queue_size = 1
    history_size = 2
    SignalPoints = {"unlocked"}
CHECK_DEADLOCK FALSE
INVARIANTS
    EachLineOnceInOrder
    NoLineFallsBetween
    NoLeakedSubscriber
PROPERTIES
    PublishersFinish
    InterruptEndsStreams
    ShutdownEndsStreams
