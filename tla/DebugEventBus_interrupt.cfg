SPECIFICATION FairSpec
CONSTANTS
    pub1 = pub1
    pub2 = pub2
    cl1 = cl1
    Free = Free
    Main = Main
    Handler = Handler
    Publisher = {pub1}
    Client = {cl1}
    Lines <- OneLine
    queue_size = 1
    history_size = 1
    SignalPoints = {"unlocked", "locked"}
CHECK_DEADLOCK FALSE
PROPERTIES
    InterruptEndsStreams
