SPECIFICATION FairSpec
CONSTANTS
    Pages = {p1, p2, p3}
    NoPage = NoPage
    QueueBound = 2
INVARIANTS
    TypeOK
    OpenRequestIsActive
    ServedUntilSendFails
PROPERTY
    LeftPageIsReleased
