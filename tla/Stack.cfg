SPECIFICATION Spec
CONSTANTS
    MaxBytes = 3
    TypedMax = 5
    Scopes = {"table", "io", "poll", "alone", "line", "jobs", "server", "client", "datagram", "shared", "handshake", "order", "disorder", "copies", "closing", "pages", "shrink", "scarce", "both", "eager", "arp", "hops", "mailbox", "card"}
INVARIANTS
    BytesInOrder
    NoByteLost
    OrderlyEnd
    SleepsForCause
    EndsCounted
    BuffersExact
    RoutesFollowRevoke
CHECK_DEADLOCK FALSE
