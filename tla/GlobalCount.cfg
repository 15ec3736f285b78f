CONSTANTS
    w1 = w1  w2 = w2
    c1 = c1  c2 = c2  c3 = c3
    Workers <- MCWorkers
    Clients <- MCClients
    NoClient = NoClient
    Acceptor = Acceptor
    Unread = Unread
SPECIFICATION SafeSpec
INVARIANT GlobalConnectionCount
CHECK_DEADLOCK FALSE
