CONSTANTS
    w1 = w1  w2 = w2  w3 = w3
    c1 = c1  c2 = c2  c3 = c3  c4 = c4
    Workers <- MCWorkers
    Clients <- MCClients
    NoClient = NoClient
SPECIFICATION QueueSpec
INVARIANTS NoStrandedClient OneWorkerPerClient
PROPERTIES DispatchesInOrder
    DispatchesAll
