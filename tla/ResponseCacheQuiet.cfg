CONSTANTS
    w1 = w1  w2 = w2  w3 = w3
    k1 = k1  k2 = k2  k3 = k3
    Workers <- TwoWorkers
    Keys <- MCKeys
    Routed <- MCRouted
    Cleaner = Cleaner  NoThread = NoThread  NoKey = NoKey
    NoAnswer = NoAnswer  Garbage = Garbage
SPECIFICATION Spec
PROPERTIES AnsweredOnceQuiet DrainsOnceQuiet
