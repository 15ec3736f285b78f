SPECIFICATION Spec
CONSTANTS
    CHUNK = 4
    Format = "zlib"
    MaxSize = 40
INVARIANT FedTheContent
