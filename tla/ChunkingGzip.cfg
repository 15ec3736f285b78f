SPECIFICATION Spec
CONSTANTS
    CHUNK = 4
    Format = "gzip"
    MaxSize = 40
INVARIANTS
    TypeOK
    ChunkFits
    FedTheContent
PROPERTY NearerTheEnd
