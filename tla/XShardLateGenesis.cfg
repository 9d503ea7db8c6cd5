SPECIFICATION Spec
CONSTANTS
    r0 = r0
    r1 = r1
    r2 = r2
    r3 = r3
    f2 = f2
    f3 = f3
    a = a
    b = b
    k = k
    n = n
    e = e
    o = o
    RBlock <- Roots
    RNumber <- Heights
    RAnc <- Paths
    Header <- Hdrs
    HeadersOf <- Contents
    PrevRootOf <- MinedOn
    NTx <- Deposits
    Own = {o}
    Neighbor <- Neighbors
    GenesisRoot = r1
    None = None
    MaxBlocks = 4
INVARIANT NoFault
