\* Two requests, of one client or of two: a client can fail while another
\* request of it waits or is served.  BlockTime 2 lets a block be seen running
\* down.  Two connections and one goroutine left behind: a handler that asks
\* for its second connection can find none.  No symmetry: it is not sound for
\* temporal properties.
CONSTANTS
    Requests = {r1, r2}
    Clients = {c1, c2}
    Peppers <- Sent
    ProdaoPepper <- Pepper
    MaxFailures = 3
    BlockTime = 2
    NoRequest = NoRequest
    NotListed = NotListed
    Jobs = {j1}
    MaxOpen = 2
    MaxStatements = 2
SPECIFICATION PooledFairSpec
INVARIANTS
    PooledTypeOK
    HandlersExclusive
    ListedHasNoCount
    NoListedClientInside
    NoStandstill
PROPERTIES
    PolicySpec
    EveryRequestAnswered
    ImplementsGate
