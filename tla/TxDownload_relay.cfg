SPECIFICATION Spec
CONSTANTS
    P = P
    S = S
    C = C
    H = H
    M = M
    p = p
    pw = pw
    c = c
    Txs <- MCTxs
    Hashes <- MCHashes
    Txid <- MCTxid
    Wtxid <- MCWtxid
    Spends <- MCSpends
    Peers <- MCPeers
    Rank <- MCRank
    Has <- MCHas
    BadWitness = {S}
    Judged = {P, S}
    Preferred = {H, M}
    WtxidRelay = {H}
    RelayPermission = {H}
    Honest = {H}
    MAX_PEER_TX_ANNOUNCEMENTS = 2
    MAX_PEER_TX_REQUEST_IN_FLIGHT = 1
    m_max_orphan_txs = 1
    BlocksFor = {"valid"}
    MaxEvents = 1
CHECK_DEADLOCK FALSE
INVARIANTS
    TrackerSane
    NothingLeftBehind
    ReadyOrphanQueued
    ValidNotRejected
PROPERTIES
    AskedOnce
    HonestArrives
