SPECIFICATION Spec
CONSTANTS
    Request = {r1, r2}
    Txn = {t1, t2}
    Browser = {b1, b2}
    NoTxn = NoTxn
    NoRequest = NoRequest
    NoBrowser = NoBrowser
SYMMETRY Symmetric
VIEW View
INVARIANTS
    TypeOK
    SessionInOwnBrowser
    InvalidStateExplained
PROPERTY Tickets
