SPECIFICATION Spec
CONSTANTS
    Request = {r1, r2}
    Session = {s1}
    Sid = {h1}
    NoRequest = NoRequest
    MaxPair = 2
INVARIANT TransientErrorsKeepSession
