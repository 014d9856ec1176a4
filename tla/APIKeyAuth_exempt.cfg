CONSTANTS
    tok = tok
    other = other
    NoToken = NoToken
    Token = tok
    Words <- MCWords
    Headers <- MCHeaders
    MaxSegments = 3
SPECIFICATION Spec
INVARIANT OthersNeedKey
