\* The same store when a request with a later reading overtakes another.
SPECIFICATION Spec
CONSTANTS
    Workers = {w1, w2}
    Tokens = {t1}
    Nonces = {n1, n2}
    Skew = 1
    MaxEntries = 2
    MaxPerToken = 2
    MaxTime = 3
PROPERTIES
    ProofsAreSingleUse
