SPECIFICATION Spec
CONSTANTS
    t1 = t1
    t2 = t2
    t3 = t3
    alice = alice
    bob = bob
    Token = {t1, t2, t3}
    Owner <- MCOwner
    AuthMethods = {"all", "no tls"}
    DefaultAuth = "all"
    Timeouts = {1, 2}
    DefaultTimeout = 2
    LongestTimeout = 2
    Throttle = 1
INVARIANT NoStaleWritten
