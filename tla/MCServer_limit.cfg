SPECIFICATION Spec
CONSTANTS
 Conns = {c1,c2,c3,c4}
 MaxConnections = 4
 MaxRequests = 1
 MaxReloads = 1
CHECK_DEADLOCK FALSE
INVARIANTS TypeOK NoDeadlineWhileHandling ServedBound CertificateFresh
SYMMETRY Identities
