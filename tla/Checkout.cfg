SPECIFICATION Spec
CONSTANTS
    Sessions = {s1, s2}
    Orders = {o1, o2}
    Clients = {c1}
    Items = {i1}
    Calls = {p1, p2, p3}
    Tokens = {t1, t2}
    None = None
    MaxCalls = 4
SYMMETRY Symmetry
CHECK_DEADLOCK FALSE
INVARIANT TypeOK
INVARIANT SoleSessionMirrors
INVARIANT OneOnlineSession
INVARIANT NoStraySession
INVARIANT EditReachesErp
PROPERTY OrderMoves
PROPERTY ClientEditsOnlyCart
PROPERTY RevokedLinkConfirmsNothing
