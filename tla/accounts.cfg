SPECIFICATION Spec
CONSTANTS
    Emails = {e1, e2}
    Googles = {g1, g2}
    NoGoogle = NoGoogle
    Tokens = {t1}
    NoToken = NoToken
    NoEmail = NoEmail
    Roles = {Guest, Admin}
    GuestRole = Guest
    AdminRole = Admin
    KeepRole = KeepRole
    NoRequest = NoRequest
    NoUser = NoUser
    Procs = {p1, p2}
    MaxCalls = 5
INVARIANTS TypeOK OneUserPerGoogle RoleGranted ShutOut ResetOnce
PROPERTY LinkKept
SYMMETRY Symmetry
CHECK_DEADLOCK FALSE
