SPECIFICATION AccountsSpec
CONSTANTS
    User = {a, b}
    Role = {"admin", "operator"}
    Request = {r1, r2}
    Admins = {a}
    NoUser = NoUser
    Free = Free
INVARIANTS
    SomeAdmin
CHECK_DEADLOCK FALSE
