SPECIFICATION Spec
CONSTANTS
    Code = {pet, hdpe}
    Managed = {pet}
    Request = {r1, r2}
    Seeds = {hdpe}
    Elsewhere = {hdpe}
    MaxFetches = 0
    Nothing = Nothing
PROPERTY
    UsedCodeStays
CHECK_DEADLOCK FALSE
