SPECIFICATION Spec
CONSTANTS
    ok1 = ok1
    ok2 = ok2
    quarantined = quarantined
    elsewhere = elsewhere
    glassy = glassy
    hub = hub
    otherHub = otherHub
    pet = pet
    glass = glass
    Batch = {b1, b2}
    Event = {ok1, ok2, quarantined, elsewhere, glassy}
    Request = {r1, r2}
    Hub = {hub, otherHub}
    Material = {pet, glass}
    HubOf <- MCHubOf
    MaterialOf <- MCMaterialOf
    Quarantined = {quarantined}
    BatchHub <- MCBatchHub
    BatchMaterial <- MCBatchMaterial
    NoBatch = NoBatch
INVARIANT
    MembershipFrozen
CHECK_DEADLOCK FALSE
