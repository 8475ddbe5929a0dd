CONSTANTS
    ann = ann
    bob = bob
    cyd = cyd
    toggle1 = toggle1
    toggle2 = toggle2
    update1 = update1
    password1 = password1
    forgot1 = forgot1
    forgot2 = forgot2
    send1 = send1
    reset1 = reset1
    invite1 = invite1
    revoke1 = revoke1
    register1 = register1
    register2 = register2
    Users <- MCUsers
    Operators <- MCOperators
    Requests <- MCRequests
    Kind <- MCKind
    None = None
SPECIFICATION Spec
CHECK_DEADLOCK FALSE
INVARIANTS OneOpenLink LastMailStored InviteOpensOneAccount
PROPERTIES OldPasswordsStayOut RightsChangeByOthersOnly LastAdminFallsToStaleForm DemandEndsWithNewPassword
CONSTRAINTS FewStart InOrder
SYMMETRY SameOperators
