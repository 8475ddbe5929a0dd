CONSTANTS
    ann = ann
    bob = bob
    team = team
    own_key = own_key
    team_key = team_key
    m1 = m1
    m2 = m2
    a = a
    r1 = r1
    r2 = r2
    r3 = r3
    Names <- MCNames
    Models <- MCModels
    Aliases <- MCAliases
    Grantees <- MCGrantees
    Requests <- MCRequests
    Users <- MCUsers
    Admins <- MCAdmins
    Teams <- MCTeams
    Keys <- MCKeys
    MaxKeys = 3
    Ticks <- MCTicks
    Starts <- MCStarts
    None = None
SPECIFICATION Spec
INVARIANT TypeOK
PROPERTIES AdminWordStands RenamesKeepGrants NothingGrantedUnasked KeysWidenByOwnForms RevocationsStand NewKeysWithinLimit CallsStayGranted
