CONSTANTS
    w1 = w1  w2 = w2  w3 = w3  t1 = t1  t2 = t2  t3 = t3  t4 = t4
    secret = secret  other = other  root = root  ann = ann  bob = bob  mail = mail
    None = None  Malformed = Malformed
    Workers = {w1, w2}
    UserIds <- MCIds3
    TokenIds = {t1, t2}
    NameAtoms <- MCAtoms
    Passwords = {secret}
    RoleCodes <- MCRoleCodes
    RoleTable <- MCSoftRoles
    InitUsers <- MCUsers
    InitTokens <- MCAnnToken
    InitJwts <- MCAdminJwt
    NameWidth = 2
    JWTTTL = 9
    RefreshTTL = 1
    SecretSet = TRUE
    Faults = {"refused"}
    DefaultPage = 2
    MaxPage = 3
    IntMax = 127
    Ops = {"Register", "Refresh", "DeleteUser", "ListUsers"}
    Usernames <- MCBob
    Emails <- MCBob
    RequestRoles <- MCRoleInputs
    Limits <- MCLimits
    Offsets <- MCOffsets
    MaxTime = 0
SPECIFICATION FairSpec
INVARIANTS TypeOK PageCoversTotal PageAsAsked
PROPERTIES Answered
