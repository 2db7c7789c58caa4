CONSTANTS
    u1 = u1 u2 = u2 f1 = f1 f2 = f2 m1 = m1 m2 = m2 m3 = m3 c1 = c1 c2 = c2
    None = None
    User = {u1, u2}
    Firm = {f1, f2}
    Member = {m1, m2, m3}
    Client = {c1, c2}
    UserOf <- MCUserOf
    FirmOf <- MCFirmOf
    ClientFirm <- MCClientFirm
    InitRole <- MCInitRole
    InitAccess <- MCInitAccess
    HighRisk = {c1}
    MaxChanges = 2
SPECIFICATION Spec
INVARIANTS AuthorityWasHeld TenantIsolation DutiesSeparated
