SPECIFICATION Spec
CONSTANTS
    t1 = t1  t2 = t2  k1 = k1  k2 = k2
    jwks = jwks  moved = moved  wellknown = wellknown  staff = staff
    Threads = {t1, t2}  Requests = {"shared", "bare", "admin", "analyst"}  Request <- OtherRequest
    Keys = {k1}  JwksUrls = {jwks}  Discovery = wellknown
    GroupRole <- StaffRole  DefaultRole = "researcher"
    Skew = 0  TTL = 1  Options <- EngineToo
    Providers <- OneKey  MaxTime = 2  MaxChanges = 2
SYMMETRY ThreadSymmetry
INVARIANT PolicyHolds
PROPERTY DecisionsTold
