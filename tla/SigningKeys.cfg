SPECIFICATION Spec
CONSTANTS
    t1 = t1  t2 = t2  k1 = k1  k2 = k2
    jwks = jwks  moved = moved  wellknown = wellknown  staff = staff
    Threads = {t1, t2}  Requests = {"signed"}  Request <- SignedRequest
    Keys = {k1, k2}  JwksUrls = {jwks, moved}  Discovery = wellknown
    GroupRole <- StaffRole  DefaultRole = "researcher"
    Skew = 0  TTL = 2  Options <- KeysOnly
    Providers <- Rotation  MaxTime = 3  MaxChanges = 1
SYMMETRY ThreadSymmetry
PROPERTY KeyWindow
PROPERTY KeyKnown
