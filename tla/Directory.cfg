SPECIFICATION Spec
CONSTANTS
    w1 = w1  w2 = w2  c1 = c1
    ann = ann  bob = bob  annie = annie  bobby = bobby  staff = staff
    Workers = {w1, w2}  Callers = {c1}
    Users = {ann, bob}  UserNames = {annie, bobby}  Groups = {staff}
    Requests <- SomeRequests  Snapshots <- Rosters
    Missing = {"users", "groups"}
    TokenRole = "admin"
SYMMETRY Workforce
INVARIANT TypeOK
INVARIANT RoleBounded
PROPERTY AllOrNothing
PROPERTY FieldsHold
PROPERTY SyncAgrees
