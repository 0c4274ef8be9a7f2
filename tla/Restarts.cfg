\* Requests are cancelled, pods refused, the CA is replaced, and the process crashes and starts again.
SPECIFICATION Spec
CONSTANTS
    p1 = p1
    p2 = p2
    p3 = p3
    web = web
    api = api
    ns = ns
    u1 = u1
    u2 = u2
    pw1 = pw1
    pw2 = pw2
    b1 = b1
    b2 = b2
    Bundles = {b1, b2}
    NoUid = NoUid
    None = None
    Names = {web, api}
    Namespaces = {ns}
    Passwords = {pw1}
    Pods = {p1, p2, p3}
    Manifest <- DecliningManifest
    Uids = {u1}
    Owners <- WebOwner
    Reviews = {r1, r2}
    Operations = {"CREATE", "DELETE"}
    Faults = {"cancel", "reject", "crash", "startup", "rotate"}
    MaxRestarts = 1
SYMMETRY Symmetry
INVARIANTS
    
    NothingUnasked
    NobodyWaitsInVain
PROPERTIES
    
    CreatedWithBundle
