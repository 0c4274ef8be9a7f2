\* A pod without an owner is deleted and created again under its name.
SPECIFICATION Spec
CONSTANTS
    p1 = p1
    p2 = p2
    p3 = p3
    web = web
    api = api
    ns = ns
    u1 = u1
    u2 = u2
    pw1 = pw1
    pw2 = pw2
    b1 = b1
    b2 = b2
    Bundles = {b1}
    NoUid = NoUid
    None = None
    Names = {web, api}
    Namespaces = {ns}
    Passwords = {pw1}
    Pods = {p1, p2}
    Manifest <- RecreatedManifest
    Uids = {u1}
    Owners <- WebOwner
    Reviews = {r1, r2, r3}
    Operations = {"CREATE", "DELETE"}
    Faults = {}
    MaxRestarts = 0
INVARIANTS
    LivePodKeepsSecret
