\* API calls fail, owners are deleted and pods change owners.
SPECIFICATION Spec
CONSTANTS
    p1 = p1
    p2 = p2
    p3 = p3
    web = web
    api = api
    ns = ns
    u1 = u1
    u2 = u2
    pw1 = pw1
    pw2 = pw2
    b1 = b1
    b2 = b2
    Bundles = {b1}
    NoUid = NoUid
    None = None
    Names = {web, api}
    Namespaces = {ns}
    Passwords = {pw1}
    Pods = {p1, p2}
    Manifest <- MixedManifest
    Uids = {u1, u2}
    Owners <- TwoOwners
    Reviews = {r1, r2}
    Operations = {"CREATE", "DELETE"}
    Faults = {"api", "ownerdel", "reparent"}
    MaxRestarts = 0
SYMMETRY Symmetry
INVARIANTS
    AdmittedIsProvisioned
    CertificateHasPassword
    EveryRequestCounted
PROPERTIES
    KeepsContract
    KeepsNames
