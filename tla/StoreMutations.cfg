CONSTANTS
    None = None
    Procs = {x1, x2}
    Profiles = {p1, p2}
    Creds = {c1, c2}
    Planes = {planeA, planeB}
    planeB = planeB
    SaaS = planeA
    kA1 = kA1
    kA2 = kA2
    kB = kB
    Keys = {kA1, kA2, kB}
    Issuer <- MCIssuer
    Commands = {"import", "init", "set", "remove", "unlink", "connect"}
SPECIFICATION Spec
SYMMETRY Symmetry
INVARIANTS
    NoLostUpdate RemovalIsComplete RollbackPutsBack
PROPERTIES
    KeysKeepTheirPlane RemovalLeavesNoSecret
