SPECIFICATION Spec
CONSTANTS
    r1 = r1
    r2 = r2
    r3 = r3
    r4 = r4
    v1 = v1
    v2 = v2
    v3 = v3
    Releases <- MCReleases
    Environments <- MCEnvironments
    Days = {1, 2, 3}
    NoDay = 0
    ReleaseLimit = 2
    EnvironmentLimit = 2
SYMMETRY MCSymmetry
INVARIANTS
    EnvironmentCeiling
    ReleaseCeilingInOrder
