SPECIFICATION Spec
SYMMETRY Symmetric
CONSTANTS
    Fetchers = {f1, f2}
    Caches = {"memory", "disk"}
    MaxAge = 1
    MaxVersion = 3
    MaxTime = 4
INVARIANTS
    ReturnsAMap
    BoundedUnlessShared
