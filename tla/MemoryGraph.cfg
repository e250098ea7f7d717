CONSTANTS
    Extra = n3
    Nodes = {root, n1, n2, n3}
    Roots = {root}
    Kinds = {"ARRAY", "OBJ"}
    Fields = {"$parent", "x", "y"}
    None = None
    Absent = Absent
    MaxLen = 4
    Modulus = 16
    StaleBound = 1
    BeyondEnd = 0
SPECIFICATION MCSpec
SYMMETRY MCSymmetry
INVARIANTS TypeOK CountsExact ParentsCover
PROPERTIES ImplementsObjectStore
