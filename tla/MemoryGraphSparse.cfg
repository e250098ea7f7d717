CONSTANTS
    Extra = None
    Nodes = {root, n1, n2}
    Roots = {root}
    Kinds = {"ARRAY"}
    Fields = {"$parent", "x"}
    None = None
    Absent = Absent
    MaxLen = 2
    Modulus = 8
    StaleBound = 1
    BeyondEnd = 1
SPECIFICATION MCSparse
PROPERTIES CollectsExactly
