SPECIFICATION Spec
CONSTANTS
    Browsers = {b1}
    Requests = {r1, r2}
    Ids = {i1, i2}
    None = None
    Environments = {"production"}
    KeyLengths = {32}
    MaxFaults = 1
SYMMETRY Symmetry
PROPERTY SaveOnlyAdds
CHECK_DEADLOCK FALSE
