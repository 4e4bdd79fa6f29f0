SPECIFICATION Spec
CONSTANTS
    k1 = k1
    k2 = k2
    k3 = k3
    Absent = Absent
    Touched = {"msg"}
    PropKeys = {k1, k2, k3}
    Values <- MCValues
    Logs <- Three
PROPERTIES
    KeepsOrder
    
