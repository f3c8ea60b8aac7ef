SPECIFICATION FilesSpec
CONSTANTS
    d = d
    e = e
    n = n
    c1 = c1
    c2 = c2
    t1 = t1
    t2 = t2
    Name = {d, e, n}
    Path <- MCPath
    Notebook <- MCNotebook
    Client = {c1, c2}
    Task = {t1}
    MaxRequests = 2
    MaxItems = 2
    MaxOutside = 1
    MaxFaults = 1
SYMMETRY MCSymmetry
INVARIANTS HomeClosed 
 
CHECK_DEADLOCK FALSE
