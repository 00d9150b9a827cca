SPECIFICATION Spec
CONSTANTS
    Endpoints = {e1, e2}
    Groups = {a, b}
    HierarchyOf <- OneHierarchy
    Marks = {"y"}
    Collectors = {service, operator}
    MaxStarts = 3
    MaxChanges = 2
SYMMETRY Symmetry
INVARIANTS EventsTellPresence SeenTimesAreTrue
CHECK_DEADLOCK FALSE
