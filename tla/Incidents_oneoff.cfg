SPECIFICATION Spec
CONSTANTS
    Keys <- OneKind
    Evaluators <- OneService
    Window = 3
    MaxDay = 3
    MaxRows = 1
PROPERTY OneOffIsSuppressed
CHECK_DEADLOCK FALSE
