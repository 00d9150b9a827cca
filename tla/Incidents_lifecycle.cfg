SPECIFICATION Spec
CONSTANTS
    Keys <- OneKind
    Evaluators <- OneService
    Window = 3
    MaxDay = 4
    MaxRows = 2
INVARIANTS TypeOK FinalIsResolved
PROPERTIES FollowsLifecycle RecoveryIsStable WarningNeedsTwoMarkers
CHECK_DEADLOCK FALSE
