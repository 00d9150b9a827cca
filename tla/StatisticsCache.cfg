SPECIFICATION Spec
CONSTANTS
    Threads = {t1, t2}
    Jobs = {j1, j2}
    Buckets = {b1, b2}
    TTL = 1
    MaxEntries = 2
    MaxStarts = 2
INVARIANTS TypeOK Bounded AnswersAreCurrent
PROPERTIES CompletedBecomesVisible
