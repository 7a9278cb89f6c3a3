SPECIFICATION Spec
CONSTANTS
    j1 = j1
    j2 = j2
    j3 = j3
    n1 = n1
    n2 = n2
    Jobs = {j1, j2}
    Numbers = {n1, n2}
    Number <- MCNumber
    MaxIssues = 1
    MaxCrashes = 0
    Backends = {"filesystem", "minio"}
    Missing = Missing
    Torn = Torn
PROPERTY ReportsImmutable
CHECK_DEADLOCK FALSE
