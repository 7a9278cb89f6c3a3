SPECIFICATION Spec
CONSTANTS
    j1 = j1
    j2 = j2
    j3 = j3
    n1 = n1
    n2 = n2
    Jobs = {j1}
    Numbers = {n1, n2}
    Number <- MCNumber
    MaxIssues = 1
    MaxCrashes = 1
    Backends = {"filesystem"}
    Missing = Missing
    Torn = Torn
INVARIANT CertificatesSurvive
CHECK_DEADLOCK FALSE
