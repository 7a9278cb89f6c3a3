SPECIFICATION Spec
CONSTANTS
    Calls = {c1, c2}
    Ids = {r1}
    NoId = NoId
    Targets = {"disk_pulled", "scrapped"}
    MaxConns = 2
PROPERTIES
    WithdrawnBeforeStart
