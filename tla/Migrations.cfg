SPECIFICATION FairSpec
CONSTANTS
    new = new
    fork = fork
    edited = edited
    a = a
    b = b
    i = i
    j = j
    Instances = {new, fork, edited}
    Versions = {1, 2, 3}
    Bodies = {a, b, i, j}
    Outside = {i, j}
    Carries <- ThreeBuilds
    Absent = Absent
    Invalid = Invalid
    Nobody = Nobody
    Left = Left
    MaxFaults = 2
INVARIANTS
    MigrationsHold
PROPERTIES
    EachIsAnswered
CHECK_DEADLOCK FALSE
