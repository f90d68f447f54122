SPECIFICATION CallSpec
CONSTANTS
    Key = {1, 2, 3}
    Value = {v1}
    Absent = Absent
    MaxLevel = 2
    MaxNode = 3
INVARIANTS
    LevelsConsistent
    SearchExact
PROPERTIES
    ImplementsMap
CHECK_DEADLOCK FALSE
