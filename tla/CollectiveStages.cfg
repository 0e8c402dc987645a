SPECIFICATION RunSpec
CONSTANT Images <- MCImages
CHECK_DEADLOCK FALSE
INVARIANT StagesExact
INVARIANT GroupsInOrder
INVARIANT RingsCarryTheirData
PROPERTY AllStagesComplete
