SPECIFICATION CoordinatorSpec
CONSTANTS
    a1 = a1
    a2 = a2
    n1 = n1
    n2 = n2
    Nil = Nil
    Actor <- MCActor
    Node <- MCNode
    MaxAdvances = 3
SYMMETRY Symmetry
INVARIANTS FieldsAgree SoleWriterKeepsAll
PROPERTY NeverStartsOver
CHECK_DEADLOCK FALSE
