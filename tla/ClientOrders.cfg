\* Ids come, go, come again and come twice; freed nodes are used again.
SPECIFICATION Spec
CONSTANTS
    n1 = n1
    n2 = n2
    n3 = n3
    n4 = n4
    n5 = n5
    NoNode = NoNode
    Ids = {1, 2, 3, 4}
    Nodes = {n1, n2, n3, n4, n5}
SYMMETRY Symmetry
INVARIANTS IteratorsValid GetFindsAll
PROPERTIES ArrivalSpec
\* A process that dereferenced a null order is over.
CHECK_DEADLOCK FALSE
