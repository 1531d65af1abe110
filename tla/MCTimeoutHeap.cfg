\* Adds and pops of the timeout heap over all deadline assignments.
CONSTANTS
    s1 = s1
    s2 = s2
    s3 = s3
    s4 = s4
    Sessions <- MC_Sessions
    Deadlines <- MC_Deadlines
    MaxHeap <- MC_MaxHeap
    Null = Null

SPECIFICATION Spec
INVARIANT TypeOK
INVARIANT HeapConserves
PROPERTY AddKeepsOrder
