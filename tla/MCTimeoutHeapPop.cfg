\* Pops of the timeout heap: does the earliest deadline come out first?
CONSTANTS
    s1 = s1
    s2 = s2
    s3 = s3
    s4 = s4
    Sessions <- MC_Sessions
    Deadlines <- MC_Deadlines
    MaxHeap <- MC_MaxHeap
    Null = Null

SPECIFICATION Spec
PROPERTY PopReturnsMinimum
