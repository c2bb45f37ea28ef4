SPECIFICATION Spec
CONSTANTS
    UlongMax = 999
    Low = 5
    High = 17
    Goals <- MCGoals
    Keys <- MCKeys
    MaxSlips = 2
INVARIANTS
    TypedThrough
    
    
