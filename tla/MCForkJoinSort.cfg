\* Inputs of up to six elements; slices of one or two are not split.
SPECIFICATION Spec
CONSTANTS
    Sorts <- MC_Sorts
    THRESHOLD = 2
    INT_MOD = 8
INVARIANT CallsSort
INVARIANT NoSharedElements
PROPERTY Returns
