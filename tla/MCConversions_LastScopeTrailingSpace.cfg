CONSTANTS
    TypeValues <- MCTypeValues
    Names <- MCNames
SPECIFICATION Spec
INVARIANT LastScopeTrailingSpace
