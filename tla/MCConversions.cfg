CONSTANTS
    TypeValues <- MCTypeValues
    Names <- MCNames
SPECIFICATION Spec
INVARIANTS
    RoundTrip
    QueryValueCorrect
    AuthBodyCorrect
    GroupCorrect
