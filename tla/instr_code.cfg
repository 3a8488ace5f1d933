\* h is a leaf; two functions have the name g.
SPECIFICATION Spec
CONSTANTS
    Func = {"main", "f", "g", "h"}
    Overloaded = {"g"}
    Inlinable = {"g", "h"}
    MaxLists = 1
    Filtered = {"main"}
    Leaf = {"h"}
    Calls <- MCCalls
    Root = "main"
    Addr = {31, 32}
    MaxDepth = 3
CHECK_DEADLOCK FALSE
INVARIANTS
    TypeOK
    PrologueTransparent
    ChosenReturnsToCaller
    ShadowInStep
    CountsOfAll
    ListedIsBuilt
