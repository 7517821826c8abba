\* Programs over texts, callables and loops, conditions, all of the arithmetic, and rejected ones.
CONSTANTS
    Programs <- MCPrograms
    MaxSteps = 600
    Pairs = {1, 2, 3, 4, 5, 6, 7, 8, 9, 10, 11, 12, 13, 14, 15, 16, 17, 18, 19, 20, 21, 22, 23, 24, 25}
    Triples = {3, 5, 8, 9, 14, 20}
SPECIFICATION Spec
INVARIANT SameBehaviour
INVARIANT ReferencesBalanced
INVARIANT OwnOutputAccepted
