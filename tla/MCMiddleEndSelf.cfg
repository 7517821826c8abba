\* A text is assigned to itself for the last time.
CONSTANTS
    Programs <- SelfAssignments
    MaxSteps = 600
    Pairs = {}
    Triples = {}
SPECIFICATION Spec
INVARIANT ReferencesBalanced
