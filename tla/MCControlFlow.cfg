\* Functions of two block records, malformed ones included, and the graphs of three and four blocks.
CONSTANTS
    Block <- Ids
    Access <- NoAccess
    Programs <- MCPrograms
SPECIFICATION DomFairSpec
INVARIANTS ReachableExact RetreatingEdgesAreCyclic DominatorsExact DominatorTreeExact LoopsExact ControlDependenceExact
PROPERTY DomTerminates
CHECK_DEADLOCK FALSE
