\* A session of a few cells beside another caller that starts the runtime.
CONSTANTS
    Driver = driver
    Starters = {starter}
    Expressions = {"e", "f"}
    MaximumEntries = 2
    MaxCells = 2
    Types = {"unit", "char", "floating", "wide"}
SPECIFICATION SessionSpec
INVARIANTS HaskellOnlyWhileUp SuccessIsWhole TablesAgree CellSymbolsFresh
PROPERTIES KeepsContract EveryCallReturns
CHECK_DEADLOCK FALSE
