SPECIFICATION Spec
CONSTANTS
    NoID <- NoNodeID
    Requests <- MCRequests
    Height <- MCHeight
INVARIANT
    SymbolNamesEntry
