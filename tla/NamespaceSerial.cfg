CONSTANTS
    Keys <- MCKeys
    Ops <- MCOps
SPECIFICATION Spec
INVARIANTS TypeOK ChildCountExact NoOrphan TablesSound DeltasMerge
PROPERTY ImplementsFileTree
