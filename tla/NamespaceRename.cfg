CONSTANTS
    Keys <- MCKeys
    Ops <- AllOps
SPECIFICATION Spec
PROPERTY RenameMovesSource
