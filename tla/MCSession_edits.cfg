\* Two editors and one base row, which either may open or receive.
SPECIFICATION Spec
CONSTANTS
    Actor = {1, 2}
    BaseRows = 1
    MaxOps = 3
    MaxGrown = 2
INVARIANT TypeOK
INVARIANT OneOpPerId
INVARIANT SettledIsFold
INVARIANT TipKeepsLosers
INVARIANT UndoInverts
INVARIANT AdoptedTailIsFold
PROPERTY MintedLast
