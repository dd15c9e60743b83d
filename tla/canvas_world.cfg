\* Four cards and three relations, given and taken in every order.
CONSTANTS
    Cards = {1, 2, 3, 4}
    Links <- Crowded
    MaxExtra = 2
SPECIFICATION Spec
INVARIANT CanvasInv
PROPERTY NewCardMovesNobody
CHECK_DEADLOCK FALSE
