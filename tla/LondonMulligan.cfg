CONSTANTS
    powder = powder
    Plain0 = {a1, a2, a3}
    Plain1 = {b1, b2}
    HandSize = 2
    Deck <- MCDeck
    Powders = {powder}
    NoHand = NoHand
SPECIFICATION MulliganFairSpec
INVARIANTS
    NeverHalts
    HandPaysForMulligans
PROPERTIES
    KeptHandStays
    MulligansFinish
