SPECIFICATION LiveSpec
CONSTANTS
    m1 = m1  o1 = o1  o2 = o2  p1 = p1  p2 = p2
    k1 = k1  k2 = k2  k3 = k3  room = room
    NoWallet = NoWallet
    NoSnapshot = NoSnapshot
    None = None
    Members = {m1}
    Workers = {w1, w2}
    Orders = {o1, o2}
    Keys = {k1, k3}
    SourceIds <- MCSourceIds
    Owner <- MCOwner
    Product <- MCSameProduct
    CoinAmount <- MCCoinAmount
    Amount <- MCAmount
    KeyOrder <- MCKeyOrder
    KeyAmount <- MCKeyAmount
    OtherMoves <- MCSpend
INVARIANTS
    OrderMatchesLedger
PROPERTIES
    HandlersFinish
    ApprovedPaymentsSettle
    
