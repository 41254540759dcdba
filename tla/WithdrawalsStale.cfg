SPECIFICATION MCSpec
SYMMETRY Symmetry
CONSTANTS
    m1 = m1  r1 = r1  r2 = r2  r3 = r3  room = room  order = order
    a1 = a1  a2 = a2  b = b  n1 = n1  n2 = n2  n = n  g = g  h1 = h1  h2 = h2
    Holders = {a1, a2, b}
    Numbers = {n1, n2, n}
    Handlers = {g, h1, h2}
    MaxAccounts = 3
    NoWallet = NoWallet
    NoSnapshot = NoSnapshot
    None = None
    Members = {m1}
    Workers = {w1, w2}
    Requests = {r1, r2, r3}
    SourceIds <- MCSourceIds
    Requester <- MCRequester
    RequestCoins <- MCRequestCoins
    MinimumCoins = 10
    CoinUnit = 10
    CashPerCoin = 100
    FlatFee = 0
    OtherMoves <- MCEarnings
PROPERTIES
    CoinsLeaveWithRequest
