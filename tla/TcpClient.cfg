\* Connections made, lost and closed, three times over, with two tickers.
SPECIFICATION ClientFairSpec
CONSTANTS
    MaxConnects = 3
    BodySize = 3
    k1 = k1
    k2 = k2
    Tickers = {k1, k2}
INVARIANTS ConnectedIsWatched StateHonest TickersTold
PROPERTIES EndReported DisconnectReturns LossNoticed
\* A client that was destroyed does nothing any more.
CHECK_DEADLOCK FALSE
