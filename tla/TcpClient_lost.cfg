\* One connection is enough to lose it.
SPECIFICATION ClientSpec
CONSTANTS
    MaxConnects = 1
    BodySize = 3
    k1 = k1
    k2 = k2
    Tickers = {k1}
INVARIANTS LossIsSurvived
CHECK_DEADLOCK FALSE
