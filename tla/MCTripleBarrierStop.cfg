SPECIFICATION BarrierSpec
CONSTANTS
  Candles <- MCCandles
  SeriesLength = 4
  EventCount = 2
  Horizon = 2
  Delay = 1
  Profit = 2
  Stop = 3
  RoundTripFriction = 1
  Ticks = {1, 7}
  LeverageCap = 4
  Stakes = {6, 60}
INVARIANT StoppedTradeIsNotAWin
CHECK_DEADLOCK FALSE
