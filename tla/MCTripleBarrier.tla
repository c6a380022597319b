-------------------------- MODULE MCTripleBarrier --------------------------
(* Candles for TripleBarrier: a quiet one, one that touches both barriers, *)
(* a gap up and a slide.  A tick of 7 puts barriers on the entry price.    *)
EXTENDS TripleBarrier

MCCandle(o, h, l, c) == [open |-> o, high |-> h, low |-> l, close |-> c]
MCCandles ==
  {MCCandle(7, 7, 7, 7), MCCandle(7, 10, 4, 8), MCCandle(11, 11, 10, 10), MCCandle(6, 7, 5, 5)}
=============================================================================
