SPECIFICATION FairSpec
INVARIANTS OnePieceAtATime PieceOfThisCall SumIsComplete
  DestIsSource NothingComesLate FlagIsOfThisCall FlagMeansOffset FlagsRestored
  DestIsExchanged SyncIsBarrier InitIsOver
PROPERTIES EveryCallReturns
