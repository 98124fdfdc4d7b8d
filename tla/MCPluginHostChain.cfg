SPECIFICATION SpecKvAnswers
CONSTANTS
  Requests = {r1, r2}
  PluginCount = 3
  Hooked = {2, 3}
  Uses <- ChainUses
  Nils = {FALSE}
INVARIANTS TypeOK ReadsStayCurrent DropsAreExplicit ScalarsComeFromReturns OneInterruptPerTimer
PROPERTY EveryEventAnswered
