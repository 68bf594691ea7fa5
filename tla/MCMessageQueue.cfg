SPECIFICATION QueueFairSpec
CONSTANTS
  Callers = {t1, t2, p1}
  PrecompileCallers = {p1}
  Messages = {deposit, deposit2}
  Deposits = {deposit, deposit2}
  StateRoots = {}
INVARIANT RefusedWasQueued
INVARIANT CopiesAreCalls
PROPERTY SequencerHandsOut
