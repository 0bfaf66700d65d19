\* two runs at once, tables with and without stdio, up to a nearly full one, every failing call
SPECIFICATION Spec
CONSTANTS
  Runs = {r1, r2}
  MaxFd = 10
  Tables <- MCTables
  CallsFail = {"fork", "null"}
  r1 = r1
  r2 = r2
SYMMETRY RunSymmetry
INVARIANT TypeOK
INVARIANT OutputIsWired
INVARIANT StdinIsNull
INVARIANT NothingLeaks
INVARIANT NumbersAreOwn
INVARIANT OthersAreKeptOut
