SPECIFICATION AssetsSpec
CONSTANTS
  Workers = {w1, w2}
  Goods = {g1, g2}
  Files = {f1}
  MaxImages = 1
  NoGood = NoGood
CHECK_DEADLOCK FALSE
INVARIANT FilesOutliveTheirRows
