SPECIFICATION FairSpec
CONSTANTS
  s1 = s1
  s2 = s2
  b1 = b1
  b2 = b2
  w1 = w1
  w2 = w2
  Standard <- MCStandard
  Background <- MCBackground
  Workers <- MCWorkers
  LocalCap = 2
  Threshold = 2
  Jitter = 1
  MaxLag = 1
PROPERTIES
  BackgroundServed
  StandardServed
