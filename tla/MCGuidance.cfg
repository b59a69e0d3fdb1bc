\* Pools of two seeds; an index that wraps at a value the pool size does not divide.
SPECIFICATION GSpec
CONSTANTS
  k1 = k1  k2 = k2  k3 = k3  k4 = k4
  Keys <- MCKeys
  PoolLimit = 2
  IndexWidth = 5
INVARIANT CountedOnce
PROPERTIES KeepsInteresting EverySeedUsed
