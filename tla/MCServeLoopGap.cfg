SPECIFICATION LiveSpec
CONSTANTS
  a = a
  b = b
  c = c
  ta = ta
  tb = tb
  driveTopic = driveTopic
  itemsTopic = itemsTopic
  NoToken = NoToken
  Msgs = {a}
  Topics = {driveTopic}
  TopicOf <- MCTopicOfOne
  Tokens = {ta}
  TokenOf <- MCTokenOfOne
  SeenCap = 2
  Failing = {}
  MaxBreaks = 1
  MaxNodeRestarts = 0
  MaxHostRestarts = 0
CHECK_DEADLOCK FALSE
PROPERTY NeverMissed
