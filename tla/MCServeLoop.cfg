SPECIFICATION LiveSpec
CONSTANTS
  a = a
  b = b
  c = c
  ta = ta
  tb = tb
  driveTopic = driveTopic
  itemsTopic = itemsTopic
  NoToken = NoToken
  Msgs = {a, b, c}
  Topics = {driveTopic, itemsTopic}
  TopicOf <- MCTopicOf
  Tokens = {ta, tb}
  TokenOf <- MCTokenOf
  SeenCap = 2
  Failing = {"subscribe", "drain", "open", "item"}
  MaxBreaks = 2
  MaxNodeRestarts = 1
  MaxHostRestarts = 1
CHECK_DEADLOCK FALSE
INVARIANTS TypeOK StreamCoversInbox HearsItsTopics
PROPERTIES Answered ImplementsRequestService
