SPECIFICATION BrokerSpec
CONSTANTS
  Messages = 3
  WindowSize = 2
  DecodeAttempts = 2
  MaxDeliveries = 3
CHECK_DEADLOCK FALSE
INVARIANT KafkaCommitsOnlySeen
