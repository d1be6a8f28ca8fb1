SPECIFICATION MqttFairSpec
CONSTANTS
  QueueSize = 2
  MaxReadings = 4
  MaxMessages = 4
INVARIANTS
  PublishesAreNew
  MessagesAccounted

  
CHECK_DEADLOCK FALSE
