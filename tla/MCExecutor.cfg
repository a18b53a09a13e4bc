SPECIFICATION FairSpec
CONSTANTS
  Capacity = 3
  MaxTasks = 3
  NoTask = NoTask
INVARIANTS
  TypeOK
  NotifiedAreQueued
  NeverHaltsWithWork
  CacheFollowsTasks
  HandlerFreesFinishedOnly
PROPERTIES
  NotifiedIsPolled
  ImplementsScheduler
