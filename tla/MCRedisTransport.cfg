\* Two tasks, two consumers, two failures or cancellations at any await.
SPECIFICATION FairSpec
CONSTANTS
    Tasks <- MCTasks
    Consumers <- MCConsumers
    MaxCalls = 4
    MaxFaults = 2
INVARIANTS OneIterator ClosedLeavesNothing ClosedTogether
PROPERTIES IteratorsEnd
CHECK_DEADLOCK FALSE
