\* Seven calls fill the three usable slots and wrap around.
CONSTANTS
    QueueMax = 4
    MaxAdds = 7
SPECIFICATION Spec
INVARIANTS TypeOK NoReplay LostOnlyToOverlap
PROPERTY ImplementsIndexQueue
CHECK_DEADLOCK FALSE
