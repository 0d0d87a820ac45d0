SPECIFICATION ThreadFairSpec
CONSTANTS
    p1 = p1
    p2 = p2
    p3 = p3
    c1 = c1
    c2 = c2
    c3 = c3
    Producers <- MCProducers
    Consumers <- MCConsumers
    Capacity = 2
    Capacities <- MCResized
PROPERTY PushUnblocks
