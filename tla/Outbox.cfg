SPECIFICATION Spec
CONSTANTS
    w1 = w1
    w2 = w2
    d1 = d1
    d2 = d2
    Workers <- MCWorkers
    Deliveries <- MCDeliveries
    BatchSize = 2
    MaxAttempts = 2
    NoRow = NoRow
    NoWorker = NoWorker
    NoDelivery = NoDelivery
INVARIANTS
    TypeOK
    OutboxConsistent
    OneDrainPerLease
PROPERTIES
    EveryDeliverySettles
    ImplementsPromise
