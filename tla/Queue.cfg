SPECIFICATION Spec
CONSTANTS
    Producer <- MCProducer
    Consumer <- MCConsumer
    Capacity = 2
INVARIANTS
    NoLostWakeup
PROPERTY ImplementsChannel
