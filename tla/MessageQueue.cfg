SPECIFICATION Spec
CONSTANTS
    Consumers <- McConsumers
    Samples <- McSamples
    Versions <- McVersions
    Capacity = 2
    NoSample <- McNoSample
CONSTRAINT Bounded
INVARIANTS
    Accounting
    NoLostWakeup
