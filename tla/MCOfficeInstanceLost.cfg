SPECIFICATION FairSpec
CONSTANT Clients = {c1, c2}
PROPERTY AddedObserversAreTold

CHECK_DEADLOCK FALSE
