SPECIFICATION LiveSpec

CONSTANTS
    Consumers = {1, 2}
    Partitions = {1, 2}
    NoProtocol = NoProtocol
    Behaviours = {"leave", "late", "old", "overdue"}
    MaxIds = 3
    MaxGeneration = 7
    MaxOffset = 1
    MaxFaults = 1
    Offers <- Same
    Identities <- Distinct

CHECK_DEADLOCK FALSE

PROPERTY JoinersGetIn
