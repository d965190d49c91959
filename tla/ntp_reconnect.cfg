CONSTANT MaxDns = 1
SPECIFICATION FairSpec
PROPERTIES
    ReconnectSyncs
