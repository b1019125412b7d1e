CONSTANTS
    c1 = c1
    c2 = c2
    None = None
    k1 = k1
    k2 = k2
    k3 = k3
    k4 = k4
    small = small
    large = large
    client = client
    server1 = server1
SPECIFICATION Spec
INVARIANTS BlobsDelivered CacheConsistent AnswersOwn ConfigurationsAgree ReceivedAsSent
PROPERTIES Arrives NobodyHangs ConversationEnds
CHECK_DEADLOCK FALSE
