SPECIFICATION OmarCommentsSpec
CONSTANTS
    Videos = {v1} LastComment = 0 Threads = {} MaxSlipUps = 1
PROPERTIES SeenComesToKafka
CHECK_DEADLOCK FALSE
