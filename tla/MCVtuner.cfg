CONSTANTS
    MaxOpens = 2
    MaxReqs = 2
    MaxData = 2
    PacketSize = 2
    OtherOrder = FALSE
    Errors <- McErrors
SPECIFICATION EitherSpec
CHECK_DEADLOCK FALSE
 
 
 
PROPERTY DataInOrder
 
