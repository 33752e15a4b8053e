\* A unary call and a stream of three frames whose buffer holds one. When all
\* calls have been made the system stops.
CONSTANTS
    Unary = {u1}
    Streams = {s1}
    NoCall = NoCall
    BufferSize = 1
    MaxFrames = 3
SPECIFICATION FairSpec
INVARIANTS
    NoCallLost
    StreamIntact
PROPERTIES
    ShutdownCompletes
    AnswersArrive
CHECK_DEADLOCK FALSE
