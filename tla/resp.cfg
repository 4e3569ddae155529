\* Three requests, a dozen replies, a crash at any point of a reply.
SPECIFICATION RespSpec
CONSTANTS
    Chars <- MCChars
    Requests <- MCRequests
    Replies <- MCReplies
    Wire <- MCWire
CHECK_DEADLOCK FALSE
INVARIANTS
    NothingLeftOver
    ReaderStaysAligned
PROPERTIES
    ImplementsCall
    EveryCallReturns
