\* Both programs and the TCP connection between them, one browser, one host,
\* a plain request and a CONNECT.
CONSTANTS
    Byte <- MCByte
    Key <- MCKey
    Requests <- MCRequests
    Reply <- MCReply
    Established <- MCEstablished
    HeadMax = 2
    ReadMax = 1
    SndBuf = 1
SPECIFICATION FairSpec
INVARIANTS
    EndToEnd
PROPERTIES
    EachAsAlone
    EverythingArrives
    GoneTogether
