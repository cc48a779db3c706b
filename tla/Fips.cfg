\* Two payload bytes to a segment: a reply of two segments, one of three that
\* overflows the wallet's buffer and one that overflows the responder's.  Two
\* message ids for three replies, so that they wrap.
SPECIFICATION Spec
CHECK_DEADLOCK FALSE
CONSTANTS
    Ops = {swap}
    Spends = {swap}
    Sizes = {3, 5, 7}
    Mtu = 4
    BufferLen = 4
    ResponseCap = 6
    MsgIdSpace = 2
    MaxReplies = 3
    MaxProbes = 1
    None = None
INVARIANTS
    VerdictIsMints
PROPERTIES
    ImplementsChannel
