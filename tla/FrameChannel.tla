---------------------------- MODULE FrameChannel ----------------------------
(***************************************************************************)
(* What the segment codec of the FIPS responder promises the RPC above it: *)
(* a channel of frames.  A frame may be lost, overtaken or handed up       *)
(* twice, and what is handed up is a frame that was sent, complete and     *)
(* unmixed, as long as no frame meets an older one that had its message    *)
(* id.  Frames that meet so may come up as a mixture: every byte is the    *)
(* byte at that place of one of them.                                      *)
(***************************************************************************)
EXTENDS Naturals, Sequences

CONSTANTS Frames, MsgIdSpace, None

VARIABLES
    sent,      \* the frames sent, in order; the n-th has message id n % MsgIdSpace
    clashed,   \* those that met another with their id, by number
    got        \* the frame last handed up

ChannelInit ==
    /\ sent = <<>>
    /\ clashed = {}
    /\ got = None

\* Older frames with the message id of the n-th.
SameId(n) == {i \in 1 .. n - 1 : i % MsgIdSpace = n % MsgIdSpace}

SendFrame(f) ==
    LET n == Len(sent) + 1
    IN /\ sent' = Append(sent, f)
       /\ \/ clashed' = clashed
          \/ \E older \in SUBSET SameId(n) : clashed' = clashed \cup older \cup {n}
       /\ UNCHANGED got

Whole(f) == \E i \in 1 .. Len(sent) : f = sent[i]

Mixture(f) ==
    \E id \in 0 .. MsgIdSpace - 1 : \A k \in 1 .. Len(f) :
        \E i \in clashed : i % MsgIdSpace = id /\ k \in 1 .. Len(sent[i]) /\ f[k] = sent[i][k]

HandUp ==
    /\ UNCHANGED <<sent, clashed>>
    /\ Whole(got') \/ Mixture(got')

\* The wallet takes the frame.
Take ==
    /\ got' = None
    /\ UNCHANGED <<sent, clashed>>

ChannelNext == Take \/ (\E f \in Frames : SendFrame(f)) \/ HandUp

ChannelSpec == ChannelInit /\ [][ChannelNext]_<<sent, clashed, got>>
=============================================================================
