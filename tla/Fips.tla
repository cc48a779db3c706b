-------------------------------- MODULE Fips --------------------------------
(***************************************************************************)
(* Cashu RPC over FIPS datagrams: the wallet's RpcMintClient               *)
(* (cashu-core-lite rpc.rs), the mint-side adapter (micronuts-fips-bridge) *)
(* and responder (micronuts-fips-responder lib.rs), and the codec that     *)
(* cuts a reply into segments and puts it together again (frag.rs).        *)
(*                                                                         *)
(* Datagrams are lost and overtake each other; a segment may also arrive   *)
(* twice, and late: after its message id has come round.  A byte is        *)
(* <<serial, k>>: the k-th byte of the serial-th reply.  The session layer *)
(* (microfips) is external; it is assumed to deliver no request twice.     *)
(***************************************************************************)
EXTENDS Naturals, Sequences

CONSTANTS
    Ops,          \* what the wallet asks of the mint ...
    Spends,       \* ... of which these happen once
    Sizes,        \* lengths of reply envelopes
    Mtu,          \* datagram budget, header included
    BufferLen,    \* N of the wallet's Reassembler
    ResponseCap,  \* the responder's response buffer
    MsgIdSpace,   \* 256: message ids wrap
    MaxReplies,   \* bound: replies in a behaviour
    MaxProbes,    \* bound: of the first so many requests, any may be no RPC
    None

SegmentHeaderLen == 2
MaxSegments == 128

ASSUME FipsAssumption ==
    /\ Spends \subseteq Ops
    /\ Sizes \subseteq Nat \ {0}    \* an envelope has a header
    /\ Mtu \in Nat /\ Mtu > SegmentHeaderLen
    /\ BufferLen \in Nat
    /\ ResponseCap \in Nat \ {0}   \* room for the message of an error
    /\ MsgIdSpace \in Nat \ {0} /\ MaxReplies \in Nat /\ MaxProbes \in Nat

VARIABLES
    next_id,   \* RpcMintClient.next_id
    call,      \* the wallet's call in progress
    outcome,   \* what its last call returned
    up,        \* request datagrams under way
    frames,    \* reply envelopes the responder has sent
    down,      \* segments under way
    r,         \* the wallet's Reassembler
    got,       \* the frame it has handed up
    done,      \* the mint's state: spends carried out ...
    by,        \* ... and the ids of the calls that carried them out
    clashed    \* history: replies that met another with their message id

vars == <<next_id, call, outcome, up, frames, down, r, got, done, by, clashed>>
wallet == <<next_id, call, outcome>>
mint == <<frames, done, by, clashed>>
-----------------------------------------------------------------------------
(* frag.rs                                                                 *)

Cap == Mtu - SegmentHeaderLen

\* segment_count: the empty frame has one segment.
segment_count(len) == IF len = 0 THEN 1 ELSE (len + Cap - 1) \div Cap

\* for_each_segment asserts that a frame it is given has an index for every
\* segment: a larger response buffer is its caller's error.
ASSUME SegmentsAssumption ==
    \A size \in Sizes : size <= ResponseCap => segment_count(size) <= MaxSegments

AtMost(a, b) == IF a < b THEN a ELSE b

\* for_each_segment.
for_each_segment(frame, id) ==
    LET total == segment_count(Len(frame))
    IN {[msg_id |-> id, idx |-> i, last |-> i + 1 = total,
         data |-> SubSeq(frame, i * Cap + 1, AtMost((i + 1) * Cap, Len(frame)))] :
        i \in 0 .. total - 1}

Fresh == [active |-> FALSE, msg_id |-> 0, next_idx |-> 0, buf |-> <<>>]

\* Mutant: the message id is not compared.
in_order_index(seg) == r.active /\ seg.idx = r.next_idx

in_order(seg) == r.active /\ seg.msg_id = r.msg_id /\ seg.idx = r.next_idx

\* The reassembler a segment is added to: the message in flight, or a new one
\* for a segment with index 0.
Target(seg) ==
    IF in_order(seg) THEN r
    ELSE [active |-> TRUE, msg_id |-> seg.msg_id, next_idx |-> 0, buf |-> <<>>]

\* Reassembler::push.
Push(seg) ==
    LET t == Target(seg)
        buf == t.buf \o seg.data
        drop == [r EXCEPT !.active = FALSE]
    IN \/ /\ ~in_order(seg) /\ seg.idx # 0          \* OutOfOrder
          /\ r' = drop
          /\ UNCHANGED got
       \/ /\ in_order(seg) \/ seg.idx = 0
          /\ Len(buf) > BufferLen                    \* BufferOverflow
          /\ r' = [t EXCEPT !.active = FALSE]
          /\ UNCHANGED got
       \/ /\ in_order(seg) \/ seg.idx = 0
          /\ Len(buf) <= BufferLen
          /\ r' = [t EXCEPT !.buf = buf, !.next_idx = (t.next_idx + 1) % 256,
                            !.active = ~seg.last]
          /\ got' = IF seg.last THEN buf ELSE got
-----------------------------------------------------------------------------
(* The mint's side.                                                        *)

Bytes(serial) == [k \in 1 .. frames[serial].size |-> <<serial, k>>]

\* handle_bytes behind the adapter: a spend happens the first time.
verdict(req) == req.op \notin Spends \/ req.op \notin done

CashuRpcRoute == "/rpc/mint"

\* The requests handle_bytes sees, and those it can decode.
Admitted(req) == req.method = "POST" /\ req.route = CashuRpcRoute
Served(req) == Admitted(req) /\ req.payload = "rpc"

\* CashuRpcServiceAdapter::handle: the status of the reply.  The buffer is
\* checked after the mint has done its work.
handle(req, size) ==
    CASE req.method # "POST"        -> "MethodNotAllowed"
      [] req.method = "POST" /\ req.route # CashuRpcRoute -> "NotFound"
      [] Admitted(req) /\ ~Served(req)      -> "BadRequest"
      [] Served(req) /\ size > ResponseCap  -> "PayloadTooLarge"
      [] Served(req) /\ size <= ResponseCap -> "Ok"

\* status_from_bridge, also of the errors, which write_error_reply answers.
status_from_bridge ==
    [Ok |-> 200, Created |-> 201, BadRequest |-> 400, NotFound |-> 404,
     MethodNotAllowed |-> 405, PayloadTooLarge |-> 413, InternalError |-> 500]

\* The length of an error reply.
ErrorSize == 1

\* The sender counts its replies and gives each the count as message id.
MsgId(serial) == serial % MsgIdSpace

\* The replies of which pieces with this message id are under way or in the
\* Reassembler.
About(id) ==
    {seg.data[1][1] : seg \in {seg \in down : seg.msg_id = id}}
    \cup (IF r.active /\ r.msg_id = id THEN {r.buf[k][1] : k \in 1 .. Len(r.buf)} ELSE {})

\* respond_segments for one request datagram.
Respond(req, size) ==
    /\ Len(frames) < MaxReplies
    /\ up' = up \ {req}
    /\ LET status == handle(req, size)
           serial == Len(frames) + 1
           id == MsgId(serial)
           len == IF status = "Ok" THEN size ELSE ErrorSize
       IN /\ frames' = Append(frames, [id |-> req.id, size |-> len,
                                       status |-> status_from_bridge[status],
                                       ok |-> verdict(req)])
          /\ down' = down \cup for_each_segment([k \in 1 .. len |-> <<serial, k>>], id)
          /\ clashed' = IF About(id) = {} THEN clashed
                        ELSE clashed \cup About(id) \cup {serial}
    /\ done' = IF Served(req) /\ req.op \in Spends THEN done \cup {req.op} ELSE done
    /\ by' = IF Served(req) /\ req.op \in Spends \ done THEN by \cup {req.id} ELSE by
    /\ UNCHANGED <<wallet, r, got>>
-----------------------------------------------------------------------------
(* The network.                                                            *)

LoseRequest(req) ==
    /\ up' = up \ {req}
    /\ UNCHANGED <<wallet, mint, down, r, got>>

LoseSegment(seg) ==
    /\ down' = down \ {seg}
    /\ UNCHANGED <<wallet, mint, up, r, got>>

\* A segment arrives, and may arrive again.
Arrive(seg, again) ==
    /\ got = None
    /\ Push(seg)
    /\ down' = IF again THEN down ELSE down \ {seg}
    /\ UNCHANGED <<wallet, mint, up>>
-----------------------------------------------------------------------------
(* The wallet's side.                                                      *)

\* RpcMintClient's methods: call() takes an id and sends one frame.
Call(op) ==
    /\ call = None
    /\ Len(frames) < MaxReplies /\ next_id <= MaxReplies
    /\ call' = [id |-> next_id, op |-> op]
    /\ next_id' = next_id + 1
    /\ up' = up \cup {[id |-> next_id, op |-> op, method |-> "POST",
                       route |-> CashuRpcRoute, payload |-> "rpc"]}
    /\ UNCHANGED <<outcome, mint, down, r, got>>

\* Another user of the session asks for something that is not an RPC.
Probe(method, route, payload) ==
    /\ next_id <= MaxProbes
    /\ next_id' = next_id + 1
    /\ up' = up \cup {[id |-> next_id, op |-> CHOOSE op \in Ops : TRUE,
                       method |-> method, route |-> route, payload |-> payload]}
    /\ UNCHANGED <<call, outcome, mint, down, r, got>>

\* The status, the id and the verdict stand at the front of a frame.
Frame == frames[got[1][1]]
Mixed == \E k \in 1 .. Len(got) : got[k][1] # got[1][1]

\* Mutant: the response's id is not compared.
any_id == TRUE

\* call() compares the response's id with its request's.
own_id == Frame.id = call.id

\* The rest of call(): a reply that is not OK and a response with another id
\* are errors; else the mint's result or its error.  A mixture that does not
\* decode is an error too.
Return ==
    /\ got # None
    /\ got' = None
    /\ \/ /\ call = None
          /\ UNCHANGED <<call, outcome>>
       \/ /\ call # None
          /\ call' = None
          /\ \E decodes \in BOOLEAN :
                /\ Mixed \/ decodes
                /\ outcome' = [id |-> call.id, op |-> call.op,
                               result |-> IF ~decodes \/ Frame.status # 200 \/ ~own_id THEN "error"
                                          ELSE IF Frame.ok THEN "ok" ELSE "refused"]
    /\ UNCHANGED <<next_id, mint, up, down, r>>

\* The transport gives up on a reply.
GiveUp ==
    /\ call # None
    /\ call' = None
    /\ outcome' = [id |-> call.id, op |-> call.op, result |-> "error"]
    /\ UNCHANGED <<next_id, mint, up, down, r, got>>
-----------------------------------------------------------------------------
Init ==
    /\ next_id = 1
    /\ call = None /\ outcome = None
    /\ up = {} /\ down = {}
    /\ frames = <<>>
    /\ r = Fresh
    /\ got = None
    /\ done = {} /\ by = {}
    /\ clashed = {}

Next ==
    \/ \E op \in Ops : Call(op)
    \/ Probe("GET", CashuRpcRoute, "rpc") \/ Probe("POST", "/elsewhere", "rpc")
    \/ Probe("POST", CashuRpcRoute, "garbage")
    \/ Return \/ GiveUp
    \/ \E req \in up : LoseRequest(req) \/ \E size \in Sizes : Respond(req, size)
    \/ \E seg \in down : LoseSegment(seg) \/ \E again \in BOOLEAN : Arrive(seg, again)

Spec == Init /\ [][Next]_vars
-----------------------------------------------------------------------------
(* The refinement: the codec over datagrams is a channel of frames.        *)

AllFrames ==
    {[k \in 1 .. n |-> <<serial, k>>] : n \in Sizes \cup {ErrorSize}, serial \in 1 .. MaxReplies}

Channel == INSTANCE FrameChannel
             WITH Frames <- AllFrames,
                  sent <- [serial \in 1 .. Len(frames) |-> Bytes(serial)]

\* Whatever arrives in whatever order and however late, Reassembler::push
\* hands up a frame that for_each_segment cut up, never a part of one, and a
\* mixture only of replies that met another with their message id, which a
\* reply does only after a whole round of ids.
ImplementsChannel == Channel!ChannelSpec

\* What RpcMintClient::call returns is the mint's word on that very call: "ok"
\* for a spend only if this call carried it out, a refusal only if it did not,
\* although replies to calls given up long ago may still come in.
VerdictIsMints ==
    outcome # None =>
        /\ outcome.result = "refused" => outcome.id \notin by
        /\ outcome.result = "ok" /\ outcome.op \in Spends => outcome.id \in by
=============================================================================
