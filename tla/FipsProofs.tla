----------------------------- MODULE FipsProofs -----------------------------
(***************************************************************************)
(* Proofs about Fips: the segment codec implements the channel of frames,  *)
(* and what the wallet's call returns is the mint's word on it.            *)
(***************************************************************************)
EXTENDS Fips, SequenceTheorems, TLAPS

Byte == Nat \X Nat

Replies == [id : Nat, size : Sizes \cup {ErrorSize}, status : Nat, ok : BOOLEAN]

Reassemblers == [active : BOOLEAN, msg_id : Nat, next_idx : Nat, buf : Seq(Byte)]

Calls == [id : Nat, op : Ops]

Outcomes == [id : Nat, op : Ops, result : {"ok", "refused", "error"}]

TypeOK ==
    /\ next_id \in Nat
    /\ call \in {None} \cup Calls
    /\ outcome \in {None} \cup Outcomes
    /\ frames \in Seq(Replies) /\ Len(frames) <= MaxReplies
    /\ clashed \subseteq 1 .. Len(frames)
    /\ r \in Reassemblers

-----------------------------------------------------------------------------
(* The codec.                                                              *)

\* Bytes of the serial-th reply, in order, after the first from of them.
Spells(bytes, serial, from) ==
    /\ bytes \in Seq(Byte)
    /\ \A k \in 1 .. Len(bytes) : bytes[k] = <<serial, from + k>>

\* A segment of the serial-th reply, of n bytes.
Cut(seg, serial, n) ==
    /\ seg.idx \in Nat /\ seg.idx < MaxSegments
    /\ seg.idx * Cap < n
    /\ seg.last \in BOOLEAN
    /\ seg.last <=> n <= (seg.idx + 1) * Cap
    /\ Spells(seg.data, serial, seg.idx * Cap)
    /\ Len(seg.data) = AtMost((seg.idx + 1) * Cap, n) - seg.idx * Cap

Piece(seg, serial) ==
    /\ serial \in 1 .. Len(frames)
    /\ seg.msg_id = MsgId(serial)
    /\ Cut(seg, serial, frames[serial].size)

\* Bytes of replies with message id id, each at its place.
Woven(bytes, id, serials) ==
    /\ bytes \in Seq(Byte)
    /\ \A k \in 1 .. Len(bytes) : \E s \in serials :
          /\ s \in 1 .. Len(frames) /\ k \in 1 .. frames[s].size
          /\ MsgId(s) = id /\ bytes[k] = <<s, k>>

\* The message in flight: the first segments of replies with its id.
Begun ==
    /\ Woven(r.buf, r.msg_id, About(r.msg_id))
    /\ Len(r.buf) = r.next_idx * Cap

\* A message id stands for one reply at a time, or its replies have clashed.
Apart(serials) == \A s, t \in serials : s = t \/ {s, t} \subseteq clashed

Codec ==
    /\ \A seg \in down : Piece(seg, seg.data[1][1])
    /\ r.active => Begun
    /\ \A id : Apart(About(id))

\* A frame that may be handed up.
Good(bytes) ==
    \/ \E serial \in 1 .. Len(frames) : bytes = Bytes(serial)
    \/ \E id \in 0 .. MsgIdSpace - 1 : Woven(bytes, id, clashed) /\ Len(bytes) > 0

Handed == got # None => Good(got)

-----------------------------------------------------------------------------
(* Requests and their answers.                                             *)

\* Every request has an id of its own, and is answered once.
Ids ==
    /\ \A req \in up : req.id \in Nat /\ req.id < next_id
    /\ \A q1, q2 \in up : q1.id = q2.id => q1 = q2
    /\ \A i \in 1 .. Len(frames) : /\ frames[i].id < next_id
                                   /\ \A req \in up : req.id # frames[i].id
    /\ \A req \in up : req.id \notin by
    /\ \A id \in by : id \in Nat /\ id < next_id
    /\ call # None => call.id < next_id
    /\ outcome # None => outcome.id < next_id

\* The reply to the call in progress is the mint's word on it.
CallReply ==
    call # None =>
        /\ \A req \in up : req.id = call.id => req.op = call.op
        /\ \A i \in 1 .. Len(frames) :
              frames[i].id = call.id /\ frames[i].status = 200 =>
                  /\ frames[i].ok /\ call.op \in Spends => call.id \in by
                  /\ ~frames[i].ok => call.id \notin by

\* A call that was answered has no request under way.
Answered ==
    outcome # None /\ outcome.result # "error" => \A req \in up : req.id # outcome.id

Inv == TypeOK /\ Codec /\ Handed /\ Ids /\ CallReply /\ Answered /\ VerdictIsMints
-----------------------------------------------------------------------------
(* Arithmetic of segments.                                                 *)

LEMMA CapNat == Cap \in Nat \ {0}
BY FipsAssumption DEF Cap, SegmentHeaderLen

LEMMA ModRange ==
    ASSUME NEW m \in Nat, NEW n \in Nat \ {0}
    PROVE  m % n \in 0 .. n - 1
OBVIOUS

LEMMA DivBounds ==
    ASSUME NEW m \in Nat, NEW c \in Nat \ {0}
    PROVE  m \div c \in Nat /\ (m \div c) * c <= m /\ m < (m \div c + 1) * c
OBVIOUS

LEMMA Times ==
    ASSUME NEW a \in Nat, NEW c \in Nat
    PROVE  a * c \in Nat /\ (a + 1) * c \in Nat /\ (a + 1) * c = a * c + c
OBVIOUS

LEMMA TimesMono ==
    ASSUME NEW a \in Nat, NEW b \in Nat, NEW c \in Nat, a <= b
    PROVE  a * c <= b * c
OBVIOUS

\* Every segment starts inside the frame, and the last one ends it.
LEMMA SegmentBounds ==
    ASSUME NEW n \in Nat \ {0}, NEW i \in 0 .. segment_count(n) - 1
    PROVE  /\ i \in Nat /\ i * Cap < n
           /\ i + 1 = segment_count(n) <=> n <= (i + 1) * Cap
<1> DEFINE total == (n + Cap - 1) \div Cap
<1>1. Cap \in Nat \ {0} /\ n + Cap - 1 \in Nat
  BY CapNat
<1>2. total \in Nat /\ total * Cap <= n + Cap - 1 /\ n + Cap - 1 < (total + 1) * Cap
  BY <1>1, DivBounds
<1>3. segment_count(n) = total
  BY DEF segment_count
<1> HIDE DEF total
<1>4. i \in Nat /\ i + 1 <= total
  BY <1>2, <1>3
<1>5. (total + 1) * Cap = total * Cap + Cap /\ total * Cap \in Nat
  BY <1>1, <1>2, Times
<1>6. (i + 1) * Cap = i * Cap + Cap /\ i * Cap \in Nat
  BY <1>1, <1>4, Times
<1>7. i * Cap < n
  <2>1. (i + 1) * Cap <= total * Cap
    BY <1>1, <1>2, <1>4, TimesMono
  <2> QED
    BY <1>1, <1>2, <1>5, <1>6, <2>1
<1>8. ASSUME i + 1 = total PROVE n <= (i + 1) * Cap
  <2>1. (i + 1) * Cap = total * Cap
    BY <1>8
  <2> QED
    BY <1>1, <1>2, <1>5, <2>1
<1>9. ASSUME i + 1 # total PROVE ~(n <= (i + 1) * Cap)
  <2>1. (i + 1) + 1 <= total /\ i + 1 \in Nat
    BY <1>2, <1>4, <1>9
  <2>2. ((i + 1) + 1) * Cap <= total * Cap
    BY <1>1, <1>2, <2>1, TimesMono
  <2>3. ((i + 1) + 1) * Cap = (i + 1) * Cap + Cap
    BY <1>1, <2>1, Times
  <2> QED
    BY <1>1, <1>2, <1>5, <1>6, <2>2, <2>3
<1> QED
  BY <1>3, <1>4, <1>7, <1>8, <1>9

\* What for_each_segment cuts off a reply.
LEMMA SegmentPiece ==
    ASSUME NEW n \in Nat \ {0}, segment_count(n) <= MaxSegments, NEW serial \in Nat, NEW id,
           NEW seg \in for_each_segment([k \in 1 .. n |-> <<serial, k>>], id)
    PROVE  seg.msg_id = id /\ Cut(seg, serial, n)
<1> DEFINE f == [k \in 1 .. n |-> <<serial, k>>]
<1>1. f \in Seq(Byte) /\ Len(f) = n /\ \A k \in 1 .. n : f[k] = <<serial, k>>
  BY DEF Byte
<1>2. PICK i \in 0 .. segment_count(n) - 1 :
        seg = [msg_id |-> id, idx |-> i, last |-> i + 1 = segment_count(n),
               data |-> SubSeq(f, i * Cap + 1, AtMost((i + 1) * Cap, n))]
  <2>1. seg \in for_each_segment(f, id)
    OBVIOUS
  <2> HIDE DEF f
  <2> QED
    BY <1>1, <2>1 DEF for_each_segment
<1> HIDE DEF f
<1>3. /\ i \in Nat /\ i * Cap < n
      /\ i + 1 = segment_count(n) <=> n <= (i + 1) * Cap
  BY SegmentBounds
<1>4. segment_count(n) \in Nat
  BY CapNat, DivBounds DEF segment_count
<1>5. i < MaxSegments
  BY <1>3, <1>4 DEF MaxSegments
<1>6. PICK a \in Nat : a = i * Cap
  BY <1>3, CapNat, Times
<1>7. PICK b \in Nat : b = AtMost((i + 1) * Cap, n)
  BY <1>3, CapNat, Times DEF AtMost
<1>8. a < b /\ b <= n
  <2>1. (i + 1) * Cap = a + Cap /\ Cap \in Nat \ {0}
    BY <1>3, <1>6, CapNat, Times
  <2> QED
    BY <1>3, <1>6, <1>7, <2>1 DEF AtMost
<1>9. /\ SubSeq(f, a + 1, b) \in Seq(Byte)
      /\ Len(SubSeq(f, a + 1, b)) = b - a
      /\ \A k \in 1 .. b - a : SubSeq(f, a + 1, b)[k] = f[a + k]
  <2>1. a + 1 \in Int /\ b \in Int /\ \A k \in a + 1 .. b : f[k] \in Byte
    <3>1. \A k \in a + 1 .. b : k \in 1 .. n
      BY <1>8
    <3> QED
      BY <1>1, <3>1 DEF Byte
  <2>2. /\ SubSeq(f, a + 1, b) \in Seq(Byte)
        /\ Len(SubSeq(f, a + 1, b)) = IF a + 1 <= b THEN b - (a + 1) + 1 ELSE 0
        /\ \A k \in 1 .. b - (a + 1) + 1 : SubSeq(f, a + 1, b)[k] = f[(a + 1) + k - 1]
    BY <2>1, SubSeqProperties
  <2>3. b - (a + 1) + 1 = b - a /\ a + 1 <= b
    BY <1>8
  <2>4. \A k \in 1 .. b - a : (a + 1) + k - 1 = a + k
    BY <1>8
  <2> QED
    BY <2>2, <2>3, <2>4
<1>10. PICK d : d = SubSeq(f, a + 1, b)
  OBVIOUS
<1>11. Spells(d, serial, a) /\ Len(d) = b - a
  <2>1. \A k \in 1 .. b - a : a + k \in 1 .. n
    BY <1>8
  <2> QED
    BY <1>1, <1>9, <1>10, <2>1 DEF Spells
<1>12. /\ seg.msg_id = id /\ seg.idx = i /\ seg.data = d
       /\ seg.last = (i + 1 = segment_count(n))
  BY <1>2, <1>6, <1>7, <1>10
<1>13. seg.last \in BOOLEAN /\ (seg.last <=> n <= (i + 1) * Cap)
  BY <1>3, <1>12
<1> QED
  BY <1>3, <1>5, <1>6, <1>7, <1>11, <1>12, <1>13 DEF Cut

-----------------------------------------------------------------------------
(* The reassembler.                                                        *)

LEMMA FramesOK ==
    ASSUME TypeOK, NEW s \in 1 .. Len(frames)
    PROVE  /\ frames[s] \in Replies /\ frames[s].size \in Nat \ {0} /\ s \in Nat
           /\ frames[s].size \in Sizes \cup {ErrorSize} /\ s \in 1 .. MaxReplies
<1>1. frames[s] \in Replies
  BY DEF TypeOK
<1>2. frames[s].size \in Sizes \cup {ErrorSize}
  BY <1>1 DEF Replies
<1>3. frames[s].size \in Nat \ {0}
  <2>1. \A x \in Sizes : x \in Nat \ {0}
    BY FipsAssumption, Zenon
  <2>2. ErrorSize \in Nat \ {0}
    BY DEF ErrorSize
  <2> QED
    BY <1>2, <2>1, <2>2, Zenon
<1>4. s \in 1 .. MaxReplies
  BY FipsAssumption DEF TypeOK
<1> QED
  BY <1>1, <1>2, <1>3, <1>4

\* All the bytes of a reply are the reply.
LEMMA WholeFrame ==
    ASSUME TypeOK, NEW s \in 1 .. Len(frames), NEW b, Spells(b, s, 0), Len(b) = frames[s].size
    PROVE  b = Bytes(s)
<1>1. PICK n \in Nat : n = frames[s].size
  BY FramesOK
<1>2. PICK f : f = [k \in 1 .. n |-> <<s, k>>]
  OBVIOUS
<1>3. f \in Seq(Byte) /\ Len(f) = n /\ \A k \in 1 .. n : f[k] = <<s, k>>
  BY <1>2, FramesOK DEF Byte
<1>4. b \in Seq(Byte) /\ \A k \in 1 .. n : b[k] = <<s, k>>
  BY <1>1 DEF Spells
<1>5. b = f
  BY <1>1, <1>3, <1>4, SeqEqual
<1> QED
  BY <1>1, <1>2, <1>5 DEF Bytes

\* A segment says whose it is.
LEMMA CutSerial ==
    ASSUME NEW seg, NEW s \in Nat, NEW n \in Nat, Cut(seg, s, n)
    PROVE  seg.data[1][1] = s /\ Len(seg.data) > 0
<1>1. PICK a \in Nat : a = seg.idx * Cap
  BY CapNat, Times DEF Cut
<1>2. PICK e \in Nat : e = (seg.idx + 1) * Cap /\ e > a
  BY <1>1, CapNat, Times DEF Cut
<1>3. a < n /\ Len(seg.data) = AtMost(e, n) - a
  BY <1>1, <1>2 DEF Cut
<1>4. Len(seg.data) \in Nat /\ Len(seg.data) > 0
  BY <1>2, <1>3 DEF AtMost
<1>5. seg.data[1] = <<s, a + 1>>
  <2>1. 1 \in 1 .. Len(seg.data)
    BY <1>4
  <2> QED
    BY <1>1, <2>1 DEF Cut, Spells
<1> QED
  BY <1>4, <1>5

\* The replies about with a message id are replies sent with it.
LEMMA AboutSerials ==
    ASSUME Codec, NEW id
    PROVE  About(id) \subseteq {s \in 1 .. Len(frames) : MsgId(s) = id}
<1> SUFFICES ASSUME NEW s \in About(id) PROVE s \in 1 .. Len(frames) /\ MsgId(s) = id
  OBVIOUS
<1>1. CASE \E seg \in down : seg.msg_id = id /\ s = seg.data[1][1]
  BY <1>1 DEF Codec, Piece
<1>2. CASE r.active /\ r.msg_id = id /\ \E k \in 1 .. Len(r.buf) : s = r.buf[k][1]
  <2>1. PICK k \in 1 .. Len(r.buf) : s = r.buf[k][1]
    BY <1>2
  <2>2. PICK u : u \in 1 .. Len(frames) /\ MsgId(u) = id /\ r.buf[k] = <<u, k>>
    BY <1>2, <2>1 DEF Codec, Begun, Woven
  <2> QED
    BY <2>1, <2>2
<1> QED
  BY <1>1, <1>2 DEF About

\* Fewer pieces about are still apart.
LEMMA CodecShrinks ==
    ASSUME Codec, UNCHANGED <<frames, clashed>>, down' \subseteq down, r'.active => Begun',
           \A id : About(id)' \subseteq About(id)
    PROVE  Codec'
<1>1. \A seg \in down' : Piece(seg, seg.data[1][1])'
  BY DEF Codec, Piece, Cut, Spells
<1>2. \A id : Apart(About(id))'
  <2> SUFFICES ASSUME NEW id, NEW s \in About(id)', NEW u \in About(id)'
               PROVE  s = u \/ {s, u} \subseteq clashed'
    BY DEF Apart
  <2> QED
    BY DEF Codec, Apart
<1> QED
  BY <1>1, <1>2 DEF Codec

\* A segment added to the bytes before it.
LEMMA WovenOn ==
    ASSUME NEW b, NEW d, NEW id, NEW S, NEW s \in S, NEW o \in Nat,
           s \in 1 .. Len(frames), MsgId(s) = id, frames[s].size \in Nat,
           Woven(b, id, S), Len(b) = o, Spells(d, s, o), o + Len(d) <= frames[s].size
    PROVE  Woven(b \o d, id, S) /\ Len(b \o d) = o + Len(d)
<1>1. b \in Seq(Byte) /\ d \in Seq(Byte)
  BY DEF Spells, Woven
<1>2. /\ b \o d \in Seq(Byte)
      /\ Len(b \o d) = Len(b) + Len(d)
      /\ \A i \in 1 .. Len(b) + Len(d) :
            (b \o d)[i] = IF i <= Len(b) THEN b[i] ELSE d[i - Len(b)]
  BY <1>1, ConcatProperties
<1>3. PICK m \in Nat : m = Len(d)
  BY <1>1
<1>4. ASSUME NEW k \in 1 .. o + m
      PROVE  \E u \in S : /\ u \in 1 .. Len(frames) /\ k \in 1 .. frames[u].size
                          /\ MsgId(u) = id /\ (b \o d)[k] = <<u, k>>
  <2>1. CASE k <= o
    <3>1. k \in 1 .. Len(b)
      BY <2>1
    <3>2. (b \o d)[k] = b[k]
      BY <1>2, <1>3, <2>1
    <3> QED
      BY <3>1, <3>2 DEF Woven
  <2>2. CASE ~(k <= o)
    <3>1. k - o \in 1 .. m /\ o + (k - o) = k /\ k \in 1 .. frames[s].size
      BY <1>3, <2>2
    <3>2. (b \o d)[k] = d[k - o]
      BY <1>2, <1>3, <2>2
    <3>3. d[k - o] = <<s, o + (k - o)>>
      BY <1>3, <3>1 DEF Spells
    <3> QED
      BY <3>1, <3>2, <3>3
  <2> QED
    BY <2>1, <2>2
<1> QED
  BY <1>2, <1>3, <1>4 DEF Woven

\* What is put together from replies that are apart may be handed up once it
\* is as long as the reply of its last segment.
LEMMA Complete ==
    ASSUME TypeOK, NEW S, Apart(S), NEW s \in S, s \in 1 .. Len(frames),
           NEW b, Woven(b, MsgId(s), S), Len(b) = frames[s].size
    PROVE  Good(b)
<1>1. CASE S = {s}
  <2>1. \A k \in 1 .. Len(b) : b[k] = <<s, 0 + k>>
    <3>1. \A k \in 1 .. Len(b) : b[k] = <<s, k>> /\ 0 + k = k
      BY <1>1 DEF Woven
    <3> QED
      BY <3>1
  <2>2. Spells(b, s, 0)
    BY <2>1 DEF Spells, Woven
  <2>3. b = Bytes(s)
    BY <2>2, WholeFrame
  <2> QED
    BY <2>3 DEF Good
<1>2. CASE S # {s}
  <2>1. PICK u \in S : u # s
    BY <1>2
  <2>2. S \subseteq clashed
    <3> SUFFICES ASSUME NEW v \in S PROVE v \in clashed
      OBVIOUS
    <3>1. {s, u} \subseteq clashed
      BY <2>1 DEF Apart
    <3>2. v = s \/ {v, s} \subseteq clashed
      BY DEF Apart
    <3> QED
      BY <3>1, <3>2
  <2>3. Woven(b, MsgId(s), clashed)
    BY <2>2 DEF Woven
  <2>4. MsgId(s) \in 0 .. MsgIdSpace - 1 /\ Len(b) > 0
    <3>1. frames[s].size \in Nat \ {0} /\ s \in Nat
      BY FramesOK
    <3>2. Len(b) > 0
      BY <3>1
    <3>3. s % MsgIdSpace \in 0 .. MsgIdSpace - 1
      BY <3>1, FipsAssumption, ModRange
    <3> QED
      BY <3>2, <3>3 DEF MsgId
  <2> QED
    BY <2>3, <2>4 DEF Good
<1> QED
  BY <1>1, <1>2

\* Reassembler::push keeps the pieces of one message id in their places, and
\* hands up what is complete.
LEMMA PushOK ==
    ASSUME TypeOK, Codec, NEW seg \in down, Push(seg), UNCHANGED <<frames, clashed>>,
           down' \subseteq down
    PROVE  /\ r' \in Reassemblers
           /\ Codec'
           /\ got' = got \/ Good(got')
<1>1. PICK s : s = seg.data[1][1]
  OBVIOUS
<1>2. Piece(seg, s)
  BY <1>1 DEF Codec
<1>3. PICK S : S = About(seg.msg_id)
  OBVIOUS
<1>4. s \in S /\ Apart(S)
  BY <1>1, <1>3 DEF About, Codec
<1>5. r \in Reassemblers
  BY DEF TypeOK
<1>6. ASSUME r'.active = FALSE PROVE Codec'
  <2>1. \A id : About(id)' \subseteq About(id)
    BY <1>6 DEF About
  <2> QED
    BY <1>6, <2>1, CodecShrinks
<1> DEFINE t == Target(seg)
           buf == t.buf \o seg.data
<1>7. CASE r' = [r EXCEPT !.active = FALSE] /\ UNCHANGED got
  <2>1. r' \in Reassemblers /\ r'.active = FALSE
    BY <1>5, <1>7 DEF Reassemblers
  <2> QED
    BY <1>6, <1>7, <2>1
<1>8. ASSUME in_order(seg) \/ seg.idx = 0
      PROVE  /\ t \in Reassemblers /\ t.msg_id = seg.msg_id /\ t.next_idx = seg.idx
             /\ Woven(t.buf, seg.msg_id, S) /\ Len(t.buf) = seg.idx * Cap
  <2>1. CASE in_order(seg)
    <3>1. t = r
      BY <2>1 DEF Target
    <3>2. Begun /\ r.msg_id = seg.msg_id /\ seg.idx = r.next_idx
      BY <2>1 DEF in_order, Codec
    <3> HIDE DEF t
    <3> QED
      BY <1>3, <1>5, <3>1, <3>2 DEF Begun
  <2>2. CASE ~in_order(seg)
    <3>1. t = [active |-> TRUE, msg_id |-> seg.msg_id, next_idx |-> 0, buf |-> <<>>]
      BY <2>2 DEF Target
    <3>2. seg.idx = 0
      BY <1>8, <2>2
    <3>3. seg.msg_id \in Nat
      BY <1>2, FipsAssumption, FramesOK, ModRange DEF Piece, MsgId
    <3>4. <<>> \in Seq(Byte) /\ Len(<<>>) = 0
      OBVIOUS
    <3>5. Woven(<<>>, seg.msg_id, S)
      BY <3>4 DEF Woven
    <3>6. 0 * Cap = 0
      BY CapNat
    <3> HIDE DEF t
    <3>7. t \in Reassemblers
      BY <3>1, <3>3, <3>4 DEF Reassemblers
    <3> QED
      BY <3>1, <3>2, <3>4, <3>5, <3>6, <3>7
  <2> QED
    BY <2>1, <2>2
<1>9. CASE /\ in_order(seg) \/ seg.idx = 0
           /\ r' = [t EXCEPT !.active = FALSE] /\ UNCHANGED got
  <2>1. t \in Reassemblers
    BY <1>8, <1>9
  <2> HIDE DEF t
  <2>2. r' \in Reassemblers /\ r'.active = FALSE
    BY <1>9, <2>1 DEF Reassemblers
  <2> QED
    BY <1>6, <1>9, <2>2
<1>10. CASE /\ in_order(seg) \/ seg.idx = 0
            /\ r' = [t EXCEPT !.buf = buf, !.next_idx = (t.next_idx + 1) % 256,
                              !.active = ~seg.last]
            /\ got' = IF seg.last THEN buf ELSE got
  <2>1. /\ t \in Reassemblers /\ t.msg_id = seg.msg_id /\ t.next_idx = seg.idx
        /\ Woven(t.buf, seg.msg_id, S) /\ Len(t.buf) = seg.idx * Cap
    BY <1>8, <1>10
  <2> HIDE DEF t
  <2>2. /\ s \in 1 .. Len(frames) /\ seg.msg_id = MsgId(s)
        /\ seg.idx \in Nat /\ seg.idx < MaxSegments /\ seg.idx * Cap < frames[s].size
        /\ seg.last \in BOOLEAN
        /\ seg.last <=> frames[s].size <= (seg.idx + 1) * Cap
        /\ Spells(seg.data, s, seg.idx * Cap)
        /\ Len(seg.data) = AtMost((seg.idx + 1) * Cap, frames[s].size) - seg.idx * Cap
    BY <1>2 DEF Piece, Cut
  <2>3. PICK a \in Nat : a = seg.idx * Cap
    BY <2>2, CapNat, Times
  <2>4. PICK n \in Nat : n = frames[s].size
    BY <2>2, FramesOK
  <2>5. PICK e \in Nat : e = (seg.idx + 1) * Cap
    BY <2>2, CapNat, Times
  <2>6. a + Len(seg.data) = AtMost(e, n) /\ AtMost(e, n) <= n
    BY <2>2, <2>3, <2>4, <2>5 DEF AtMost
  <2>7. Woven(buf, seg.msg_id, S) /\ Len(buf) = a + Len(seg.data)
    <3>1. Spells(seg.data, s, a) /\ Len(t.buf) = a
      BY <2>1, <2>2, <2>3
    <3>2. ASSUME NEW b, NEW d, Woven(b, seg.msg_id, S), Len(b) = a, Spells(d, s, a),
                 a + Len(d) <= frames[s].size
          PROVE  Woven(b \o d, seg.msg_id, S) /\ Len(b \o d) = a + Len(d)
      BY <1>4, <2>2, <2>4, <3>2, WovenOn
    <3>3. a + Len(seg.data) <= frames[s].size
      BY <2>4, <2>6
    <3> QED
      BY <2>1, <3>1, <3>2, <3>3, Zenon
  <2> HIDE DEF buf
  <2>8. (seg.idx + 1) % 256 = seg.idx + 1
    BY <2>2 DEF MaxSegments
  <2>9. PICK live \in BOOLEAN : live <=> ~seg.last
    OBVIOUS
  <2>10. PICK i \in Nat : i = seg.idx + 1
    BY <2>2
  <2>11. live = (~seg.last)
    BY <2>2, <2>9
  <2>12. r' = [t EXCEPT !.buf = buf, !.next_idx = i, !.active = live]
    BY <1>10, <2>1, <2>8, <2>10, <2>11
  <2>13. buf \in Seq(Byte)
    BY <2>7 DEF Woven
  <2>14. r' \in Reassemblers /\ r'.active = live /\ r'.next_idx = i /\ r'.buf = buf
         /\ r'.msg_id = seg.msg_id
    BY <2>1, <2>10, <2>12, <2>13 DEF Reassemblers
  <2>15. CASE seg.last
    <3>1. Len(buf) = frames[s].size
      BY <2>2, <2>4, <2>5, <2>6, <2>7, <2>15 DEF AtMost
    <3>2. Good(buf)
      BY <1>4, <2>2, <2>7, <3>1, Complete
    <3>3. Good(got')
      BY <1>10, <2>15, <3>2 DEF Good, Bytes, Woven
    <3>4. r'.active = FALSE
      BY <2>9, <2>14, <2>15
    <3> QED
      BY <1>6, <2>14, <3>3, <3>4
  <2>16. CASE ~seg.last
    <3>1. Len(buf) = i * Cap
      BY <2>2, <2>4, <2>5, <2>6, <2>7, <2>10, <2>16 DEF AtMost
    <3>2. ASSUME NEW k \in 1 .. Len(buf)
          PROVE  \E u \in S : /\ u \in 1 .. Len(frames) /\ k \in 1 .. frames[u].size
                              /\ MsgId(u) = seg.msg_id /\ buf[k] = <<u, k>>
                              /\ u = buf[k][1]
      <4>1. PICK u \in S : /\ u \in 1 .. Len(frames) /\ k \in 1 .. frames[u].size
                           /\ MsgId(u) = seg.msg_id /\ buf[k] = <<u, k>>
        BY <2>7 DEF Woven
      <4> QED
        BY <4>1
    <3>3. r'.active
      BY <2>9, <2>14, <2>16
    <3>4. \A k \in 1 .. Len(buf) : buf[k][1] \in About(seg.msg_id)'
      BY <2>14, <3>3 DEF About
    <3>5. Begun'
      <4>1. ASSUME NEW k \in 1 .. Len(buf)
            PROVE  \E u \in About(seg.msg_id)' :
                      /\ u \in 1 .. Len(frames') /\ k \in 1 .. frames'[u].size
                      /\ MsgId(u) = seg.msg_id /\ buf[k] = <<u, k>>
        <5>1. PICK u \in S : /\ u \in 1 .. Len(frames) /\ k \in 1 .. frames[u].size
                             /\ MsgId(u) = seg.msg_id /\ buf[k] = <<u, k>>
                             /\ u = buf[k][1]
          BY <3>2
        <5>2. u \in About(seg.msg_id)'
          BY <3>4, <5>1
        <5> QED
          BY <5>1, <5>2
      <4> QED
        BY <2>13, <2>14, <3>1, <4>1 DEF Begun, Woven
    <3>6. ASSUME NEW id, NEW u \in About(id)' PROVE u \in About(id)
      <4>1. CASE \E sg \in down' : sg.msg_id = id /\ u = sg.data[1][1]
        BY <4>1 DEF About
      <4>2. CASE seg.msg_id = id /\ \E k \in 1 .. Len(buf) : u = buf[k][1]
        BY <1>3, <3>2, <4>2
      <4> QED
        BY <2>14, <3>6, <4>1, <4>2 DEF About
    <3>7. Codec'
      BY <3>5, <3>6, CodecShrinks
    <3> QED
      BY <1>10, <2>14, <2>16, <3>7
  <2> QED
    BY <2>15, <2>16
<1> QED
  BY <1>7, <1>9, <1>10 DEF Push
-----------------------------------------------------------------------------
(* A reply.                                                                *)

LEMMA HandleOK ==
    ASSUME NEW req, NEW size \in Nat
    PROVE  /\ status_from_bridge[handle(req, size)] \in Nat
           /\ status_from_bridge[handle(req, size)] = 200 => Served(req)
           /\ handle(req, size) = "Ok" => size <= ResponseCap
<1>1. \/ handle(req, size) = "MethodNotAllowed" \/ handle(req, size) = "NotFound"
      \/ handle(req, size) = "PayloadTooLarge" \/ handle(req, size) = "BadRequest"
      \/ handle(req, size) = "Ok" /\ Served(req) /\ size <= ResponseCap
  BY FipsAssumption DEF handle, Admitted, Served
<1>2. /\ status_from_bridge["Ok"] = 200 /\ status_from_bridge["NotFound"] = 404
      /\ status_from_bridge["MethodNotAllowed"] = 405
      /\ status_from_bridge["PayloadTooLarge"] = 413
      /\ status_from_bridge["BadRequest"] = 400
  BY DEF status_from_bridge
<1> QED
  BY <1>1, <1>2

LEMMA OneSegment == segment_count(ErrorSize) <= MaxSegments
<1>1. PICK c \in Nat \ {0} : c = Cap
  BY CapNat
<1>2. PICK q : q = (1 + c - 1) \div c
  OBVIOUS
<1>3. 1 + c - 1 = c
  OBVIOUS
<1>4. q \in Nat /\ q * c <= c
  BY <1>2, <1>3, DivBounds
<1>5. q <= 1
  <2>1. ASSUME 2 <= q PROVE FALSE
    <3>1. 2 * c <= q * c
      BY <1>4, <2>1, TimesMono
    <3> QED
      BY <1>4, <3>1
  <2> QED
    BY <1>4, <2>1
<1>6. segment_count(1) = q
  BY <1>1, <1>2 DEF segment_count
<1> QED
  BY <1>4, <1>5, <1>6 DEF ErrorSize, MaxSegments

LEMMA RespondFacts ==
    ASSUME Inv, NEW req \in up, NEW size \in Sizes, Respond(req, size)
    PROVE  \E rep \in Replies :
             /\ frames' = Append(frames, rep)
             /\ rep.id = req.id /\ (rep.ok <=> verdict(req))
             /\ rep.status = 200 => Served(req)
             /\ segment_count(rep.size) <= MaxSegments
             /\ down' = down \cup
                  for_each_segment([k \in 1 .. rep.size |-> <<Len(frames) + 1, k>>],
                                   MsgId(Len(frames) + 1))
<1> DEFINE status == handle(req, size)
           len == IF status = "Ok" THEN size ELSE ErrorSize
<1>1. PICK b \in BOOLEAN : b <=> verdict(req)
  OBVIOUS
<1>2. b = verdict(req)
  BY <1>1 DEF verdict
<1>3. size \in Nat
  BY FipsAssumption, Zenon
<1>4. /\ status_from_bridge[status] \in Nat
      /\ status_from_bridge[status] = 200 => Served(req)
      /\ status = "Ok" => size <= ResponseCap
  BY <1>3, HandleOK
<1>5. segment_count(len) <= MaxSegments
  <2>1. CASE status = "Ok"
    <3>1. segment_count(size) <= MaxSegments
      BY <1>4, <2>1, SegmentsAssumption
    <3> QED
      BY <2>1, <3>1
  <2>2. CASE status # "Ok"
    BY <2>2, OneSegment
  <2> QED
    BY <2>1, <2>2
<1>6. len \in Sizes \cup {ErrorSize}
  OBVIOUS
<1>7. req.id \in Nat
  BY DEF Inv, Ids
<1>8. /\ frames' = Append(frames, [id |-> req.id, size |-> len,
                                   status |-> status_from_bridge[status], ok |-> b])
      /\ down' = down \cup for_each_segment([k \in 1 .. len |-> <<Len(frames) + 1, k>>],
                                   MsgId(Len(frames) + 1))
  BY <1>2 DEF Respond
<1>9. PICK n : n = status_from_bridge[status]
  OBVIOUS
<1>10. PICK l : l = len
  OBVIOUS
<1>11. /\ n \in Nat /\ (n = 200 => Served(req)) /\ l \in Sizes \cup {ErrorSize}
       /\ segment_count(l) <= MaxSegments
       /\ frames' = Append(frames, [id |-> req.id, size |-> l, status |-> n, ok |-> b])
       /\ down' = down \cup for_each_segment([k \in 1 .. l |-> <<Len(frames) + 1, k>>],
                                   MsgId(Len(frames) + 1))
  BY <1>4, <1>5, <1>6, <1>8, <1>9, <1>10, Zenon
<1> HIDE DEF len, status
<1>12. PICK rep : rep = [id |-> req.id, size |-> l, status |-> n, ok |-> b]
  OBVIOUS
<1>13. rep \in Replies /\ rep.id = req.id /\ rep.size = l /\ rep.status = n /\ rep.ok = b
  BY <1>7, <1>11, <1>12 DEF Replies
<1> QED
  BY <1>1, <1>11, <1>12, <1>13

LEMMA AppendIs ==
    ASSUME NEW S, NEW s \in Seq(S), NEW e \in S
    PROVE  Append(s, e) = [i \in 1 .. Len(s) + 1 |-> IF i = Len(s) + 1 THEN e ELSE s[i]]
<1>1. PICK t : t = [i \in 1 .. Len(s) + 1 |-> IF i = Len(s) + 1 THEN e ELSE s[i]]
  OBVIOUS
<1>2. t \in Seq(S) /\ Len(t) = Len(s) + 1
  BY <1>1
<1>3. PICK a : a = Append(s, e)
  OBVIOUS
<1>4. /\ a \in Seq(S) /\ Len(a) = Len(s) + 1 /\ a[Len(s) + 1] = e
      /\ \A i \in 1 .. Len(s) : a[i] = s[i]
  BY <1>3
<1>5. \A i \in 1 .. Len(a) : a[i] = t[i]
  <2> SUFFICES ASSUME NEW i \in 1 .. Len(s) + 1 PROVE a[i] = t[i]
    BY <1>4
  <2>1. t[i] = IF i = Len(s) + 1 THEN e ELSE s[i]
    BY <1>1
  <2>2. CASE i = Len(s) + 1
    BY <1>4, <2>1, <2>2
  <2>3. CASE i # Len(s) + 1
    <3>1. i \in 1 .. Len(s)
      BY <2>3
    <3> QED
      BY <1>4, <2>1, <2>3, <3>1
  <2> QED
    BY <2>2, <2>3
<1>6. a = t
  BY <1>2, <1>4, <1>5, SeqEqual
<1> QED
  BY <1>1, <1>3, <1>6

LEMMA Grown ==
    ASSUME NEW S, NEW s \in Seq(S), NEW e \in S, NEW t, t = Append(s, e)
    PROVE  /\ t \in Seq(S) /\ Len(t) = Len(s) + 1 /\ t[Len(s) + 1] = e
           /\ \A i \in 1 .. Len(s) : t[i] = s[i] /\ i \in 1 .. Len(t)
           /\ \A i \in 1 .. Len(t) : i \in 1 .. Len(s) \/ i = Len(s) + 1
OBVIOUS

\* The replies that meet a new one with their message id have clashed with it.
LEMMA RespondCodec ==
    ASSUME Inv, NEW req \in up, NEW size \in Sizes, Respond(req, size)
    PROVE  Codec'
<1>1. PICK rep \in Replies :
        /\ frames' = Append(frames, rep)
        /\ segment_count(rep.size) <= MaxSegments
        /\ down' = down \cup
             for_each_segment([k \in 1 .. rep.size |-> <<Len(frames) + 1, k>>],
                              MsgId(Len(frames) + 1))
  BY RespondFacts
<1>2. frames \in Seq(Replies) /\ Len(frames) \in Nat /\ r' = r
  BY DEF Inv, TypeOK, Respond
<1>3. /\ frames' \in Seq(Replies) /\ Len(frames') = Len(frames) + 1
      /\ frames'[Len(frames) + 1] = rep
      /\ \A i \in 1 .. Len(frames) : frames'[i] = frames[i] /\ i \in 1 .. Len(frames')
  BY <1>1, <1>2, Grown
<1>4. PICK n \in Nat : n = Len(frames) + 1
  BY <1>2
<1>5. PICK new : new = MsgId(n)
  OBVIOUS
<1>6. clashed' = IF About(new) = {} THEN clashed ELSE clashed \cup About(new) \cup {n}
  BY <1>4, <1>5 DEF Respond
<1>7. \A s : \A sg : Piece(sg, s) => Piece(sg, s)'
  BY <1>3 DEF Piece, Cut, Spells
<1>8. ASSUME NEW sg \in down', sg \notin down
      PROVE  sg.msg_id = new /\ sg.data[1][1] = n /\ Piece(sg, n)'
  <2>1. sg \in for_each_segment([k \in 1 .. rep.size |-> <<n, k>>], new)
    BY <1>1, <1>4, <1>5, <1>8
  <2>2. rep.size \in Nat \ {0}
    <3>1. rep.size \in Sizes \cup {ErrorSize}
      BY DEF Replies
    <3>2. \A x \in Sizes : x \in Nat \ {0}
      BY FipsAssumption, Zenon
    <3>3. ErrorSize \in Nat \ {0}
      BY DEF ErrorSize
    <3> QED
      BY <3>1, <3>2, <3>3, Zenon
  <2>3. sg.msg_id = new /\ Cut(sg, n, rep.size)
    BY <1>1, <2>1, <2>2, SegmentPiece, Zenon
  <2>4. sg.data[1][1] = n
    BY <2>2, <2>3, CutSerial
  <2>5. n \in 1 .. Len(frames') /\ frames'[n] = rep
    BY <1>2, <1>3, <1>4
  <2>6. Piece(sg, n)'
    BY <1>5, <2>3, <2>5 DEF Piece, Cut, Spells
  <2> QED
    BY <2>3, <2>4, <2>6
<1>9. \A sg \in down' : Piece(sg, sg.data[1][1])'
  BY <1>7, <1>8 DEF Inv, Codec
<1>10. ASSUME NEW id PROVE About(id) \subseteq About(id)'
  BY <1>1, <1>2 DEF About
<1>11. ASSUME NEW id, NEW u \in About(id)' PROVE u \in About(id) \/ (id = new /\ u = n)
  BY <1>2, <1>8, <1>11 DEF About
<1>12. ASSUME r'.active PROVE Begun'
  <2>1. Begun
    BY <1>2, <1>12 DEF Inv, Codec
  <2>2. PICK S : S = About(r.msg_id)
    OBVIOUS
  <2>3. PICK T : T = About(r.msg_id)'
    OBVIOUS
  <2>4. S \subseteq T
    <3>1. About(r.msg_id) \subseteq About(r.msg_id)'
      <4>1. PICK id : id = r.msg_id
        OBVIOUS
      <4>2. About(id) \subseteq About(id)'
        BY <1>10
      <4> QED
        BY <1>2, <4>1, <4>2 DEF About
    <3> QED
      BY <2>2, <2>3, <3>1
  <2>5. Woven(r.buf, r.msg_id, S)
    BY <2>1, <2>2 DEF Begun
  <2>6. Woven(r.buf, r.msg_id, T)'
    <3> SUFFICES ASSUME NEW k \in 1 .. Len(r.buf)
                 PROVE  \E s \in T : /\ s \in 1 .. Len(frames') /\ k \in 1 .. frames'[s].size
                                     /\ MsgId(s) = r.msg_id /\ r.buf[k] = <<s, k>>
      BY <1>2, <2>5 DEF Woven
    <3>1. PICK s \in S : /\ s \in 1 .. Len(frames) /\ k \in 1 .. frames[s].size
                         /\ MsgId(s) = r.msg_id /\ r.buf[k] = <<s, k>>
      BY <2>5 DEF Woven
    <3> QED
      BY <1>3, <2>4, <3>1
  <2> QED
    BY <1>2, <2>1, <2>3, <2>6 DEF Begun
<1>13. ASSUME NEW id, NEW s \in About(id)', NEW u \in About(id)'
       PROVE  s = u \/ {s, u} \subseteq clashed'
  <2>1. Apart(About(id))
    BY DEF Inv, Codec
  <2>2. CASE s \in About(id) /\ u \in About(id)
    BY <1>6, <2>1, <2>2 DEF Apart
  <2>3. CASE id = new /\ About(new) # {}
    <3>1. s \in About(new) \cup {n} /\ u \in About(new) \cup {n}
      BY <1>11, <2>3
    <3> QED
      BY <1>6, <2>3, <3>1
  <2>4. CASE id = new /\ About(new) = {}
    <3>1. s = n /\ u = n
      BY <1>11, <2>4
    <3> QED
      BY <3>1
  <2> QED
    BY <1>11, <2>2, <2>3, <2>4
<1>14. \A id : Apart(About(id))'
  BY <1>13 DEF Apart
<1> QED
  BY <1>9, <1>12, <1>14 DEF Codec

\* A frame that may be handed up may still be when there are more.
LEMMA GoodStays ==
    ASSUME NEW b, Good(b), TypeOK, Len(frames) <= Len(frames'), Len(frames') \in Nat,
           clashed \subseteq clashed',
           \A i \in 1 .. Len(frames) : frames'[i] = frames[i] /\ i \in 1 .. Len(frames')
    PROVE  Good(b)'
<1>1. CASE \E serial \in 1 .. Len(frames) : b = Bytes(serial)
  BY <1>1 DEF Good, Bytes
<1>2. CASE \E id \in 0 .. MsgIdSpace - 1 : Woven(b, id, clashed) /\ Len(b) > 0
  <2>1. PICK id \in 0 .. MsgIdSpace - 1 : Woven(b, id, clashed) /\ Len(b) > 0
    BY <1>2
  <2>2. ASSUME NEW k \in 1 .. Len(b)
        PROVE  \E s \in clashed' : /\ s \in 1 .. Len(frames') /\ k \in 1 .. frames'[s].size
                                   /\ MsgId(s) = id /\ b[k] = <<s, k>>
    BY <2>1, <2>2 DEF Woven
  <2>3. Woven(b, id, clashed)'
    BY <2>1, <2>2 DEF Woven
  <2> QED
    BY <2>1, <2>3 DEF Good
<1> QED
  BY <1>1, <1>2 DEF Good

LEMMA RespondStep ==
    ASSUME Inv, NEW req \in up, NEW size \in Sizes, Respond(req, size)
    PROVE  Inv'
<1>1. PICK rep \in Replies :
        /\ frames' = Append(frames, rep)
        /\ rep.id = req.id /\ (rep.ok <=> verdict(req))
        /\ rep.status = 200 => Served(req)
  BY RespondFacts
<1>2. /\ Len(frames) < MaxReplies /\ up' = up \ {req}
      /\ clashed' \subseteq clashed \cup About(MsgId(Len(frames) + 1)) \cup {Len(frames) + 1}
      /\ clashed \subseteq clashed'
      /\ by' = IF Served(req) /\ req.op \in Spends \ done THEN by \cup {req.id} ELSE by
      /\ UNCHANGED <<next_id, call, outcome, r, got>>
  BY DEF Respond, wallet
<1>3. frames \in Seq(Replies) /\ Len(frames) \in Nat
  BY DEF Inv, TypeOK
<1>4. /\ frames' \in Seq(Replies) /\ Len(frames') = Len(frames) + 1
      /\ frames'[Len(frames) + 1] = rep
      /\ \A i \in 1 .. Len(frames) : frames'[i] = frames[i] /\ i \in 1 .. Len(frames')
      /\ \A i \in 1 .. Len(frames') : i \in 1 .. Len(frames) \/ i = Len(frames) + 1
  BY <1>1, <1>3, Grown
<1>5. TypeOK'
  <2>1. clashed' \subseteq 1 .. Len(frames')
    <3>1. About(MsgId(Len(frames) + 1)) \subseteq 1 .. Len(frames)
      BY AboutSerials DEF Inv
    <3> QED
      BY <1>2, <1>3, <1>4, <3>1 DEF Inv, TypeOK
  <2>2. Len(frames') <= MaxReplies
    BY <1>2, <1>3, <1>4, FipsAssumption
  <2> QED
    BY <1>2, <1>4, <2>1, <2>2 DEF Inv, TypeOK
<1>6. Codec'
  BY RespondCodec
<1>7. Handed'
  <2>1. CASE got = None
    BY <1>2, <2>1 DEF Handed
  <2>2. CASE got # None
    <3>1. PICK b : b = got
      OBVIOUS
    <3>2. Good(b)
      BY <2>2, <3>1 DEF Inv, Handed
    <3>3. Good(b)'
      BY <1>2, <1>3, <1>4, <3>2, GoodStays DEF Inv
    <3>4. got' = b
      BY <1>2, <3>1
    <3> QED
      BY <3>3, <3>4 DEF Handed, Good, Woven
  <2> QED
    BY <2>1, <2>2
<1>8. /\ req.id \in Nat /\ req.id < next_id /\ req.id \notin by
      /\ \A q \in up' : q \in up /\ q.id # req.id
      /\ \A i \in 1 .. Len(frames) : frames[i].id # req.id
  BY <1>2 DEF Inv, Ids
<1>9. by' = by \/ by' = by \cup {req.id}
  BY <1>2
<1>10. Ids'
  <2>1. \A q \in up' : q.id \in Nat /\ q.id < next_id' /\ q.id \notin by'
    BY <1>2, <1>8, <1>9 DEF Inv, Ids
  <2>2. \A q1, q2 \in up' : q1.id = q2.id => q1 = q2
    BY <1>8 DEF Inv, Ids
  <2>3. \A id \in by' : id \in Nat /\ id < next_id'
    BY <1>2, <1>8, <1>9 DEF Inv, Ids
  <2>4. ASSUME NEW i \in 1 .. Len(frames')
        PROVE  frames'[i].id < next_id' /\ \A q \in up' : q.id # frames'[i].id
    <3>1. CASE i \in 1 .. Len(frames)
      BY <1>2, <1>4, <1>8, <3>1 DEF Inv, Ids
    <3>2. CASE i = Len(frames) + 1
      BY <1>1, <1>2, <1>4, <1>8, <3>2
    <3> QED
      BY <1>4, <3>1, <3>2
  <2>5. (call' # None => call'.id < next_id') /\ (outcome' # None => outcome'.id < next_id')
    BY <1>2 DEF Inv, Ids
  <2> QED
    BY <2>1, <2>2, <2>3, <2>4, <2>5 DEF Ids
<1>11. CallReply'
  <2> SUFFICES ASSUME call' # None
               PROVE  /\ \A q \in up' : q.id = call'.id => q.op = call'.op
                      /\ \A i \in 1 .. Len(frames') :
                            frames'[i].id = call'.id /\ frames'[i].status = 200 =>
                               /\ frames'[i].ok /\ call'.op \in Spends => call'.id \in by'
                               /\ ~frames'[i].ok => call'.id \notin by'
    BY DEF CallReply
  <2>1. call' = call /\ call # None
    BY <1>2
  <2>2. \A q \in up : q.id = call.id => q.op = call.op
    BY <2>1 DEF Inv, CallReply
  <2>3. ASSUME NEW i \in 1 .. Len(frames'), frames'[i].id = call.id, frames'[i].status = 200
        PROVE  /\ frames'[i].ok /\ call.op \in Spends => call.id \in by'
               /\ ~frames'[i].ok => call.id \notin by'
    <3>1. CASE i \in 1 .. Len(frames)
      <4>1. frames'[i] = frames[i] /\ req.id # call.id
        BY <1>4, <1>8, <2>3, <3>1
      <4>2. /\ frames[i].ok /\ call.op \in Spends => call.id \in by
            /\ ~frames[i].ok => call.id \notin by
        BY <2>1, <2>3, <3>1, <4>1 DEF Inv, CallReply
      <4> QED
        BY <1>9, <4>1, <4>2
    <3>2. CASE i = Len(frames) + 1
      <4>1. /\ frames'[i] = rep /\ req.id = call.id /\ req.op = call.op /\ Served(req)
            /\ rep.ok <=> verdict(req)
        BY <1>1, <1>4, <2>2, <2>3, <3>2
      <4>2. verdict(req) /\ req.op \in Spends => req.id \in by'
        BY <1>2, <4>1 DEF verdict
      <4>3. ~verdict(req) => req.id \notin by'
        BY <1>2, <1>8 DEF verdict
      <4> QED
        BY <4>1, <4>2, <4>3
    <3> QED
      BY <1>4, <3>1, <3>2
  <2> QED
    BY <1>8, <2>1, <2>2, <2>3
<1>12. Answered'
  BY <1>2, <1>8 DEF Inv, Answered
<1>13. VerdictIsMints'
  BY <1>2, <1>9 DEF Inv, Answered, VerdictIsMints
<1> QED
  BY <1>5, <1>6, <1>7, <1>10, <1>11, <1>12, <1>13 DEF Inv

-----------------------------------------------------------------------------
(* The network.                                                            *)

LEMMA CodecStays ==
    ASSUME Codec, UNCHANGED <<frames, clashed, r>>, down' \subseteq down
    PROVE  Codec'
<1>1. \A id : About(id)' \subseteq About(id)
  BY DEF About
<1>2. ASSUME r'.active PROVE Begun'
  <2>1. Begun
    BY <1>2 DEF Codec
  <2>2. \A k \in 1 .. Len(r.buf) : r.buf[k][1] \in About(r.msg_id)'
    BY <1>2 DEF About
  <2>3. PICK T : T = About(r.msg_id)'
    OBVIOUS
  <2>4. Woven(r.buf, r.msg_id, T)'
    <3> SUFFICES ASSUME NEW k \in 1 .. Len(r.buf)
                 PROVE  \E s \in T : /\ s \in 1 .. Len(frames) /\ k \in 1 .. frames[s].size
                                     /\ MsgId(s) = r.msg_id /\ r.buf[k] = <<s, k>>
      BY <2>1 DEF Begun, Woven
    <3>1. PICK s : /\ s \in 1 .. Len(frames) /\ k \in 1 .. frames[s].size
                   /\ MsgId(s) = r.msg_id /\ r.buf[k] = <<s, k>>
      BY <2>1 DEF Begun, Woven
    <3>2. s \in T
      BY <2>2, <2>3, <3>1
    <3> QED
      BY <3>1, <3>2
  <2> QED
    BY <2>1, <2>3, <2>4 DEF Begun
<1> QED
  BY <1>1, <1>2, CodecShrinks

LEMMA HandedStays ==
    ASSUME Handed, UNCHANGED <<frames, clashed, got>>
    PROVE  Handed'
BY DEF Handed, Good, Bytes, Woven

LEMMA LoseRequestStep ==
    ASSUME Inv, NEW req \in up, LoseRequest(req)
    PROVE  Inv'
<1>1. up' \subseteq up /\ UNCHANGED <<next_id, call, outcome, frames, clashed, down, r, got, by>>
  BY DEF LoseRequest, wallet, mint
<1>2. TypeOK' /\ VerdictIsMints'
  BY <1>1 DEF Inv, TypeOK, VerdictIsMints
<1>3. Codec' /\ Handed'
  BY <1>1, CodecStays, HandedStays DEF Inv
<1>4. Ids'
  BY <1>1 DEF Inv, Ids
<1>5. CallReply' /\ Answered'
  BY <1>1 DEF Inv, CallReply, Answered
<1> QED
  BY <1>2, <1>3, <1>4, <1>5 DEF Inv

\* The part of the invariant about requests and replies.
LEMMA CallsStay ==
    ASSUME Inv, UNCHANGED <<next_id, call, outcome, up, frames, by>>
    PROVE  Ids' /\ CallReply' /\ Answered' /\ VerdictIsMints'
<1>1. Ids'
  BY DEF Inv, Ids
<1>2. CallReply' /\ Answered' /\ VerdictIsMints'
  BY DEF Inv, CallReply, Answered, VerdictIsMints
<1> QED
  BY <1>1, <1>2

LEMMA LoseSegmentStep ==
    ASSUME Inv, NEW seg \in down, LoseSegment(seg)
    PROVE  Inv'
<1>1. down' \subseteq down /\ UNCHANGED <<next_id, call, outcome, frames, clashed, up, r, got, by>>
  BY DEF LoseSegment, wallet, mint
<1>2. TypeOK'
  BY <1>1 DEF Inv, TypeOK
<1>3. Codec' /\ Handed'
  BY <1>1, CodecStays, HandedStays DEF Inv
<1> QED
  BY <1>1, <1>2, <1>3, CallsStay DEF Inv

LEMMA ArriveStep ==
    ASSUME Inv, NEW seg \in down, NEW again \in BOOLEAN, Arrive(seg, again)
    PROVE  Inv'
<1>1. /\ Push(seg) /\ down' \subseteq down
      /\ UNCHANGED <<next_id, call, outcome, frames, clashed, up, by>>
  BY DEF Arrive, wallet, mint
<1>2. r' \in Reassemblers /\ Codec' /\ (got' = got \/ Good(got'))
  BY <1>1, PushOK DEF Inv
<1>3. TypeOK'
  BY <1>1, <1>2 DEF Inv, TypeOK
<1>4. Handed'
  <2>1. ASSUME NEW b, Good(b) PROVE Good(b)'
    BY <1>1, <2>1 DEF Good, Bytes, Woven
  <2>2. ASSUME got' # None PROVE Good(got')
    BY <1>2, <2>2 DEF Inv, Handed
  <2>3. ASSUME NEW b, b = got', got' # None PROVE Good(b)'
    BY <2>1, <2>2, <2>3
  <2> QED
    BY <2>3 DEF Handed, Good, Woven
<1> QED
  BY <1>1, <1>2, <1>3, <1>4, CallsStay DEF Inv
-----------------------------------------------------------------------------
(* The wallet.                                                             *)

\* A request with an id no one has used.
LEMMA NewRequest ==
    ASSUME Inv, NEW q, q.id = next_id, up' = up \cup {q}, next_id' = next_id + 1,
           UNCHANGED <<outcome, frames, clashed, down, r, got, by>>,
           call' \in {None} \cup Calls,
           call' # None => \/ call' = call
                           \/ call'.id = next_id /\ call'.op = q.op
    PROVE  Inv'
<1>1. next_id \in Nat
  BY DEF Inv, TypeOK
<1>2. TypeOK' /\ VerdictIsMints'
  BY <1>1 DEF Inv, TypeOK, VerdictIsMints
<1>3. Codec' /\ Handed'
  BY CodecStays, HandedStays DEF Inv
<1>4. /\ \A req \in up : req.id \in Nat /\ req.id < next_id
      /\ \A i \in 1 .. Len(frames) : frames[i] \in Replies /\ frames[i].id < next_id
      /\ \A id \in by : id \in Nat /\ id < next_id
      /\ call # None => call \in Calls /\ call.id < next_id
      /\ outcome # None => outcome \in Outcomes /\ outcome.id < next_id
  BY DEF Inv, TypeOK, Ids
<1>5. /\ \A req \in up : req.id # next_id /\ req.id < next_id + 1
      /\ \A i \in 1 .. Len(frames) : frames[i].id # next_id /\ frames[i].id < next_id + 1
      /\ \A id \in by : id # next_id /\ id < next_id + 1
      /\ call # None => call.id # next_id /\ call.id < next_id + 1
      /\ outcome # None => outcome.id # next_id /\ outcome.id < next_id + 1
      /\ next_id < next_id + 1
  BY <1>1, <1>4 DEF Replies, Calls, Outcomes
<1>6. Ids'
  <2>1. \A req \in up' : req.id \in Nat /\ req.id < next_id' /\ req.id \notin by'
    BY <1>1, <1>4, <1>5 DEF Inv, Ids
  <2>2. \A q1, q2 \in up' : q1.id = q2.id => q1 = q2
    BY <1>5 DEF Inv, Ids
  <2>3. \A i \in 1 .. Len(frames') : /\ frames'[i].id < next_id'
                                     /\ \A req \in up' : req.id # frames'[i].id
    BY <1>5 DEF Inv, Ids
  <2>4. \A id \in by' : id \in Nat /\ id < next_id'
    BY <1>4, <1>5
  <2>5. (call' # None => call'.id < next_id') /\ (outcome' # None => outcome'.id < next_id')
    BY <1>5
  <2> QED
    BY <2>1, <2>2, <2>3, <2>4, <2>5 DEF Ids
<1>7. CallReply'
  <2>1. CASE call' = None
    BY <2>1 DEF CallReply
  <2>2. CASE call' # None /\ call' = call
    <3>1. \A req \in up' : req.id = call'.id => req.op = call'.op
      BY <1>5, <2>2 DEF Inv, CallReply
    <3> QED
      BY <2>2, <3>1 DEF Inv, CallReply
  <2>3. CASE call' # None /\ call'.id = next_id /\ call'.op = q.op
    BY <1>5, <2>3 DEF CallReply
  <2> QED
    BY <2>1, <2>2, <2>3
<1>8. Answered'
  BY <1>5 DEF Inv, Answered
<1> QED
  BY <1>2, <1>3, <1>6, <1>7, <1>8 DEF Inv

LEMMA CallStep ==
    ASSUME Inv, NEW op \in Ops, Call(op)
    PROVE  Inv'
<1>1. PICK q : q = [id |-> next_id, op |-> op, method |-> "POST",
                    route |-> CashuRpcRoute, payload |-> "rpc"]
  OBVIOUS
<1>2. /\ up' = up \cup {q} /\ next_id' = next_id + 1 /\ call' = [id |-> next_id, op |-> op]
      /\ UNCHANGED <<outcome, frames, clashed, down, r, got, by>>
  BY <1>1 DEF Call, mint
<1>3. q.id = next_id /\ q.op = op
  BY <1>1
<1>4. call' \in {None} \cup Calls /\ call'.id = next_id /\ call'.op = q.op
  BY <1>2, <1>3 DEF Inv, TypeOK, Calls
<1> QED
  BY <1>2, <1>3, <1>4, NewRequest

LEMMA ProbeStep ==
    ASSUME Inv, NEW method, NEW route, NEW payload, Probe(method, route, payload)
    PROVE  Inv'
<1>1. PICK q : q = [id |-> next_id, op |-> CHOOSE op \in Ops : TRUE,
                    method |-> method, route |-> route, payload |-> payload]
  OBVIOUS
<1>2. /\ up' = up \cup {q} /\ next_id' = next_id + 1 /\ call' = call
      /\ UNCHANGED <<outcome, frames, clashed, down, r, got, by>>
  BY <1>1 DEF Probe, mint
<1>3. q.id = next_id /\ call' \in {None} \cup Calls
  BY <1>1, <1>2 DEF Inv, TypeOK
<1> QED
  BY <1>2, <1>3, NewRequest

\* A call that ends, with an error or with the mint's word on it.
LEMMA OutcomeStep ==
    ASSUME Inv, call # None, call' = None, NEW res \in {"ok", "refused", "error"},
           outcome' = [id |-> call.id, op |-> call.op, result |-> res],
           UNCHANGED <<next_id, up, frames, by>>,
           res # "error" =>
             \E i \in 1 .. Len(frames) : /\ frames[i].id = call.id /\ frames[i].status = 200
                                         /\ frames[i].ok <=> res = "ok"
    PROVE  Ids' /\ CallReply' /\ Answered' /\ VerdictIsMints' /\ outcome' \in Outcomes
<1>1. call \in Calls
  BY DEF Inv, TypeOK
<1>2. outcome'.id = call.id /\ outcome'.op = call.op /\ outcome'.result = res
  OBVIOUS
<1>3. outcome' \in Outcomes
  BY <1>1 DEF Calls, Outcomes
<1>4. call.id < next_id
  BY DEF Inv, Ids
<1>5. Ids'
  BY <1>2, <1>4 DEF Inv, Ids
<1>6. CallReply'
  BY DEF CallReply
<1>7. CASE res = "error"
  BY <1>2, <1>3, <1>5, <1>6, <1>7 DEF Answered, VerdictIsMints
<1>8. CASE res # "error"
  <2>1. PICK i \in 1 .. Len(frames) : /\ frames[i].id = call.id /\ frames[i].status = 200
                                      /\ frames[i].ok <=> res = "ok"
    BY <1>8
  <2>2. \A req \in up : req.id # call.id
    BY <2>1 DEF Inv, Ids
  <2>3. /\ frames[i].ok /\ call.op \in Spends => call.id \in by
        /\ ~frames[i].ok => call.id \notin by
    BY <2>1 DEF Inv, CallReply
  <2>4. VerdictIsMints'
    BY <1>2, <2>1, <2>3 DEF VerdictIsMints
  <2>5. Answered'
    BY <1>2, <2>2 DEF Answered
  <2> QED
    BY <1>3, <1>5, <1>6, <2>4, <2>5
<1> QED
  BY <1>7, <1>8

LEMMA GiveUpStep ==
    ASSUME Inv, GiveUp
    PROVE  Inv'
<1>1. /\ call # None /\ call' = None
      /\ outcome' = [id |-> call.id, op |-> call.op, result |-> "error"]
      /\ UNCHANGED <<next_id, up, frames, by, clashed, down, r, got>>
  BY DEF GiveUp, mint
<1>2. Ids' /\ CallReply' /\ Answered' /\ VerdictIsMints' /\ outcome' \in Outcomes
  BY <1>1, OutcomeStep
<1>3. TypeOK'
  BY <1>1, <1>2 DEF Inv, TypeOK
<1>4. Codec' /\ Handed'
  BY <1>1, CodecStays, HandedStays DEF Inv
<1> QED
  BY <1>2, <1>3, <1>4 DEF Inv

LEMMA ReturnStep ==
    ASSUME Inv, Return
    PROVE  Inv'
<1>1. got # None /\ got' = None /\ UNCHANGED <<next_id, up, frames, by, clashed, down, r>>
  BY DEF Return, mint
<1>2. Codec' /\ Handed'
  BY <1>1, CodecStays DEF Inv, Handed
<1>3. CASE call = None /\ UNCHANGED <<call, outcome>>
  <2>1. TypeOK'
    BY <1>1, <1>3 DEF Inv, TypeOK
  <2> QED
    BY <1>1, <1>2, <1>3, <2>1, CallsStay DEF Inv
<1>4. ASSUME call # None, call' = None, NEW decodes \in BOOLEAN,
             outcome' = [id |-> call.id, op |-> call.op,
                         result |-> IF ~decodes \/ Frame.status # 200 \/ ~own_id THEN "error"
                                    ELSE IF Frame.ok THEN "ok" ELSE "refused"]
      PROVE  Inv'
  <2>1. Good(got)
    BY <1>1 DEF Inv, Handed
  <2>2. \E s \in 1 .. Len(frames) : Frame = frames[s]
    <3>1. ASSUME NEW s \in 1 .. Len(frames), got = Bytes(s) PROVE Frame = frames[s]
      <4>1. PICK n \in Nat \ {0} : n = frames[s].size
        BY FramesOK DEF Inv
      <4>2. got = [k \in 1 .. n |-> <<s, k>>]
        BY <3>1, <4>1 DEF Bytes
      <4>3. 1 \in 1 .. n
        OBVIOUS
      <4>4. got[1] = <<s, 1>>
        BY <4>2, <4>3
      <4> QED
        BY <4>4 DEF Frame
    <3>2. ASSUME NEW id, Woven(got, id, clashed), Len(got) > 0
          PROVE  \E s \in 1 .. Len(frames) : Frame = frames[s]
      <4>1. 1 \in 1 .. Len(got)
        BY <3>2 DEF Woven
      <4>2. PICK s \in 1 .. Len(frames) : got[1] = <<s, 1>>
        BY <3>2, <4>1 DEF Woven
      <4> QED
        BY <4>2 DEF Frame
    <3> QED
      BY <2>1, <3>1, <3>2 DEF Good
  <2>3. PICK s \in 1 .. Len(frames) : Frame = frames[s]
    BY <2>2
  <2>4. PICK res : res = IF ~decodes \/ Frame.status # 200 \/ ~own_id THEN "error"
                         ELSE IF Frame.ok THEN "ok" ELSE "refused"
    OBVIOUS
  <2>5. /\ res \in {"ok", "refused", "error"}
        /\ res # "error" => /\ frames[s].id = call.id /\ frames[s].status = 200
                            /\ frames[s].ok <=> res = "ok"
    BY <2>3, <2>4 DEF own_id
  <2>6. outcome' = [id |-> call.id, op |-> call.op, result |-> res]
    BY <1>4, <2>4
  <2>7. Ids' /\ CallReply' /\ Answered' /\ VerdictIsMints' /\ outcome' \in Outcomes
    BY <1>1, <1>4, <2>5, <2>6, OutcomeStep
  <2>8. TypeOK'
    BY <1>1, <1>4, <2>7 DEF Inv, TypeOK
  <2> QED
    BY <1>2, <2>7, <2>8 DEF Inv
<1> QED
  BY <1>3, <1>4 DEF Return

-----------------------------------------------------------------------------

LEMMA InvInit ==
    ASSUME Init
    PROVE  Inv
<1>1. TypeOK
  <2>1. <<>> \in Seq(Replies) /\ Len(<<>>) = 0 /\ <<>> \in Seq(Byte)
    OBVIOUS
  <2>2. r \in Reassemblers
    BY <2>1 DEF Init, Fresh, Reassemblers
  <2>3. 0 <= MaxReplies
    BY FipsAssumption
  <2> QED
    BY <2>1, <2>2, <2>3 DEF Init, TypeOK
<1>2. Codec
  <2>1. down = {} /\ ~r.active
    BY DEF Init, Fresh
  <2>2. \A id : About(id) = {}
    BY <2>1 DEF About
  <2> QED
    BY <2>1, <2>2 DEF Codec, Apart
<1>3. Handed /\ CallReply /\ Answered /\ VerdictIsMints
  BY DEF Init, Handed, CallReply, Answered, VerdictIsMints
<1>4. Ids
  BY DEF Init, Ids
<1> QED
  BY <1>1, <1>2, <1>3, <1>4 DEF Inv

LEMMA InvInvariant == Spec => []Inv
<1>1. ASSUME Inv, Next PROVE Inv'
  BY <1>1, CallStep, ProbeStep, ReturnStep, GiveUpStep, LoseRequestStep, RespondStep,
     LoseSegmentStep, ArriveStep DEF Next
<1>2. ASSUME Inv, UNCHANGED vars PROVE Inv'
  <2>1. TypeOK' /\ Codec' /\ Handed'
    BY <1>2, CodecStays, HandedStays DEF Inv, TypeOK, vars
  <2> QED
    BY <1>2, <2>1, CallsStay DEF Inv, vars
<1> QED
  BY <1>1, <1>2, InvInit, PTL DEF Spec

\* RpcMintClient::call returns the mint's word on that very call, whatever is
\* lost, repeated, overtaken or answered late: for any operations, sizes and
\* number of replies.
THEOREM WordIsMints == Spec => []VerdictIsMints
<1>1. Inv => VerdictIsMints
  BY DEF Inv
<1> QED
  BY <1>1, InvInvariant, PTL

Sent == [serial \in 1 .. Len(frames) |-> Bytes(serial)]

\* The codec of frag.rs implements the channel of frames: for any frame sizes,
\* datagram budget, buffer, number of message ids and number of replies, a step
\* of the responder, the network or the wallet is a step of the channel or
\* hidden from it.
THEOREM CodecImplementsChannel == Spec => ImplementsChannel
<1>1. Init => Channel!ChannelInit
  BY DEF Init, Channel!ChannelInit
<1>2. ASSUME Inv, [Next]_vars
      PROVE  [Channel!ChannelNext]_<<Sent, clashed, got>>
  <2> USE DEF Channel!ChannelNext, Channel!Take, Channel!SendFrame, Channel!HandUp
  <2>1. ASSUME frames' = frames PROVE Sent' = Sent
    BY <2>1 DEF Sent, Bytes
  <2>2. ASSUME NEW req \in up, NEW size \in Sizes, Respond(req, size)
        PROVE  Channel!ChannelNext
    <3>1. PICK rep \in Replies : frames' = Append(frames, rep)
      BY <1>2, <2>2, RespondFacts
    <3>2. /\ frames \in Seq(Replies) /\ Len(frames) \in Nat /\ got' = got
          /\ Len(frames) < MaxReplies
      BY <1>2, <2>2 DEF Inv, TypeOK, Respond
    <3>3. /\ Len(frames') = Len(frames) + 1 /\ frames'[Len(frames) + 1] = rep
          /\ \A i \in 1 .. Len(frames) : frames'[i] = frames[i] /\ i \in 1 .. Len(frames')
          /\ \A i \in 1 .. Len(frames') : i \in 1 .. Len(frames) \/ i = Len(frames) + 1
      BY <3>1, <3>2, Grown
    <3>4. PICK n \in 1 .. MaxReplies : n = Len(frames) + 1
      BY <3>2, FipsAssumption
    <3>5. PICK f : f = [k \in 1 .. rep.size |-> <<n, k>>]
      OBVIOUS
    <3>6. f \in AllFrames
      BY <3>4, <3>5 DEF AllFrames, Replies
    <3>7. Bytes(n)' = f /\ n \in 1 .. Len(frames')
      BY <3>2, <3>3, <3>4, <3>5 DEF Bytes
    <3>8. \A i \in 1 .. Len(frames) : Bytes(i)' = Bytes(i)
      BY <3>3 DEF Bytes
    <3>9. /\ Len(Sent) = Len(frames) /\ Sent \in Seq({Bytes(i) : i \in 1 .. Len(frames)} \cup {f})
      BY <3>2 DEF Sent
    <3>10. Sent' = Append(Sent, f)
      <4>1. Sent' = [i \in 1 .. n |-> IF i = n THEN f ELSE Bytes(i)]
        <5>1. \A i \in 1 .. n : Bytes(i)' = IF i = n THEN f ELSE Bytes(i)
          BY <3>2, <3>4, <3>7, <3>8
        <5>2. Len(frames') = n
          BY <3>3, <3>4
        <5> QED
          BY <5>1, <5>2 DEF Sent
      <4>2. Append(Sent, f) = [i \in 1 .. Len(Sent) + 1 |-> IF i = Len(Sent) + 1 THEN f ELSE Sent[i]]
        BY <3>9, AppendIs
      <4>3. \A i \in 1 .. n : i # n => Sent[i] = Bytes(i)
        BY <3>2, <3>4 DEF Sent
      <4> QED
        BY <3>4, <3>9, <4>1, <4>2, <4>3
    <3>11. About(MsgId(n)) \subseteq Channel!SameId(n)
      BY <1>2, <3>2, <3>4, AboutSerials DEF Inv, Channel!SameId, MsgId
    <3>12. \/ clashed' = clashed
           \/ \E older \in SUBSET Channel!SameId(n) : clashed' = clashed \cup older \cup {n}
      BY <2>2, <3>4, <3>11 DEF Respond
    <3>13. n = Len(Sent) + 1
      BY <3>4, <3>9
    <3> QED
      BY <3>2, <3>6, <3>10, <3>12, <3>13 DEF Sent
  <2>3. ASSUME NEW seg \in down, NEW again \in BOOLEAN, Arrive(seg, again)
        PROVE  [Channel!ChannelNext]_<<Sent, clashed, got>>
    <3>1. Push(seg) /\ down' \subseteq down /\ UNCHANGED <<frames, clashed>>
      BY <2>3 DEF Arrive, mint
    <3>2. got' = got \/ Good(got')
      BY <1>2, <3>1, PushOK DEF Inv
    <3>3. Len(Sent) = Len(frames) /\ \A s \in 1 .. Len(frames) : Sent[s] = Bytes(s)
      BY <1>2 DEF Inv, TypeOK, Sent
    <3>4. ASSUME NEW b, \E s \in 1 .. Len(frames) : b = Bytes(s) PROVE Channel!Whole(b)
      BY <3>3, <3>4 DEF Channel!Whole, Sent
    <3>5. ASSUME NEW b, NEW id \in 0 .. MsgIdSpace - 1, Woven(b, id, clashed)
          PROVE  Channel!Mixture(b)
      <4>1. ASSUME NEW k \in 1 .. Len(b)
            PROVE  \E i \in clashed : /\ i % MsgIdSpace = id /\ k \in 1 .. Len(Sent[i])
                                      /\ b[k] = Sent[i][k]
        <5>1. PICK s \in clashed : /\ s \in 1 .. Len(frames) /\ k \in 1 .. frames[s].size
                                   /\ MsgId(s) = id /\ b[k] = <<s, k>>
          BY <3>5, <4>1 DEF Woven
        <5>2. PICK n \in Nat : n = frames[s].size
          BY <1>2, <5>1, FramesOK DEF Inv
        <5>3. Sent[s] = [j \in 1 .. n |-> <<s, j>>]
          BY <3>3, <5>1, <5>2 DEF Bytes
        <5>4. Len(Sent[s]) = n /\ Sent[s][k] = <<s, k>>
          BY <5>1, <5>2, <5>3
        <5> QED
          BY <5>1, <5>2, <5>4 DEF MsgId
      <4> QED
        BY <4>1 DEF Channel!Mixture, Sent
    <3>6. ASSUME NEW b, Good(b) PROVE Channel!Whole(b) \/ Channel!Mixture(b)
      BY <3>4, <3>5, <3>6 DEF Good
    <3>7. got' = got \/ Channel!Whole(got') \/ Channel!Mixture(got')
      BY <3>2, <3>6
    <3> QED
      BY <2>1, <3>1, <3>7 DEF Sent
  <2>4. CASE Return
    BY <2>1, <2>4 DEF Return, mint, Sent
  <2>5. ASSUME UNCHANGED <<frames, clashed, got>> PROVE UNCHANGED <<Sent, clashed, got>>
    BY <2>1, <2>5
  <2>6. CASE UNCHANGED vars
    BY <2>5, <2>6 DEF vars
  <2>7. ASSUME NEW op \in Ops, Call(op) PROVE UNCHANGED <<Sent, clashed, got>>
    BY <2>5, <2>7 DEF Call, mint
  <2>8. ASSUME NEW m, NEW route, NEW p, Probe(m, route, p) PROVE UNCHANGED <<Sent, clashed, got>>
    BY <2>5, <2>8 DEF Probe, mint
  <2>9. CASE GiveUp
    BY <2>5, <2>9 DEF GiveUp, mint
  <2>10. ASSUME NEW req \in up, LoseRequest(req) PROVE UNCHANGED <<Sent, clashed, got>>
    BY <2>5, <2>10 DEF LoseRequest, mint
  <2>11. ASSUME NEW seg \in down, LoseSegment(seg) PROVE UNCHANGED <<Sent, clashed, got>>
    BY <2>5, <2>11 DEF LoseSegment, mint
  <2> HIDE DEF Channel!ChannelNext, Channel!Take, Channel!SendFrame, Channel!HandUp
  <2> QED
    BY <1>2, <2>2, <2>3, <2>4, <2>6, <2>7, <2>8, <2>9, <2>10, <2>11 DEF Next
<1>3. ASSUME Inv, [Next]_vars
      PROVE  [Channel!ChannelNext]_<<[serial \in 1 .. Len(frames) |-> Bytes(serial)], clashed, got>>
  BY <1>2, <1>3 DEF Sent
<1> QED
  BY <1>1, <1>3, InvInvariant, PTL DEF Spec, ImplementsChannel, Channel!ChannelSpec
=============================================================================
