---------------------------- MODULE HostProofs -----------------------------
(***************************************************************************)
(* Proofs about the programs on the host.  Of Adapter: the answers that    *)
(* dropped handlers leave in the pipe never pass for the mint's word on    *)
(* another request, and the NUT-19 cache repeats every 200 it has promised *)
(* to repeat.  Of WalletUi: the token on the screen stays on record.       *)
(***************************************************************************)
EXTENDS Adapter, WalletUi, FiniteSetTheorems, TLAPS

\* The shapes of a handler: before the mutex, holding it, and about to store.
Asking == [at : {"lookup", "lock"}, req : Requests, after : BOOLEAN]
Holding == [at : {"frame", "newline", "read"}, req : Requests, after : BOOLEAN, id : Nat]
Storing == [at : {"insert"}, req : Requests, after : BOOLEAN,
            body : [code : {"OK"}, of : Requests]]

Frames == [id : Nat, req : Requests, whole : BOOLEAN]

Results == {MintRpcMethod[r.path] : r \in Requests}

MintAnswers == [id : Nat, req : Requests, whole : BOOLEAN, result : Results, ok : BOOLEAN]

Responses == [code : {"OK", "MINT_ERROR", "BAD_REQUEST", "UNEXPECTED_RPC_RESULT", "MINT_UNAVAILABLE"},
              of : Requests, to : Requests, after : BOOLEAN]

TypeOK ==
    /\ handler \in [Clients -> {Idle} \cup Asking \cup Holding \cup Storing]
    /\ next_id \in Nat
    /\ holder \in Clients \cup {Nobody}
    /\ text \in Seq(Frames) /\ lines \in Seq(Seq(Frames)) /\ out \in Seq(MintAnswers)
    /\ alive \in BOOLEAN
    /\ cache \subseteq Requests /\ done \subseteq Requests /\ served \subseteq Requests
    /\ reply \in [Clients -> {NoReply} \cup Responses]

Holds(c) == handler[c].at \in {"frame", "newline", "read"}

\* The handler between the frame and the answer holds the mutex.
Mutex == \A c \in Clients : Holds(c) <=> holder = c

\* Whatever lies in the pipe under the id of the handler that holds the mutex
\* was asked for by that handler.
Own(f) ==
    /\ f.id < next_id
    /\ \A c \in Clients : Holds(c) /\ f.id = handler[c].id => f.req = handler[c].req

Pipe ==
    /\ \A c \in Clients : Holds(c) => handler[c].id < next_id
    /\ \A i \in 1 .. Len(text) : Own(text[i])
    /\ \A i \in 1 .. Len(lines) : \A j \in 1 .. Len(lines[i]) : Own(lines[i][j])
    /\ \A i \in 1 .. Len(out) : Own(out[i])

\* A line is never empty.
Filled ==
    /\ \A c \in Clients : At(c, "newline") => text # <<>>
    /\ \A i \in 1 .. Len(lines) : lines[i] # <<>>

\* An answer that reports a spend as done reports one the mint carried out.
Truthful ==
    /\ \A i \in 1 .. Len(out) :
          out[i].ok /\ out[i].req.path \in Spends => out[i].req \in done
    /\ cache \subseteq done
    /\ \A c \in Clients : At(c, "insert") =>
          handler[c].body.of = handler[c].req /\ handler[c].req \in done

\* A 200 that has gone out for a cached route is in the cache, and a request
\* that came after it never gets past the lookup.
Repeats ==
    /\ \A r \in served : r.path \in CachedRoutes => r \in cache
    /\ \A c \in Clients : ~At(c, "idle") /\ handler[c].after => handler[c].req \in served
    /\ \A c \in Clients : At(c, "lock") \/ Holds(c) =>
          ~(handler[c].after /\ handler[c].req.path \in CachedRoutes)

\* The responses.
Replies ==
    \A c \in Clients : reply[c].code # "none" =>
        /\ reply[c].code \in {"OK", "MINT_ERROR"} => reply[c].of = reply[c].to
        /\ reply[c].code = "OK" /\ reply[c].to.path \in Spends => reply[c].to \in done
        /\ reply[c].after /\ reply[c].to.path \in CachedRoutes => reply[c].code = "OK"

Inv == TypeOK /\ Mutex /\ Pipe /\ Filled /\ Truthful /\ Repeats /\ Replies
-----------------------------------------------------------------------------
(* How steps change a handler.                                             *)

\* Nobody's hold on the mutex is new: what lies in the pipe stays owned.
LEMMA OwnKept ==
    ASSUME Inv, next_id' = next_id,
           \A c \in Clients : Holds(c)' =>
               Holds(c) /\ handler'[c].id = handler[c].id /\ handler'[c].req = handler[c].req
    PROVE  /\ \A f : Own(f) => Own(f)'
           /\ \A c \in Clients : Holds(c)' => handler'[c].id < next_id'
BY DEF Own, Inv, Pipe

LEMMA PipeKept ==
    ASSUME Inv, next_id' = next_id, text' = text, lines' = lines, out' = out,
           \A c \in Clients : Holds(c)' =>
               Holds(c) /\ handler'[c].id = handler[c].id /\ handler'[c].req = handler[c].req
    PROVE  Pipe'
<1>1. /\ \A f : Own(f) => Own(f)'
      /\ \A c \in Clients : Holds(c)' => handler'[c].id < next_id'
  BY OwnKept
<1> QED
  BY <1>1 DEF Inv, Pipe

\* A handler of the type, by what it is doing.
LEMMA HandlerShape ==
    ASSUME Inv, NEW c \in Clients
    PROVE  /\ At(c, "idle") \/ At(c, "lookup") \/ At(c, "lock") => ~Holds(c)
           /\ At(c, "lookup") \/ At(c, "lock") => handler[c] \in Asking
           /\ Holds(c) => handler[c] \in Holding
           /\ At(c, "insert") => handler[c] \in Storing /\ ~Holds(c)
           /\ ~At(c, "idle") => handler[c].req \in Requests /\ handler[c].after \in BOOLEAN
BY DEF Inv, TypeOK, Holds, At, Asking, Holding, Storing, Idle

\* The response ends the handler.
LEMMA RespondStep ==
    ASSUME Inv, NEW c \in Clients, NEW h, NEW r, Respond(c, h, r),
           h.req \in Requests, h.after \in BOOLEAN,
           r.code \in {"OK", "MINT_ERROR", "BAD_REQUEST", "UNEXPECTED_RPC_RESULT", "MINT_UNAVAILABLE"},
           r.of \in Requests,
           r.code \in {"OK", "MINT_ERROR"} => r.of = h.req,
           r.code = "OK" /\ h.req.path \in Spends => h.req \in done',
           h.after /\ h.req.path \in CachedRoutes => r.code = "OK",
           r.code = "OK" /\ h.req.path \in CachedRoutes => h.req \in cache',
           cache \subseteq cache', done \subseteq done'
    PROVE  /\ handler' \in [Clients -> {Idle} \cup Asking \cup Holding \cup Storing]
           /\ reply' \in [Clients -> {NoReply} \cup Responses]
           /\ served' \subseteq Requests
           /\ Repeats' /\ Replies'
           /\ handler'[c] = Idle
           /\ \A d \in Clients : d # c => handler'[d] = handler[d]
<1> DEFINE a == [code |-> r.code, of |-> r.of, to |-> h.req, after |-> h.after]
<1>1. /\ handler' = [handler EXCEPT ![c] = Idle]
      /\ reply' = [reply EXCEPT ![c] = a]
      /\ served' = IF r.code = "OK" THEN served \cup {h.req} ELSE served
  BY DEF Respond
<1>2. /\ handler \in [Clients -> {Idle} \cup Asking \cup Holding \cup Storing]
      /\ reply \in [Clients -> {NoReply} \cup Responses] /\ served \subseteq Requests
  BY DEF Inv, TypeOK
<1>3. a \in Responses /\ a.code = r.code /\ a.of = r.of /\ a.to = h.req
      /\ a.after = h.after
  BY DEF Responses
<1> HIDE DEF a
<1>4. /\ handler' \in [Clients -> {Idle} \cup Asking \cup Holding \cup Storing]
      /\ handler'[c] = Idle
      /\ \A d \in Clients : d # c => handler'[d] = handler[d]
  BY <1>1, <1>2
<1>5. /\ reply' \in [Clients -> {NoReply} \cup Responses] /\ reply'[c] = a
      /\ \A d \in Clients : d # c => reply'[d] = reply[d]
  BY <1>1, <1>2, <1>3
<1>6. served' \subseteq Requests /\ served \subseteq served'
      /\ \A q \in served' : q \in served \/ (q = h.req /\ r.code = "OK")
  BY <1>1, <1>2
<1>7. Idle.at = "idle"
  BY DEF Idle
<1>8. Repeats'
  <2>1. \A q \in served' : q.path \in CachedRoutes => q \in cache'
    BY <1>6 DEF Inv, Repeats
  <2>2. \A d \in Clients : handler'[d].at # "idle" /\ handler'[d].after =>
                             handler'[d].req \in served'
    BY <1>4, <1>6, <1>7 DEF Inv, Repeats, At
  <2>3. \A d \in Clients :
           handler'[d].at = "lock" \/ handler'[d].at \in {"frame", "newline", "read"} =>
           ~(handler'[d].after /\ handler'[d].req.path \in CachedRoutes)
    BY <1>4, <1>7 DEF Inv, Repeats, At, Holds
  <2> QED
    BY <2>1, <2>2, <2>3 DEF Repeats, At, Holds
<1>9. Replies'
  <2> SUFFICES ASSUME NEW d \in Clients, reply'[d].code # "none"
               PROVE  /\ reply'[d].code \in {"OK", "MINT_ERROR"} => reply'[d].of = reply'[d].to
                      /\ reply'[d].code = "OK" /\ reply'[d].to.path \in Spends =>
                            reply'[d].to \in done'
                      /\ reply'[d].after /\ reply'[d].to.path \in CachedRoutes =>
                            reply'[d].code = "OK"
    BY DEF Replies
  <2>1. CASE d = c
    BY <1>3, <1>5, <2>1
  <2>2. CASE d # c
    BY <1>5, <2>2 DEF Inv, Replies
  <2> QED
    BY <2>1, <2>2
<1> QED
  BY <1>4, <1>5, <1>6, <1>8, <1>9
LEMMA TailOf ==
    ASSUME NEW S, NEW s \in Seq(S), s # <<>>
    PROVE  /\ Tail(s) \in Seq(S) /\ Head(s) = s[1] /\ 1 \in 1 .. Len(s) /\ Head(s) \in S
           /\ \A i \in 1 .. Len(Tail(s)) : i + 1 \in 1 .. Len(s) /\ Tail(s)[i] = s[i + 1]
OBVIOUS

LEMMA AppendOf ==
    ASSUME NEW S, NEW s \in Seq(S), NEW e \in S
    PROVE  /\ Append(s, e) \in Seq(S) /\ Append(s, e) # <<>>
           /\ \A i \in 1 .. Len(Append(s, e)) :
                 \/ i \in 1 .. Len(s) /\ Append(s, e)[i] = s[i]
                 \/ Append(s, e)[i] = e
OBVIOUS

\* Respond, with the mutex given back and the answer, if one was read, gone
\* from the pipe.
LEMMA ResponseInv ==
    ASSUME Inv, NEW c \in Clients, NEW h, NEW r, Respond(c, h, r),
           h.req \in Requests, h.after \in BOOLEAN,
           r.code \in {"OK", "MINT_ERROR", "BAD_REQUEST", "UNEXPECTED_RPC_RESULT", "MINT_UNAVAILABLE"},
           r.of \in Requests,
           r.code \in {"OK", "MINT_ERROR"} => r.of = h.req,
           r.code = "OK" /\ h.req.path \in Spends => h.req \in done,
           h.after /\ h.req.path \in CachedRoutes => r.code = "OK",
           r.code = "OK" /\ h.req.path \in CachedRoutes => h.req \in cache',
           cache \subseteq cache', cache' \subseteq done,
           holder' = IF holder = c THEN Nobody ELSE holder,
           out' = out \/ (out # <<>> /\ out' = Tail(out)),
           UNCHANGED <<next_id, text, lines, alive, done>>
    PROVE  Inv'
<1>1. /\ handler' \in [Clients -> {Idle} \cup Asking \cup Holding \cup Storing]
      /\ reply' \in [Clients -> {NoReply} \cup Responses]
      /\ served' \subseteq Requests
      /\ Repeats' /\ Replies'
      /\ handler'[c] = Idle
      /\ \A d \in Clients : d # c => handler'[d] = handler[d]
  BY RespondStep
<1>2. Idle.at = "idle"
  BY DEF Idle
<1>3. /\ out \in Seq(MintAnswers) /\ out' \in Seq(MintAnswers)
      /\ \A i \in 1 .. Len(out') : \E j \in 1 .. Len(out) : out'[i] = out[j]
  <2>1. out \in Seq(MintAnswers)
    BY DEF Inv, TypeOK
  <2> QED
    BY <2>1, TailOf
<1>4. TypeOK'
  BY <1>1, <1>3 DEF Inv, TypeOK
<1>5. Mutex'
  BY <1>1, <1>2, ClientsAssumption DEF Inv, Mutex, Holds
<1>6. Pipe'
  <2>1. \A d \in Clients : Holds(d)' =>
           Holds(d) /\ handler'[d].id = handler[d].id /\ handler'[d].req = handler[d].req
    BY <1>1, <1>2 DEF Holds
  <2>2. /\ \A f : Own(f) => Own(f)'
        /\ \A d \in Clients : Holds(d)' => handler'[d].id < next_id'
    BY <2>1, OwnKept
  <2>3. \A i \in 1 .. Len(out) : Own(out[i])
    BY DEF Inv, Pipe
  <2>4. ASSUME NEW i \in 1 .. Len(out') PROVE Own(out[i])'
    <3>1. PICK j \in 1 .. Len(out) : out'[i] = out[j]
      BY <1>3
    <3>2. PICK f : f = out[j]
      OBVIOUS
    <3>3. Own(f)'
      BY <2>2, <2>3, <3>2
    <3> QED
      BY <3>1, <3>2, <3>3
  <2>5. /\ \A i \in 1 .. Len(text) : Own(text[i])'
        /\ \A i \in 1 .. Len(lines) : \A j \in 1 .. Len(lines[i]) : Own(lines[i][j])'
    BY <2>2 DEF Inv, Pipe
  <2> QED
    BY <2>2, <2>4, <2>5 DEF Pipe
<1>7. Filled'
  BY <1>1, <1>2 DEF Inv, Filled, At
<1>8. Truthful'
  <2>1. ASSUME NEW i \in 1 .. Len(out'), out'[i].ok, out'[i].req.path \in Spends
        PROVE  out'[i].req \in done'
    <3>1. PICK j \in 1 .. Len(out) : out'[i] = out[j]
      BY <1>3
    <3> QED
      BY <2>1, <3>1 DEF Inv, Truthful
  <2> QED
    BY <1>1, <1>2, <2>1 DEF Inv, Truthful, At
<1> QED
  BY <1>1, <1>4, <1>5, <1>6, <1>7, <1>8 DEF Inv

\* From the parse to the mutex.
LEMMA AskStep ==
    ASSUME Inv, NEW c \in Clients, At(c, "idle") \/ At(c, "lookup"),
           NEW h \in Asking, Ask(c, h),
           h.after => h.req \in served, ~(h.after /\ h.req.path \in CachedRoutes),
           UNCHANGED <<next_id, holder, cache, text, lines, out, alive, done>>
    PROVE  Inv'
<1>1. ~Holds(c) /\ holder # c
  BY HandlerShape DEF Inv, Mutex
<1>2. h.req \in Requests /\ h.after \in BOOLEAN
  BY DEF Asking
<1>3. CASE Respond(c, h, bad_request(h.req))
  <2> DEFINE r == bad_request(h.req)
  <2>1. r.code = "BAD_REQUEST" /\ r.of = h.req
    BY DEF bad_request
  <2>2. Respond(c, h, r)
    BY <1>3
  <2>3. cache \subseteq cache' /\ cache' \subseteq done
    BY DEF Inv, Truthful
  <2> HIDE DEF r
  <2> QED
    BY <1>1, <1>2, <2>1, <2>2, <2>3, ResponseInv
<1>4. CASE ~Respond(c, h, bad_request(h.req))
  <2> DEFINE g == [h EXCEPT !.at = "lock"]
  <2>1. /\ handler' = [handler EXCEPT ![c] = g] /\ served' = served
        /\ reply' = [reply EXCEPT ![c] = NoReply]
    BY <1>4 DEF Ask
  <2>2. g \in Asking /\ g.at = "lock" /\ g.req = h.req /\ g.after = h.after
    BY DEF Asking
  <2> HIDE DEF g
  <2>3. /\ handler' \in [Clients -> {Idle} \cup Asking \cup Holding \cup Storing]
        /\ handler'[c] = g /\ \A d \in Clients : d # c => handler'[d] = handler[d]
    BY <2>1, <2>2 DEF Inv, TypeOK
  <2>4. /\ reply' \in [Clients -> {NoReply} \cup Responses] /\ reply'[c] = NoReply
        /\ \A d \in Clients : d # c => reply'[d] = reply[d]
    BY <2>1 DEF Inv, TypeOK
  <2>5. TypeOK'
    BY <2>1, <2>3, <2>4 DEF Inv, TypeOK
  <2>6. Mutex'
    BY <1>1, <2>2, <2>3 DEF Inv, Mutex, Holds
  <2>7. Pipe'
    <3>1. \A d \in Clients : Holds(d)' =>
           Holds(d) /\ handler'[d].id = handler[d].id /\ handler'[d].req = handler[d].req
      BY <2>2, <2>3 DEF Holds
    <3> QED
      BY <3>1, PipeKept
  <2>8. Filled' /\ Truthful'
    BY <2>2, <2>3 DEF Inv, Filled, Truthful, At
  <2>9. Repeats'
    BY <2>1, <2>2, <2>3 DEF Inv, Repeats, At, Holds
  <2>10. Replies'
    BY <2>4 DEF Inv, Replies, NoReply
  <2> QED
    BY <2>5, <2>6, <2>7, <2>8, <2>9, <2>10 DEF Inv
<1> QED
  BY <1>3, <1>4
LEMMA ArriveStep ==
    ASSUME Inv, NEW c \in Clients, NEW r \in to_wire(c), Arrive(c, r)
    PROVE  Inv'
<1> DEFINE h == [at |-> "lookup", req |-> r, after |-> r \in served]
<1>1. r \in Requests
  BY DEF to_wire
<1>2. h \in Asking /\ h.at = "lookup" /\ h.req = r /\ (h.after <=> r \in served)
  <2>1. PICK b \in BOOLEAN : b <=> r \in served
    OBVIOUS
  <2>2. h = [at |-> "lookup", req |-> r, after |-> b]
    BY <2>1
  <2> HIDE DEF h
  <2> QED
    BY <1>1, <2>1, <2>2 DEF Asking
<1>3. /\ At(c, "idle")
      /\ UNCHANGED <<next_id, holder, cache, text, lines, out, alive, done>>
  BY DEF Arrive
<1>4. CASE r.path \notin CachedRoutes
  <2>1. Ask(c, h)
    BY <1>4 DEF Arrive
  <2> HIDE DEF h
  <2> QED
    BY <1>2, <1>3, <1>4, <2>1, AskStep
<1>5. CASE r.path \in CachedRoutes
  <2>1. /\ handler' = [handler EXCEPT ![c] = h] /\ served' = served
        /\ reply' = [reply EXCEPT ![c] = NoReply]
    BY <1>5 DEF Arrive
  <2>2. ~Holds(c)
    BY <1>3, HandlerShape
  <2> HIDE DEF h
  <2>3. /\ handler' \in [Clients -> {Idle} \cup Asking \cup Holding \cup Storing]
        /\ handler'[c] = h /\ \A d \in Clients : d # c => handler'[d] = handler[d]
    BY <1>2, <2>1 DEF Inv, TypeOK
  <2>4. /\ reply' \in [Clients -> {NoReply} \cup Responses] /\ reply'[c] = NoReply
        /\ \A d \in Clients : d # c => reply'[d] = reply[d]
    BY <2>1 DEF Inv, TypeOK
  <2>5. TypeOK'
    BY <1>3, <2>1, <2>3, <2>4 DEF Inv, TypeOK
  <2>6. Mutex'
    BY <1>2, <1>3, <2>2, <2>3 DEF Inv, Mutex, Holds
  <2>7. Pipe'
    <3>1. \A d \in Clients : Holds(d)' =>
           Holds(d) /\ handler'[d].id = handler[d].id /\ handler'[d].req = handler[d].req
      BY <1>2, <2>3 DEF Holds
    <3> QED
      BY <1>3, <3>1, PipeKept
  <2>8. Filled' /\ Truthful'
    BY <1>2, <1>3, <2>3 DEF Inv, Filled, Truthful, At
  <2>9. Repeats'
    BY <1>2, <1>3, <2>1, <2>3 DEF Inv, Repeats, At, Holds
  <2>10. Replies'
    BY <1>3, <2>4 DEF Inv, Replies, NoReply
  <2> QED
    BY <2>5, <2>6, <2>7, <2>8, <2>9, <2>10 DEF Inv
<1> QED
  BY <1>4, <1>5

LEMMA LookupStep ==
    ASSUME Inv, NEW c \in Clients, Lookup(c)
    PROVE  Inv'
<1> DEFINE h == handler[c]
           r == [code |-> "OK", of |-> h.req]
<1>1. /\ At(c, "lookup") /\ h \in Asking /\ ~Holds(c) /\ holder # c
      /\ h.req \in Requests /\ h.after \in BOOLEAN
  BY HandlerShape DEF Lookup, Inv, Mutex, At
<1>2. UNCHANGED <<next_id, holder, cache, text, lines, out, alive, done>>
  BY DEF Lookup
<1>3. h.after => h.req \in served
  BY <1>1 DEF Inv, Repeats, At
<1>4. cache \subseteq done
  BY DEF Inv, Truthful
<1>5. CASE h.req \in cache
  <2>1. Respond(c, h, r) /\ r.code = "OK" /\ r.of = h.req
    BY <1>5 DEF Lookup
  <2> HIDE DEF h, r
  <2> QED
    BY <1>1, <1>2, <1>4, <1>5, <2>1, ResponseInv
<1>6. CASE h.req \notin cache
  <2>1. Ask(c, h)
    BY <1>6 DEF Lookup
  <2>2. ~(h.after /\ h.req.path \in CachedRoutes)
    BY <1>3, <1>6 DEF Inv, Repeats
  <2> HIDE DEF h
  <2> QED
    BY <1>1, <1>2, <1>3, <2>1, <2>2, AskStep
<1> QED
  BY <1>5, <1>6

\* A request id is taken under the mutex: nothing in the pipe has it yet.
LEMMA LockStep ==
    ASSUME Inv, NEW c \in Clients, Lock(c)
    PROVE  Inv'
<1> DEFINE h == handler[c]
           g == [at |-> "frame", req |-> h.req, after |-> h.after, id |-> next_id]
<1>1. /\ At(c, "lock") /\ holder = Nobody /\ holder' = c
      /\ handler' = [handler EXCEPT ![c] = g] /\ next_id' = next_id + 1
      /\ UNCHANGED <<cache, text, lines, out, alive, done, reply, served>>
  BY DEF Lock
<1>2. next_id \in Nat
  BY DEF Inv, TypeOK
<1>3. /\ g \in Holding /\ g.at = "frame" /\ g.req = h.req /\ g.after = h.after
      /\ g.id = next_id
  BY <1>1, <1>2, HandlerShape DEF Holding, Asking
<1>4. \A d \in Clients : ~Holds(d)
  BY <1>1, ClientsAssumption DEF Inv, Mutex
<1> HIDE DEF g
<1>5. /\ handler' \in [Clients -> {Idle} \cup Asking \cup Holding \cup Storing]
      /\ handler'[c] = g /\ \A d \in Clients : d # c => handler'[d] = handler[d]
  BY <1>1, <1>3 DEF Inv, TypeOK
<1>6. TypeOK'
  BY <1>1, <1>2, <1>5 DEF Inv, TypeOK
<1>7. \A d \in Clients : Holds(d)' <=> d = c
  BY <1>3, <1>4, <1>5 DEF Holds
<1>8. Mutex'
  BY <1>1, <1>7 DEF Mutex
<1>9. Pipe'
  <2>1. ASSUME NEW f, f.id \in Nat, Own(f) PROVE Own(f)'
    BY <1>1, <1>2, <1>3, <1>5, <1>7, <2>1 DEF Own
  <2>2. /\ text \in Seq(Frames) /\ lines \in Seq(Seq(Frames)) /\ out \in Seq(MintAnswers)
        /\ \A f \in Frames \cup MintAnswers : f.id \in Nat
    BY DEF Inv, TypeOK, Frames, MintAnswers
  <2>3. \A i \in 1 .. Len(text) : Own(text[i])'
    BY <1>1, <2>1, <2>2 DEF Inv, Pipe
  <2>4. \A i \in 1 .. Len(lines) : \A j \in 1 .. Len(lines[i]) : Own(lines[i][j])'
    <3> SUFFICES ASSUME NEW i \in 1 .. Len(lines), NEW j \in 1 .. Len(lines[i])
                 PROVE  Own(lines[i][j])'
      OBVIOUS
    <3>1. lines[i] \in Seq(Frames)
      BY <2>2
    <3>2. lines[i][j] \in Frames
      BY <3>1
    <3> QED
      BY <1>1, <2>1, <2>2, <3>2 DEF Inv, Pipe
  <2>5. \A i \in 1 .. Len(out) : Own(out[i])'
    BY <1>1, <2>1, <2>2 DEF Inv, Pipe
  <2>6. \A d \in Clients : Holds(d)' => handler'[d].id < next_id'
    BY <1>1, <1>2, <1>3, <1>5, <1>7
  <2> QED
    BY <1>1, <2>3, <2>4, <2>5, <2>6 DEF Pipe
<1>10. Filled' /\ Truthful' /\ Replies'
  BY <1>1, <1>3, <1>5 DEF Inv, Filled, Truthful, Replies, At
<1>11. Repeats'
  BY <1>1, <1>3, <1>5 DEF Inv, Repeats, At, Holds
<1> QED
  BY <1>6, <1>8, <1>9, <1>10, <1>11 DEF Inv
\* call_raw's error returns.
LEMMA UnavailableStep ==
    ASSUME Inv, NEW c \in Clients, Holds(c), Unavailable(c),
           out' = out \/ (out # <<>> /\ out' = Tail(out)),
           UNCHANGED <<next_id, cache, text, lines, alive, done>>
    PROVE  Inv'
<1> DEFINE h == handler[c]
           r == unavailable(h.req)
<1>1. /\ Respond(c, h, r) /\ holder' = Nobody /\ holder = c
      /\ h.req \in Requests /\ h.after \in BOOLEAN
      /\ ~(h.after /\ h.req.path \in CachedRoutes)
  BY HandlerShape DEF Unavailable, Inv, Mutex, Repeats, At, Holding
<1>2. r.code = "MINT_UNAVAILABLE" /\ r.of = h.req
  BY DEF unavailable
<1>3. cache \subseteq done
  BY DEF Inv, Truthful
<1> HIDE DEF h, r
<1> QED
  BY <1>1, <1>2, <1>3, ResponseInv

LEMMA SameHandlers ==
    ASSUME Inv, NEW c \in Clients, Holds(c), NEW at \in {"frame", "newline", "read"},
           handler' = [handler EXCEPT ![c].at = at]
    PROVE  /\ handler' \in [Clients -> {Idle} \cup Asking \cup Holding \cup Storing]
           /\ handler'[c].at = at /\ handler'[c].req = handler[c].req
           /\ handler'[c].after = handler[c].after /\ handler'[c].id = handler[c].id
           /\ \A d \in Clients : d # c => handler'[d] = handler[d]
<1> DEFINE g == [handler[c] EXCEPT !.at = at]
<1>1. /\ g \in Holding /\ g.at = at /\ g.req = handler[c].req
      /\ g.after = handler[c].after /\ g.id = handler[c].id
  BY HandlerShape DEF Holding
<1>2. handler' = [handler EXCEPT ![c] = g]
  OBVIOUS
<1> HIDE DEF g
<1> QED
  BY <1>1, <1>2 DEF Inv, TypeOK

\* A step of the handler that holds the mutex to a later one of the three.
LEMMA HoldingStep ==
    ASSUME Inv, NEW c \in Clients, Holds(c), NEW at \in {"frame", "newline", "read"},
           handler' = [handler EXCEPT ![c].at = at], at = "newline" => text' # <<>>,
           text' \in Seq(Frames), \A i \in 1 .. Len(text') : Own(text'[i]),
           lines' \in Seq(Seq(Frames)),
           \A i \in 1 .. Len(lines') :
               lines'[i] # <<>> /\ \A j \in 1 .. Len(lines'[i]) : Own(lines'[i][j]),
           UNCHANGED <<next_id, holder, cache, out, alive, done, reply, served>>
    PROVE  Inv'
<1>1. /\ handler' \in [Clients -> {Idle} \cup Asking \cup Holding \cup Storing]
      /\ handler'[c].at = at /\ handler'[c].req = handler[c].req
      /\ handler'[c].after = handler[c].after /\ handler'[c].id = handler[c].id
      /\ \A d \in Clients : d # c => handler'[d] = handler[d]
  BY SameHandlers
<1>2. \A d \in Clients : Holds(d)' <=> Holds(d)
  BY <1>1 DEF Holds
<1>3. \A d \in Clients : Holds(d)' => d = c
  BY <1>2 DEF Inv, Mutex
<1>4. TypeOK'
  BY <1>1 DEF Inv, TypeOK
<1>5. Mutex'
  BY <1>2 DEF Inv, Mutex
<1>6. Pipe'
  <2>1. /\ \A f : Own(f) => Own(f)'
        /\ \A d \in Clients : Holds(d)' => handler'[d].id < next_id'
    BY <1>1, <1>2, OwnKept
  <2>2. \A i \in 1 .. Len(text') : Own(text[i])'
    BY <2>1 DEF Own, Holds
  <2>3. \A i \in 1 .. Len(lines') : \A j \in 1 .. Len(lines'[i]) : Own(lines[i][j])'
    BY <2>1 DEF Own, Holds
  <2>4. \A i \in 1 .. Len(out) : Own(out[i])'
    BY <2>1 DEF Inv, Pipe
  <2> QED
    BY <2>1, <2>2, <2>3, <2>4 DEF Pipe
<1>7. Filled'
  BY <1>1, <1>3 DEF Filled, At, Holds
<1>8. Truthful' /\ Replies'
  BY <1>1 DEF Inv, Truthful, Replies, At
<1>9. Repeats'
  BY <1>1 DEF Inv, Repeats, At, Holds
<1> QED
  BY <1>4, <1>5, <1>6, <1>7, <1>8, <1>9 DEF Inv

\* The frame a handler writes is its own.
LEMMA OwnFrame ==
    ASSUME Inv, NEW c \in Clients, Holds(c), NEW whole \in BOOLEAN
    PROVE  Frame(c, whole) \in Frames /\ Own(Frame(c, whole))
<1> DEFINE f == Frame(c, whole)
<1>1. f \in Frames /\ f.id = handler[c].id /\ f.req = handler[c].req
  BY HandlerShape DEF Frame, Frames, Holding
<1>2. \A d \in Clients : Holds(d) => d = c
  BY DEF Inv, Mutex
<1> HIDE DEF f
<1>3. Own(f)
  BY <1>1, <1>2 DEF Own, Inv, Pipe
<1> QED
  BY <1>1, <1>3 DEF f

LEMMA WriteFrameStep ==
    ASSUME Inv, NEW c \in Clients, WriteFrame(c)
    PROVE  Inv'
<1> DEFINE f == Frame(c, TRUE)
<1>1. At(c, "frame") /\ Holds(c)
      /\ UNCHANGED <<next_id, cache, lines, out, alive, done>>
  BY DEF WriteFrame, At, Holds
<1>2. CASE ~alive
  BY <1>1, <1>2, UnavailableStep DEF WriteFrame
<1>3. CASE alive
  <2>1. /\ text' = Append(text, f) /\ UNCHANGED <<holder, reply, served>>
        /\ handler' = [handler EXCEPT ![c].at = "newline"]
    BY <1>3 DEF WriteFrame
  <2>2. f \in Frames /\ Own(f)
    BY <1>1, OwnFrame
  <2> HIDE DEF f
  <2>3. /\ text \in Seq(Frames) /\ lines \in Seq(Seq(Frames))
        /\ \A i \in 1 .. Len(text) : Own(text[i])
        /\ \A i \in 1 .. Len(lines) :
              lines[i] # <<>> /\ \A j \in 1 .. Len(lines[i]) : Own(lines[i][j])
    BY DEF Inv, TypeOK, Pipe, Filled
  <2>4. /\ text' \in Seq(Frames) /\ text' # <<>>
        /\ \A i \in 1 .. Len(text') : text'[i] = f \/ Own(text'[i])
    BY <2>1, <2>2, <2>3, AppendOf
  <2>5. \A i \in 1 .. Len(text') : Own(text'[i])
    BY <2>2, <2>4
  <2> QED
    BY <1>1, <2>1, <2>3, <2>4, <2>5, HoldingStep
<1> QED
  BY <1>2, <1>3 DEF Inv, TypeOK

LEMMA WriteNewlineStep ==
    ASSUME Inv, NEW c \in Clients, WriteNewline(c)
    PROVE  Inv'
<1>1. At(c, "newline") /\ Holds(c)
      /\ UNCHANGED <<next_id, cache, out, alive, done>>
  BY DEF WriteNewline, At, Holds
<1>2. CASE ~alive
  BY <1>1, <1>2, UnavailableStep DEF WriteNewline
<1>3. CASE alive
  <2>1. /\ lines' = Append(lines, text) /\ text' = <<>>
        /\ handler' = [handler EXCEPT ![c].at = "read"]
        /\ UNCHANGED <<holder, reply, served>>
    BY <1>3 DEF WriteNewline
  <2>2. /\ text \in Seq(Frames) /\ lines \in Seq(Seq(Frames)) /\ text # <<>>
        /\ \A i \in 1 .. Len(text) : Own(text[i])
        /\ \A i \in 1 .. Len(lines) :
              lines[i] # <<>> /\ \A j \in 1 .. Len(lines[i]) : Own(lines[i][j])
    BY <1>1 DEF Inv, TypeOK, Pipe, Filled
  <2>3. /\ lines' \in Seq(Seq(Frames))
        /\ \A i \in 1 .. Len(lines') :
              (i \in 1 .. Len(lines) /\ lines'[i] = lines[i]) \/ lines'[i] = text
    BY <2>1, <2>2, AppendOf
  <2>4. \A i \in 1 .. Len(lines') :
              lines'[i] # <<>> /\ \A j \in 1 .. Len(lines'[i]) : Own(lines'[i][j])
    BY <2>2, <2>3
  <2>5. text' \in Seq(Frames) /\ \A i \in 1 .. Len(text') : Own(text'[i])
    BY <2>1
  <2> QED
    BY <1>1, <2>1, <2>3, <2>4, <2>5, HoldingStep
<1> QED
  BY <1>2, <1>3 DEF Inv, TypeOK
\* What call_mint makes of its own answer.
LEMMA AnswerOf ==
    ASSUME NEW line \in MintAnswers, NEW q \in Requests, line.req = q
    PROVE  LET response == IF line.ok THEN to_json(line, q)
                           ELSE cashu_error_to_response(line)
           IN  /\ response \in [code : {"OK", "MINT_ERROR", "UNEXPECTED_RPC_RESULT"}, of : Requests]
               /\ response.of = q
               /\ response.code = "OK" => line.ok
<1>1. line.ok \in BOOLEAN
  BY DEF MintAnswers
<1> QED
  BY <1>1 DEF to_json, cashu_error_to_response, unexpected_result_response

\* The 200 body of a cached route goes to the cache before it goes out.
LEMMA StoreStep ==
    ASSUME Inv, NEW c \in Clients, Holds(c),
           NEW body \in [code : {"OK"}, of : Requests],
           body.of = handler[c].req,
           handler[c].req \in done, handler[c].req.path \in CachedRoutes,
           handler' = [handler EXCEPT ![c] =
                         [at |-> "insert", req |-> handler[c].req,
                          after |-> handler[c].after, body |-> body]],
           holder' = Nobody, out # <<>>, out' = Tail(out),
           UNCHANGED <<next_id, cache, text, lines, alive, done, reply, served>>
    PROVE  Inv'
<1> DEFINE h == handler[c]
           g == [at |-> "insert", req |-> h.req, after |-> h.after, body |-> body]
<1>1. /\ h \in Holding /\ g \in Storing /\ g.at = "insert" /\ g.req = h.req
      /\ g.after = h.after /\ g.body = body
  BY HandlerShape DEF Storing, Holding
<1>2. handler' = [handler EXCEPT ![c] = g]
  OBVIOUS
<1>3. \A d \in Clients : Holds(d) => d = c
  BY DEF Inv, Mutex
<1> HIDE DEF g
<1>4. /\ handler' \in [Clients -> {Idle} \cup Asking \cup Holding \cup Storing]
      /\ handler'[c] = g /\ \A d \in Clients : d # c => handler'[d] = handler[d]
  BY <1>1, <1>2 DEF Inv, TypeOK
<1>5. \A d \in Clients : ~Holds(d)'
  BY <1>1, <1>3, <1>4 DEF Holds
<1>6. /\ out \in Seq(MintAnswers) /\ out' \in Seq(MintAnswers)
      /\ \A i \in 1 .. Len(out') : \E j \in 1 .. Len(out) : out'[i] = out[j]
  <2>1. out \in Seq(MintAnswers)
    BY DEF Inv, TypeOK
  <2> QED
    BY <2>1, TailOf
<1>7. TypeOK'
  BY <1>4, <1>6 DEF Inv, TypeOK
<1>8. Mutex'
  BY <1>5, ClientsAssumption DEF Mutex
<1>9. Pipe'
  <2>1. /\ \A f : Own(f) => Own(f)'
        /\ \A d \in Clients : Holds(d)' => handler'[d].id < next_id'
    BY <1>5, OwnKept
  <2>2. \A i \in 1 .. Len(out) : Own(out[i])
    BY DEF Inv, Pipe
  <2>3. ASSUME NEW i \in 1 .. Len(out') PROVE Own(out[i])'
    <3>1. PICK j \in 1 .. Len(out) : out'[i] = out[j]
      BY <1>6
    <3>2. PICK f : f = out[j]
      OBVIOUS
    <3>3. Own(f)'
      BY <2>1, <2>2, <3>2
    <3> QED
      BY <3>1, <3>2, <3>3
  <2>4. /\ \A i \in 1 .. Len(text) : Own(text[i])'
        /\ \A i \in 1 .. Len(lines) : \A j \in 1 .. Len(lines[i]) : Own(lines[i][j])'
    BY <2>1 DEF Inv, Pipe
  <2> QED
    BY <2>1, <2>3, <2>4 DEF Pipe
<1>10. Filled' /\ Replies'
  BY <1>1, <1>4 DEF Inv, Filled, Replies, At
<1>11. Truthful'
  <2>1. ASSUME NEW i \in 1 .. Len(out'), out'[i].ok, out'[i].req.path \in Spends
        PROVE  out'[i].req \in done'
    <3>1. PICK j \in 1 .. Len(out) : out'[i] = out[j]
      BY <1>6
    <3> QED
      BY <2>1, <3>1 DEF Inv, Truthful
  <2> QED
    BY <1>1, <1>4, <2>1 DEF Inv, Truthful, At
<1>12. Repeats'
  BY <1>1, <1>4 DEF Inv, Repeats, At, Holds
<1> QED
  BY <1>7, <1>8, <1>9, <1>10, <1>11, <1>12 DEF Inv

LEMMA ReadStep ==
    ASSUME Inv, NEW c \in Clients, Read(c)
    PROVE  Inv'
<1> DEFINE h == handler[c]
           line == Head(out)
           q == h.req
           response == IF line.ok THEN to_json(line, q) ELSE cashu_error_to_response(line)
<1>1. /\ At(c, "read") /\ Holds(c) /\ holder = c /\ h \in Holding
      /\ q \in Requests /\ h.after \in BOOLEAN
      /\ ~(h.after /\ q.path \in CachedRoutes)
      /\ UNCHANGED <<next_id, cache, text, lines, alive, done>>
  <2>1. At(c, "read") /\ Holds(c)
        /\ UNCHANGED <<next_id, cache, text, lines, alive, done>>
    BY DEF Read, At, Holds
  <2> QED
    BY <2>1, HandlerShape DEF Inv, Mutex, Repeats, Holding
<1>2. CASE Unavailable(c)
  <2>1. out' = out \/ (out # <<>> /\ out' = Tail(out))
    BY DEF Read
  <2> QED
    BY <1>1, <1>2, <2>1, UnavailableStep
<1>3. CASE ~Unavailable(c)
  <2>1. /\ out # <<>> /\ out' = Tail(out) /\ holder' = Nobody
        /\ own_response(c, line)
        /\ \/ /\ ~(response.code = "OK" /\ q.path \in CachedRoutes)
              /\ Respond(c, h, response)
           \/ /\ response.code = "OK" /\ q.path \in CachedRoutes
              /\ handler' = [handler EXCEPT ![c] = [at |-> "insert", req |-> q,
                                             after |-> h.after, body |-> response]]
              /\ UNCHANGED <<reply, served>>
    BY <1>3 DEF Read
  <2>2. out \in Seq(MintAnswers)
    BY DEF Inv, TypeOK
  <2>3. line \in MintAnswers /\ Own(line)
        /\ (line.ok /\ line.req.path \in Spends => line.req \in done)
    BY <2>1, <2>2, TailOf DEF Inv, Pipe, Truthful
  <2>4. line.req = q
    BY <1>1, <2>1, <2>3 DEF own_response, Own
  <2>5. /\ response \in [code : {"OK", "MINT_ERROR", "UNEXPECTED_RPC_RESULT"}, of : Requests] /\ response.of = q
        /\ response.code = "OK" => line.ok
    <3> HIDE DEF line, q
    <3> QED
      BY <1>1, <2>3, <2>4, AnswerOf
  <2> HIDE DEF response, line, q
  <2>6. response.code = "OK" /\ q.path \in Spends => q \in done
    BY <2>3, <2>4, <2>5
  <2>7. cache \subseteq done
    BY DEF Inv, Truthful
  <2>8. CASE response.code = "OK" /\ q.path \in CachedRoutes
    <3>1. q \in done /\ response \in [code : {"OK"}, of : Requests]
      BY <2>5, <2>6, <2>8 DEF Spends
    <3> QED
      BY <1>1, <2>1, <2>5, <2>8, <3>1, StoreStep DEF q
  <2>9. CASE ~(response.code = "OK" /\ q.path \in CachedRoutes)
    <3>1. Respond(c, h, response)
      BY <2>1, <2>9
    <3>2. /\ response.code \in {"OK", "MINT_ERROR", "BAD_REQUEST", "UNEXPECTED_RPC_RESULT", "MINT_UNAVAILABLE"}
          /\ response.of \in Requests
      BY <2>5
    <3> HIDE DEF h
    <3> QED
      BY <1>1, <2>1, <2>5, <2>6, <2>7, <2>9, <3>1, <3>2, ResponseInv DEF q
  <2> QED
    BY <2>8, <2>9
<1> QED
  BY <1>2, <1>3

LEMMA InsertStep ==
    ASSUME Inv, NEW c \in Clients, Insert(c)
    PROVE  Inv'
<1> DEFINE h == handler[c]
           r == h.body
<1>1. /\ At(c, "insert") /\ ~Holds(c) /\ holder # c
      /\ Respond(c, h, r) /\ cache' = cache \cup {h.req}
      /\ UNCHANGED <<next_id, holder, text, lines, out, alive, done>>
  BY HandlerShape DEF Insert, insert, Inv, Mutex
<1>2. /\ h.req \in Requests /\ h.after \in BOOLEAN
      /\ r.code = "OK" /\ r.of \in Requests
  BY <1>1, HandlerShape DEF Storing
<1>3. r.of = h.req /\ h.req \in done /\ cache \subseteq done
  BY <1>1 DEF Inv, Truthful
<1> HIDE DEF h, r
<1> QED
  BY <1>1, <1>2, <1>3, ResponseInv
-----------------------------------------------------------------------------
(* Clients that go away, and the mint.                                     *)

\* A read cut short leaves the rest of the line: the same answer, not whole.
LEMMA CutShort ==
    ASSUME NEW s \in Seq(MintAnswers), s # <<>>, NEW t, t = [s EXCEPT ![1].whole = FALSE]
    PROVE  /\ t \in Seq(MintAnswers) /\ Len(t) = Len(s)
           /\ \A i \in 1 .. Len(s) : /\ t[i].id = s[i].id /\ t[i].req = s[i].req
                                     /\ t[i].ok = s[i].ok
<1> DEFINE a == [s[1] EXCEPT !.whole = FALSE]
<1>1. s[1] \in MintAnswers /\ 1 \in 1 .. Len(s)
  OBVIOUS
<1>2. a \in MintAnswers /\ a.id = s[1].id /\ a.req = s[1].req /\ a.ok = s[1].ok
  BY <1>1 DEF MintAnswers
<1>3. t = [s EXCEPT ![1] = a]
  OBVIOUS
<1> HIDE DEF a
<1> DEFINE n == Len(s)
<1>4. n \in Nat /\ s \in [1 .. n -> MintAnswers]
  OBVIOUS
<1> HIDE DEF n
<1>5. t \in [1 .. n -> MintAnswers] /\ \A i \in 1 .. n : t[i] = IF i = 1 THEN a ELSE s[i]
  BY <1>2, <1>3, <1>4
<1>6. t \in Seq(MintAnswers) /\ Len(t) = n
  BY <1>4, <1>5
<1> QED
  BY <1>2, <1>5, <1>6 DEF n

LEMMA DisconnectStep ==
    ASSUME Inv, NEW c \in Clients, NEW partly \in BOOLEAN, Disconnect(c, partly)
    PROVE  Inv'
<1>1. /\ handler' = [handler EXCEPT ![c] = Idle]
      /\ holder' = IF holder = c THEN Nobody ELSE holder
      /\ UNCHANGED <<next_id, cache, lines, alive, done, reply, served>>
  BY DEF Disconnect
<1>2. Idle.at = "idle"
  BY DEF Idle
<1>3. /\ handler' \in [Clients -> {Idle} \cup Asking \cup Holding \cup Storing]
      /\ handler'[c] = Idle /\ \A d \in Clients : d # c => handler'[d] = handler[d]
  BY <1>1 DEF Inv, TypeOK
<1>4. /\ text \in Seq(Frames) /\ out \in Seq(MintAnswers)
      /\ \A i \in 1 .. Len(text) : Own(text[i])
      /\ \A i \in 1 .. Len(out) : Own(out[i])
  BY DEF Inv, TypeOK, Pipe
<1>5. /\ text' \in Seq(Frames) /\ (text # <<>> => text' # <<>>)
      /\ \A i \in 1 .. Len(text') : Own(text'[i])
  <2>1. CASE text' = text
    BY <1>4, <2>1
  <2>2. CASE text' # text
    <3> DEFINE f == Frame(c, FALSE)
    <3>1. text' = Append(text, f) /\ Holds(c)
      BY <2>2 DEF Disconnect, At, Holds
    <3>2. f \in Frames /\ Own(f)
      BY <3>1, OwnFrame
    <3> HIDE DEF f
    <3>3. /\ text' \in Seq(Frames) /\ text' # <<>>
          /\ \A i \in 1 .. Len(text') : text'[i] = f \/ Own(text'[i])
      BY <1>4, <3>1, <3>2, AppendOf
    <3> QED
      BY <3>2, <3>3
  <2> QED
    BY <2>1, <2>2
<1>6. /\ out' \in Seq(MintAnswers) /\ Len(out') = Len(out)
      /\ \A i \in 1 .. Len(out) : /\ out'[i].id = out[i].id /\ out'[i].req = out[i].req
                                  /\ out'[i].ok = out[i].ok
  <2>1. out' = out \/ (out # <<>> /\ out' = [out EXCEPT ![1].whole = FALSE])
    BY DEF Disconnect
  <2> QED
    BY <1>4, <2>1, CutShort
<1>7. TypeOK'
  BY <1>1, <1>3, <1>5, <1>6 DEF Inv, TypeOK
<1>8. Mutex'
  BY <1>1, <1>2, <1>3, ClientsAssumption DEF Inv, Mutex, Holds
<1>9. Pipe'
  <2>1. \A d \in Clients : Holds(d)' =>
           Holds(d) /\ handler'[d].id = handler[d].id /\ handler'[d].req = handler[d].req
    BY <1>2, <1>3 DEF Holds
  <2>2. /\ \A f : Own(f) => Own(f)'
        /\ \A d \in Clients : Holds(d)' => handler'[d].id < next_id'
    BY <1>1, <2>1, OwnKept
  <2>3. \A i \in 1 .. Len(text') : Own(text[i])'
    BY <1>5, <2>2 DEF Own, Holds
  <2>4. \A i \in 1 .. Len(out') : Own(out[i])'
    BY <1>1, <1>4, <1>6, <2>1 DEF Own
  <2>5. \A i \in 1 .. Len(lines) : \A j \in 1 .. Len(lines[i]) : Own(lines[i][j])'
    BY <1>1, <2>2 DEF Inv, Pipe
  <2> QED
    BY <1>1, <2>2, <2>3, <2>4, <2>5 DEF Pipe
<1>10. Filled'
  BY <1>1, <1>2, <1>3, <1>5 DEF Inv, Filled, At
<1>11. Truthful'
  BY <1>1, <1>2, <1>3, <1>6 DEF Inv, Truthful, At
<1>12. Repeats'
  BY <1>1, <1>2, <1>3 DEF Inv, Repeats, At, Holds
<1>13. Replies'
  BY <1>1 DEF Inv, Replies
<1> QED
  BY <1>7, <1>8, <1>9, <1>10, <1>11, <1>12, <1>13 DEF Inv

\* One line of the mint's loop.
LEMMA ServeStep ==
    ASSUME Inv, NEW takes \in BOOLEAN, Serve(takes)
    PROVE  Inv'
<1> DEFINE frame == Head(Head(lines))
           a == handle_request(frame, takes)
<1>1. /\ lines # <<>> /\ lines' = Tail(lines)
      /\ UNCHANGED <<handler, next_id, holder, cache, text, reply, served>>
      /\ \/ out' = Append(out, a) /\ done' = carried_out(frame, takes) /\ alive' = alive
         \/ alive' = FALSE /\ out' = out /\ done' = done
  BY DEF Serve, refuse_line
<1>2. /\ lines \in Seq(Seq(Frames)) /\ out \in Seq(MintAnswers) /\ done \subseteq Requests
      /\ \A i \in 1 .. Len(lines) :
            lines[i] # <<>> /\ \A j \in 1 .. Len(lines[i]) : Own(lines[i][j])
      /\ \A i \in 1 .. Len(out) : Own(out[i])
  BY DEF Inv, TypeOK, Pipe, Filled
<1>3. /\ lines' \in Seq(Seq(Frames)) /\ Head(lines) = lines[1] /\ Head(lines) \in Seq(Frames)
      /\ 1 \in 1 .. Len(lines)
      /\ \A i \in 1 .. Len(lines') : i + 1 \in 1 .. Len(lines) /\ lines'[i] = lines[i + 1]
  BY <1>1, <1>2, TailOf
<1>4. frame \in Frames /\ Own(frame)
  <2>1. Head(lines) # <<>> /\ \A j \in 1 .. Len(Head(lines)) : Own(Head(lines)[j])
    BY <1>2, <1>3
  <2>2. frame = Head(lines)[1] /\ 1 \in 1 .. Len(Head(lines)) /\ frame \in Frames
    BY <1>3, <2>1, TailOf
  <2> QED
    BY <2>1, <2>2
<1> HIDE DEF frame
<1>5. /\ a \in MintAnswers /\ a.id = frame.id /\ a.req = frame.req
      /\ a.ok /\ a.req.path \in Spends => takes
  <2> DEFINE fine == frame.req.path \notin Spends
                     \/ ((frame.req.path \in Spends /\ frame.req \notin done) /\ takes)
  <2>1. PICK b \in BOOLEAN : b <=> fine
    OBVIOUS
  <2>2. a = [id |-> frame.id, req |-> frame.req, whole |-> TRUE,
             result |-> MintRpcMethod[frame.req.path], ok |-> b]
    BY <2>1 DEF handle_request
  <2>3. MintRpcMethod[frame.req.path] \in Results
    BY <1>4 DEF Results, Frames
  <2>4. b /\ frame.req.path \in Spends => takes
    BY <2>1
  <2> HIDE DEF a, fine
  <2> QED
    BY <1>4, <2>1, <2>2, <2>3, <2>4 DEF Frames, MintAnswers
<1> HIDE DEF a
<1>6. /\ done \subseteq done' /\ done' \subseteq Requests
      /\ out' \in Seq(MintAnswers)
      /\ \A i \in 1 .. Len(out') :
            \/ i \in 1 .. Len(out) /\ out'[i] = out[i]
            \/ /\ out'[i] = a
               /\ a.req.path \in Spends /\ takes => a.req \in done'
  <2>1. done \subseteq done' /\ done' \subseteq Requests
    BY <1>1, <1>2, <1>4 DEF carried_out, Frames
  <2>2. CASE out' = out /\ done' = done
    BY <1>2, <2>1, <2>2
  <2>3. CASE out' = Append(out, a) /\ done' = carried_out(frame, takes)
    <3>1. a.req.path \in Spends /\ takes => a.req \in done'
      BY <1>5, <2>3 DEF carried_out
    <3>2. /\ out' \in Seq(MintAnswers)
          /\ \A i \in 1 .. Len(out') :
                \/ i \in 1 .. Len(out) /\ out'[i] = out[i]
                \/ out'[i] = a
      BY <1>2, <1>5, <2>3, AppendOf
    <3> QED
      BY <2>1, <3>1, <3>2
  <2> QED
    BY <1>1, <2>2, <2>3
<1>7. TypeOK'
  BY <1>1, <1>3, <1>6 DEF Inv, TypeOK
<1>8. Mutex'
  BY <1>1 DEF Inv, Mutex, Holds
<1>9. Pipe'
  <2>1. /\ \A f : Own(f) => Own(f)'
        /\ \A d \in Clients : Holds(d)' => handler'[d].id < next_id'
    BY <1>1, OwnKept DEF Holds
  <2>2. Own(a)
    BY <1>4, <1>5 DEF Own
  <2>3. \A i \in 1 .. Len(out') : Own(out'[i])
    BY <1>2, <1>6, <2>2
  <2>4. \A i \in 1 .. Len(out') : Own(out[i])'
    BY <1>1, <2>3 DEF Own, Holds
  <2>5. \A i \in 1 .. Len(lines') : \A j \in 1 .. Len(lines'[i]) : Own(lines'[i][j])
    BY <1>2, <1>3
  <2>6. \A i \in 1 .. Len(lines') : \A j \in 1 .. Len(lines'[i]) : Own(lines[i][j])'
    BY <1>1, <2>5 DEF Own, Holds
  <2>7. \A i \in 1 .. Len(text) : Own(text[i])'
    BY <1>1, <2>1 DEF Inv, Pipe
  <2> QED
    BY <1>1, <2>1, <2>4, <2>6, <2>7 DEF Pipe
<1>10. Filled'
  BY <1>1, <1>2, <1>3 DEF Inv, Filled, At
<1>11. Truthful'
  <2>1. ASSUME NEW i \in 1 .. Len(out'), out'[i].ok, out'[i].req.path \in Spends
        PROVE  out'[i].req \in done'
    <3>1. CASE i \in 1 .. Len(out) /\ out'[i] = out[i]
      BY <1>6, <2>1, <3>1 DEF Inv, Truthful
    <3>2. CASE out'[i] = a /\ (a.req.path \in Spends /\ takes => a.req \in done')
      BY <1>5, <2>1, <3>2
    <3> QED
      BY <1>6, <3>1, <3>2
  <2> QED
    BY <1>1, <1>6, <2>1 DEF Inv, Truthful, At
<1>12. Repeats' /\ Replies'
  BY <1>1, <1>6 DEF Inv, Repeats, Replies, At, Holds
<1> QED
  BY <1>7, <1>8, <1>9, <1>10, <1>11, <1>12 DEF Inv
-----------------------------------------------------------------------------
LEMMA InvInit ==
    ASSUME Init
    PROVE  Inv
<1>1. Idle.at = "idle" /\ NoReply.code = "none"
  BY DEF Idle, NoReply
<1>2. TypeOK
  BY DEF Init, TypeOK
<1>3. Mutex /\ Pipe /\ Filled
  BY <1>1, ClientsAssumption DEF Init, Mutex, Pipe, Filled, Holds, At
<1>4. Truthful /\ Repeats /\ Replies
  BY <1>1 DEF Init, Truthful, Repeats, Replies, Holds, At
<1> QED
  BY <1>2, <1>3, <1>4 DEF Inv

LEMMA Unchanged ==
    ASSUME Inv, alive' \in BOOLEAN,
           UNCHANGED <<handler, next_id, holder, cache, text, lines, out, done, reply, served>>
    PROVE  Inv'
<1>1. TypeOK'
  BY DEF Inv, TypeOK
<1>2. Mutex'
  BY DEF Inv, Mutex, Holds
<1>3. Pipe'
  BY PipeKept DEF Holds
<1>4. Filled' /\ Truthful' /\ Replies'
  BY DEF Inv, Filled, Truthful, Replies, At
<1>5. Repeats'
  BY DEF Inv, Repeats, At, Holds
<1> QED
  BY <1>1, <1>2, <1>3, <1>4, <1>5 DEF Inv

LEMMA InvStep ==
    ASSUME Inv, [Next]_vars
    PROVE  Inv'
<1>1. CASE \E c \in Clients : Step(c) \/ \E r \in to_wire(c) : Arrive(c, r)
  BY <1>1, ArriveStep, LookupStep, LockStep, WriteFrameStep, WriteNewlineStep,
     ReadStep, InsertStep DEF Step
<1>2. CASE \E c \in Clients, partly \in BOOLEAN : Disconnect(c, partly)
  BY <1>2, DisconnectStep
<1>3. CASE \E takes \in BOOLEAN : Serve(takes)
  BY <1>3, ServeStep
<1>4. CASE MintDies
  BY <1>4, Unchanged DEF MintDies
<1>5. CASE UNCHANGED vars
  <2>1. alive' \in BOOLEAN
    BY <1>5 DEF vars, Inv, TypeOK
  <2> QED
    BY <1>5, <2>1, Unchanged DEF vars
<1> QED
  BY <1>1, <1>2, <1>3, <1>4, <1>5 DEF Next

LEMMA InvAlways == Spec => []Inv
<1>1. Init => Inv
  BY InvInit
<1>2. Inv /\ [Next]_vars => Inv'
  BY InvStep
<1> QED
  BY <1>1, <1>2, PTL DEF Spec

\* What the mint advertises as cached is what cached_post serves.
LEMMA AdvertisedCached == Advertised \subseteq CachedRoutes
<1> SUFFICES ASSUME NEW e \in Advertised PROVE e \in CachedRoutes
  OBVIOUS
<1> DEFINE D == {"3", "4", "5", "6", "7", "9", "10", "11", "19", "20", "29"}
           info == mint_info_to_json(demo_nuts)
<1>1. DOMAIN demo_nuts = D /\ DOMAIN info = D
  BY DEF demo_nuts, mint_info_to_json
<1>2. PICK n \in D : e \in parse_nut_settings(info[n])
  BY <1>1 DEF Advertised
<1>3. CASE n = "19"
  <2>1. demo_nuts[n].cached_endpoints = {"post_mint", "post_swap"}
    BY <1>3 DEF demo_nuts
  <2>2. info[n] = [cached_endpoints |-> {"post_mint", "post_swap"}]
    BY <1>1, <1>3, <2>1 DEF mint_info_to_json
  <2>3. parse_nut_settings(info[n]) = {"post_mint", "post_swap"}
    BY <2>2 DEF parse_nut_settings
  <2> QED
    BY <1>2, <2>3 DEF CachedRoutes
<1>4. CASE n # "19"
  <2>1. info[n] = <<>>
    BY <1>1, <1>4 DEF mint_info_to_json
  <2>2. parse_nut_settings(info[n]) = {}
    BY <2>1 DEF parse_nut_settings
  <2> QED
    BY <1>2, <2>2
<1> QED
  BY <1>3, <1>4

\* For any number of connections and requests, whatever handlers are dropped
\* half way through a write or a read: what a wallet's call returns as the
\* mint's word is the mint's word on that very request, and the spends it
\* reports are carried out.
THEOREM AnswersAreOwn == Spec => []AnswersOwnRequest
<1>1. Inv => AnswersOwnRequest
  <2> SUFFICES ASSUME Inv, NEW c \in Clients,
                      NEW res \in {read_json_body(reply[c]), round_trip(reply[c])},
                      res.is \in {"ok", "refused"}
               PROVE  /\ res.of = reply[c].to
                      /\ res.is = "ok" /\ res.of.path \in Spends => res.of \in done
    BY DEF AnswersOwnRequest
  <2> DEFINE a == reply[c]
  <2>1. a \in {NoReply} \cup Responses
    BY DEF Inv, TypeOK
  <2>2. a.code # "none" =>
          /\ a.code \in {"OK", "MINT_ERROR"} => a.of = a.to
          /\ a.code = "OK" /\ a.to.path \in Spends => a.to \in done
    BY DEF Inv, Replies
  <2> HIDE DEF a
  <2>3. a.code \in {"none"} \cup {"OK", "MINT_ERROR", "BAD_REQUEST", "UNEXPECTED_RPC_RESULT", "MINT_UNAVAILABLE"}
    BY <2>1 DEF NoReply, Responses
  <2>4. ASSUME res = read_json_body(a)
        PROVE  /\ a.code \in {"OK", "MINT_ERROR"} /\ res.of = a.of
               /\ res.is = "ok" => a.code = "OK"
    <3>1. CASE a.code = "none"
      BY <2>4, <3>1 DEF read_json_body
    <3>2. CASE a.code = "OK"
      BY <2>4, <3>2 DEF read_json_body, parse_body
    <3>3. CASE a.code \in {"MINT_ERROR", "BAD_REQUEST", "UNEXPECTED_RPC_RESULT",
                            "MINT_UNAVAILABLE"}
      <4>1. res = [is |-> IF a.code = "MINT_ERROR" THEN "refused" ELSE "Protocol", of |-> a.of]
        BY <2>4, <3>3 DEF read_json_body, map_mint_error
      <4> QED
        BY <3>3, <4>1
    <3> QED
      BY <2>3, <3>1, <3>2, <3>3
  <2>5. ASSUME res = round_trip(a)
        PROVE  /\ a.code \in {"OK", "MINT_ERROR"} /\ res.of = a.of
               /\ res.is = "ok" => a.code = "OK"
    <3>1. CASE a.code = "none"
      BY <2>5, <3>1 DEF round_trip
    <3>2. CASE a.code = "OK"
      BY <2>5, <3>2 DEF round_trip, parse_body
    <3>3. CASE a.code \in {"MINT_ERROR", "BAD_REQUEST", "UNEXPECTED_RPC_RESULT",
                            "MINT_UNAVAILABLE"}
      BY <2>5, <3>3 DEF round_trip
    <3> QED
      BY <2>3, <3>1, <3>2, <3>3
  <2>6. /\ a.code \in {"OK", "MINT_ERROR"} /\ res.of = a.of
        /\ res.is = "ok" => a.code = "OK"
    BY <2>4, <2>5 DEF a
  <2>7. res.of = a.to /\ (res.is = "ok" /\ res.of.path \in Spends => res.of \in done)
    BY <2>2, <2>6
  <2> QED
    BY <2>7 DEF a
<1> QED
  BY <1>1, InvAlways, PTL

\* NUT-19 for any number of connections and requests: a request for an
\* advertised endpoint that comes in after its 200 went out is answered with
\* the 200, also when other requests race it or the mint is dead.
THEOREM AnswersAreRepeated == Spec => []RepeatsAnswer
<1>1. Inv => RepeatsAnswer
  BY AdvertisedCached DEF Inv, Replies, RepeatsAnswer
<1> QED
  BY <1>1, InvAlways, PTL
-----------------------------------------------------------------------------
(* The wallet's screens.                                                   *)

\* A sequence, of whatever its elements are.
IsList(q) == q \in Seq(Range(q))

\* A token is on the engine's record or its value has moved.
Recorded(s, m, w) == s \in m.spent \/ \E k \in DOMAIN w.pending : w.pending[k] = s

\* An update that puts a token on the screen.
Shows(e) == "tokenOut" \in DOMAIN e /\ e.tokenOut # None

\* Updates that put none there.
Plain(us) == IsList(us) /\ \A k \in DOMAIN us : "tokenOut" \notin DOMAIN us[k]

\* The fields the argument is about, and records that are lists of sends.
UiShape ==
    /\ "tokenOut" \in DOMAIN ui /\ IsList(events)
    /\ "pending" \in DOMAIN worker /\ worker.pending \in Seq(Sends)
    /\ disk.pending \in Seq(Sends) /\ "spent" \in DOMAIN mint

\* An update still to be applied shows a token on record: a send may be
\* reclaimed or claimed between the job that made it and its display.
Announced == \A k \in DOMAIN events : Shows(events[k]) => Recorded(events[k].tokenOut, mint, worker)

UiInv == UiShape /\ Announced /\ ShownTokenOnRecord
-----------------------------------------------------------------------------
(* Lists and updates.                                                      *)

LEMMA ListOf ==
    ASSUME NEW S, NEW z \in Seq(S)
    PROVE  IsList(z)
  <1>1. Len(z) \in Nat /\ z \in [1 .. Len(z) -> Range(z)]
    BY DEF Range
  <1> DEFINE T == Range(z)
  <1> HIDE DEF T
  <1>2. \A n \in Nat : \A f \in [1 .. n -> T] : f \in Seq(T)
    OBVIOUS
  <1> QED
    BY <1>1, <1>2 DEF IsList, T

LEMMA Joined ==
    ASSUME NEW a, NEW b, IsList(a), IsList(b)
    PROVE  /\ IsList(a \o b)
           /\ \A k \in DOMAIN (a \o b) :
                 \/ \E j \in DOMAIN a : (a \o b)[k] = a[j]
                 \/ \E j \in DOMAIN b : (a \o b)[k] = b[j]
  <1> DEFINE S == Range(a) \cup Range(b)
  <1>1. a \in Seq(S) /\ b \in Seq(S)
    BY DEF IsList
  <1> HIDE DEF S
  <1>2. /\ a \o b \in Seq(S) /\ Len(a \o b) = Len(a) + Len(b)
        /\ \A k \in 1 .. Len(a) + Len(b) :
              (a \o b)[k] = IF k <= Len(a) THEN a[k] ELSE b[k - Len(a)]
    BY <1>1
  <1>3. IsList(a \o b)
    BY <1>2, ListOf
  <1>4. ASSUME NEW k \in DOMAIN (a \o b)
        PROVE  \/ \E j \in DOMAIN a : (a \o b)[k] = a[j]
               \/ \E j \in DOMAIN b : (a \o b)[k] = b[j]
    BY <1>1, <1>2
  <1> QED
    BY <1>3, <1>4

LEMMA PlainJoined ==
    ASSUME NEW a, NEW b, Plain(a), Plain(b)
    PROVE  Plain(a \o b)
  <1> DEFINE z == a \o b
  <1>1. IsList(a) /\ IsList(b)
    BY DEF Plain
  <1>2. /\ IsList(z)
        /\ \A k \in DOMAIN z : (\E j \in DOMAIN a : z[k] = a[j]) \/ (\E j \in DOMAIN b : z[k] = b[j])
    BY <1>1, Joined
  <1> HIDE DEF z
  <1>3. Plain(z)
    BY <1>2 DEF Plain
  <1> QED
    BY <1>3 DEF z

LEMMA OneUpdate ==
    ASSUME NEW u
    PROVE  /\ IsList(<<u>>) /\ DOMAIN <<u>> = {1} /\ <<u>>[1] = u
           /\ IsList(<<>>) /\ Plain(<<>>)
           /\ "tokenOut" \notin DOMAIN u => Plain(<<u>>)
  BY DEF IsList, Plain, Range

LEMMA TwoUpdates ==
    ASSUME NEW u, NEW v, "tokenOut" \notin DOMAIN u, "tokenOut" \notin DOMAIN v
    PROVE  Plain(<<u, v>>)
  <1>1. <<u, v>> \in Seq({u, v}) /\ DOMAIN <<u, v>> = {1, 2}
    OBVIOUS
  <1>2. Range(<<u, v>>) = {u, v}
    BY DEF Range
  <1> QED
    BY <1>1, <1>2 DEF Plain, IsList

LEMMA PlainIssue ==
    ASSUME NEW issued \in BOOLEAN
    PROVE  Plain(IssueUpdates(issued))
  <1> DEFINE u == [qstate |-> "ISSUING"]
             v == IF issued THEN [quote |-> None, qstate |-> ""] ELSE [qstate |-> "PAID"]
  <1>1. "tokenOut" \notin DOMAIN u
    OBVIOUS
  <1>2. "tokenOut" \notin DOMAIN v
    OBVIOUS
  <1> HIDE DEF u, v
  <1>3. Plain(<<u, v>>)
    BY <1>1, <1>2, TwoUpdates
  <1> QED
    BY <1>3 DEF IssueUpdates, u, v
-----------------------------------------------------------------------------
(* Steps.                                                                  *)

\* A step that keeps what is on record and posts updates that are plain or
\* show a token on record.
LEMMA Posted ==
    ASSUME UiInv, NEW us, IsList(us), events' = events \o us,
           "tokenOut" \in DOMAIN ui', ui'.tokenOut = ui.tokenOut,
           "pending" \in DOMAIN worker', worker'.pending \in Seq(Sends),
           disk'.pending \in Seq(Sends), "spent" \in DOMAIN mint',
           \A s : Recorded(s, mint, worker) => Recorded(s, mint', worker'),
           \A k \in DOMAIN us : Shows(us[k]) => Recorded(us[k].tokenOut, mint', worker')
    PROVE  UiInv'
  <1>1. IsList(events)
    BY DEF UiInv, UiShape
  <1>2. UiShape'
    <2>1. IsList(events \o us)
      BY <1>1, Joined
    <2>2. IsList(events)' <=> IsList(events')
      BY DEF IsList, Range
    <2> QED
      BY <2>1, <2>2 DEF UiShape
  <1>3. Announced'
    <2> SUFFICES ASSUME NEW k \in DOMAIN (events \o us), Shows((events \o us)[k])
                 PROVE  Recorded((events \o us)[k].tokenOut, mint', worker')
      BY DEF Announced, Shows
    <2> DEFINE e == (events \o us)[k]
    <2>1. \/ \E j \in DOMAIN events : e = events[j]
          \/ \E j \in DOMAIN us : e = us[j]
      BY <1>1, Joined
    <2>2. Shows(e)
      OBVIOUS
    <2> HIDE DEF e
    <2>3. Recorded(e.tokenOut, mint', worker')
      BY <2>1, <2>2 DEF UiInv, Announced
    <2> QED
      BY <2>3 DEF e
  <1>4. ShownTokenOnRecord'
    <2>1. ui.tokenOut # None => Recorded(ui.tokenOut, mint, worker)
      BY DEF UiInv, ShownTokenOnRecord, Recorded
    <2>2. ui'.tokenOut # None => Recorded(ui'.tokenOut, mint', worker')
      BY <2>1
    <2> QED
      BY <2>2 DEF ShownTokenOnRecord, Recorded
  <1> QED
    BY <1>2, <1>3, <1>4 DEF UiInv

LEMMA UiStart == UiInit => UiInv
  <1> SUFFICES ASSUME UiInit
               PROVE  UiInv
    OBVIOUS
  <1>1. events = <<>> /\ ui = Blank /\ worker = Booted(disk, TRUE)
    BY DEF UiInit
  <1>2. disk.pending = <<>>
    BY DEF UiInit
  <1>3. "spent" \in DOMAIN mint
    BY DEF UiInit
  <1>4. /\ "tokenOut" \in DOMAIN ui /\ ui.tokenOut = None
        /\ "pending" \in DOMAIN worker /\ worker.pending = disk.pending
    BY <1>1 DEF Blank, Booted
  <1>5. UiShape
    <2>1. IsList(events)
      BY <1>1, OneUpdate
    <2>2. <<>> \in Seq(Sends)
      OBVIOUS
    <2> QED
      BY <1>2, <1>3, <1>4, <2>1, <2>2 DEF UiShape
  <1> QED
    BY <1>1, <1>4, <1>5 DEF UiInv, Announced, ShownTokenOnRecord

\* A step that leaves the records, the disk and the mints alone.
LEMMA Quietly ==
    ASSUME UiInv, NEW us, Plain(us), events' = events \o us,
           worker' = worker, disk' = disk, mint' = mint,
           "tokenOut" \in DOMAIN ui', ui'.tokenOut = ui.tokenOut
    PROVE  UiInv'
  <1>1. \A s : Recorded(s, mint, worker) => Recorded(s, mint', worker')
    BY DEF Recorded
  <1>2. /\ "pending" \in DOMAIN worker' /\ worker'.pending \in Seq(Sends)
        /\ disk'.pending \in Seq(Sends) /\ "spent" \in DOMAIN mint'
    BY DEF UiInv, UiShape
  <1>3. IsList(us) /\ \A k \in DOMAIN us : Shows(us[k]) => Recorded(us[k].tokenOut, mint', worker')
    BY DEF Plain, Shows
  <1> QED
    BY <1>1, <1>2, <1>3, Posted

\* A callback of the screens.
LEMMA Callback ==
    ASSUME UiInv, NEW us, Plain(us), events' = events \o us, UNCHANGED rest,
           "tokenOut" \in DOMAIN ui', ui'.tokenOut = ui.tokenOut
    PROVE  UiInv'
  BY Quietly DEF rest

\* The end of a job.
LEMMA Finished ==
    ASSUME UiInv, NEW us, IsList(us), Finish(us),
           "pending" \in DOMAIN worker', worker'.pending \in Seq(Sends),
           "spent" \in DOMAIN mint', \A s : Recorded(s, mint, worker) => Recorded(s, mint', worker'),
           \A k \in DOMAIN us : Shows(us[k]) => Recorded(us[k].tokenOut, mint', worker')
    PROVE  UiInv'
  <1> DEFINE snap == Snapshot(worker')
             all == us \o <<snap>>
  <1>1. "tokenOut" \notin DOMAIN snap
    BY DEF Snapshot
  <1>2. IsList(events)
    BY DEF UiInv, UiShape
  <1>3. events' = events \o us \o <<snap>> /\ ui' = ui /\ disk' = Saved(worker')
    BY DEF Finish
  <1> HIDE DEF snap
  <1>4. IsList(<<snap>>)
    BY OneUpdate
  <1>5. events' = events \o all
    BY <1>2, <1>3, <1>4 DEF IsList
  <1>6. IsList(all)
    BY <1>4, Joined
  <1>7. ASSUME NEW k \in DOMAIN all, Shows(all[k])
        PROVE  Recorded(all[k].tokenOut, mint', worker')
    <2> DEFINE e == all[k]
    <2>1. \/ \E j \in DOMAIN us : e = us[j]
          \/ \E j \in DOMAIN <<snap>> : e = <<snap>>[j]
      BY <1>4, Joined
    <2>2. \A j \in DOMAIN <<snap>> : <<snap>>[j] = snap
      BY OneUpdate
    <2>3. Shows(e)
      BY <1>7
    <2> HIDE DEF e
    <2>4. Recorded(e.tokenOut, mint', worker')
      BY <1>1, <2>1, <2>2, <2>3 DEF Shows
    <2> QED
      BY <2>4 DEF e
  <1>8. disk'.pending \in Seq(Sends)
    BY <1>3 DEF Saved
  <1>9. "tokenOut" \in DOMAIN ui' /\ ui'.tokenOut = ui.tokenOut
    BY <1>3 DEF UiInv, UiShape
  <1> HIDE DEF all
  <1> QED
    BY <1>5, <1>6, <1>7, <1>8, <1>9, Posted

LEMMA FinishedPlainly ==
    ASSUME UiInv, NEW us, Plain(us), Finish(us),
           "pending" \in DOMAIN worker', worker'.pending \in Seq(Sends),
           "spent" \in DOMAIN mint', \A s : Recorded(s, mint, worker) => Recorded(s, mint', worker')
    PROVE  UiInv'
  BY Finished DEF Plain, Shows
-----------------------------------------------------------------------------
(* Records.                                                                *)

\* check_all_pending drops no record but of a spent send.
LEMMA UnclaimedKeeps ==
    ASSUME NEW w, w.pending \in Seq(Sends)
    PROVE  /\ Unclaimed(w) \in Seq(Sends)
           /\ \A k \in DOMAIN w.pending :
                 \/ w.pending[k] \in mint.spent
                 \/ \E n \in DOMAIN Unclaimed(w) : Unclaimed(w)[n] = w.pending[k]
  <1> DEFINE p == w.pending
             kept == {k \in DOMAIN p : ~(mint.home[p[k]] = w.engine /\ p[k] \in mint.spent)}
             upTo(k) == {j \in kept : j <= k}
             C == Cardinality(kept)
             rank == [k \in kept |-> Cardinality(upTo(k))]
             u == [n \in 1 .. C |-> p[CHOOSE k \in kept : Cardinality(upTo(k)) = n]]
  <1>1. Len(p) \in Nat /\ DOMAIN p = 1 .. Len(p) /\ \A k \in DOMAIN p : p[k] \in Sends
    OBVIOUS
  <1>2. Unclaimed(w) = u
    BY DEF Unclaimed
  <1>3. \A k \in DOMAIN p : k \in kept \/ p[k] \in mint.spent
    OBVIOUS
  <1>4. kept \subseteq 1 .. Len(p)
    BY <1>1
  <1> HIDE DEF p, kept
  <1>5. IsFiniteSet(kept) /\ C \in Nat
    <2>1. IsFiniteSet(1 .. Len(p))
      BY <1>1, FS_Interval
    <2> QED
      BY <1>4, <2>1, FS_Subset, FS_CardinalityType
  <1>6. ASSUME NEW k \in kept
        PROVE  IsFiniteSet(upTo(k)) /\ Cardinality(upTo(k)) \in 1 .. C
    <2>1. upTo(k) \subseteq kept /\ k \in upTo(k)
      BY <1>1, <1>4
    <2>2. IsFiniteSet(upTo(k)) /\ Cardinality(upTo(k)) <= C
      BY <1>5, <2>1, FS_Subset
    <2>3. Cardinality(upTo(k)) \in Nat /\ Cardinality(upTo(k)) # 0
      BY <2>1, <2>2, FS_CardinalityType, FS_EmptySet
    <2> QED
      BY <1>5, <2>2, <2>3
  <1>7. ASSUME NEW j \in kept, NEW k \in kept, Cardinality(upTo(j)) = Cardinality(upTo(k))
        PROVE  j = k
    <2>1. j \in Int /\ k \in Int
      BY <1>1, <1>4
    <2>2. IsFiniteSet(upTo(j)) /\ IsFiniteSet(upTo(k))
      BY <1>6
    <2>3. ASSUME NEW x \in kept, NEW y \in kept, x \in Int, y \in Int, x < y,
                 Cardinality(upTo(x)) = Cardinality(upTo(y)), IsFiniteSet(upTo(y))
          PROVE  FALSE
      <3>1. kept \subseteq Int
        BY <1>1, <1>4
      <3>2. ASSUME NEW z \in upTo(x)
            PROVE  z \in upTo(y)
        <4>1. z \in kept /\ z <= x
          BY <3>2
        <4> QED
          BY <2>3, <3>1, <4>1
      <3>3. y \in upTo(y) /\ y \notin upTo(x)
        BY <2>3
      <3>4. upTo(x) = upTo(y)
        <4>1. upTo(x) \in SUBSET upTo(y)
          BY <3>2
        <4> QED
          BY <2>3, <4>1, FS_Subset
      <3> QED
        BY <3>3, <3>4
    <2> QED
      BY <1>7, <2>1, <2>2, <2>3
  <1>8. rank \in Injection(kept, 1 .. C)
    BY <1>6, <1>7 DEF Injection, IsInjective
  <1>9. rank \in Surjection(kept, 1 .. C)
    <2>1. IsFiniteSet(1 .. C) /\ Cardinality(1 .. C) = C
      <3>1. ASSUME NEW m \in Nat
            PROVE  IsFiniteSet(1 .. m) /\ Cardinality(1 .. m) = m
        <4>1. /\ IsFiniteSet(1 .. m)
              /\ Cardinality(1 .. m) = IF 1 > m THEN 0 ELSE m - 1 + 1
          BY <3>1, FS_Interval
        <4> QED
          BY <3>1, <4>1
      <3> QED
        BY <1>5, <3>1
    <2> QED
      BY <1>8, <2>1, FS_Injection
  <1>10. ASSUME NEW n \in 1 .. C
         PROVE  \E k \in kept : Cardinality(upTo(k)) = n
    BY <1>9, <1>10 DEF Surjection
  <1>11. ASSUME NEW n \in 1 .. C
         PROVE  u[n] \in Sends
    <2>1. PICK k \in kept : k = CHOOSE x \in kept : Cardinality(upTo(x)) = n
      BY <1>10, <1>11
    <2> QED
      BY <1>1, <1>4, <1>11, <2>1
  <1>12. ASSUME NEW k \in kept
         PROVE  \E n \in 1 .. C : u[n] = p[k]
    <2> DEFINE n == Cardinality(upTo(k))
               x == CHOOSE y \in kept : Cardinality(upTo(y)) = n
    <2>1. n \in 1 .. C
      BY <1>6
    <2>2. x \in kept /\ Cardinality(upTo(x)) = n
      BY <1>12
    <2>3. x = k
      BY <1>7, <1>12, <2>2
    <2> QED
      BY <2>1, <2>3
  <1>13. u \in Seq(Sends) /\ DOMAIN u = 1 .. C
    <2>1. \A m \in Nat : \A f \in [1 .. m -> Sends] : f \in Seq(Sends)
      OBVIOUS
    <2>2. u \in [1 .. C -> Sends]
      BY <1>11
    <2> QED
      BY <1>5, <2>1, <2>2
  <1> HIDE DEF u
  <1> QED
    BY <1>2, <1>3, <1>12, <1>13 DEF p

LEMMA ConnectedKeeps ==
    ASSUME NEW w, NEW ok \in BOOLEAN, NEW checked \in BOOLEAN,
           "pending" \in DOMAIN w, w.pending \in Seq(Sends)
    PROVE  /\ "pending" \in DOMAIN Connected(w, ok, checked) /\ Connected(w, ok, checked).pending \in Seq(Sends)
           /\ \A s : Recorded(s, mint, w) => Recorded(s, mint, Connected(w, ok, checked))
  <1> DEFINE v == Connected(w, ok, checked)
  <1>1. /\ "pending" \in DOMAIN v
        /\ v.pending = w.pending \/ v.pending = Unclaimed(w)
    BY DEF Connected
  <1> HIDE DEF v
  <1>2. v.pending \in Seq(Sends)
    BY <1>1, UnclaimedKeeps
  <1>3. ASSUME NEW s, Recorded(s, mint, w)
        PROVE  Recorded(s, mint, v)
    <2>1. CASE s \in mint.spent
      BY <2>1 DEF Recorded
    <2>2. CASE \E k \in DOMAIN w.pending : w.pending[k] = s
      <3>1. CASE v.pending = w.pending
        BY <2>2, <3>1 DEF Recorded
      <3>2. CASE v.pending = Unclaimed(w)
        BY <2>2, <3>2, UnclaimedKeeps DEF Recorded
      <3> QED
        BY <1>1, <3>1, <3>2
    <2> QED
      BY <1>3, <2>1, <2>2 DEF Recorded
  <1> QED
    BY <1>1, <1>2, <1>3 DEF v

\* Spending more takes nothing off the record.
LEMMA MoreSpent ==
    ASSUME UiInv, NEW us, Plain(us), Finish(us), UNCHANGED worker,
           "spent" \in DOMAIN mint', mint.spent \subseteq mint'.spent
    PROVE  UiInv'
  <1>1. "pending" \in DOMAIN worker' /\ worker'.pending \in Seq(Sends)
    BY DEF UiInv, UiShape
  <1>2. \A s : Recorded(s, mint, worker) => Recorded(s, mint', worker')
    BY DEF Recorded
  <1> QED
    BY <1>1, <1>2, FinishedPlainly
-----------------------------------------------------------------------------
(* Each step keeps the invariant.                                          *)

\* What the callbacks post.
LEMMA PlainPosts ==
    /\ Plain(<<>>) /\ Plain(<<Busy>>) /\ Plain(<<Busy, Report>>)
    /\ Plain(<<Busy, [recv |-> "receiving"]>>)
    /\ Plain(<<[recv |-> "input", reviewOf |-> None]>>)
    /\ Plain(<<[recv |-> "inspecting"]>>) /\ Plain(<<[info |-> None]>>)
  <1>1. "tokenOut" \notin DOMAIN Busy
    BY DEF Busy
  <1>2. "tokenOut" \notin DOMAIN Report
    BY DEF Report
  <1> DEFINE a == [recv |-> "receiving"]
             b == [recv |-> "input", reviewOf |-> None]
             c == [recv |-> "inspecting"]
             d == [info |-> None]
  <1>3. /\ "tokenOut" \notin DOMAIN a /\ "tokenOut" \notin DOMAIN b
        /\ "tokenOut" \notin DOMAIN c /\ "tokenOut" \notin DOMAIN d
    OBVIOUS
  <1> HIDE DEF a, b, c, d
  <1>4. Plain(<<Busy, a>>) /\ Plain(<<Busy, Report>>)
    BY <1>1, <1>2, <1>3, TwoUpdates
  <1>5. Plain(<<>>) /\ Plain(<<Busy>>) /\ Plain(<<b>>) /\ Plain(<<c>>) /\ Plain(<<d>>)
    BY <1>1, <1>3, OneUpdate
  <1> QED
    BY <1>4, <1>5 DEF a, b, c, d

LEMMA UserKeeps ==
    ASSUME UiInv, User
    PROVE  UiInv'
  <1> DEFINE Post(us) == Plain(us) /\ events' = events \o us
             Same == "tokenOut" \in DOMAIN ui' /\ ui'.tokenOut = ui.tokenOut
  <1>0. "tokenOut" \in DOMAIN ui /\ IsList(events)
    BY DEF UiInv, UiShape
  <1>00. events \o <<>> = events
    BY <1>0 DEF IsList
  <1>1. ASSUME NEW valid \in BOOLEAN, CreateInvoice(valid) \/ SendToken(valid)
        PROVE  UNCHANGED rest /\ Same /\ \E us : Post(us)
    BY <1>0, <1>1, PlainPosts DEF CreateInvoice, SendToken, AmountButton, Posts
  <1>2. ASSUME NEW typed \in Tokens \cup {None, Junk}, EditToken(typed)
        PROVE  UNCHANGED rest /\ Same /\ \E us : Post(us)
    BY <1>0, <1>2, PlainPosts DEF EditToken, Posts
  <1>3. ASSUME NEW typed \in Invoices \cup {Junk}, EditInvoice(typed)
        PROVE  UNCHANGED rest /\ Same /\ \E us : Post(us)
    BY <1>0, <1>3, PlainPosts DEF EditInvoice, Posts
  <1>4. ASSUME NEW job, NEW m \in Mints, ChooseMint(job, m)
        PROVE  UNCHANGED rest /\ Same /\ \E us : Post(us)
    BY <1>0, <1>4, PlainPosts DEF ChooseMint, Posts
  <1>5. ASSUME TryAgain \/ Receive \/ Reclaim \/ Pay
        PROVE  UNCHANGED rest /\ Same /\ \E us : Post(us)
    BY <1>0, <1>5, PlainPosts DEF TryAgain, Receive, Reclaim, Pay, Posts
  <1>6. ASSUME ScanStop
        PROVE  UNCHANGED rest /\ Same /\ \E us : Post(us)
    BY <1>0, <1>00, <1>6, PlainPosts DEF ScanStop
  <1>7. ASSUME NEW line \in Tokens \cup {Junk}, Scanned(line)
        PROVE  UNCHANGED rest /\ Same /\ \E us : Post(us)
    BY <1>0, <1>7, PlainPosts DEF Scanned, route_scanned, Posts
  <1>8. ASSUME NEW opened \in BOOLEAN, ScanStart(opened)
        PROVE  UiInv'
    <2>1. /\ Same /\ events' = events \o <<>>
          /\ worker' = worker /\ disk' = disk /\ mint' = mint
      BY <1>0, <1>00, <1>8 DEF ScanStart
    <2> QED
      BY <2>1, PlainPosts, Quietly
  <1>9. ASSUME UNCHANGED rest, Same, \E us : Post(us)
        PROVE  UiInv'
    BY <1>9, Callback
  <1> HIDE DEF Post, Same
  <1> QED
    BY <1>1, <1>2, <1>3, <1>4, <1>5, <1>6, <1>7, <1>8, <1>9 DEF User

LEMMA ApplyKeeps ==
    ASSUME UiInv, ApplyUpdate
    PROVE  UiInv'
  <1> DEFINE e == Head(events)
             z == Tail(events)
             S == Range(events)
  <1>1. /\ ui' = [f \in DOMAIN ui |-> IF f \in DOMAIN e THEN e[f] ELSE ui[f]]
        /\ events' = z /\ events # <<>>
        /\ worker' = worker /\ disk' = disk /\ mint' = mint
    BY DEF ApplyUpdate, rest
  <1>2. "tokenOut" \in DOMAIN ui /\ events \in Seq(S)
    BY DEF UiInv, UiShape, IsList
  <1> HIDE DEF S
  <1>3. /\ z \in Seq(S) /\ 1 \in DOMAIN events /\ e = events[1]
        /\ \A k \in DOMAIN z : k + 1 \in DOMAIN events /\ z[k] = events[k + 1]
    BY <1>1, <1>2
  <1>4. Shows(e) => Recorded(e.tokenOut, mint, worker)
    <2>1. Shows(events[1]) => Recorded(events[1].tokenOut, mint, worker)
      BY <1>3 DEF UiInv, Announced
    <2> QED
      BY <1>3, <2>1
  <1> HIDE DEF e, z
  <1>5. "tokenOut" \in DOMAIN ui' /\ ui'.tokenOut = IF "tokenOut" \in DOMAIN e THEN e.tokenOut ELSE ui.tokenOut
    BY <1>1, <1>2
  <1>6. ui.tokenOut # None => Recorded(ui.tokenOut, mint, worker)
    BY DEF UiInv, ShownTokenOnRecord, Recorded
  <1>7. ui'.tokenOut # None => Recorded(ui'.tokenOut, mint', worker')
    BY <1>1, <1>4, <1>5, <1>6 DEF Shows
  <1>8. UiShape'
    <2>1. IsList(z)
      BY <1>3, ListOf
    <2>2. IsList(events)' <=> IsList(events')
      BY DEF IsList, Range
    <2> QED
      BY <1>1, <1>5, <2>1, <2>2 DEF UiInv, UiShape
  <1>9. Announced'
    <2> SUFFICES ASSUME NEW k \in DOMAIN z, Shows(z[k])
                 PROVE  Recorded(z[k].tokenOut, mint', worker')
      BY <1>1 DEF Announced, Shows
    <2>1. \A j \in DOMAIN events : Shows(events[j]) => Recorded(events[j].tokenOut, mint, worker)
      BY DEF UiInv, Announced
    <2>2. k + 1 \in DOMAIN events /\ z[k] = events[k + 1]
      BY <1>3
    <2>3. Shows(events[k + 1]) => Recorded(events[k + 1].tokenOut, mint, worker)
      BY <2>1, <2>2
    <2> QED
      BY <1>1, <2>2, <2>3
  <1> QED
    BY <1>7, <1>8, <1>9 DEF UiInv, ShownTokenOnRecord, Recorded

\* Jobs that end without a record more or less.
LEMMA QuotesKeep ==
    ASSUME UiInv, NEW ok \in BOOLEAN, NEW answer \in Answers,
           \/ \E paid \in BOOLEAN : MintInvoice(ok, paid, answer)
           \/ MintPaid(answer) \/ Poll(ok, answer)
    PROVE  UiInv'
  <1>0. "spent" \in DOMAIN mint
    BY DEF UiInv, UiShape
  <1>1. ASSUME NEW q
        PROVE  Issues(q, answer) => "spent" \in DOMAIN mint' /\ mint'.spent = mint.spent
    BY <1>0 DEF Issues
  <1>2. ASSUME NEW paid \in BOOLEAN, MintInvoice(ok, paid, answer)
        PROVE  UiInv'
    <2>1. CASE ok /\ ensure_connected
      <3>1. PICK q :
              LET shown == [quote |-> q, qstate |-> IF paid THEN "PAID" ELSE "UNPAID"]
              IN  /\ \E state : mint' = mint_via_invoice(q, state)
                  /\ Finish(<<shown>> \o
                        (IF paid THEN IssueUpdates(answer = "ok") ELSE <<>>))
        BY <1>2, <2>1 DEF MintInvoice
      <3> DEFINE shown == [quote |-> q, qstate |-> IF paid THEN "PAID" ELSE "UNPAID"]
                 issue == IF paid THEN IssueUpdates(answer = "ok") ELSE <<>>
      <3>2. "tokenOut" \notin DOMAIN shown
        OBVIOUS
      <3>3. Plain(issue)
        BY PlainIssue, PlainPosts
      <3>4. Finish(<<shown>> \o issue)
        BY <3>1
      <3> HIDE DEF shown, issue
      <3>5. Plain(<<shown>> \o issue)
        BY <3>2, <3>3, OneUpdate, PlainJoined
      <3>6. "spent" \in DOMAIN mint' /\ mint'.spent = mint.spent
        BY <1>0, <3>1 DEF mint_via_invoice
      <3>7. UNCHANGED worker
        BY <1>2 DEF MintInvoice
      <3> QED
        BY <3>4, <3>5, <3>6, <3>7, MoreSpent
    <2>2. CASE ~(ok /\ ensure_connected)
      <3>1. Finish(<<>>) /\ UNCHANGED mint /\ UNCHANGED worker
        BY <1>2, <2>2 DEF MintInvoice
      <3> QED
        BY <1>0, <3>1, PlainPosts, MoreSpent
    <2> QED
      BY <2>1, <2>2
  <1>3. ASSUME MintPaid(answer)
        PROVE  UiInv'
    <2> DEFINE q == Head(queue).quote
               us == IF worker.engine = None THEN <<>> ELSE IssueUpdates(Issued(q, answer))
    <2>1. UNCHANGED worker /\ Issues(q, answer) /\ Finish(us)
      BY <1>3 DEF MintPaid
    <2>2. Issued(q, answer) \in BOOLEAN
      BY DEF Issued
    <2>3. Plain(us)
      BY <2>2, PlainIssue, PlainPosts
    <2> HIDE DEF us
    <2> QED
      BY <1>1, <2>1, <2>3, MoreSpent
  <1>4. ASSUME Poll(ok, answer)
        PROVE  UiInv'
    <2> DEFINE q == Head(queue).quote
               told == [qstate |-> mint.quote[q]]
               issue == IF mint.quote[q] = "PAID" THEN IssueUpdates(Issued(q, answer)) ELSE <<>>
    <2>1. UNCHANGED worker
      BY <1>4 DEF Poll
    <2>2. CASE ok /\ Here(q)
      <3>1. /\ Finish(<<told>> \o issue)
            /\ Issues(q, answer) \/ UNCHANGED mint
        BY <1>4, <2>2 DEF Poll
      <3>2. "tokenOut" \notin DOMAIN told
        OBVIOUS
      <3>3. Plain(issue)
        <4>1. Issued(q, answer) \in BOOLEAN
          BY DEF Issued
        <4> QED
          BY <4>1, PlainIssue, PlainPosts
      <3> HIDE DEF told, issue
      <3>4. Plain(<<told>> \o issue)
        BY <3>2, <3>3, OneUpdate, PlainJoined
      <3> QED
        BY <1>0, <1>1, <2>1, <3>1, <3>4, MoreSpent
    <2>3. CASE ~(ok /\ Here(q))
      <3>1. Finish(<<>>) /\ UNCHANGED mint
        BY <1>4, <2>3 DEF Poll
      <3> QED
        BY <1>0, <2>1, <3>1, PlainPosts, MoreSpent
    <2> QED
      BY <2>2, <2>3
  <1> QED
    BY <1>2, <1>3, <1>4

LEMMA TokensKeep ==
    ASSUME UiInv, NEW ok \in BOOLEAN, NEW answer \in Answers,
           Inspect(ok) \/ ReceiveToken(answer) \/ QuoteMelt(ok) \/ Melt(answer) \/ KeepMint(ok)
    PROVE  UiInv'
  <1>0. "spent" \in DOMAIN mint /\ "pending" \in DOMAIN worker /\ worker.pending \in Seq(Sends)
    BY DEF UiInv, UiShape
  <1>1. ASSUME Inspect(ok)
        PROVE  UiInv'
    <2> DEFINE u == [recv |-> "review", reviewOf |-> Head(queue).token]
               v == [recv |-> "failed", reviewOf |-> None]
    <2>1. UNCHANGED <<worker, mint>> /\ (Finish(<<>>) \/ Finish(<<u>>) \/ Finish(<<v>>))
      BY <1>1 DEF Inspect
    <2>2. "tokenOut" \notin DOMAIN u /\ "tokenOut" \notin DOMAIN v
      OBVIOUS
    <2> HIDE DEF u, v
    <2>3. Plain(<<>>) /\ Plain(<<u>>) /\ Plain(<<v>>)
      BY <2>2, OneUpdate
    <2> QED
      BY <1>0, <2>1, <2>3, MoreSpent
  <1>2. ASSUME ReceiveToken(answer)
        PROVE  UiInv'
    <2> DEFINE t == Head(queue).token
               u == [tokenIn |-> None, recv |-> "received", reviewOf |-> None]
               v == [recv |-> "failed", reviewOf |-> None]
    <2>1. UNCHANGED worker /\ (Finish(<<>>) \/ Finish(<<u>>) \/ Finish(<<v>>))
      BY <1>2 DEF ReceiveToken
    <2>2. mint' = mint \/ mint' = [mint EXCEPT !.spent = @ \cup {t}]
      BY <1>2 DEF ReceiveToken
    <2>3. "tokenOut" \notin DOMAIN u /\ "tokenOut" \notin DOMAIN v
      OBVIOUS
    <2> HIDE DEF u, v
    <2>4. Plain(<<>>) /\ Plain(<<u>>) /\ Plain(<<v>>)
      BY <2>3, OneUpdate
    <2>5. "spent" \in DOMAIN mint' /\ mint.spent \subseteq mint'.spent
      BY <1>0, <2>2
    <2> QED
      BY <2>1, <2>4, <2>5, MoreSpent
  <1>3. ASSUME QuoteMelt(ok)
        PROVE  UiInv'
    <2> DEFINE u == [info |-> Head(queue).invoice]
               v == [info |-> Failure]
    <2>1. UNCHANGED mint /\ (Finish(<<>>) \/ Finish(<<u>>) \/ Finish(<<v>>))
      BY <1>3 DEF QuoteMelt
    <2>2. "pending" \in DOMAIN worker' /\ worker'.pending = worker.pending
      BY <1>0, <1>3 DEF QuoteMelt
    <2>3. "tokenOut" \notin DOMAIN u /\ "tokenOut" \notin DOMAIN v
      OBVIOUS
    <2> HIDE DEF u, v
    <2>4. Plain(<<>>) /\ Plain(<<u>>) /\ Plain(<<v>>)
      BY <2>3, OneUpdate
    <2>5. \A s : Recorded(s, mint, worker) => Recorded(s, mint', worker')
      BY <2>1, <2>2 DEF Recorded
    <2> QED
      BY <1>0, <2>1, <2>2, <2>4, <2>5, FinishedPlainly
  <1>4. ASSUME Melt(answer)
        PROVE  UiInv'
    <2>1. UNCHANGED worker /\ Finish(<<>>) /\ "spent" \in DOMAIN mint' /\ mint'.spent = mint.spent
      BY <1>0, <1>4 DEF Melt
    <2> QED
      BY <2>1, PlainPosts, MoreSpent
  <1>5. ASSUME KeepMint(ok)
        PROVE  UiInv'
    <2>1. UNCHANGED <<worker, mint>> /\ Finish(<<>>)
      BY <1>5 DEF KeepMint
    <2> QED
      BY <1>0, <2>1, PlainPosts, MoreSpent
  <1> QED
    BY <1>1, <1>2, <1>3, <1>4, <1>5

\* Jobs that look after the pending sends.
LEMMA ConnectsKeep ==
    ASSUME UiInv, NEW ok \in BOOLEAN,
           \/ \E checked \in BOOLEAN : Connect(ok, checked)
           \/ CheckPending(ok)
           \/ \E info, opened, checked \in BOOLEAN : UseMint(info, opened, ok, checked)
    PROVE  UiInv'
  <1>0. "spent" \in DOMAIN mint /\ "pending" \in DOMAIN worker /\ worker.pending \in Seq(Sends)
    BY DEF UiInv, UiShape
  <1>1. ASSUME NEW w, "pending" \in DOMAIN w, w.pending = worker.pending, NEW yes \in BOOLEAN,
               NEW checked \in BOOLEAN, worker' = Connected(w, yes, checked), Finish(<<>>), UNCHANGED mint
        PROVE  UiInv'
    <2>1. "pending" \in DOMAIN worker' /\ worker'.pending \in Seq(Sends)
      BY <1>0, <1>1, ConnectedKeeps
    <2>2. \A s : Recorded(s, mint, worker) => Recorded(s, mint, w)
      BY <1>1 DEF Recorded
    <2>3. \A s : Recorded(s, mint, w) => Recorded(s, mint, worker')
      BY <1>0, <1>1, ConnectedKeeps
    <2>4. \A s : Recorded(s, mint, worker) => Recorded(s, mint', worker')
      BY <1>1, <2>2, <2>3
    <2> QED
      BY <1>0, <1>1, <2>1, <2>4, PlainPosts, FinishedPlainly
  <1>2. ASSUME NEW checked \in BOOLEAN, Connect(ok, checked)
        PROVE  UiInv'
    BY <1>0, <1>1, <1>2 DEF Connect
  <1>3. ASSUME CheckPending(ok)
        PROVE  UiInv'
    BY <1>0, <1>1, <1>3 DEF CheckPending
  <1>4. ASSUME NEW info \in BOOLEAN, NEW opened \in BOOLEAN, NEW checked \in BOOLEAN,
               UseMint(info, opened, ok, checked)
        PROVE  UiInv'
    <2> DEFINE m == Head(queue).mint
               new == Built([worker EXCEPT !.active = m, !.known = @ \cup {m}], opened)
    <2>1. worker' = Connected(new, ok, checked) /\ Finish(<<>>) /\ UNCHANGED mint
      BY <1>4 DEF UseMint
    <2>2. "pending" \in DOMAIN new /\ new.pending = worker.pending
      BY <1>0 DEF Built
    <2> HIDE DEF new
    <2> QED
      BY <1>1, <2>1, <2>2
  <1> QED
    BY <1>2, <1>3, <1>4

\* A send is recorded before it is shown.
LEMMA SendKeeps ==
    ASSUME UiInv, NEW ok \in BOOLEAN, MakeToken(ok)
    PROVE  UiInv'
  <1>0. "spent" \in DOMAIN mint /\ "pending" \in DOMAIN worker /\ worker.pending \in Seq(Sends)
    BY DEF UiInv, UiShape
  <1>1. CASE ok /\ ensure_connected
    <2>1. PICK s \in Sends :
            /\ mint' = [mint EXCEPT !.home[s] = worker.engine]
            /\ worker' = [worker EXCEPT !.pending = Append(@, s)]
            /\ Finish(<<[tokenOut |-> s, count |-> Len(worker'.pending)]>>)
      BY <1>1 DEF MakeToken
    <2> DEFINE u == [tokenOut |-> s, count |-> Len(worker'.pending)]
               p == worker.pending
    <2>2. "spent" \in DOMAIN mint' /\ mint'.spent = mint.spent
      BY <1>0, <2>1
    <2>3. "pending" \in DOMAIN worker' /\ worker'.pending = Append(p, s)
      BY <1>0, <2>1
    <2>4. u.tokenOut = s /\ Finish(<<u>>) /\ p \in Seq(Sends)
      BY <1>0, <2>1
    <2> HIDE DEF u, p
    <2>5. /\ Append(p, s) \in Seq(Sends)
          /\ Len(p) + 1 \in DOMAIN Append(p, s) /\ Append(p, s)[Len(p) + 1] = s
          /\ \A k \in DOMAIN p : k \in DOMAIN Append(p, s) /\ Append(p, s)[k] = p[k]
      BY <2>4
    <2>6. Recorded(s, mint', worker')
      BY <2>3, <2>5 DEF Recorded
    <2>7. \A x : Recorded(x, mint, worker) => Recorded(x, mint', worker')
      BY <2>2, <2>3, <2>5 DEF Recorded, p
    <2>8. IsList(<<u>>) /\ \A k \in DOMAIN <<u>> : <<u>>[k] = u
      BY OneUpdate
    <2>9. \A k \in DOMAIN <<u>> : Shows(<<u>>[k]) => Recorded(<<u>>[k].tokenOut, mint', worker')
      BY <2>4, <2>6, <2>8
    <2> QED
      BY <2>2, <2>3, <2>4, <2>5, <2>7, <2>8, <2>9, Finished
  <1>2. CASE ~(ok /\ ensure_connected)
    <2>1. UNCHANGED <<worker, mint>> /\ Finish(<<>>)
      BY <1>2 DEF MakeToken
    <2> QED
      BY <1>0, <2>1, PlainPosts, MoreSpent
  <1> QED
    BY <1>1, <1>2

\* The first record is dropped only when its token is spent by then.
LEMMA ReclaimKeeps ==
    ASSUME UiInv, NEW answer \in Answers, NEW probed \in BOOLEAN, ReclaimFirst(answer, probed)
    PROVE  UiInv'
  <1>0. "spent" \in DOMAIN mint /\ "pending" \in DOMAIN worker /\ worker.pending \in Seq(Sends)
    BY DEF UiInv, UiShape
  <1> DEFINE p == worker.pending
             s == Head(p)
             taken == answer = "ok" /\ ensure_connected /\ Here(s) /\ s \notin mint.spent
             dropped == taken \/ (probed /\ ensure_connected /\ Finalized(s, answer))
  <1>1. CASE worker.engine = None \/ p = <<>>
    <2>1. UNCHANGED <<worker, mint>> /\ Finish(<<>>)
      BY <1>1 DEF ReclaimFirst
    <2> QED
      BY <1>0, <2>1, PlainPosts, MoreSpent
  <1>2. CASE ~(worker.engine = None \/ p = <<>>)
    <2> DEFINE u == [tokenOut |-> None, count |-> Len(worker'.pending)]
               v == [count |-> Len(worker'.pending)]
    <2>1. /\ mint' = IF ensure_connected /\ Here(s) /\ answer # "error"
                     THEN [mint EXCEPT !.spent = @ \cup {s}] ELSE mint
          /\ worker' = IF dropped THEN [worker EXCEPT !.pending = Tail(@)] ELSE worker
          /\ Finish(<<u>>) \/ Finish(<<v>>)
      BY <1>2 DEF ReclaimFirst
    <2>2. /\ "spent" \in DOMAIN mint' /\ mint.spent \subseteq mint'.spent
          /\ ensure_connected /\ Here(s) /\ answer # "error" => s \in mint'.spent
      BY <1>0, <2>1
    <2>3. dropped => s \in mint'.spent
      BY <2>2 DEF Finalized
    <2>4. /\ "pending" \in DOMAIN worker'
          /\ worker'.pending = p \/ (dropped /\ worker'.pending = Tail(p))
      BY <1>0, <2>1
    <2>5. p \in Seq(Sends) /\ p # <<>> /\ s = Head(p)
      BY <1>0, <1>2
    <2>6. /\ u.tokenOut = None /\ "tokenOut" \notin DOMAIN v
      OBVIOUS
    <2> HIDE DEF u, v, p, s, dropped
    <2>7. /\ Tail(p) \in Seq(Sends)
          /\ \A k \in DOMAIN p : p[k] = s \/ \E j \in DOMAIN Tail(p) : Tail(p)[j] = p[k]
      <3>1. ASSUME NEW k \in DOMAIN p
            PROVE  p[k] = s \/ \E j \in DOMAIN Tail(p) : Tail(p)[j] = p[k]
        <4>1. CASE k = 1
          BY <2>5, <4>1
        <4>2. CASE k # 1
          <5>1. k - 1 \in DOMAIN Tail(p) /\ Tail(p)[k - 1] = p[k]
            BY <2>5, <3>1, <4>2
          <5> QED
            BY <5>1
        <4> QED
          BY <4>1, <4>2
      <3> QED
        BY <2>5, <3>1
    <2>8. worker'.pending \in Seq(Sends)
      BY <2>4, <2>5, <2>7
    <2>9. ASSUME NEW x, Recorded(x, mint, worker)
          PROVE  Recorded(x, mint', worker')
      <3>1. CASE x \in mint.spent
        BY <2>2, <3>1 DEF Recorded
      <3>2. CASE \E k \in DOMAIN p : p[k] = x
        BY <2>3, <2>4, <2>7, <3>2 DEF Recorded
      <3> QED
        BY <2>9, <3>1, <3>2 DEF Recorded, p
    <2>10. /\ IsList(<<u>>) /\ \A k \in DOMAIN <<u>> : ~Shows(<<u>>[k])
           /\ IsList(<<v>>) /\ \A k \in DOMAIN <<v>> : ~Shows(<<v>>[k])
      BY <2>6, OneUpdate DEF Shows
    <2> QED
      BY <2>1, <2>2, <2>4, <2>8, <2>9, <2>10, Finished
  <1> QED
    BY <1>1, <1>2

LEMMA WorldKeeps ==
    ASSUME UiInv, World \/ MeltPanics \/ QuotePoller \/ PendingChecker \/ UNCHANGED uiVars
    PROVE  UiInv'
  <1>0. /\ "spent" \in DOMAIN mint /\ "pending" \in DOMAIN worker
        /\ worker.pending \in Seq(Sends) /\ disk.pending \in Seq(Sends)
        /\ "tokenOut" \in DOMAIN ui /\ IsList(events)
    BY DEF UiInv, UiShape
  <1>1. events \o <<>> = events /\ Plain(<<>>)
    BY <1>0, PlainPosts DEF IsList
  <1>2. CASE MeltPanics \/ QuotePoller \/ PendingChecker \/ UNCHANGED uiVars
    <2>1. events' = events /\ ui' = ui /\ worker' = worker /\ disk' = disk /\ mint' = mint
      BY <1>2 DEF MeltPanics, QuotePoller, PendingChecker, Tick, rest, uiVars
    <2> QED
      BY <1>0, <1>1, <2>1, Quietly
  <1>3. ASSUME events' = events, ui' = ui, worker' = worker, disk' = disk,
               "spent" \in DOMAIN mint', mint.spent \subseteq mint'.spent
        PROVE  UiInv'
    <2>1. \A s : Recorded(s, mint, worker) => Recorded(s, mint', worker')
      BY <1>3 DEF Recorded
    <2>2. IsList(<<>>) /\ \A k \in DOMAIN <<>> : ~Shows(<<>>[k])
      BY <1>1 DEF Plain, Shows
    <2> QED
      BY <1>0, <1>1, <1>3, <2>1, <2>2, Posted
  <1>4. ASSUME NEW q \in Quotes, PayerPays(q)
        PROVE  UiInv'
    BY <1>0, <1>3, <1>4 DEF PayerPays
  <1>5. ASSUME NEW s \in Sends, Claim(s)
        PROVE  UiInv'
    BY <1>0, <1>3, <1>5 DEF Claim
  <1>6. ASSUME NEW opened \in BOOLEAN, Restart(opened)
        PROVE  UiInv'
    <2>1. ui' = Blank /\ events' = <<>> /\ worker' = Booted(disk, opened) /\ UNCHANGED <<disk, mint>>
      BY <1>6 DEF Restart
    <2>2. /\ "tokenOut" \in DOMAIN ui' /\ ui'.tokenOut = None
          /\ "pending" \in DOMAIN worker' /\ worker'.pending = disk.pending
      BY <2>1 DEF Blank, Booted
    <2>3. IsList(events)'
      <3>1. IsList(events)' <=> IsList(events')
        BY DEF IsList, Range
      <3> QED
        BY <2>1, <3>1, OneUpdate
    <2>4. UiShape'
      BY <1>0, <2>1, <2>2, <2>3 DEF UiShape
    <2> QED
      BY <2>1, <2>2, <2>4 DEF UiInv, Announced, ShownTokenOnRecord
  <1> QED
    BY <1>2, <1>4, <1>5, <1>6 DEF World

LEMMA UiInvariant == UiSpec => []UiInv
  <1>1. UiInv /\ [UiNext]_uiVars => UiInv'
    <2> SUFFICES ASSUME UiInv, [UiNext]_uiVars
                 PROVE  UiInv'
      OBVIOUS
    <2>1. ASSUME NEW ok \in BOOLEAN, NEW answer \in Answers, Works(ok, answer)
          PROVE  UiInv'
      BY <2>1, QuotesKeep, TokensKeep, ConnectsKeep, SendKeeps, ReclaimKeeps DEF Works
    <2> QED
      BY <2>1, UserKeeps, ApplyKeeps, WorldKeeps DEF UiNext, Work
  <1> QED
    BY <1>1, UiStart, PTL DEF UiSpec

\* The token the screen shows can be taken back or its value has moved:
\* on_send_token has the engine's record before it posts the token, and no
\* job (reclaim, the pending check, a change of mint) drops a record whose
\* token is not spent at its mint, whatever is queued when.
THEOREM ShownIsRecorded == UiSpec => []ShownTokenOnRecord
  <1>1. UiInv => ShownTokenOnRecord
    BY DEF UiInv
  <1> QED
    BY <1>1, UiInvariant, PTL
=============================================================================
