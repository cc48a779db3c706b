------------------------------ MODULE Adapter ------------------------------
(***************************************************************************)
(* The HTTP audit adapter (micronuts-audit-adapter main.rs) in front of    *)
(* the stdio mint (mint_server: demo_roles.rs, rpc.rs).  Every HTTP        *)
(* request is an async handler; handlers share one mint process through a  *)
(* mutex, and a NUT-19 cache of the 200 bodies of /v1/mint and /v1/swap.   *)
(* The wallets among the clients come through WireMintClient (mint_wire.rs) *)
(* over ureq (http.rs) or the ESP-IDF client (http_transport.rs).          *)
(*                                                                         *)
(* One action per stretch between two awaits.  The server drops a          *)
(* handler's future when its client disconnects, at any await: what it had *)
(* written to the mint or read from it stays written or read.              *)
(***************************************************************************)
EXTENDS Naturals, Sequences

CONSTANTS
    Clients,    \* HTTP connections
    Wallets,    \* those of them that are a wallet's WireMintClient
    Requests,   \* the requests they make: [path, body]
    MaxCalls    \* bound: requests made in a behaviour

Malformed == "malformed"

VARIABLES
    handler,   \* per connection, the handler in progress
    next_id,   \* MintProcess.next_id
    holder,    \* who holds the mint mutex
    cache,     \* nut19_cache: the requests with a cached 200 body
    text,      \* frames written to the mint's stdin since the last newline
    lines,     \* lines in the mint's stdin
    out,       \* lines in the mint's stdout
    alive,     \* mint_server runs
    done,      \* the mint's state: requests it has carried out
    calls,     \* requests made so far
    reply,     \* per connection, the last response
    served     \* requests some client has had a 200 for

vars == <<handler, next_id, holder, cache, text, lines, out, alive, done, calls,
          reply, served>>

Nobody == "nobody"

ASSUME ClientsAssumption == Nobody \notin Clients /\ Wallets \subseteq Clients

Idle == [at |-> "idle"]
NoReply == [code |-> "none"]
-----------------------------------------------------------------------------
(* The routes.                                                             *)

\* get_info, get_keys, get_keys_for_id and get_keysets: no body to parse.
InfoRoutes == {"get_info", "get_keys", "get_keysets"}

\* The quote routes: a quote request, a lookup and a batched lookup.
MintQuoteRoutes == {"post_mint_quote", "get_mint_quote", "post_mint_quote_check"}

MeltQuoteRoutes == {"post_melt_quote", "get_melt_quote"}

StateRoutes == {"post_checkstate", "post_restore"}

\* post_mint and post_swap go through cached_post.
CachedRoutes == {"post_mint", "post_swap"}

\* post_melt and post_mint_batch spend or issue as well and do not.
UncachedSpends == {"post_melt", "post_mint_batch"}

Routes == InfoRoutes \cup MintQuoteRoutes \cup MeltQuoteRoutes \cup StateRoutes
          \cup CachedRoutes \cup UncachedSpends

\* The RPC each route asks of the mint.
MintRpcMethod ==
    [get_info |-> "GetInfo", get_keys |-> "GetKeys", get_keysets |-> "GetKeysets",
     post_mint_quote |-> "MintQuote", get_mint_quote |-> "GetMintQuote",
     post_mint_quote_check |-> "BatchCheckMintQuotes", post_mint |-> "Mint",
     post_mint_batch |-> "BatchMint", post_melt_quote |-> "MeltQuote",
     get_melt_quote |-> "GetMeltQuote", post_melt |-> "Melt", post_swap |-> "Swap",
     post_checkstate |-> "CheckState", post_restore |-> "Restore"]

\* The routes that change the mint once: it refuses them a second time.
Spends == CachedRoutes \cup UncachedSpends

\* parse_mint_quote_request ... parse_batch_mint_request: a missing or
\* ill-typed field is a bad_request, and nothing reaches the mint.
parse_mint_side(r) == r.body # Malformed

\* parse_swap_request ... parse_restore_request.
parse_spend_side(r) == r.body # Malformed

\* parse_proof, parse_blinded_message and the public keys in both.
parse_request(r) ==
    CASE r.path \in InfoRoutes -> TRUE
      [] r.path \in MintQuoteRoutes \cup {"post_mint", "post_mint_batch"} -> parse_mint_side(r)
      [] OTHER -> parse_spend_side(r)

\* A payload is an error or the result of one of the methods.
MintRpcResult(answer) == IF answer.ok THEN answer.result ELSE "Error"

\* unexpected_result_response: another method's result is a 500.
unexpected_result_response(answer) == [code |-> "UNEXPECTED_RPC_RESULT", of |-> answer.req]

\* The *_to_json translators: the body of a 200 carries the mint's result.
to_json(answer, r) ==
    IF MintRpcResult(answer) = MintRpcMethod[r.path]
    THEN [code |-> "OK", of |-> answer.req]
    ELSE unexpected_result_response(answer)

\* cashu_error_to_response: the mint's error as a 4xx or 5xx with a code of
\* its own, which map_mint_error knows.
cashu_error_to_response(answer) == [code |-> "MINT_ERROR", of |-> answer.req]

\* bad_request: a 400 whose code is none of the mint's.
bad_request(r) == [code |-> "BAD_REQUEST", of |-> r]

\* The MINT_UNAVAILABLE body of call_mint.
unavailable(r) == [code |-> "MINT_UNAVAILABLE", of |-> r]
-----------------------------------------------------------------------------
(* What the mint advertises, NUT-06.                                       *)

\* demo_nuts: the settings of each NUT, of which the cached endpoints matter.
demo_nuts ==
    [n \in {"3", "4", "5", "6", "7", "9", "10", "11", "19", "20", "29"} |->
        [cached_endpoints |-> IF n = "19" THEN {"post_mint", "post_swap"} ELSE {}]]

\* mint_info_to_json writes the endpoints of NUT-19 and of no other.
mint_info_to_json(nuts) ==
    [n \in DOMAIN nuts |->
        IF n = "19" THEN [cached_endpoints |-> nuts[n].cached_endpoints] ELSE <<>>]

\* parse_nut_settings: what is not in the document is empty.
parse_nut_settings(settings) ==
    IF "cached_endpoints" \in DOMAIN settings THEN settings.cached_endpoints ELSE {}

\* parse_mint_info: the endpoints a wallet takes for cached.
Advertised ==
    LET info == mint_info_to_json(demo_nuts)
    IN UNION {parse_nut_settings(info[n]) : n \in DOMAIN info}
-----------------------------------------------------------------------------
(* The wallet's end.                                                       *)

\* The methods of WireMintClient for keys, quotes and minting ...
wire_mint_side == InfoRoutes \cup {"post_mint_quote", "get_mint_quote", "post_mint"}

\* ... and for melting, swapping, proof states and restore.  There are no
\* batches.
wire_spend_side == MeltQuoteRoutes \cup StateRoutes \cup {"post_melt", "post_swap"}

\* blinded_message_to_json, proof_to_json, urlencode: its bodies are complete.
to_wire(c) ==
    IF c \in Wallets
    THEN {r \in Requests : r.path \in wire_mint_side \cup wire_spend_side /\ r.body # Malformed}
    ELSE Requests

\* parse_signatures ... parse_mint_info: the strict fields are those the
\* adapter writes.
parse_body(response) == [is |-> "ok", of |-> response.of]

\* map_mint_error: the adapter's error codes; MINT_UNAVAILABLE is none of them.
map_mint_error(response) ==
    [is |-> IF response.code = "MINT_ERROR" THEN "refused" ELSE "Protocol", of |-> response.of]

\* What a call of the wallet returns: read_json_body over ureq.  No response
\* within the timeout is a transport error.
read_json_body(response) ==
    CASE response.code = "none"   -> [is |-> "Transport"]
      [] response.code = "OK" -> parse_body(response)
      [] OTHER                 -> map_mint_error(response)

\* round_trip over the ESP-IDF client does not look at the error code.
round_trip(response) ==
    CASE response.code = "none"   -> [is |-> "Transport"]
      [] response.code = "OK" -> parse_body(response)
      [] OTHER                 -> [is |-> "Protocol", of |-> response.of]
-----------------------------------------------------------------------------
(* The mint process.                                                       *)

\* handle_request: dispatch to the service, answer under the request's id.
\* A spend happens once; the mint may also refuse it for reasons of its own.
handle_request(frame, takes) ==
    LET fresh == frame.req.path \in Spends /\ frame.req \notin done
    IN [id   |-> frame.id, req |-> frame.req, whole |-> TRUE,
        result |-> MintRpcMethod[frame.req.path],
        ok   |-> frame.req.path \notin Spends \/ (fresh /\ takes)]

\* What the mint keeps of it.
carried_out(frame, takes) ==
    IF frame.req.path \in Spends /\ takes THEN done \cup {frame.req} ELSE done

\* Mutant: a line that does not decode is skipped.
skip_line == UNCHANGED <<alive, out, done>>

\* handle_demo_mint_hex_request_line fails and run_mint_server_stdio returns
\* the error: the process ends.
refuse_line ==
    /\ alive' = FALSE
    /\ UNCHANGED <<out, done>>

\* run_mint_server_stdio for one line.  The decoder reads the line's first
\* frame and ignores what follows it; a frame cut short runs into the next
\* one and does not decode.
Serve(takes) ==
    /\ alive
    /\ lines # <<>>
    /\ lines' = Tail(lines)
    /\ LET frame == Head(Head(lines))
       IN \/ /\ frame.whole
             /\ out' = Append(out, handle_request(frame, takes))
             /\ done' = carried_out(frame, takes)
             /\ UNCHANGED alive
          \/ /\ ~frame.whole
             /\ refuse_line
    /\ UNCHANGED <<handler, next_id, holder, cache, text, calls, reply, served>>

\* A panic in the mint (persist refuses to go on without its state file) or a
\* kill; nothing restarts it.
MintDies ==
    /\ alive
    /\ alive' = FALSE
    /\ UNCHANGED <<handler, next_id, holder, cache, text, lines, out, done, calls,
                   reply, served>>
-----------------------------------------------------------------------------
(* The handlers.                                                           *)

At(c, step) == handler[c].at = step

\* The response goes out and the connection is free.
Respond(c, h, r) ==
    /\ handler' = [handler EXCEPT ![c] = Idle]
    /\ reply' = [reply EXCEPT ![c] = [code |-> r.code, of |-> r.of,
                                     to |-> h.req, after |-> h.after]]
    /\ served' = IF r.code = "OK" THEN served \cup {h.req} ELSE served

\* From the parse of the body to the mint's mutex, or to the 400.
Ask(c, h) ==
    \/ /\ parse_request(h.req)
       /\ handler' = [handler EXCEPT ![c] = [h EXCEPT !.at = "lock"]]
       /\ reply' = [reply EXCEPT ![c] = NoReply]
       /\ UNCHANGED served
    \/ /\ ~parse_request(h.req)
       /\ Respond(c, h, bad_request(h.req))

\* A request comes in; a cached route first waits for the cache's lock.
Arrive(c, r) ==
    /\ calls < MaxCalls
    /\ At(c, "idle")
    /\ calls' = calls + 1
    /\ LET h == [at |-> "lookup", req |-> r, after |-> r \in served]
       IN \/ /\ r.path \in CachedRoutes
             /\ handler' = [handler EXCEPT ![c] = h]
             /\ reply' = [reply EXCEPT ![c] = NoReply]
             /\ UNCHANGED served
          \/ /\ r.path \notin CachedRoutes
             /\ Ask(c, h)
    /\ UNCHANGED <<next_id, holder, cache, text, lines, out, alive, done>>

\* cached_post's lookup; the cache's lock is released before the handler runs.
Lookup(c) ==
    /\ At(c, "lookup")
    /\ LET key == handler[c].req
       IN \/ /\ key \in cache
             /\ Respond(c, handler[c], [code |-> "OK", of |-> key])
          \/ /\ key \notin cache
             /\ Ask(c, handler[c])
    /\ UNCHANGED <<next_id, holder, cache, text, lines, out, alive, done, calls>>

\* call_mint takes the mint's mutex and call_raw a request id.
Lock(c) ==
    /\ At(c, "lock")
    /\ holder = Nobody
    /\ holder' = c
    /\ handler' = [handler EXCEPT ![c] = [at |-> "frame", req |-> handler[c].req,
                                          after |-> handler[c].after, id |-> next_id]]
    /\ next_id' = next_id + 1
    /\ UNCHANGED <<cache, text, lines, out, alive, done, calls, reply, served>>

Frame(c, whole) == [id |-> handler[c].id, req |-> handler[c].req, whole |-> whole]

\* call_raw's error returns: 503, and the guard is dropped.
Unavailable(c) ==
    /\ holder' = Nobody
    /\ Respond(c, handler[c], unavailable(handler[c].req))

\* write_all of the hex frame.
WriteFrame(c) ==
    /\ At(c, "frame")
    /\ \/ /\ alive
          /\ text' = Append(text, Frame(c, TRUE))
          /\ handler' = [handler EXCEPT ![c].at = "newline"]
          /\ UNCHANGED <<holder, reply, served>>
       \/ /\ ~alive
          /\ Unavailable(c)
          /\ UNCHANGED text
    /\ UNCHANGED <<next_id, cache, lines, out, alive, done, calls>>

\* write_all of the newline, and the flush.
WriteNewline(c) ==
    /\ At(c, "newline")
    /\ \/ /\ alive
          /\ lines' = Append(lines, text)
          /\ text' = <<>>
          /\ handler' = [handler EXCEPT ![c].at = "read"]
          /\ UNCHANGED <<holder, reply, served>>
       \/ /\ ~alive
          /\ Unavailable(c)
          /\ UNCHANGED <<text, lines>>
    /\ UNCHANGED <<next_id, cache, out, alive, done, calls>>

\* Mutant: the response's id is not compared.
any_response(c, line) == line.whole

\* call_raw takes a line for its answer when it decodes and has its id.
own_response(c, line) == line.whole /\ line.id = handler[c].id

\* Mutant: the body is answered and never stored.
no_insert(c) == UNCHANGED cache

\* cached_post's insert, under a second lock, before the 200 goes out.
insert(c) == cache' = cache \cup {handler[c].req}

\* read_line and what call_raw and call_mint make of the line.
Read(c) ==
    /\ At(c, "read")
    /\ \/ /\ out # <<>>
          /\ out' = Tail(out)
          /\ LET line == Head(out)
             IN \/ /\ ~own_response(c, line)
                   /\ Unavailable(c)
                \/ /\ own_response(c, line)
                   /\ holder' = Nobody
                   /\ LET r == handler[c].req
                          response == IF line.ok THEN to_json(line, r)
                                      ELSE cashu_error_to_response(line)
                          stored == response.code = "OK" /\ r.path \in CachedRoutes
                      IN \/ /\ ~stored
                            /\ Respond(c, handler[c], response)
                         \/ /\ stored
                            /\ handler' = [handler EXCEPT ![c] =
                                   [at |-> "insert", req |-> r,
                                    after |-> handler[c].after, body |-> response]]
                            /\ UNCHANGED <<reply, served>>
       \/ /\ out = <<>> /\ ~alive          \* end of file
          /\ Unavailable(c)
          /\ UNCHANGED out
    /\ UNCHANGED <<next_id, cache, text, lines, alive, done, calls>>

Insert(c) ==
    /\ At(c, "insert")
    /\ insert(c)
    /\ Respond(c, handler[c], handler[c].body)
    /\ UNCHANGED <<next_id, holder, text, lines, out, alive, done, calls>>

\* The client disconnects (a wallet's call has timed out): the future is
\* dropped with the guard it holds.  A write in progress may have sent a part
\* of the frame, a read in progress may have taken a part of the line.
Disconnect(c, partly) ==
    /\ ~At(c, "idle")
    /\ handler' = [handler EXCEPT ![c] = Idle]
    /\ holder' = IF holder = c THEN Nobody ELSE holder
    /\ \/ /\ ~partly
          /\ UNCHANGED <<text, out>>
       \/ /\ partly /\ At(c, "frame") /\ alive
          /\ text' = Append(text, Frame(c, FALSE))
          /\ UNCHANGED out
       \/ /\ partly /\ At(c, "read") /\ out # <<>>
          /\ out' = [out EXCEPT ![1].whole = FALSE]
          /\ UNCHANGED text
    /\ UNCHANGED <<next_id, cache, lines, alive, done, calls, reply, served>>
-----------------------------------------------------------------------------
Init ==
    /\ handler = [c \in Clients |-> Idle]
    /\ next_id = 1
    /\ holder = Nobody
    /\ cache = {}
    /\ text = <<>> /\ lines = <<>> /\ out = <<>>
    /\ alive = TRUE
    /\ done = {}
    /\ calls = 0
    /\ reply = [c \in Clients |-> NoReply]
    /\ served = {}

Step(c) == Lookup(c) \/ Lock(c) \/ WriteFrame(c) \/ WriteNewline(c)
           \/ Read(c) \/ Insert(c)

Next ==
    \/ \E c \in Clients : Step(c) \/ \E r \in to_wire(c) : Arrive(c, r)
    \/ \E c \in Clients, partly \in BOOLEAN : Disconnect(c, partly)
    \/ \E takes \in BOOLEAN : Serve(takes)
    \/ MintDies

\* The runtime polls every handler that can go on, its mutex is first come
\* first served, and the system runs the mint process.
Fairness ==
    /\ \A c \in Clients : SF_vars(Step(c))
    /\ WF_vars(\E takes \in BOOLEAN : Serve(takes))

Spec == Init /\ [][Next]_vars /\ Fairness
-----------------------------------------------------------------------------
\* What a wallet's call returns as the mint's word, a result or a refusal, is
\* what the mint (or the cache) answered to that very request, and the mint has
\* carried out every spend it reports as done, although dropped handlers leave
\* answers of theirs in the pipe for the next one to read.
AnswersOwnRequest ==
    \A c \in Clients : \A res \in {read_json_body(reply[c]), round_trip(reply[c])} :
        res.is \in {"ok", "refused"} =>
            /\ res.of = reply[c].to
            /\ res.is = "ok" /\ res.of.path \in Spends => res.of \in done

\* NUT-19: once a 200 to a request the mint advertises as cached has gone out,
\* every request that comes in later with the same body is answered with that
\* 200, whatever else is in flight, also when the mint has died.
RepeatsAnswer ==
    \A c \in Clients :
        reply[c].code # "none" /\ reply[c].to.path \in Advertised /\ reply[c].after
            => reply[c].code = "OK"

\* Every request is answered unless its client goes away: no dropped handler,
\* garbled line or dead mint leaves another handler waiting for a line.
RequestsEnd == \A c \in Clients : ~At(c, "idle") ~> At(c, "idle")
=============================================================================
