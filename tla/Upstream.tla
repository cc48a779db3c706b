------------------------------ MODULE Upstream ------------------------------
(***************************************************************************)
(* The upstream backend of the mint (micronuts-mint upstream.rs): an       *)
(* upstream Cashu mint settles the front mint's Lightning.  Deposits are   *)
(* upstream mint quotes; payments melt the proofs of a reserve wallet      *)
(* (reserve.rs), which tops itself up.                                     *)
(*                                                                         *)
(* pay() is one action per HTTP request with what it does on the answer,   *)
(* between the two persists of the front mint's post_melt (MintCore): the  *)
(* front quote is durably PENDING before and settled after.  Requests and  *)
(* replies may be lost, the upstream mint may answer PENDING and decide    *)
(* later, and the process may die anywhere.                                *)
(***************************************************************************)
EXTENDS Amounts

CONSTANTS
    Invoices,       \* invoices the front mint is asked to pay ...
    Needed,         \* ... and the upstream quote's amount and fee reserve
    Deposits,       \* invoices handed out for the front mint's mint quotes
    BootstrapSats,  \* bootstrap_sats: the margin of a top-up
    FeePpk,         \* the upstream keyset's input fee
    Urls,           \* upstream mints an operator may configure
    Home,           \* the one the reserve was started with
    Tries,          \* polls of a top-up quote before it is given up
    MaxProofs       \* bound: reserve proofs made in a behaviour

ASSUME UpstreamAssumption ==
    /\ Needed \in [Invoices -> Nat \ {0}]
    /\ BootstrapSats \in Nat /\ FeePpk \in Nat /\ Home \in Urls
    /\ Tries \in Nat \ {0} /\ MaxProofs \in Nat

VARIABLES
    up,        \* the front mint's process runs
    mem,       \* the reserve's proofs
    disk,      \* the reserve's state file
    cached,    \* melt_quotes: invoices with a cached upstream melt quote
    mapped,    \* mint_quotes: deposit invoices the backend can look up
    call,      \* the pay() call in progress
    front,     \* the front mint's durable melt quotes
    deposit,   \* its durable mint quotes
    remote,    \* the upstream mint: state of melt quotes, paid deposits,
               \* spent proofs and those a pending melt holds
    serial,    \* proofs made so far: secrets are random, never repeated
    credited,  \* proofs the reserve has ever unblinded
    torn,      \* those of a top-up that failed half way, until a save
    gone,      \* proofs given up: parked with an ambiguous melt, or torn
               \* and in memory only when the process died
    silent     \* a melt's answer was never heard, or heard by a process
               \* that died

vars == <<up, mem, disk, cached, mapped, call, front, deposit, remote, serial,
          credited, torn, gone, silent>>

Idle == [step |-> "idle"]

\* The proofs the upstream mint would not take in another melt.
Taken == remote.spent \cup UNION {remote.held[i] : i \in Invoices}

Ready == up /\ call = Idle
Calling(step) == up /\ call.step = step

\* The state file names the mint the proofs are of; save replaces it at once
\* (temporary file, sync, rename) or the process panics.
snapshot(url, proofs) == [url |-> url, proofs |-> proofs]

Saved(proofs) == disk' = snapshot(disk.url, proofs) /\ torn' = {}

\* append_unblinded pushes proof by proof: the first n of the outputs, up to
\* the signature that is missing, of an unknown amount or no point.  Unless
\* it got to the last of them it returns an error, and keeps what it pushed.
append_unblinded(amounts, n) ==
    {p \in Numbered(serial + 1, amounts) : p[1] <= serial + n}

\* What may become of an HTTP exchange: it fails or times out, ends with a
\* status of 400 and up, with no JSON, or with fields of the wrong type.
Http == {"ok", "failed", "status", "no json", "bad field"}

upstream_get(http) == http \notin {"failed", "status", "no json"}

json_fields(http) == http # "bad field"

Answered(http) == upstream_get(http) /\ json_fields(http)

world == <<deposit, remote>>
ghosts == <<credited, torn, gone, silent>>
-----------------------------------------------------------------------------
(* The front mint.                                                         *)

\* create_invoice for a mint quote.
CreateInvoice(d) ==
    /\ Ready
    /\ deposit[d] = "NONE"
    /\ deposit' = [deposit EXCEPT ![d] = "UNPAID"]
    /\ mapped' = mapped \cup {d}
    /\ UNCHANGED <<up, mem, disk, cached, call, front, remote, serial, ghosts>>

\* Mutant: an upstream blip counts as paid.
SettledOnBlip(d, answered) == ~answered \/ d \in remote.deposits

\* What is_settled makes of the poll: an upstream blip is "not yet".
SettledUpstream(d, answered) == answered /\ d \in remote.deposits

\* is_settled in the front mint's refresh.  An invoice the map does not have
\* (the map is lost at every restart) is an error and changes nothing.
IsSettled(d, answered) ==
    /\ Ready
    /\ deposit[d] = "UNPAID"
    /\ d \in mapped
    /\ SettledUpstream(d, answered)
    /\ deposit' = [deposit EXCEPT ![d] = "PAID"]
    /\ UNCHANGED <<up, mem, disk, cached, mapped, call, front, remote, serial, ghosts>>

\* lookup_amount in the front mint's post_melt_quote.
PostMeltQuote(i) ==
    /\ Ready
    /\ front[i] = "NONE"
    /\ front' = [front EXCEPT ![i] = "UNPAID"]
    /\ cached' = cached \cup {i}
    /\ UNCHANGED <<up, mem, disk, mapped, call, world, serial, ghosts>>

\* post_melt up to its persist, and the call of pay_invoice.
PostMelt(i) ==
    /\ Ready
    /\ front[i] = "UNPAID"
    /\ front' = [front EXCEPT ![i] = "PENDING"]
    /\ call' = [step |-> "lookup", inv |-> i]
    /\ UNCHANGED <<up, mem, disk, cached, mapped, world, serial, ghosts>>

\* post_melt after pay_invoice: PAID after Ok, FAILED and the inputs
\* released after any Err.
Settle ==
    /\ Calling("settle")
    /\ front' = [front EXCEPT ![call.inv] = IF call.ok THEN "PAID" ELSE "FAILED"]
    /\ call' = Idle
    /\ UNCHANGED <<up, mem, disk, cached, mapped, world, serial, ghosts>>
-----------------------------------------------------------------------------
(* pay_invoice and ReserveWallet::pay.                                     *)

Returns(ok) == call' = [step |-> "settle", inv |-> call.inv, ok |-> ok]

\* pay_invoice: the cached quote, or a new look-up; then the balance decides
\* whether the reserve tops itself up.
Lookup(answered) ==
    /\ Calling("lookup")
    /\ IF call.inv \in cached \/ answered
       THEN /\ cached' = cached \cup {call.inv}
            /\ call' = [call EXCEPT !.step =
                  IF Sum(mem) < Needed[call.inv] THEN "quote" ELSE "select"]
       ELSE Returns(FALSE) /\ UNCHANGED cached
    /\ UNCHANGED <<up, mem, disk, mapped, front, world, serial, ghosts>>

TopUp == Needed[call.inv] - Sum(mem) + BootstrapSats

\* bootstrap: keyset and mint quote.
TopUpQuote(answered) ==
    /\ Calling("quote")
    /\ IF answered
       THEN call' = [step |-> "poll", inv |-> call.inv, tries |-> Tries]
       ELSE Returns(FALSE)
    /\ UNCHANGED <<up, mem, disk, cached, mapped, front, world, serial, ghosts>>

\* Mutant: the poll starts over instead of giving up.
PollAgain(tries) == [call EXCEPT !.tries = IF tries = 1 THEN Tries ELSE tries - 1]

\* An unpaid answer: another try, or the end of the tries.
Unpaid(tries) ==
    IF tries = 1 THEN [step |-> "settle", inv |-> call.inv, ok |-> FALSE]
    ELSE [call EXCEPT !.tries = tries - 1]

\* poll_until_paid: paid by somebody, an HTTP error, or another try.
TopUpPoll(answer) ==
    /\ Calling("poll")
    /\ CASE answer = "paid"   -> call' = [step |-> "mint", inv |-> call.inv]
         [] answer = "error"  -> Returns(FALSE)
         [] answer = "unpaid" -> call' = Unpaid(call.tries)
    /\ UNCHANGED <<up, mem, disk, cached, mapped, front, world, serial, ghosts>>

\* The sum append_unblinded compares is that of all the outputs.
Whole(amounts, n) == n = Len(amounts)

\* The rest of bootstrap: mint, unblind, persist.  When the answer is lost
\* the signatures are, too: the secrets are random and not kept.  When only
\* the first n proofs can be unblinded bootstrap returns before its persist:
\* they stay in memory, to be used, and the file does not have them.
TopUpMint(answered, n) ==
    LET amounts == Decompose(TopUp)
        fresh   == append_unblinded(amounts, n)
    IN  /\ Calling("mint")
        /\ serial + Len(amounts) <= MaxProofs
        /\ n <= IF answered THEN Len(amounts) ELSE 0
        /\ mem' = mem \cup fresh
        /\ credited' = credited \cup fresh
        /\ serial' = serial + n
        /\ IF answered /\ Whole(amounts, n)
           THEN Saved(mem') /\ call' = [step |-> "select", inv |-> call.inv]
           ELSE torn' = torn \cup fresh /\ Returns(FALSE) /\ UNCHANGED disk
        /\ UNCHANGED <<up, cached, mapped, front, world, gone, silent>>

\* select_covering with the buffer of 5% and 1 sat, and the change left
\* after the input fee; an underflow is an error.
Select ==
    LET needed == Needed[call.inv]
    IN  /\ Calling("select")
        /\ \E sel \in SmallestFirst(mem, needed + needed \div 20 + 1) :
              LET change == Sum(sel) - needed - FeeOf(FeePpk, Cardinality(sel))
              IN  IF Sum(sel) < needed \/ change < 0
                  THEN Returns(FALSE)
                  ELSE /\ serial + Len(Decompose(change)) <= MaxProofs
                       /\ call' = [step |-> "melt", inv |-> call.inv, sel |-> sel,
                                   change |-> change]
        /\ UNCHANGED <<up, mem, disk, cached, mapped, front, world, serial, ghosts>>

\* upstream_post: an answer of the upstream mint, or an error for whatever
\* was lost, timed out or had a bad status.
Reply(reached, heard, state) == IF reached /\ heard THEN state ELSE "ERROR"

\* The melt request reaches the upstream mint (or is lost), which takes the
\* inputs unless the quote is settled or a proof is spent or held; its
\* answer arrives or not.
MeltRequest(reached, verdict, heard) ==
    LET i     == call.inv
        valid == remote.melt[i] = "UNPAID" /\ call.sel \cap Taken = {}
        state == IF reached /\ valid THEN verdict ELSE "REFUSED"
    IN  /\ Calling("melt")
        /\ remote' = CASE state = "PAID" ->
                            [remote EXCEPT !.melt[i] = "PAID",
                                           !.spent = @ \cup call.sel]
                       [] state = "PENDING" ->
                            [remote EXCEPT !.melt[i] = "PENDING",
                                           !.held[i] = call.sel]
                       [] OTHER -> remote
        /\ call' = [step |-> "answer", inv |-> i, sel |-> call.sel,
                    change |-> call.change,
                    state |-> Reply(reached, heard, state)]
        /\ silent' = (silent \/ (state \in {"PAID", "PENDING"} /\ ~heard))
        /\ UNCHANGED <<up, mem, disk, cached, mapped, front, deposit, serial, credited, torn, gone>>

\* Mutants: the selection is kept after an ambiguous answer; it is dropped
\* after a failure.
KeptOnPending(state) == state # "PAID"

KeptNever(state) == FALSE

\* A definite failure and an HTTP error keep the proofs in the reserve.
Kept(state) == state \in {"FAILED", "REFUSED", "ERROR"}

\* append_unblinded of the change, as far as its signatures can be unblinded;
\* a change-less upstream keeps it all.  An error is only logged.
ChangeBack(n) ==
    IF call.state = "PAID" THEN append_unblinded(Decompose(call.change), n) ELSE {}

\* What pay() does with the answer: remove_selected, change, persist.
Answer(n) ==
    LET fresh == ChangeBack(n)
    IN  /\ Calling("answer")
        /\ n <= IF call.state = "PAID" THEN Len(Decompose(call.change)) ELSE 0
        /\ mem' = IF Kept(call.state) THEN mem ELSE (mem \ call.sel) \cup fresh
        /\ IF Kept(call.state) THEN UNCHANGED <<disk, torn>> ELSE Saved(mem')
        /\ serial' = serial + n
        /\ credited' = credited \cup fresh
        /\ gone' = IF call.state = "PENDING" THEN gone \cup call.sel ELSE gone
        /\ Returns(call.state = "PAID")
        /\ UNCHANGED <<up, cached, mapped, front, world, silent>>
-----------------------------------------------------------------------------
(* The upstream mint, the payers and the process.                          *)

\* A pending payment succeeds, or fails and its inputs are free again.
Resolve(i, paid) ==
    /\ remote.melt[i] = "PENDING"
    /\ remote' = [remote EXCEPT
                    !.melt[i] = IF paid THEN "PAID" ELSE "FAILED",
                    !.held[i] = {},
                    !.spent = IF paid THEN @ \cup remote.held[i] ELSE @]
    /\ UNCHANGED <<up, mem, disk, cached, mapped, call, front, deposit, serial, ghosts>>

PayerPays(d) ==
    /\ deposit[d] = "UNPAID"
    /\ remote' = [remote EXCEPT !.deposits = @ \cup {d}]
    /\ UNCHANGED <<up, mem, disk, cached, mapped, call, front, deposit, serial, ghosts>>

Crash ==
    /\ up
    /\ up' = FALSE
    /\ mem' = {} /\ cached' = {} /\ mapped' = {}
    /\ silent' = (silent \/ (call.step = "answer" /\ ~Kept(call.state)))
    /\ gone' = gone \cup torn /\ torn' = {}
    /\ call' = Idle
    /\ UNCHANGED <<disk, front, world, serial, credited>>

\* A file of another upstream mint stops the process ("never mix eras").
restore(url) == disk.url = url

\* with_state_file: the reserve comes back from its file, the maps do not.
Restart(url) ==
    /\ ~up
    /\ restore(url)
    /\ up' = TRUE
    /\ mem' = disk.proofs
    /\ UNCHANGED <<disk, cached, mapped, call, front, world, serial, ghosts>>

Init ==
    /\ up = TRUE /\ mem = {} /\ disk = snapshot(Home, {}) /\ cached = {} /\ mapped = {}
    /\ call = Idle
    /\ front = [i \in Invoices |-> "NONE"]
    /\ deposit = [d \in Deposits |-> "NONE"]
    /\ remote = [melt |-> [i \in Invoices |-> "UNPAID"], deposits |-> {},
                 spent |-> {}, held |-> [i \in Invoices |-> {}]]
    /\ serial = 0 /\ credited = {} /\ torn = {} /\ gone = {} /\ silent = FALSE

Requests ==
    \/ \E d \in Deposits, http \in Http : IsSettled(d, Answered(http))
    \/ \E d \in Deposits : CreateInvoice(d)
    \/ \E i \in Invoices : PostMeltQuote(i) \/ PostMelt(i)

PaySteps ==
    \/ \E http \in Http :
          \/ Lookup(Answered(http))
          \/ TopUpQuote(Answered(http))
          \/ \E n \in 0 .. MaxProofs : TopUpMint(Answered(http), n)
    \/ \E answer \in {"paid", "unpaid", "error"} : TopUpPoll(answer)
    \/ Select
    \/ \E reached, heard \in BOOLEAN, verdict \in {"PAID", "PENDING", "FAILED"} :
          MeltRequest(reached, verdict, heard)
    \/ \E n \in 0 .. MaxProofs : Answer(n)
    \/ Settle

World ==
    \/ \E i \in Invoices, paid \in BOOLEAN : Resolve(i, paid)
    \/ \E d \in Deposits : PayerPays(d)
    \/ Crash
    \/ \E url \in Urls : Restart(url)

Next == Requests \/ PaySteps \/ World

\* The process runs its call: every HTTP request of it ends, answered or by
\* the agent's time-outs, and the poll has a bounded number of tries.
Spec == Init /\ [][Next]_vars /\ WF_vars(PaySteps)
-----------------------------------------------------------------------------
\* "Parked, never reused" (upstream.rs): as long as every answer has been
\* heard and acted on, no melt offers a proof the upstream mint has spent or
\* holds for a payment it has not decided.
OffersLiveProofs ==
    call.step = "melt" /\ ~silent => call.sel \cap Taken = {}

\* The reserve loses nothing but what it paid with: a proof it ever unblinded,
\* neither spent upstream nor given up, is in memory while the process runs,
\* and in the file unless it is of a top-up that failed half way (bootstrap's
\* `?` returns before its persist) and nothing has been saved since.  Given up
\* are the proofs parked with an ambiguous payment, and those of such a top-up
\* when the process dies before the next save.
LiveProofsOnFile ==
    LET live == credited \ (remote.spent \cup gone)
    IN  live \ torn \subseteq disk.proofs /\ (up => live \subseteq mem)

\* The front mint's books follow the upstream mint's: a melt quote it calls
\* PAID is paid there, and a mint quote it calls PAID has been paid in.
FrontFollowsUpstream ==
    /\ \A i \in Invoices : front[i] = "PAID" => remote.melt[i] = "PAID"
    /\ \A d \in Deposits : deposit[d] = "PAID" => d \in remote.deposits

\* A payment ends: pay_invoice returns to the front mint, which is blocked
\* on it and serves nobody else (or the process dies).
PaymentEnds == (call # Idle) ~> (call = Idle)
=============================================================================
