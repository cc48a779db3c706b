------------------------------ MODULE WalletUi ------------------------------
(***************************************************************************)
(* The desktop wallet's screens and worker (micronuts-wallet ui.rs, its    *)
(* .slint screens, micronuts-wallet-core flow.rs and payload.rs, gm65.rs). *)
(*                                                                         *)
(* A callback on the user-interface thread posts a job to the worker and   *)
(* updates for later to the event loop; the worker runs one job at a time  *)
(* over the engine, posts what the screens should show, saves the wallet   *)
(* state and posts a snapshot.  Both queues are first in, first out, and   *)
(* clicks, timers, scans and the worker interleave.  An update is a record *)
(* of the properties it sets.                                              *)
(*                                                                         *)
(* The engine's money operations are those of module Wallet; here a job    *)
(* succeeds, fails, or succeeds at the mint and is not heard of.           *)
(***************************************************************************)
EXTENDS Integers, Sequences, FiniteSets, SequencesExt

CONSTANTS
    Tokens,     \* tokens that are typed or scanned ...
    TokenMint,  \* ... and the mint each is of
    Invoices,   \* invoices that are typed or scanned
    Quotes,     \* mint quotes a mint can hand out
    Sends,      \* tokens the engine can make
    Mints,      \* mints ...
    Known,      \* ... and those wallet.json lists at first
    None,       \* an empty field
    Junk,       \* text that is neither token, invoice nor URL
    Failure,    \* the line of a failed quote
    MaxActs,    \* bound: things the user does, and restarts ...
    MaxHasty,   \* ... and how many of them while others are under way
    MaxQueue,   \* bound: jobs waiting when the poller posts another ...
    MaxUpdates  \* ... and updates waiting then

ASSUME WalletUiAssumption ==
    /\ {MaxActs, MaxHasty, MaxQueue, MaxUpdates} \subseteq Nat /\ Known \subseteq Mints
    /\ TokenMint \in [Tokens -> Mints]
    /\ {None, Junk, Failure} \cap (Tokens \cup Invoices \cup Quotes \cup Sends \cup Mints) = {}

VARIABLES
    ui,       \* the properties of WalletLogic
    events,   \* updates the event loop has yet to apply
    queue,    \* jobs the worker has yet to run
    worker,   \* mints, the engine's mint and whether it is connected, records
    disk,     \* wallet.json: active and known mints, pending sends
    working,  \* the worker thread runs
    mint,     \* the mints: quotes, where quotes and tokens are from, spent
    reading,  \* the scanner's reader thread runs
    acts      \* what the user has done so far

uiVars == <<ui, events, queue, worker, disk, working, mint, reading, acts>>

Blank ==
    [busy |-> FALSE, active |-> FALSE, scanning |-> FALSE,
     tokenIn |-> None, recv |-> "input", reviewOf |-> None,
     quote |-> None, qstate |-> "", info |-> None,
     tokenOut |-> None, count |-> 0]

\* finish_job's snapshot, as apply_snapshot shows it.
Snapshot(w) ==
    [busy |-> FALSE, active |-> w.active # None,
     count |-> IF w.engine = None THEN 0 ELSE Len(w.pending)]

\* persist_state: wallet.json after a job.
Saved(w) == [active |-> w.active, known |-> w.known, pending |-> w.pending]
-----------------------------------------------------------------------------
(* The user and the screens.                                               *)

Busy == [busy |-> TRUE]

\* Mutant: the message is shown and the screens stay busy.
ReportOnly == [scanning |-> ui.scanning]

\* report: a message instead of a job.
Report == [busy |-> FALSE]

Quiet == queue = <<>> /\ events = <<>>

Act ==
    /\ acts < MaxActs
    /\ acts < MaxHasty \/ Quiet
    /\ acts' = acts + 1

\* A callback: updates for the event loop and jobs for the worker.
Posts(updates, jobs) ==
    /\ events' = events \o updates
    /\ queue' = queue \o jobs

rest == <<worker, disk, working, mint, reading>>

\* A button whose callback parses an amount first.
AmountButton(valid, job) ==
    /\ Act
    /\ ui.active /\ ~ui.busy
    /\ IF valid THEN Posts(<<Busy>>, <<[job |-> job]>>)
                ELSE Posts(<<Busy, Report>>, <<>>)
    /\ UNCHANGED <<ui, rest>>

\* on_mint_invoice and on_send_token.
CreateInvoice(valid) == AmountButton(valid, "invoice")
SendToken(valid) == AmountButton(valid, "send")

\* on_mint_paid: the Try again button.
TryAgain ==
    /\ Act
    /\ ui.quote # None /\ ui.qstate = "PAID" /\ ~ui.busy
    /\ Posts(<<Busy>>, <<[job |-> "mint paid", quote |-> ui.quote]>>)
    /\ UNCHANGED <<ui, rest>>

\* payload::classify: what a text asks for.  A token may come in a link and
\* an invoice with a prefix; what it does not know starts nothing.
payload(text) ==
    CASE text \in Tokens   -> "CashuToken"
      [] text \in Invoices -> "LightningInvoice"
      [] text \in Mints    -> "MintUrl"
      [] OTHER             -> "Unknown"

\* inspect_for_review and quote_for_review.
InspectJob(t) == [job |-> "inspect", token |-> t]
QuoteJob(i) == [job |-> "quote", invoice |-> i]

\* on_token_edited: an empty field, a token, or text on its way to one.
EditToken(text) ==
    /\ Act
    /\ ui' = [ui EXCEPT !.tokenIn = text]
    /\ CASE text = None -> Posts(<<[recv |-> "input", reviewOf |-> None]>>, <<>>)
         [] payload(text) = "CashuToken" ->
              Posts(<<[recv |-> "inspecting"]>>, <<InspectJob(text)>>)
         [] OTHER -> Posts(<<>>, <<>>)
    /\ UNCHANGED rest

\* on_receive_token, with what the review showed at the click.
Receive ==
    /\ Act
    /\ ui.recv = "review" /\ ~ui.busy
    /\ Posts(<<Busy, [recv |-> "receiving"]>>,
             <<[job |-> "receive", token |-> ui.tokenIn]>>)
    /\ UNCHANGED <<ui, rest>>

\* on_reclaim_send: the button always passes index 0.
Reclaim ==
    /\ Act
    /\ ui.tokenOut # None /\ ~ui.busy
    /\ Posts(<<Busy>>, <<[job |-> "reclaim"]>>)
    /\ UNCHANGED <<ui, rest>>

\* on_invoice_edited: an invoice is quoted, anything else clears the review.
EditInvoice(text) ==
    /\ Act
    /\ IF payload(text) = "LightningInvoice"
       THEN Posts(<<Busy>>, <<QuoteJob(text)>>)
       ELSE Posts(<<[info |-> None]>>, <<>>)
    /\ UNCHANGED <<ui, rest>>

\* on_melt_confirm, with the review the user saw at the click.
Pay ==
    /\ Act
    /\ ui.info # None /\ ~ui.busy
    /\ Posts(<<Busy>>, <<[job |-> "melt", seen |-> ui.info]>>)
    /\ UNCHANGED <<ui, rest>>

\* on_add_mint and on_switch_mint.
ChooseMint(job, m) ==
    /\ Act
    /\ ~ui.busy
    /\ Posts(<<Busy>>, <<[job |-> job, mint |-> m]>>)
    /\ UNCHANGED <<ui, rest>>

\* start_scanner when the scan page opens; the port may not open.
ScanStart(opened) ==
    /\ Act
    /\ ui' = [ui EXCEPT !.scanning = TRUE]
    /\ reading' = (reading \/ opened)
    /\ UNCHANGED <<events, queue, worker, disk, working, mint>>

\* Cancel.  stop_scanner takes the handle from a thread-local of its own,
\* which start_scanner never fills: the reader goes on.
ScanStop ==
    /\ Act
    /\ ui.scanning
    /\ ui' = [ui EXCEPT !.scanning = FALSE]
    /\ UNCHANGED <<events, queue, rest>>

\* ScanAssembler: a token in one line or in fragments comes out whole, any
\* other line is ignored.
classify(line) == payload(line) = "CashuToken"

\* route_scanned, in the event loop: a token goes to the receive page.
route_scanned(token) ==
    /\ ui' = [ui EXCEPT !.scanning = FALSE, !.tokenIn = token]
    /\ Posts(<<[recv |-> "inspecting"]>>, <<InspectJob(token)>>)

\* The reader thread.
Scanned(line) ==
    /\ Act
    /\ reading
    /\ classify(line)
    /\ route_scanned(line)
    /\ UNCHANGED rest

\* The event loop applies the next update.
ApplyUpdate ==
    /\ events # <<>>
    /\ LET update == Head(events)
       IN  ui' = [f \in DOMAIN ui |-> IF f \in DOMAIN update THEN update[f] ELSE ui[f]]
    /\ events' = Tail(events)
    /\ UNCHANGED <<queue, rest, acts>>
-----------------------------------------------------------------------------
(* Timers.                                                                 *)

Tick(job) ==
    /\ ~ui.busy
    /\ queue' = Append(queue, job)
    /\ UNCHANGED <<ui, events, rest, acts>>

\* Mutant: the first answer, UNPAID too, ends the watch.
WatchedOnce(state) == state = ""

\* start_quote_poller asks until the quote is seen PAID or ISSUED.
Watched(state) == state \notin {"PAID", "ISSUED"}

QuotePoller ==
    /\ ui.quote # None /\ Watched(ui.qstate)
    /\ Len(queue) < MaxQueue /\ Len(events) < MaxUpdates
    /\ Tick([job |-> "poll", quote |-> ui.quote])

\* start_pending_checker, at a fifth of the poller's rate: when all is quiet.
PendingChecker ==
    /\ ui.count > 0
    /\ Quiet
    /\ Tick([job |-> "check"])
-----------------------------------------------------------------------------
(* The worker.                                                             *)

Running(kind) == working /\ queue # <<>> /\ Head(queue).job = kind

\* The end of every job: finish_job.
Finish(updates) ==
    /\ queue' = Tail(queue)
    /\ disk' = Saved(worker')
    /\ events' = events \o updates \o <<Snapshot(worker')>>
    /\ UNCHANGED <<ui, working, reading, acts>>

Here(x) == worker.engine # None /\ mint.home[x] = worker.engine

\* Without an engine a job does nothing; one that has not connected, which
\* only Connect and a change of mint try, refuses most.
ensure_connected == worker.engine # None /\ worker.online

\* check_all_pending: what the engine's mint reports spent is final.
Unclaimed(w) ==
    LET kept == {k \in DOMAIN w.pending :
                    ~(mint.home[w.pending[k]] = w.engine /\ w.pending[k] \in mint.spent)}
        upTo(k) == {j \in kept : j <= k}
    IN  [n \in 1 .. Cardinality(kept) |->
            w.pending[CHOOSE k \in kept : Cardinality(upTo(k)) = n]]

\* connect_active: connect, and in any case look after pending sends, which
\* takes an engine that has connected once.
Connected(w, ok, checked) ==
    LET online == w.engine # None /\ (ok \/ w.online)
    IN  [w EXCEPT !.online = online,
                  !.pending = IF online /\ checked THEN Unclaimed(w) ELSE w.pending]

Connect(ok, checked) ==
    /\ Running("connect")
    /\ worker' = Connected(worker, ok, checked)
    /\ Finish(<<>>)
    /\ UNCHANGED mint

CheckPending(checked) ==
    /\ Running("check")
    /\ worker' = Connected(worker, FALSE, checked)
    /\ Finish(<<>>)
    /\ UNCHANGED mint

Answers == {"ok", "error", "reply lost"}

\* drop_mint_paid: issue a paid quote and show how it went.
IssueUpdates(done) ==
    <<[qstate |-> "ISSUING"],
      IF done THEN [quote |-> None, qstate |-> ""] ELSE [qstate |-> "PAID"]>>

Issuable(q) == ensure_connected /\ Here(q) /\ mint.quote[q] = "PAID"

Issues(q, answer) ==
    mint' = IF Issuable(q) /\ answer # "error"
            THEN [mint EXCEPT !.quote[q] = "ISSUED"] ELSE mint

Issued(q, answer) == answer = "ok" /\ Issuable(q)

\* mint_via_invoice: the quote the engine's mint makes of the request.
mint_via_invoice(q, state) ==
    [mint EXCEPT !.home[q] = worker.engine, !.quote[q] = state]

\* on_mint_invoice, with a quote id nobody has had before (any of them: the
\* ids are interchangeable); a mint that settles at once has it issued here.
MintInvoice(ok, paid, answer) ==
    /\ Running("invoice")
    /\ UNCHANGED worker
    /\ IF ok /\ ensure_connected
       THEN LET q     == CHOOSE fresh \in Quotes : mint.quote[fresh] = "none"
                shown == [quote |-> q, qstate |-> IF paid THEN "PAID" ELSE "UNPAID"]
            IN  /\ \E fresh \in Quotes : mint.quote[fresh] = "none"
                /\ mint' = mint_via_invoice(q,
                      CASE ~paid -> "UNPAID"
                        [] answer = "error" -> "PAID"
                        [] OTHER -> "ISSUED")
                /\ Finish(<<shown>> \o
                     (IF paid THEN IssueUpdates(answer = "ok") ELSE <<>>))
       ELSE Finish(<<>>) /\ UNCHANGED mint

MintPaid(answer) ==
    LET q == Head(queue).quote
    IN  /\ Running("mint paid")
        /\ UNCHANGED worker
        /\ Issues(q, answer)
        /\ Finish(IF worker.engine = None THEN <<>>
                  ELSE IssueUpdates(Issued(q, answer)))

\* post_current_poll: the state as the mint tells it, and issuance when it
\* is PAID.  The quote on the screen may be another one by now.
Poll(ok, answer) ==
    LET q == Head(queue).quote
    IN  /\ Running("poll")
        /\ UNCHANGED worker
        /\ IF ok /\ Here(q)
           THEN /\ IF mint.quote[q] = "PAID" THEN Issues(q, answer) ELSE UNCHANGED mint
                /\ Finish(<<[qstate |-> mint.quote[q]]>> \o
                     (IF mint.quote[q] = "PAID"
                      THEN IssueUpdates(Issued(q, answer)) ELSE <<>>))
           ELSE Finish(<<>>) /\ UNCHANGED mint

\* check_token_state: the mint has every proof of the token spent.
all_spent(t) == t \in mint.spent

\* inspect_token: a token of another mint, or one the mint does not answer
\* for, has no inspection.
inspect_token(t, ok) == ok /\ Here(t)

\* inspect_for_review: a review, or the line of its failure.
Inspect(ok) ==
    LET t == Head(queue).token
    IN  /\ Running("inspect")
        /\ UNCHANGED <<worker, mint>>
        /\ Finish(CASE worker.engine = None -> <<>>
                    [] inspect_token(t, ok) /\ ~all_spent(t) ->
                          <<[recv |-> "review", reviewOf |-> t]>>
                    [] OTHER -> <<[recv |-> "failed", reviewOf |-> None]>>)

\* receive_token of the text in the field at the click: the mint swaps the
\* token unless it is spent.
ReceiveToken(answer) ==
    LET t  == Head(queue).token
        ok == ensure_connected /\ t \in Tokens /\ Here(t) /\ ~all_spent(t)
    IN  /\ Running("receive")
        /\ UNCHANGED worker
        /\ mint' = IF ok /\ answer # "error"
                   THEN [mint EXCEPT !.spent = @ \cup {t}] ELSE mint
        /\ Finish(CASE worker.engine = None -> <<>>
                    [] ok /\ answer = "ok" ->
                          <<[tokenIn |-> None, recv |-> "received", reviewOf |-> None]>>
                    [] OTHER -> <<[recv |-> "failed", reviewOf |-> None]>>)

MakeToken(ok) ==
    /\ Running("send")
    /\ IF ok /\ ensure_connected
       THEN \E s \in Sends :
              /\ mint.home[s] = None
              /\ mint' = [mint EXCEPT !.home[s] = worker.engine]
              /\ worker' = [worker EXCEPT !.pending = Append(@, s)]
              /\ Finish(<<[tokenOut |-> s, count |-> Len(worker'.pending)]>>)
       ELSE UNCHANGED <<worker, mint>> /\ Finish(<<>>)

\* Mutant: a failed reclaim ends the record whatever the probe says.
ReclaimEnds(s, answer) == TRUE

\* reclaim_pending of s: the swap succeeds, or fails and a probe finds it
\* spent, by the recipient or by a swap whose answer was lost.
Finalized(s, answer) ==
    \/ answer = "ok" /\ Here(s) /\ s \notin mint.spent
    \/ Here(s) /\ s \in mint'.spent

ReclaimFirst(answer, probed) ==
    LET s    == Head(worker.pending)
        done == answer = "ok" /\ ensure_connected /\ Here(s) /\ s \notin mint.spent
    IN  /\ Running("reclaim")
        /\ IF worker.engine = None \/ worker.pending = <<>>
           THEN UNCHANGED <<worker, mint>> /\ Finish(<<>>)
           ELSE /\ mint' = IF ensure_connected /\ Here(s) /\ answer # "error"
                           THEN [mint EXCEPT !.spent = @ \cup {s}] ELSE mint
                /\ worker' = IF done \/ (probed /\ ensure_connected /\ Finalized(s, answer))
                             THEN [worker EXCEPT !.pending = Tail(@)] ELSE worker
                /\ Finish(<<IF done \/ worker'.pending = <<>>
                            THEN [tokenOut |-> None, count |-> Len(worker'.pending)]
                            ELSE [count |-> Len(worker'.pending)]>>)

QuoteMelt(ok) ==
    LET i == Head(queue).invoice
    IN  /\ Running("quote")
        /\ UNCHANGED mint
        /\ worker' = IF ok /\ ensure_connected
                     THEN [worker EXCEPT !.pendingMelt = i] ELSE worker
        /\ Finish(CASE worker.engine = None -> <<>>
                    [] ok /\ ensure_connected -> <<[info |-> i]>>
                    [] OTHER -> <<[info |-> Failure]>>)

\* on_melt_confirm: pays the invoice last quoted.
Melt(answer) ==
    /\ Running("melt")
    /\ UNCHANGED worker
    /\ mint' = IF worker.pendingMelt # None /\ ensure_connected /\ answer # "error"
               THEN [mint EXCEPT !.paid = @ \cup {worker.pendingMelt}] ELSE mint
    /\ Finish(<<>>)

\* The engine's unchecked subtraction panics: the worker thread is gone.
MeltPanics ==
    /\ Running("melt")
    /\ worker.pendingMelt # None /\ ensure_connected
    /\ working' = FALSE
    /\ queue' = Tail(queue)
    /\ UNCHANGED <<ui, events, worker, disk, mint, reading, acts>>

\* build_engine for the active mint, with the records of wallet.json.
Built(w, opened) ==
    [w EXCEPT !.engine = IF opened THEN w.active ELSE None, !.online = FALSE]

\* worker_add_mint, whose get_info answers (info), and worker_switch_mint;
\* whether the new mint also connects is another matter.
UseMint(info, opened, ok, checked) ==
    LET m == Head(queue).mint
        new == Built([worker EXCEPT !.active = m, !.known = @ \cup {m}], opened)
    IN  /\ \/ Running("add mint") /\ m \notin worker.known /\ info
           \/ Running("switch mint") /\ m \in worker.known /\ m # worker.active
        /\ worker' = Connected(new, ok, checked)
        /\ Finish(<<>>)
        /\ UNCHANGED mint

KeepMint(info) ==
    LET m == Head(queue).mint
    IN  /\ \/ Running("add mint") /\ (m \in worker.known \/ ~info)
           \/ Running("switch mint") /\ (m \notin worker.known \/ m = worker.active)
        /\ UNCHANGED <<worker, mint>>
        /\ Finish(<<>>)
-----------------------------------------------------------------------------
(* The world.                                                              *)

PayerPays(q) ==
    /\ mint.quote[q] = "UNPAID"
    /\ mint' = [mint EXCEPT !.quote[q] = "PAID"]
    /\ UNCHANGED <<ui, events, queue, worker, disk, working, reading, acts>>

Claim(s) ==
    /\ mint.home[s] # None /\ s \notin mint.spent
    /\ mint' = [mint EXCEPT !.spent = @ \cup {s}]
    /\ UNCHANGED <<ui, events, queue, worker, disk, working, reading, acts>>

\* Worker::new: the engine opens its store or there is none.
Booted(saved, opened) ==
    [active |-> saved.active, known |-> saved.known, online |-> FALSE,
     engine |-> IF opened THEN saved.active ELSE None,
     pending |-> saved.pending, pendingMelt |-> None]

\* The program ends, at any time, and starts again.
Restart(opened) ==
    /\ Act
    /\ ui' = Blank /\ events' = <<>> /\ queue' = <<[job |-> "connect"]>>
    /\ worker' = Booted(disk, opened)
    /\ working' = TRUE /\ reading' = FALSE
    /\ UNCHANGED <<disk, mint>>

UiInit ==
    /\ ui = Blank /\ events = <<>> /\ queue = <<[job |-> "connect"]>>
    /\ disk \in [active : Known, known : {Known}, pending : {<<>>}]
               \cup {[active |-> None, known |-> {}, pending |-> <<>>]}
    /\ worker = Booted(disk, TRUE)
    /\ working = TRUE /\ reading = FALSE /\ acts = 0
    /\ mint = [quote |-> [q \in Quotes |-> "none"],
               home |-> [x \in Quotes \cup Sends \cup Tokens |->
                            IF x \in Tokens THEN TokenMint[x] ELSE None],
               spent |-> {}, paid |-> {}]

User ==
    \/ \E valid \in BOOLEAN : CreateInvoice(valid) \/ SendToken(valid)
    \/ \E text \in Tokens \cup {None, Junk} : EditToken(text)
    \/ \E text \in Invoices \cup {Junk} : EditInvoice(text)
    \/ \E job \in {"add mint", "switch mint"}, m \in Mints : ChooseMint(job, m)
    \/ TryAgain \/ Receive \/ Reclaim \/ Pay \/ ScanStop
    \/ \E opened \in BOOLEAN : ScanStart(opened)
    \/ \E line \in Tokens \cup {Junk} : Scanned(line)

\* One job, with what the network does to its requests.
Works(ok, answer) ==
    \/ \E checked \in BOOLEAN : Connect(ok, checked)
    \/ CheckPending(ok) \/ Inspect(ok) \/ ReceiveToken(answer)
    \/ MakeToken(ok) \/ QuoteMelt(ok)
    \/ \E paid \in BOOLEAN : MintInvoice(ok, paid, answer)
    \/ MintPaid(answer) \/ Poll(ok, answer) \/ Melt(answer)
    \/ ReclaimFirst(answer, ok)
    \/ \E info, opened, checked \in BOOLEAN : UseMint(info, opened, ok, checked)
    \/ KeepMint(ok)

Work == MeltPanics \/ \E ok \in BOOLEAN, answer \in Answers : Works(ok, answer)

World ==
    \/ \E q \in Quotes : PayerPays(q)
    \/ \E s \in Sends : Claim(s)
    \/ \E opened \in BOOLEAN : Restart(opened)

UiNext == User \/ ApplyUpdate \/ QuotePoller \/ PendingChecker \/ Work \/ World

\* The event loop and the worker thread run and a mint that is asked for a
\* quote again and again answers some time.  The poller's timer fires
\* whatever else is queued (MaxQueue and MaxUpdates are the model's bounds,
\* which the other timer may use up at every turn), hence strong fairness.
UiFairness ==
    /\ WF_uiVars(ApplyUpdate)
    /\ WF_uiVars(Work)
    /\ SF_uiVars(QuotePoller)
    /\ SF_uiVars(Poll(TRUE, "ok"))

UiSpec == UiInit /\ [][UiNext]_uiVars /\ UiFairness
-----------------------------------------------------------------------------
\* The screens never stay locked: whatever was pressed and however it went,
\* the buttons come back, as long as the worker thread lives.
BusyEnds == ui.busy ~> (~ui.busy \/ ~working)

\* Nothing is under way that changes what the screen says of the quote.
Settled ==
    /\ \A k \in DOMAIN events : "qstate" \notin DOMAIN events[k]
    /\ \A k \in DOMAIN queue : queue[k].job \notin {"invoice", "poll", "mint paid"}

\* The last word on the screen is about an invoice the user had before q:
\* post_current_poll writes the state of the quote it asked for under
\* whatever quote is shown by then, and the poller stops on ISSUED.
StaleWord(q) ==
    /\ ui.qstate = "ISSUED" /\ Settled
    /\ \E earlier \in Quotes \ {q} : mint.quote[earlier] = "ISSUED"

\* "Auto-issuance (UX contract)" (ui.rs:1269): a paid invoice on the screen
\* is issued without a press, or the screen comes to rest on Try again.  It
\* does not when the user has another invoice made, leaves the mint or
\* restarts, when the worker has died, and when polls of an earlier invoice
\* were still queued as this one was made: their answers then clear it from
\* the screen or end the watch over it (StaleWord).
PaidQuoteIssued ==
    \A q \in Quotes :
        (ui.quote = q /\ mint.quote[q] = "PAID") ~>
            \/ mint.quote[q] = "ISSUED"
            \/ ui.quote # q
            \/ ui.qstate = "PAID" /\ Settled
            \/ StaleWord(q)
            \/ worker.engine # mint.home[q]
            \/ ~working

\* The token on the screen can still be taken back, or its value has moved:
\* it is on the engine's record or spent at its mint.
ShownTokenOnRecord ==
    ui.tokenOut # None =>
        \/ ui.tokenOut \in mint.spent
        \/ \E k \in DOMAIN worker.pending : worker.pending[k] = ui.tokenOut
=============================================================================
