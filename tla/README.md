# Micronuts in TLA+

Models of the state machines of micronuts (a Cashu ecash mint, its wallets, gates and
devices), the TLC runs that check them on small instances, and TLAPS proofs of the
invariants that matter most.

## The system

Micronuts is a Rust workspace around one protocol: a *mint* signs blinded outputs
against Lightning payments, *wallets* hold the resulting proofs, swap them and pay
with them, and devices (an ESP32 mint, a wallet board, a handheld, a gate, a kiosk)
carry the same crates.

| component | state | operations | hard behaviour | correct when |
|---|---|---|---|---|
| mint core (`micronuts-mint/src/mint_core.rs`) | quote tables, spent set, restore index | NUT-03/04/05/07/09/29 requests | `post_melt` leaves the process half way; failures after a change; crashes | no token is spent twice, no invoice paid twice, ecash is backed |
| snapshot store (`persist.rs`, `nvs_store.rs`) | last snapshot | load, save | a save that fails panics | memory never runs ahead of what clients have seen |
| upstream backend, reserve (`upstream.rs`, `reserve.rs`) | maps of upstream quotes, reserve proofs and file | create, settle, pay, top up | errors that hide a payment, maps lost at restart | value is neither lost nor offered twice; the front mint's books are true |
| spending conditions (`nut10/11/14`, `spending.rs`, `conditions.rs`) | none | parse, verify, build a witness | combinations of locks, thresholds, refunds, time passing | wallet and mint agree; what is accepted is authorised |
| persistent wallet (`cashu-core-lite/src/persistent.rs`) | NUT-13 counter, proofs, envelope | mint, swap, spend, undo, melt, restore | lost replies, crashes, a lost store | no secret held twice, everything recoverable |
| wallet engine (`micronuts-wallet-core/src/engine.rs`) | pending sends, history | receive, send, reclaim, reconcile, melt | ambiguous swaps, tokens refused half way, a recipient who races the reclaim | proofs are held, handed out or spent; records kept while live |
| wallet worker and screens (`micronuts-wallet/src/ui.rs`, `.slint`) | screen properties, job and event queues, `wallet.json` | presses, scans, timers, jobs | presses answered by jobs of an older press | what is shown can be acted on; nothing stays locked |
| offline gate (`walletport/src/offline.rs`, `gate.rs`) | ring of spent secrets, relay | scan | power loss between save and relay, ring at capacity | one entry per token |
| audit adapter (`micronuts-audit-adapter`), stdio mint, wire client | pipe to the mint, NUT-19 cache | HTTP requests | handlers dropped at any await, a dying mint | an answer belongs to its request and is repeated |
| FIPS responder and RPC client (`micronuts-fips-responder`, `rpc.rs`) | reassembly buffer, message and call ids | segments, calls | loss, duplication, reordering, ids that wrap | a frame is delivered whole or not at all; a call gets its own verdict |
| device application (`micronuts-app`, `micronuts-host`) | imported token, blindings, proofs, QR assembler, screen | USB commands, scans, touch, ticks | host and screen share the scanner, stale signatures | proofs are signed, tokens whole, screens left |
| captive-portal payer, Atom, kiosk (`micronuts-esp32-wallet`) | discovery, engine, phase | discover, pay, monitor; invoice, poll | links that drop, replies lost after the token left | outcomes are true, loops go on |
| firmware, ESP32 mint, smart card | drivers, screens, Wi-Fi | | | |

The components call each other: the screens post jobs to a worker, the worker drives
the engine, the engine the persistent wallet, which calls a mint through a transport
(HTTP through the adapter, FIPS datagrams, or directly); the mint checks spending
conditions, calls the Lightning seam while it serves a melt and the store after every
mutation; the gate calls nobody. The mint serves one request at a time (`&mut self`),
a wallet's worker one job at a time, the device's loop one command or tick at a time.
What interleaves is the mint with its clients, HTTP handlers with each other, a wallet
with the mint, the network and a recipient, user and worker, host and device, and
everybody with crashes and clocks.

`PROJECT.json` lists every component, the source lines every definition stands for
and, line by line, the hazards of this code with the properties about them.

## Modules

| module | models |
|---|---|
| `MintCore`, `MCMintCore`, `MintCoreProofs` | the mint with its store and its Lightning seam; instances; inductive invariant and theorems |
| `Upstream`, `MCUpstream`, `UpstreamProofs` | the upstream backend and the reserve wallet between the two persists of the front mint's `post_melt`, against an upstream mint; its theorems |
| `SpendingConditions`, `MCSpendingConditions` | NUT-10/11/14: parsers, the mint's verifier, the wallet's witness builder, and a reference definition |
| `Wallet`, `MCWallet`, `WalletProofs` | engine, persistent wallet and worker against a mint, a lossy network and a recipient; its theorems |
| `WalletUi`, `MCWalletUi` | screens, event loop, worker queue, timers and scanner of the desktop wallet |
| `OfflineGate`, `MCOfflineGate` | the gate and its instances |
| `Adapter`, `MCAdapter` | HTTP handlers, mutex, pipe, stdio mint, NUT-19 cache, wire client |
| `Fips`, `MCFips`, `FrameChannel`, `FipsProofs` | segment codec, responder and RPC client over datagrams; the abstract channel the codec implements; the theorems, the refinement among them |
| `Device`, `MCDevice` | the handheld's command handler, scan flow and screens, and the host tool |
| `Tollgate`, `MCTollgate` | the captive-portal payer under the serial console and under the Atom's loop, and the kiosk |
| `AcceptanceProofs` | theorems about when a proof is accepted: `SpendingConditions` and `OfflineGate` |
| `HostProofs` | theorems about the programs on the host: `Adapter` and `WalletUi` |
| `BoardProofs` | theorems about the programs on the boards: `Device` and `Tollgate` |
| `Amounts` | decomposition, fees and proof selection, shared by `Wallet` and `Upstream` |
| `Sums` | lemmas about sums over finite sets, greatest and least elements, powers of two, and what the operators of `Amounts` return |

An operator whose comment begins with "Mutant" is a wrong version of the definition after
it; the runs use it nowhere and `PROJECT.json` says which property it breaks.

### MintCore

| state | code |
|---|---|
| `mem` | the `DemoMint` fields: `mint_quotes`, `melt_quotes`, `spent_ys`, `issued_outputs` |
| `disk` | the snapshot the `StateStore` made durable last |
| `up`, `inflight` | the process runs; the `post_melt` call that waits for `pay_invoice` |
| `known` | proofs clients can build, the signatures they were given |
| `burned`, `settled`, `paidOut` | what really happened: value that left, invoices paid in, invoices paid out |
| `expired` | the clock against the quotes' expiry |

Every request is one action, with its refresh and its persist, except `post_melt`:
`PostMelt` (checks, claim, PENDING, persist), `PayInvoice`, then `MeltPaid` or
`MeltFailed`, with `Crash` possible between any two. The requests that fail after they
have changed something are actions of their own (`PostMintUnsignable`,
`BatchMintUnsignable`, `PostSwapUnsignable`); those rejected before are stuttering
steps. A reply may be lost (`Replied`). A token stands for a secret and its blinded
output, a bundle for the outputs or proofs of a request; where the order of a request
decides the outcome (which priced change output fits, where signing stops), the
outcome is any one that some order gives.

Abstracted: blind signatures (a proof is known or it is not), spending conditions
(satisfied; `SpendingConditions` models them), quote signatures (`signed`), requests
that name one `B_` twice, `fee_reserve` (the code has it at 0 always), `updated_at`.

### Upstream

`mem` and `disk` are the reserve's proofs and its file, `cached` and `mapped` the
backend's in-memory maps, `call` the `pay` in progress, `front` and `deposit` the
durable quotes of the front mint (the part of MintCore the backend can move), `remote`
the upstream mint. `PostMeltQuote`, `PostMelt`, `CreateInvoice` and `IsSettled` are the
front mint's calls; `Lookup`, `TopUpQuote`, `TopUpPoll`, `TopUpMint`, `Select`,
`MeltRequest`, `Answer` and `Settle` are the HTTP requests of `pay` with what it does on
each answer. Every request may be lost before or after the upstream mint acted on it,
and `Resolve` decides a PENDING payment later. `append_unblinded` pushes proof by proof
and may stop after any of them, on a signature that does not parse or, past the last, on
the sum: `TopUpMint` then returns without its persist and leaves those proofs in memory
(`torn`, until a later save), while the change of a melt keeps and saves what it has.
`credited` (every proof unblinded), `torn`, `gone` (parked, or torn when the process
died) and `silent` (a melt's answer was not heard) are history. Abstracted:
one keyset upstream, JSON bodies only as far as a field can be missing, blinding (a proof is numbered).

### SpendingConditions

A secret is `[kind, data, tags]`, tags are rows, and a value may be one that does not
parse; a key has an x-coordinate and a parity, a signature names its signer and its
message. The parsers keep the order of the code's refusals. `verify_spending_conditions`
is the mint's, the witness actions are the wallet's and those of other key holders;
outputs may change until the request is sent and the clock moves between them.
`Authorized` is the reference: it counts people, not signatures.

### Wallet

`mem` and `disk` are the counter and the proofs of `PersistentWallet` in memory and in
the envelope; `pending` and `saved` the `PendingSend` records of the engine and of the
saved wallet state; `op` is the job in progress. A job is one action per request to the
mint, with all that follows from its answer. An index stands for the NUT-13 secret and
its output. A token received is a record of prefix, mint and groups; `ReceiveToken`
decodes it and resolves V3 short keyset ids, `ReceiveGroup` swaps one group, and a
refused group leaves the earlier ones credited. The mint's side is the part of MintCore
a wallet can tell: the last signature per output and the spent set. `owed`, `crashes`,
`derived` and the mint's `again` (indices signed more than once) are history variables
of properties and bounds.

Abstracted: the mint is honest, though a reply may fail the NUT-12 check or carry too
few signatures; inside the ambiguous path of a send nobody acts between
`reconcile_spent` and `restore`; a save does not fail; `find_exact` finds what exists
(its node cap is left out).

### WalletUi

`ui` holds the properties of `WalletLogic` that enable buttons or route presses,
`events` the closures posted to the event loop (each a record of the properties it
sets), `queue` the worker's channel, `worker` and `disk` the active mint, engine and
records in memory and in `wallet.json`. Every callback, both timers, the scanner line
and every job is an action. The engine's money operations are those of `Wallet`; a job
here succeeds, fails, or succeeds at the mint and is not heard of. `MeltPanics` is the
engine's unchecked subtraction, which ends the worker thread. A switch of mints can fail
at `get_info` and at `connect`; a snapshot counts the records of an engine only.

### OfflineGate

`spent` and `blob` are the ring in memory and in the store, `opening` the scan whose
`Open` has not driven the relay, `history` every secret pushed with its scan and
whether the gate opened for it. `ScanSaved` and `ScanNotSaved` are `verify_token` with
a save that succeeds or fails; `OpenGate` is the rest of `handle_scan`; `PowerLoss`,
`Restart` and `Rot` may come anywhere. Decoding (prefix, truncation, missing fields),
the trust list, locks, the pinned keysets and DLEQ are operators in the order of the
code's refusals. A blob that does not decode starts an empty ring (a trade-off the code
documents), and with it an empty history.

### Adapter

One action per stretch between two awaits of a handler: `Arrive`, `Lookup` (cache),
`Lock`, `WriteFrame`, `WriteNewline`, `Read`, `Insert`. `Disconnect` drops the future
at any of them; what was written or read stays so, half a line included. `Serve` is
the stdio server's turn (parse, dispatch, answer; garbage lines refused or skipped),
`MintDies` the end of the process. `read_json_body` and `round_trip` are what the
native and the ESP32 wire clients make of a response. `done` and `served` are history.

### Fips and FrameChannel

`Respond` answers a request (routes and admission included) and cuts the reply into
segments; `Arrive` hands any segment in flight to `Reassembler::push`, once or again;
`Call`, `Probe`, `Return` and `GiveUp` are the RPC client's; the wallet-side datagram
transport is not in the repository, and is taken for what the stand-in of the
responder's end-to-end test (`tests/e2e.rs`) does. Message ids wrap, and the sender uses
one again whatever is still under way: a reply that meets a piece of an older one with
its id is recorded in `clashed` with it, and the wallet may put the two together. A
mixture decodes or does not; if it does, status, id and verdict are those of the reply
its first bytes are of. `FrameChannel` is a channel that may lose, repeat or reorder
whole frames, never cuts or invents one, and mixes none but frames of one id that
clashed, byte by byte in place; `ImplementsChannel` states that the codec implements it
under the mapping that takes the frames numbered so far for those sent. Requests are
assumed never to be doubled by the session layer, which is external.

### Device

`dev` is `FirmwareState`, `asm` the one QR assembler, `app` the locals of `run()`. A
host command and a 5 ms tick are each one step, since the loop awaits every scanner
read to its end. `cmds` and `answers` are the USB line, `host` the host tool with its
command arms and swap script, which gives up after its time-out while the device may
still answer. A blinding is numbered; a signature is of a blinding and of a key, with a
proof that holds or does not, and `signed` records what the pinned key has signed. The
keyset of the proofs is that of the token imported last, as in the code. What stands
around the device (`world`: the codes before the scanner, the command lines the host
runs, the frames that may wait on the line) is chosen at the start from `Worlds`.

### Tollgate

`pc` is the phase of the one thread, which is the serial console, the Atom or the
kiosk (`front`). `PayDiscover`, `PayProbe`, `PaySpend`, `PaySubmit`, `PayVerify` are
the exchanges of `pay`; `ScanJoin`, `Validate`, `AtomPay`, `Monitor` the Atom's loop;
`KioskWifi`, `KioskGateway`, `KioskFind`, `KioskCreate`, `KioskPoll`, `KioskError`,
`KioskRest` the kiosk's, each of which ends the program when the panel fails
(`DrawnOr`). An advertisement (`Ads`) is good, of another mint, without a mint, of
another unit, of price 0 or without one, degraded, or free. The link drops, sessions run
out and the router opens its gate late at any point. The Atom's engine is never
connected in the code, so that its `pay` ends at the spend.

## What the runs check

| run | shows |
|---|---|
| `mint_wallets` | With clients as the repository's wallets (whole quotes, outputs with a key) and an input fee: spends survive restarts, an invoice is paid once, claims are durable while a payment is in flight, counters and states agree and only advance, memory is durable between requests, and the mint is solvent. |
| `mint_any_client` | With partial mints, batches, blank and unsignable outputs, spends survive and the mint's own counters agree and only advance. |
| `mint_batch` | A violation: the mint accepts a batch that asks for more than is still mintable of its quotes (disagreement 1). |
| `upstream` | As long as every melt's answer was heard, no proof is offered that is spent or held (`OffersLiveProofs`); every live proof is in memory, and on file but for those of a top-up that stopped half way (`LiveProofsOnFile`); what the front mint calls PAID is paid (`FrontFollowsUpstream`); a payment ends (`PaymentEnds`). |
| `conditions` | A witness the wallet builds is accepted then and later; what is accepted is authorised by the reference; time opens pathways and closes none. |
| `wallet_jobs` | Proofs held have indices below the counter and no secret twice; what was credited stays held unless handed out or spent; records of live sends are kept; within the headroom a restore finds the mint's last signature of every unspent index, and it is the only one unless the wallet was restarted. |
| `wallet_ui` | The token shown is on record or spent; the buttons come back; a paid invoice is issued or the screen comes to rest on Try again, unless the answer to a poll of an earlier invoice ends the watch (disagreement 9). |
| `gate_replay` | One entry per secret within the ring's window; both rings keep to the capacity. |
| `adapter` | A wallet takes for the mint's word only the answer to its own request; an advertised cached answer is repeated; every request ends. |
| `fips` | The codec implements `FrameChannel`; what a call returns is the mint's verdict on that call. |
| `device` | An imported animated token is one whole sequence; the Scanning screen is left once no code is before the scanner; the proofs a device holds carry signatures of the pinned key for the blinding they were made with. |
| `tollgate` | `pay` reports the truth about the money and returns; the Atom composes only for a payable portal it is on; a kiosk whose backend answers shows invoice after invoice until its link or its panel fails. |

### Fairness

- Adapter: strong fairness of each handler's next stretch (the async runtime polls
  every handler that can go on and tokio's mutex is first come, first served), weak
  fairness of the mint process (the operating system runs it). Nothing is assumed of
  clients.
- Upstream: weak fairness of the call in progress; every HTTP request ends by its
  time-out and the polls are counted.
- WalletUi: weak fairness of the event loop and the worker thread, strong fairness of
  the quote timer (it fires whatever else is queued), and strong fairness of a quote
  poll that is answered and issued: a mint asked again and again answers some time.
  Presses are never assumed.
- Device: weak fairness of the tick, which a timer drives. ScanningEnds assumes no
  further code before the scanner.
- Tollgate: weak fairness of a pay call and of the kiosk's loop; every exchange they
  block in is bounded. `KioskKeepsOffering` has a hypothesis of its own, that a backend
  asked again and again answers some time (strong fairness of `Offer`): it is about the
  backend and no part of the specification.
- MintCore, Wallet, OfflineGate, SpendingConditions, Fips state safety only: every step
  there is asked for by a client, a user or a card in front of the gate and nothing in
  the code retries by itself.

Runs that may stop (the user asks for nothing more, a bound is reached) do not check
for deadlock; the mint, gate and upstream runs do.

### Bounds

- Mint: three tokens (two with arbitrary clients), two mint quotes of which one is
  locked, one melt quote, denominations 1 and 2. Three tokens let a token be minted,
  swapped into another and melted with change; two mint quotes make a batch and a
  partial mint of one of them (`mint_batch` needs one quote and two tokens for both); the
  melt quote can fail, be left PENDING or be paid.
  Tokens and unlocked quotes are interchangeable, hence the symmetry. The theorems
  cover any number.
- Upstream: payments of one and of three sats, so that the second needs a top-up and
  leaves change; two configured mints, so that the file can be another's; nine reserve
  proofs, enough for two top-ups, one of them torn, with change.
- Conditions: each row of every tag, good and bad, all pairs of rows, the triples that
  interact, and pairs of inputs; two key holders, one of them with a key under two
  parities; times before, at and after a lock time.
- Wallet: four indices, headroom two, one crash, one quote of two sats, a V3 token with
  a group that is credited and one the mint refuses, one send amount, one invoice with
  a reserve: enough for a funding, a send with change or a melt, and a restore from a
  counter that is behind. No input fee.
- WalletUi: three user acts or restarts (`MaxActs`), two mints, two invoices, so that a
  poll of the one can be answered under the other, one of each other kind of text; the
  timers post while fewer than three jobs (`MaxQueue`) and two updates (`MaxUpdates`)
  wait, and two of the acts (`MaxHasty`) may come while others are under way.
- Gate: a ring of two, tokens of one or two proofs, five pushes, so the ring wraps
  twice and a token can fill it; every way a text or a proof can be wrong.
- Adapter: two connections, of which one is a wallet's, four requests: a cached spend,
  an uncached one and a bad body, enough for an answer left behind to meet another call
  and to be flushed out.
- Fips: two payload bytes to a segment; replies of three and more segments, one too
  long for the wallet's buffer, one for the responder's; two message ids for three
  replies, so that the third can clash with the first; the first request may be no RPC
  (`MaxProbes`).
- Device: two tokens of one size, so that signatures for the one fit the other, two
  fragments to a sequence, an index out of range, a sequence that is no token; two
  blindings, the pinned key and another; three worlds, with one or two frames on the
  line: host and user scan, host swaps while the user scans, and what is left.
- Tollgate: one network of each kind, sessions of two units, four sats, two polls; a board
  that reboots may find a session where it paid before.

## What is proved

TLAPS proves these for every value of the constants. Each invariant below was first
checked with TLC on the run of its module.

| theorem | states | from |
|---|---|---|
| `MintCoreProofs!TypeCorrect`, `PaysOnce`, `MeltClaims`, `QuoteCounters`, `QuotesOnlyAdvance` | `TypeOK`, `PaysInvoiceOnce`, `MeltClaimDurable`, `QuoteCountersAgree`, `QuoteStatesAdvance` | `IInv` |
| `MintCoreProofs!SpendsSurvive` | `SpendsSurviveRestart` | `IInv`, `BurnedOK`; `DefiniteBackend` |
| `MintCoreProofs!DurableMemory` | `MemoryIsDurable` | `IInv`, `InSync`; `SignableOutputs` |
| `MintCoreProofs!EcashIsBacked` | `Solvent` | `IInv`, `BurnedOK`, `InSync`, `SInv`; `Finite`, `SignableOutputs`, `WholeQuotes`, `DefiniteBackend` |
| `AcceptanceProofs!AcceptedAuthorized`, `OwnAccepted`, `TimeOpensOnly` | `AcceptedIsAuthorized`, `OwnWitnessAccepted`, `TimeClosesNothing` | `ConditionsInv` |
| `AcceptanceProofs!RingTypes`, `ReplayWindow` | `TypeOK`, `NoDoubleEntry` | `GateInv` |
| `UpstreamProofs!ReserveKeepsLiveProofs`, `FrontMintFollowsUpstream` | `LiveProofsOnFile`, `FrontFollowsUpstream` | `BooksInv` |
| `UpstreamProofs!ParkedNeverReused` | `OffersLiveProofs` | `BooksInv`, `Offers` |
| `WalletProofs!TypeCorrect`, `SecretsAreFresh`, `NothingIsLost`, `RecordsOutliveTokens` | `TypeOK`, `HeldBelowCounter`, `CreditedStaysHeld`, `PendingKeptWhileLive` | `Inv` |
| `WalletProofs!RestoreFindsAll` | `RestoreRecovers` | `Inv`, `Sound` |
| `HostProofs!AnswersAreOwn`, `AnswersAreRepeated` | `AnswersOwnRequest`, `RepeatsAnswer` | `Inv` |
| `FipsProofs!WordIsMints`, `CodecImplementsChannel` | `VerdictIsMints`, `ImplementsChannel` | `Inv` |
| `BoardProofs!HeldProofsAreSigned`, `ScannedTokenIsWhole` | `ProofsAreSigned`, `TokenIsWhole` | `Inv` |
| `BoardProofs!PayOutcomes`, `AtomPaysItsNetwork` | `OutcomeIsTrue`, `ComposesForPayable` | `TollgateInv` |
| `HostProofs!ShownIsRecorded` | `ShownTokenOnRecord` | `UiInv` |

### The mint

`IInv` is the conjunction of

- `TypeOK`;
- `Durable`: while the mint runs, `mem` has the quotes `disk` has and every spent mark
  `disk` has, so that a restart takes back no quote state (`mem` may have more spent
  marks and signatures: a signing that fails leaves them ahead of the snapshot); a
  stopped process has no memory and no call in flight;
- `ClaimOK`: a waiting melt has its inputs and its PENDING in the snapshot;
- `PaidOK`: an invoice that was paid belongs to a quote that is not UNPAID any more,
  and a PAID one was paid; without it `PaysInvoiceOnce` is not inductive, since a
  restarted mint could meet a paid quote in any state (both are per quote: the mint lets
  two quotes name one invoice, and nothing here speaks of that);
- `CountersOK`: the counters agree in the snapshot.

`BurnedOK`: while a melt waits, a burned token is none of its inputs unless the backend
has answered `Ok`, so releasing the inputs of a failed melt releases no burned one.
`InSync`: a running mint's memory is its snapshot.

`Solvent` compares sums, so its invariant does: `Backed` says that what clients can
still claim (`Stake`: tokens not durably spent or in a melt still undecided, and the
change owed by the call in flight) and what the invoices paid out took is at most what
was issued against mint quotes; `Covered`, that the inputs of a waiting
melt cover its invoice and its change; `Whole`, that no quote is half minted. Every
action moves a few terms between the two sides, and the lemmas of `Sums` (a sum splits
over disjoint sets, equal summands give equal sums, one summand changes by so much) turn
the code's per-request checks into the step of the whole sum.

The hypotheses are those of the disagreements below: `SignableOutputs` and `WholeQuotes`
are what the repository's wallets do (numbers 1 and 3), `DefiniteBackend` a backend that
has not paid when it answers `Err` (number 4), `Finite` that there are finitely many
tokens, denominations and quotes. The instance of `mint_wallets` satisfies them all.

### The spending conditions

Nothing here is an induction over steps but the types of a request in the making
(`RequestOK`); the work is in the algorithm. The constructors refuse two keys of a
pathway with one x-coordinate (`DistinctKeys`) and thresholds above the number of keys
(`SoundConditions`), so a count of keys with a valid signature is a count of holders
(`CountedHolders`), which is what `Authorized` is stated in. That an accepted request
stays accepted holds because `requirements_at` only adds the refund pathway when time
passes (`LaterRequirements`). For the wallet's own witnesses `OwnInv` adds that the
wallet builds none for `SIG_ALL`: a change of outputs then cannot invalidate them.
Assumed: tag rows are lists, of numbers where the code parses numbers
(`TransactionsAssumption`), and the placeholders are none of the values they stand
beside (`PlaceholdersAssumption`).

### The gate

`GateInv`: the ring in memory, and the stored one while it is intact, remember every
secret the gate opened for (or is about to) unless it left the window; scans are named
by positions of the history; and no two openings of one secret are within the window.

### The reserve

`BooksInv`: the shapes of the two mints' books and of the file (`Shapes`) and of the call
in progress at each of its steps (`Call`); a running reserve has in memory what is on
file and what a torn top-up left there, and a stopped process neither a memory nor a
call (`Loaded`); what the call believes of the payment is so upstream
(`Believed`); and the two properties themselves. `Offers` adds that proofs are numbered
once (`Stock`), that nothing is spent, held or offered that was not this reserve's
(`Own`), and that while every answer is heard nothing the upstream mint has taken is on
file or torn but what is about to be removed (`Untaken`).

### The wallet

`Money(hand)` says that the proofs in memory together with those in the hands of the
job have an index each, below the counter; that the blob's have too; that the mint has
signed only derived indices; and that what was credited and is unspent is in memory or
in hand. `JobOK` says that a job runs only in a connected engine and that the indices
it will derive after its first request are still there; `Books` that a record dropped
from memory and not yet from the saved state is spent. `HeldBelowCounter` alone is not
inductive: `undo_spend` would bring back proofs nothing is known of, so the selection
has to be part of it. The argument for each request is the same whichever way it fails:
the outputs have the next indices (`CoinsNumbered`), so joining them or leaving the gap
keeps every index single, and the counter in memory moves in both cases. For a restore,
the indices it brings back are those the store does not have, and the counter moves
past the greatest of them.

`RestoreRecovers` speaks of signatures, so `Sound` does: a held proof, in memory, in hand
or in a store that can be read, is the last signature of its index; the counter of the
store is not ahead of the running wallet's; and until the first restart the counter is
past every derivation, so that no index was signed twice.

Assumptions: amounts are positive and tokens decode to
groups of proofs with amounts (`TextAssumption`, the type of `decode_token_any`).

### The adapter

`Inv`: one handler holds the mutex (`Mutex`); whatever lies in the pipe under the id of
that handler was asked for by it, and every id is below `next_id` (`Pipe`); a line is
never empty (`Filled`); an answer, sent or cached, that reports a spend reports one the
mint carried out (`Truthful`); and a 200 that went out for a cached endpoint is in the
cache, so that a later request does not get past the lookup (`Repeats`, `Replies`).
Dropping a handler leaves bytes in the pipe, never an id that will be used again. Assumed: the placeholder `Nobody` is no client.

### The codec

`Inv`: the segments in flight are pieces of replies with their id, and the reassembly
buffer has at each place a byte of such a reply (`Begun`); two replies that share an id
and have pieces about are both in `clashed` (`Apart`), so that without a clash the buffer
is of one reply; what was handed up is a whole frame, or woven from frames of one id that
clashed (`Handed`); every request has an id of its own and is answered once (`Ids`); the
reply to the call in progress is the mint's word (`CallReply`), and an answered call has
no request under way (`Answered`). The client compares the id of the reply with its
call's, which a mixture passes only when it begins with the reply to this very call. A
step of the model is a step of `FrameChannel` under the mapping that takes the frames
numbered so far for those sent, or changes nothing it shows. Assumed: a reply within the
responder's cap fits the segment index (`SegmentsAssumption`, the assertion of
`for_each_segment`).

### The device

`Inv`: signatures of the pinned key on the way from the host are on record (`SigsSigned`),
while those of another key may be for any blinding; the host waits
only with a command to do, and asks for the blinded outputs just before it sends their
signatures (`SignsFirst`); the assembler has parts of one sequence
only (`OneSequence`). That the device keeps no proof of another key then rests on
`verify_dleq` alone. Assumed: the placeholder for nothing is no token.

### The TollGate clients

`PayInv` says what the call in progress has done at each of its steps: nothing is spent
before `spend`, something is from `submit` on, the backend has taken it in `verify`, and
nothing has been returned yet. `AtomInv`: from its validation on, the Atom is on the
network whose advertisement it validated, also through a renewal after `Monitor`.
`OutcomeIsTrue` alone would let a call return `Paid` from a `verify` that nothing led to.

### The screens

`ShownTokenOnRecord` is not inductive: what matters is the updates the event loop has yet
to apply. `Announced` says of each that a token it shows is on the engine's record or
spent, and is kept because no job drops a record but of a token its mint has spent: a
reclaim that succeeded or was found spent, and `check_all_pending`, whose result is shown
to keep every other record (`UnclaimedKeeps`).

### Only model-checked

- Liveness (`PaymentEnds`, `BusyEnds`, `PaidQuoteIssued`, `RequestsEnd`, `ScanningEnds`,
  `PayReturns`, `KioskKeepsOffering`): liveness under fairness is out of this prover's
  reach.

Every invariant and every action property a passing run checks is also a theorem.

Sums over finite sets and powers of two are inductions too. `Sums` gets them without an
induction rule: a set on which a sum misbehaves has a smallest subset on which it does,
and 2^k is the number of subsets of 1..k.

## Where the code and its documents disagree

Behaviours of the models that a comment, a document or a test denies. The properties
above are stated so that they hold of the code as it is; these are the exceptions they
are worded around.

1. `mint_core.rs:531`, comment at `:409`: a batch takes a quote's full amount although
   part of it was minted before, so a partly minted quote is issued twice over, and its
   counter is set to the amount, which hides it from `QuoteCountersAgree`. The run
   `mint_batch` shows it (`AcceptsMintable`, a finding); `Solvent` has clients that mint
   whole quotes.
2. `mint_core.rs:687`, comment at `:685`: PENDING is observable at entry, after a crash
   between the two persists of `post_melt`, and final: nothing ever resolves it.
3. `mint_core.rs:849`, comment at `:1096`: a swap with a blank output claims its inputs
   in memory and then fails without a persist. Hence `MemoryIsDurable` has clients that
   send outputs with a key.
4. `mint_core.rs:798`, `UPSTREAM-BACKEND-DESIGN.md:45`: any `Err` of the backend
   releases the inputs, also one that hides a payment still to settle.
5. `walletport/src/offline.rs:126`, doc at `:27`: a proof listed twice in one token is
   counted twice towards the price.
6. `persistent.rs:551`, doc at `:18`: after a lost reply and a restart the same indices
   are derived for another request, so one secret is signed twice and what the first
   signature was worth is lost. `RestoreRecovers` says that this takes a restart, and that
   the last signature is the one that comes back.
7. `micronuts-wallet-core/src/engine.rs:807`, comment at `:799` and test at `:1142`:
   after a lost reply `restore` brings back inputs that `reconcile_spent` had pruned, and
   the token may be built from them.
8. `reserve.rs:134`, header at `:3` ("persist-before-use rule"): a top-up whose
   `append_unblinded` stops half way returns before its persist; the proofs it pushed are
   in memory, later payments use them, and a crash before the next save loses them.
   `LiveProofsOnFile` makes an exception of them (`torn`, `gone`).
9. `ui.rs:1266` and `:1434`, comment at `:1269` ("Auto-issuance (UX contract)"): the
   answer to a poll is written under whatever invoice is shown by then. A late ISSUED of
   an earlier invoice ends the watch over a newer one, which is then paid and not issued;
   the issuance of the earlier one clears the newer from the screen. `PaidQuoteIssued`
   excepts both (`StaleWord`, and a quote no longer shown).
10. `frag.rs:109`, header at `:8` ("any gap or interleave drops the message"): message ids
   come round after 256 replies and nothing tells two replies with one id apart, so that
   the tail of an old reply can complete the head of a new one. `FrameChannel` allows
   that and no other mixture.
11. `terminal_kiosk.rs:8` ("a kiosk never exits"): `gateway_ip()?` and every
   `draw_status(..)?` of `run` end the program, and a link lost after phase 1 is never
   joined again. `KioskKeepsOffering` excepts both.

Smaller observations made while modelling: an invoice paid before its expiry and looked
up after it stays UNPAID (`mint_core.rs:341`); a failed save at the gate leaves the
secrets in the ring in memory, so the user's retry is refused (`offline.rs:139`); the
pending record of a send is saved after the token is shown (`ui.rs:369`); the frame
decoder drops what follows a complete frame in a chunk (`protocol.rs:227`); the host
gives up after 5 s while a scan may take 10 (`usb.rs:9`, `lib.rs:72` of
`micronuts-app`); the adapter's pipe can lose a cached answer when a handler is dropped
between its read and its insert; a paid kiosk invoice is abandoned after its polling
time; `reserve.rs` keeps an upstream keyset for the life of the process.

## Not modelled

- Elliptic curves, hashing, base64/CBOR/JSON byte layouts: out of TLC's reach; what they
  accept or refuse is modelled where a property needs it.
- The smart-card client: no state of its own, used by nothing.
- The direct and loopback transports: a call and its answer in one step.
- Displays, boot splash, self test, board bring-up, LEDs, NFC, Wi-Fi drivers: hardware
  input and output.
- The browser build (camera, browser HTTP and store, demo mint) and the copies of
  `engine.rs`, `flow.rs` and `mint_wire.rs` under `micronuts-wallet/src`, which no build
  uses.
- Saves of a wallet's store or of `wallet.json` that fail, an unreadable `wallet.json`, and
  the storage of the ESP32 wallet's seed.
- The scripted demos (`demo_roles.rs`) but for the stdio server.

## Plan

1. Failing saves of the wallet's store, in `Wallet` and its proofs.
2. A run of the wallet with input fees (the theorems cover any fee).
