------------------------------ MODULE Tollgate ------------------------------
(***************************************************************************)
(* The ESP32 clients of a TollGate captive portal: the paying client        *)
(* (TollgateClient), driven by the wallet's serial console or by the Atom's *)
(* own loop, and the kiosk that sells access against Lightning invoices.    *)
(*                                                                         *)
(* Each front end is one thread that blocks in bounded HTTP exchanges. The  *)
(* portal, the radio and the clock move between any two of them: a link     *)
(* drops, a session runs out, the router opens its gate late.               *)
(***************************************************************************)
EXTENDS Naturals, FiniteSets

CONSTANTS
  Nets,        \* networks that may be in reach
  Ad,          \* Ad[n]: what network n advertises, one of Ads
  Price,       \* sats per step in an ad that names a price
  DefaultPrice,\* DEFAULT_PRICE_SATS
  Steps,       \* session units a payment buys
  Threshold,   \* RENEW_THRESHOLD_PCT of a session, in units
  Renewals,    \* LOW_BALANCE_RENEWALS
  MaxPolls,    \* POLL_SECS, in polls
  MaxBalance,  \* bound: sats the wallet holds
  None

\* A price in sats with the wallet's mint, with no mint named, with another mint;
\* a price in another unit, of zero, or none; a backend in distress; no TollGate.
Ads == {"good", "no_mint", "other_mint", "other_unit", "zero_price", "no_price",
        "degraded", "free"}

ASSUME TollgateAssumption ==
  /\ \A n \in Nets : Ad[n] \in Ads
  /\ Price \in Nat \ {0} /\ DefaultPrice \in Nat \ {0} /\ Steps \in Nat \ {0}
  /\ Threshold \in 0..Steps /\ Renewals \in Nat \ {0} /\ MaxPolls \in Nat \ {0}
  /\ None \notin {"Paid", "AlreadyAuthed", "Error"}

VARIABLES
  front,    \* which program runs: "console", "atom" or "kiosk"
  pc,       \* where it is
  net,      \* network of the DHCP lease
  link,     \* whether the station is associated
  left,     \* left[n]: what the backend's /usage has left of the session
  open,     \* open[n]: the router lets this station through
  disc,     \* TollgateClient.discovery: the network whose ad it holds
  eng,      \* WalletEngine: balance, and whether it has been connected
  pay,      \* the pay call: amount (None: not given), and (history) sats spent
            \* and whether the backend took them
  outcome,  \* what the last pay call returned
  polls     \* kiosk: polls of the invoice shown

tollgateVars == <<front, pc, net, link, left, open, disc, eng, pay, outcome, polls>>
portal == <<left, open>>
wallet == <<eng, pay, outcome, polls>>

NoPay == [amount |-> None, spent |-> 0, credited |-> FALSE]

-----------------------------------------------------------------------------
(* The portal and the radio (external).                                    *)

LinkLost == link /\ link' = FALSE /\ UNCHANGED <<front, pc, net, disc>> /\ UNCHANGED <<portal, wallet>>

Expire(n) ==
  /\ left[n] > 0
  /\ left' = [left EXCEPT ![n] = @ - 1]
  /\ open' = [open EXCEPT ![n] = @ /\ left[n] > 1]
  /\ UNCHANGED <<front, pc, net, link, disc>> /\ UNCHANGED wallet

\* The router's marks follow the backend with a delay.
Heal(n) ==
  /\ left[n] > 0 /\ ~open[n]
  /\ open' = [open EXCEPT ![n] = TRUE]
  /\ UNCHANGED <<front, pc, net, link, disc, left>> /\ UNCHANGED wallet

World == LinkLost \/ \E n \in Nets : Expire(n) \/ Heal(n)

\* WifiManager::connect: the old association goes first, and a join can fail.
connect(n, ok) == net' = (IF ok THEN n ELSE None) /\ link' = ok

\* WifiManager::scan_find_open: the open TollGate networks, of which any may be
\* the strongest.
scan_find_open == {n \in Nets : Ad[n] # "free"}

\* WifiManager::gateway_ip: the gateway of the lease, if the lease names one.
gateway_ip(ok) == ok /\ net # None

-----------------------------------------------------------------------------
(* TollgateClient.                                                         *)

\* http_exchange to the gateway of network n, which only that network routes.
reachable(n) == link /\ net = n

\* GET / and parse_discovery; every exchange can also fail on its own.
discovered(ok) == ok /\ net # None /\ reachable(net) /\ Ad[net] \notin {"degraded", "free"}

discover(ok) == IF discovered(ok) THEN net ELSE disc

price_sats(n) ==
  CASE Ad[n] \in {"good", "no_mint", "other_mint", "other_unit"} -> Price
    [] Ad[n] = "zero_price"                                     -> 0
    [] OTHER                                                    -> None

\* The probe of an IP literal. A redirect counts as a closed gate only when it
\* names the gateway that was discovered.
probe(ok) ==
  IF ~link \/ ~ok THEN "Unreachable"
  ELSE IF ~open[net] /\ net = disc THEN "Gated" ELSE "Open"

\* GET /usage: the units left, or no answer.
usage(ok) == IF ok /\ disc # None /\ reachable(disc) THEN left[disc] ELSE None

\* The backend may take a token that buys a step, but none of another mint or
\* unit than its own; an offer of zero sells nothing.
redeems ==
  /\ reachable(disc) /\ Ad[disc] \notin {"other_mint", "other_unit", "zero_price"}
  /\ pay.amount >= Price

InPay == {"discover", "probe", "spend", "submit", "verify", "verify_again"}

\* Where a front end goes on when pay() returns.
after_pay(o) ==
  IF front = "console" THEN "idle" ELSE IF o = "Error" THEN "Scan" ELSE "Monitor"

Return(o) == outcome' = o /\ pc' = after_pay(o)

Start(amount) == pay' = [NoPay EXCEPT !.amount = amount] /\ outcome' = None

PayDiscover ==
  /\ pc = "discover"
  /\ \E ok \in BOOLEAN :
       IF disc = None /\ ~discovered(ok) THEN Return("Error") /\ UNCHANGED disc
       ELSE pc' = "probe" /\ disc' = (IF disc = None THEN net ELSE disc) /\ UNCHANGED outcome
  /\ UNCHANGED <<front, net, link, eng, pay, polls>> /\ UNCHANGED portal

\* already_authed, and the amount: the caller's, the ad's, or the default.
PayProbe ==
  /\ pc = "probe"
  /\ \E ok \in BOOLEAN :
       CASE probe(ok) = "Unreachable" -> Return("Error") /\ UNCHANGED pay
         [] probe(ok) = "Open"        -> Return("AlreadyAuthed") /\ UNCHANGED pay
         [] probe(ok) = "Gated"       ->
              /\ pc' = "spend" /\ UNCHANGED outcome
              /\ pay' = [pay EXCEPT !.amount =
                           IF @ # None THEN @
                           ELSE IF price_sats(disc) # None THEN price_sats(disc) ELSE DefaultPrice]
  /\ UNCHANGED <<front, net, link, disc, eng, polls>> /\ UNCHANGED portal

\* engine.send_token refuses until the engine has been connected, and composes
\* no token of nothing.
PaySpend ==
  /\ pc = "spend"
  /\ \/ /\ eng.connected /\ pay.amount > 0 /\ eng.balance >= pay.amount
        /\ eng' = [eng EXCEPT !.balance = @ - pay.amount]
        /\ pay' = [pay EXCEPT !.spent = pay.amount]
        /\ pc' = "submit" /\ UNCHANGED outcome
     \/ Return("Error") /\ UNCHANGED <<eng, pay>>
  /\ UNCHANGED <<front, net, link, disc, polls>> /\ UNCHANGED portal

\* Mutant: the backend's status is not looked at.
accepted_unread(reply) == reply # "lost"

accepted(reply) == reply = "taken"

\* The raw-body POST. A reply can be lost after the backend took the token.
PaySubmit ==
  /\ pc = "submit"
  /\ \E reply \in {"taken", "refused", "lost"}, took \in BOOLEAN :
       /\ took => redeems
       /\ reply # "lost" => reachable(disc) /\ took = (reply = "taken")
       /\ left' = IF took THEN [left EXCEPT ![disc] = Steps] ELSE left
       /\ pay' = [pay EXCEPT !.credited = took]
       /\ IF accepted(reply) THEN pc' = "verify" /\ UNCHANGED outcome ELSE Return("Error")
  /\ UNCHANGED <<front, net, link, open, disc, eng, polls>>

\* Mutant: an unreachable probe is tried until it answers.
retried_forever(p) == IF p = "Unreachable" THEN "verify_again" ELSE "give_up"

\* One retry after VERIFY_RETRY_BACKOFF, then the flow fails loudly.
retried(p) == IF pc = "verify" THEN "verify_again" ELSE "give_up"

PayVerify ==
  /\ pc \in {"verify", "verify_again"}
  /\ \E ok \in BOOLEAN :
       IF probe(ok) = "Open" THEN Return("Paid")
       ELSE IF retried(probe(ok)) = "give_up" THEN Return("Error")
       ELSE pc' = retried(probe(ok)) /\ UNCHANGED outcome
  /\ UNCHANGED <<front, net, link, disc, eng, pay, polls>> /\ UNCHANGED portal

Pay == PayDiscover \/ PayProbe \/ PaySpend \/ PaySubmit \/ PayVerify

-----------------------------------------------------------------------------
(* The serial console of the wallet.                                       *)

Console(A) == front = "console" /\ pc = "idle" /\ A

\* tollgate join: a new network drops the discovery.
Join ==
  /\ \E n \in Nets, ok \in BOOLEAN : connect(n, ok) /\ disc' = IF ok THEN None ELSE disc
  /\ UNCHANGED <<front, pc>> /\ UNCHANGED <<portal, wallet>>

\* The wifi command joins the baked-in network and leaves the discovery alone.
WifiRetry ==
  /\ \E n \in Nets, ok \in BOOLEAN : Ad[n] = "free" /\ connect(n, ok)
  /\ UNCHANGED <<front, pc, disc>> /\ UNCHANGED <<portal, wallet>>

Connect ==
  /\ eng' = [eng EXCEPT !.connected = TRUE]
  /\ UNCHANGED <<front, pc, net, link, disc, pay, outcome, polls>> /\ UNCHANGED portal

\* receive_token swaps a pasted token in; without a connected engine it is
\* refused and nothing changes.
ReceivePasted ==
  /\ eng.connected /\ eng.balance < MaxBalance
  /\ eng' = [eng EXCEPT !.balance = @ + 1]
  /\ UNCHANGED <<front, pc, net, link, disc, pay, outcome, polls>> /\ UNCHANGED portal

\* send hands a token to the user; nothing of it is kept here.
SendToken ==
  /\ eng.connected /\ eng.balance > 0
  /\ eng' = [eng EXCEPT !.balance = @ - 1]
  /\ UNCHANGED <<front, pc, net, link, disc, pay, outcome, polls>> /\ UNCHANGED portal

ConsolePay ==
  /\ \E amount \in {None, 0, Price} : Start(amount)
  /\ pc' = "discover"
  /\ UNCHANGED <<front, net, link, disc, eng, polls>> /\ UNCHANGED portal

ConsoleStep == Console(Join \/ WifiRetry \/ Connect \/ ReceivePasted \/ SendToken \/ ConsolePay)

-----------------------------------------------------------------------------
(* The Atom's loop. Its engine is never connected.                          *)

Atom(phase, A) == front = "atom" /\ pc = phase /\ A

\* The strongest open TollGate network is joined; a scan the driver refuses ends
\* the program.
ScanJoin ==
  /\ \/ \E n \in scan_find_open, ok \in BOOLEAN :
          connect(n, ok) /\ pc' = IF ok THEN "Validate" ELSE "Scan"
     \/ pc' = "exited" /\ UNCHANGED <<net, link>>
  /\ UNCHANGED <<front, disc>> /\ UNCHANGED <<portal, wallet>>

\* A price, of at least one, in sats.
ad_valid(n) == price_sats(n) # None /\ price_sats(n) >= 1 /\ Ad[n] # "other_unit"

\* Mutant: the mint of the ad is not compared with the wallet's.
any_mint(n) == TRUE

\* An ad that names no mint passes.
own_mint(n) == Ad[n] # "other_mint"

Validate ==
  /\ \E ok \in BOOLEAN, answered \in BOOLEAN :
       /\ disc' = discover(ok)
       /\ pc' = IF ~discovered(ok) \/ ~ad_valid(net) \/ ~own_mint(net) THEN "Scan"
                ELSE IF answered /\ reachable(net) /\ left[net] > 0 THEN "Monitor" ELSE "Pay"
  /\ UNCHANGED <<front, net, link>> /\ UNCHANGED <<portal, wallet>>

\* Below two renewals' worth the Atom waits for a token instead of paying.
AtomPay ==
  /\ eng.balance >= Price * Renewals
  /\ Start(Price) /\ pc' = "discover"
  /\ UNCHANGED <<front, net, link, disc, eng, polls>> /\ UNCHANGED portal

Monitor ==
  /\ \E ok \in BOOLEAN :
       pc' = IF ~link THEN "Scan"
             ELSE IF usage(ok) # None /\ usage(ok) <= Threshold THEN "Pay" ELSE "Monitor"
  /\ UNCHANGED <<front, net, link, disc>> /\ UNCHANGED <<portal, wallet>>

AtomStep ==
  \/ Atom("Scan", ScanJoin) \/ Atom("Validate", Validate)
  \/ Atom("Pay", AtomPay) \/ Atom("Monitor", Monitor)

-----------------------------------------------------------------------------
(* The kiosk.                                                              *)

Kiosk(phase, A) ==
  front = "kiosk" /\ pc = phase /\ A
    /\ UNCHANGED <<front, disc, eng, pay, outcome>> /\ UNCHANGED portal

\* draw_status(..)? ends the program when the panel does not take the drawing,
\* which it may do at any time.
DrawnOr(next) == {next, "exited"}

\* Drawn before and after the attempt to join.
KioskWifi ==
  /\ \/ \E n \in Nets, ok \in BOOLEAN :
          connect(n, ok) /\ pc' \in IF ok THEN {"gateway"} ELSE DrawnOr("wifi")
     \/ pc' = "exited" /\ UNCHANGED <<net, link>>
  /\ UNCHANGED polls

\* A lease without a gateway ends the program.
KioskGateway ==
  /\ \E ok \in BOOLEAN : pc' = IF gateway_ip(ok) THEN "find" ELSE "exited"
  /\ UNCHANGED <<net, link, polls>>

\* The kiosk's requests: a dead link and every failure of theirs are errors. No
\* step after KioskWifi joins again.
http_request(ok) == ok /\ link

KioskFind ==
  /\ \E ok \in BOOLEAN : pc' \in DrawnOr(IF http_request(ok) THEN "create" ELSE "find")
  /\ UNCHANGED <<net, link, polls>>

\* invoice_cycle until its invoice is on the screen. What fails in a cycle,
\* drawing included, is an error of the cycle.
KioskCreate ==
  /\ \E ok \in BOOLEAN : pc' = IF http_request(ok) THEN "poll" ELSE "error"
  /\ polls' = 0 /\ UNCHANGED <<net, link>>

\* Mutant: the deadline is set again while the invoice is polled.
polled_anew == IF polls + 1 < MaxPolls THEN polls + 1 ELSE 0

polled == polls + 1

\* A status other than 200 or an invoice not yet paid is polled again, up to the
\* deadline, which slow answers bring nearer. The grant ends the cycle, an error
\* too.
KioskPoll ==
  /\ \/ polls < MaxPolls /\ link /\ pc' = "poll" /\ polls' = polled
     \/ polls < MaxPolls /\ link /\ pc' = "paid" /\ UNCHANGED polls
     \/ polls < MaxPolls /\ pc' = "error" /\ UNCHANGED polls
     \/ pc' = "rest" /\ UNCHANGED polls
  /\ UNCHANGED <<net, link>>

\* BACKEND ERROR is drawn, or the program ends.
KioskError == pc' \in DrawnOr("rest") /\ UNCHANGED <<net, link, polls>>

KioskRest == pc' = "create" /\ UNCHANGED <<net, link, polls>>

KioskStep ==
  \/ Kiosk("wifi", KioskWifi) \/ Kiosk("gateway", KioskGateway) \/ Kiosk("find", KioskFind)
  \/ Kiosk("create", KioskCreate) \/ Kiosk("poll", KioskPoll)
  \/ Kiosk("error", KioskError) \/ Kiosk("paid", KioskRest) \/ Kiosk("rest", KioskRest)

-----------------------------------------------------------------------------

\* Where each program's loop begins.
Started(f) == CASE f = "console" -> "idle" [] f = "atom" -> "Scan" [] f = "kiosk" -> "wifi"

\* The console connects its engine while it boots, or goes on without (with a
\* stub, if even the engine's store fails); the other programs never do.
booted(f) == IF f = "console" THEN BOOLEAN ELSE {FALSE}

\* The console's boot tries the baked-in network, and goes on without it.  A
\* board that reboots may have a session left where it paid before.
TollgateInit ==
  /\ front \in {"console", "atom", "kiosk"}
  /\ pc = Started(front)
  /\ net = None /\ link = FALSE
  /\ \E before \in SUBSET {n \in Nets : Ad[n] = "good"} :
       /\ left = [n \in Nets |-> IF n \in before THEN Steps ELSE 0]
       /\ open = [n \in Nets |-> Ad[n] = "free" \/ n \in before]
  /\ disc = None
  /\ \E b \in {0, MaxBalance}, c \in booted(front) : eng = [balance |-> b, connected |-> c]
  /\ pay = NoPay /\ outcome = None /\ polls = 0

TollgateNext == World \/ Pay \/ ConsoleStep \/ AtomStep \/ KioskStep

\* Each program is a thread the RTOS schedules; every exchange is bounded by
\* its timeout.
TollgateSpec ==
  /\ TollgateInit /\ [][TollgateNext]_tollgateVars
  /\ WF_tollgateVars(Pay) /\ WF_tollgateVars(KioskStep)

-----------------------------------------------------------------------------

\* What pay() returns is true of the money: Paid only when the backend took
\* this call's token, AlreadyAuthed only when nothing was spent.
OutcomeIsTrue ==
  /\ outcome = "Paid" => pay.spent > 0 /\ pay.credited
  /\ outcome = "AlreadyAuthed" => pay.spent = 0

\* The Atom never gets as far as composing a token for a network other than the
\* one it is on, or whose ad it has not found payable: a price in sats, and no
\* mint but the wallet's.
ComposesForPayable ==
  front = "atom" /\ pc \in {"spend", "submit"} =>
    Ad[disc] \in {"good", "no_mint"} /\ disc = net

\* A pay call returns, through lost links, late gates and lost replies.
PayReturns == pc \in InPay ~> pc \notin InPay

Offer == Kiosk("create", KioskCreate) /\ pc' = "poll"

\* A kiosk whose backend answers, if it is asked often enough, shows invoices one
\* after the other: each gives way to an attempt at the next, and an invoice is
\* shown again. What stops it is the program's end, at a drawing that fails, and
\* a lost link, which it never joins again.
KioskKeepsOffering ==
  SF_tollgateVars(Offer) =>
    [](pc = "create" =>
         \/ <>(pc = "exited" \/ ~link)
         \/ []<>(pc = "poll") /\ []<>(pc = "create"))

=============================================================================
