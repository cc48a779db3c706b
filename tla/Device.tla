------------------------------- MODULE Device -------------------------------
(***************************************************************************)
(* The handheld device: one loop that answers the host's command frames    *)
(* (micronuts-app command_handler) and, every 5 ms, harvests the QR scanner *)
(* and the touch screen (micronuts-app run), driven by the host tool's      *)
(* command arms and swap script over a USB serial line.                     *)
(*                                                                         *)
(* The loop awaits every scanner read to its end before it looks at USB, so *)
(* a command and a tick are each one step; what runs beside them is the     *)
(* host, which gives up after 5 s while the device may still answer.        *)
(***************************************************************************)
EXTENDS Naturals, Sequences, FiniteSets

CONSTANTS
  Tokens,        \* cashuB tokens: they can be imported, swapped, shown as QR
  Blob,          \* a UR sequence whose bytes are not a token
  Count,         \* Count[t]: the number of proofs in token t
  Parts,         \* fragments of a UR sequence
  ExportCap,     \* proofs that fit a GetProofs answer (MAX_PAYLOAD_SIZE)
  TickLimit,     \* SCAN_TIMEOUT_TICKS
  RetryLimit,    \* MAX_SCAN_RETRIES
  Worlds,        \* bound: what the device may meet (see the variable world)
  MaxGen,        \* bound: blindings the device makes
  NONE

VARIABLES
  dev,      \* FirmwareState: imported, blinded, proofs, swap
  asm,      \* ScanAssembler: hash bound, fragments got
  app,      \* run()'s locals: screen, ticks, retries, capture, last
  gen,      \* blindings made so far: the RNG never repeats a blinder
  signed,   \* blindings the pinned key has signed (never 0)
  host,     \* host process: steps to do, whether it waits, token, signatures
  cmds,     \* command frames on their way to the device
  answers,  \* response frames on their way to the host
  world     \* outside the device: the codes that come before the scanner, the
            \* command lines the host runs, the frames that may wait on the line

vars == <<dev, asm, app, gen, signed, host, cmds, answers, world>>

-----------------------------------------------------------------------------
(* Codes a scanner can read, and their assembly.                           *)

Ur(h, i) == [kind |-> "ur", hash |-> h, i |-> i]

\* Index 0 stands for an index outside the sequence.
Codes ==
  {Ur(h, i) : h \in Tokens \cup {Blob}, i \in 0..Parts}
    \cup {[kind |-> "token", tok |-> t] : t \in Tokens}
    \cup {[kind |-> "text"]}

Empty == [hash |-> NONE, got |-> {}]

\* What decode_token makes of the joined fragments. Fragments of one sequence
\* spell its content; a mixture of sequences may or may not parse.
Decoded(got) ==
  LET hashes == {f.hash : f \in got} IN
  IF Cardinality(hashes) = 1 THEN IF hashes \subseteq Tokens THEN hashes ELSE {NONE}
  ELSE {NONE} \cup (hashes \cap Tokens)

Outcome(a, o, t, p) == [asm |-> a, out |-> o, tok |-> t, parts |-> p]

\* A fragment the sequence binding let through reaches the UR decoder. After
\* the last one the decoder keeps what it has.
feed(a, f) ==
  LET got == IF f.i = 0 THEN a.got ELSE a.got \cup {f} IN
  IF f.i # 0 /\ {g.i : g \in got} = 1..Parts
  THEN {IF t = NONE THEN Outcome(Empty, "show", NONE, {})
                    ELSE Outcome([a EXCEPT !.got = got], "ready", t, got) : t \in Decoded(got)}
  ELSE {Outcome([a EXCEPT !.got = got], IF got # {} THEN "keep" ELSE "invalid", NONE, {})}

\* Mutant: fragments of any sequence are taken.
any_sequence(a, f) == TRUE

\* The first fragment's hash owns the sequence.
same_sequence(a, f) == a.hash \in {NONE, f.hash}

process(a, f) ==
  CASE f.kind = "ur" /\ ~same_sequence(a, f) -> {Outcome(a, "invalid", NONE, {})}
    [] f.kind = "ur" /\ same_sequence(a, f)  -> feed([a EXCEPT !.hash = f.hash], f)
    [] f.kind = "token"                      -> {Outcome(a, "ready", f.tok, {})}
    [] f.kind = "text"                       -> {Outcome(a, "show", NONE, {})}

Imported(d, t, p) == [d EXCEPT !.imported = [tok |-> t, parts |-> p], !.swap = "TokenImported"]

Assembled(d, r) == IF r.out = "ready" THEN Imported(d, r.tok, r.parts) ELSE d

-----------------------------------------------------------------------------
(* Commands: the handler and what run() does after it.                      *)

Answer(st, body) == [st |-> st, body |-> body]

Cmd(c, arg) == [c |-> c, arg |-> arg]

\* The token a swap exports: the proofs under the mint of the token imported last.
build_export_token == [proofs |-> dev.proofs, mint |-> dev.imported.tok]

handle_get_proofs ==
  IF dev.proofs = NONE \/ dev.imported = NONE THEN Answer("Error", NONE)
  ELSE IF Count[dev.proofs.tok] > ExportCap THEN Answer("BufferOverflow", NONE)
  ELSE Answer("Ok", build_export_token)

handle_get_token_info ==
  IF dev.imported = NONE THEN Answer("Error", NONE)
  ELSE Answer("Ok", [info |-> dev.imported.tok])

\* Mutant: any parseable point is taken for a signature.
verify_nothing(blinded, sig) == TRUE

\* The demo mint's key; whoever speaks over the line may hold another.
pinned_demo_mint_key == "demo"

Keys == {pinned_demo_mint_key, "other"}

\* A signature names the blinding it signs and the key it is made with, and
\* carries a NUT-12 proof of the two. The proof holds for no other blinding and
\* no other key, and for these only if it is the one the signer made.
verify_dleq(blinded, sig) ==
  sig.gen = blinded.gen /\ sig.key = pinned_demo_mint_key /\ sig.dleq

\* Secrets and blinders are drawn afresh: a blinding is made once.
rng_fill_bytes == gen + 1

blind_message(t) == [tok |-> t, gen |-> rng_fill_bytes]

\* With the blinder of another blinding, or the public key of another signer,
\* nothing is left of a signature.
unblind_signature(blinded, sig) ==
  IF sig.gen = blinded.gen /\ sig.key = pinned_demo_mint_key THEN blinded.gen ELSE 0

\* The proofs of the blinded token, under the keyset of the token imported last.
Unblinded(d, sig) ==
  [tok |-> d.blinded.tok, gen |-> unblind_signature(d.blinded, sig),
   keyset |-> IF d.imported = NONE THEN NONE ELSE d.imported.tok]

SigsStatus(sig) ==
  IF dev.blinded = NONE THEN "Error"
  ELSE IF sig.n # Count[dev.blinded.tok] THEN "InvalidPayload"
  ELSE IF ~verify_dleq(dev.blinded, sig) THEN "CryptoError" ELSE "Ok"

Reply(a) == answers' = Append(answers, a)

\* The frame decoder returns the first frame of a USB packet and drops the
\* rest of it: a second frame that came in the same packet is lost.
decode(frames) ==
  IF Len(frames) > 1 THEN {Tail(frames), Tail(Tail(frames))} ELSE {Tail(frames)}

Receive(c) ==
  /\ cmds # <<>> /\ Head(cmds).c = c
  /\ cmds' \in decode(cmds)
  /\ UNCHANGED <<host, signed, world>>

Quiet == UNCHANGED <<dev, asm, app, gen>>

\* A device waiting for a token goes on to show the imported one, whether or
\* not the import was accepted.
ImportToken ==
  /\ Receive("ImportToken")
  /\ LET t == Head(cmds).arg IN
     IF t \in Tokens THEN dev' = Imported(dev, t, {}) /\ Reply(Answer("Ok", NONE))
     ELSE UNCHANGED dev /\ Reply(Answer("InvalidPayload", NONE))
  /\ app' = IF app.screen = "WaitingToken" THEN [app EXCEPT !.screen = "TokenInfo"] ELSE app
  /\ UNCHANGED <<asm, gen>>

GetTokenInfo == Receive("GetTokenInfo") /\ Reply(handle_get_token_info) /\ Quiet

GetBlinded ==
  /\ Receive("GetBlinded")
  /\ IF dev.imported = NONE
     THEN Reply(Answer("Error", NONE)) /\ UNCHANGED <<dev, gen>>
     ELSE LET b == blind_message(dev.imported.tok) IN
          /\ gen' = b.gen
          /\ dev' = [dev EXCEPT !.blinded = b, !.swap = "BlindedGenerated"]
          /\ Reply(Answer("Ok", [blinded |-> b]))
  /\ UNCHANGED <<asm, app>>

SendSignatures ==
  /\ Receive("SendSignatures")
  /\ LET sig == Head(cmds).arg  st == SigsStatus(sig) IN
     /\ dev' = IF st # "Ok" THEN dev
               ELSE [dev EXCEPT !.proofs = Unblinded(dev, sig),
                                !.swap = "ProofsReady"]
     /\ Reply(Answer(st, NONE))
  /\ UNCHANGED <<asm, app, gen>>

GetProofs == Receive("GetProofs") /\ Reply(handle_get_proofs) /\ Quiet

\* The scanner answers or it does not; a failed trigger opens the capture
\* window all the same.
ScannerTrigger ==
  /\ Receive("ScannerTrigger")
  /\ \E st \in {"Ok", "ScannerNotConnected"} : Reply(Answer(st, NONE))
  /\ app' = [app EXCEPT !.last = NONE, !.capture = TRUE]
  /\ UNCHANGED <<dev, asm, gen>>

\* ScannerStatus, ScannerHeal, ScannerFactoryHeal, NfcPoll and NfcHeal touch
\* the readers only.
ScannerCare ==
  /\ Receive("ScannerCare")
  /\ \E st \in {"Ok", "ScannerNotConnected"} : Reply(Answer(st, NONE))
  /\ Quiet

\* A payload of either reader goes through the one assembler.
classify_and_assemble(f) ==
  \E r \in process(asm, f) :
    /\ asm' = r.asm /\ dev' = Assembled(dev, r)
    /\ Reply(Answer("Ok", [scan |-> r.out]))

\* The code captured last is used up.
ScannerData ==
  /\ Receive("ScannerData")
  /\ \/ /\ app.last = NONE
        /\ Reply(Answer("NoScanData", NONE)) /\ UNCHANGED <<dev, asm>>
     \/ app.last # NONE /\ classify_and_assemble(app.last)
  /\ app' = [app EXCEPT !.last = NONE]
  /\ UNCHANGED gen

\* A tag is read on the spot.
NfcData ==
  /\ Receive("NfcData")
  /\ \/ Reply(Answer("NfcNoTag", NONE)) /\ UNCHANGED <<dev, asm>>
     \/ \E f \in world.seen : classify_and_assemble(f)
  /\ UNCHANGED <<app, gen>>

handle_command ==
  \/ ImportToken \/ GetTokenInfo \/ GetBlinded \/ SendSignatures \/ GetProofs
  \/ ScannerTrigger \/ ScannerData \/ NfcData \/ ScannerCare

-----------------------------------------------------------------------------
(* The 5 ms tick: the capture window, the screen shown, and the way home.   *)

\* The window a ScannerTrigger opened is awaited once, to a code or its end.
Harvest ==
  IF ~app.capture THEN {app}
  ELSE {[app EXCEPT !.capture = FALSE]}
         \cup {[app EXCEPT !.capture = FALSE, !.last = f] : f \in world.seen}

Rested(a) == [a EXCEPT !.ticks = 0, !.retries = 0]

GoHome(a) == [Rested(a) EXCEPT !.screen = "Home"]

Home ==
  /\ app.screen = "Home"
  /\ \E a \in Harvest, touch \in {"none", "scan", "token", "proofs"} :
       /\ app' = CASE touch = "scan"   -> [Rested(a) EXCEPT !.screen = "Scanning", !.last = NONE]
                   [] touch = "token"  -> [a EXCEPT !.screen = IF a.last # NONE THEN "ScanResult"
                                                               ELSE "WaitingToken"]
                   [] touch = "proofs" -> [a EXCEPT !.screen = IF dev.swap = "ProofsReady"
                                                               THEN "ShowProofs" ELSE "Home"]
                   [] touch = "none"   -> a
       /\ asm' = IF touch = "scan" THEN Empty ELSE asm
  /\ UNCHANGED dev

\* Mutant: a re-trigger starts the count of retries again.
ExpiredFresh(a) ==
  IF a.ticks + 1 <= TickLimit THEN [a EXCEPT !.ticks = a.ticks + 1]
  ELSE [a EXCEPT !.ticks = 0, !.retries = 0]

\* No code within the await: count it, re-trigger, and give up in the end.
Expired(a) ==
  IF a.ticks + 1 <= TickLimit THEN [a EXCEPT !.ticks = a.ticks + 1]
  ELSE [a EXCEPT !.ticks = 0, !.retries = a.retries + 1]

GaveUp(a) == a.retries >= RetryLimit

Scanned(a, f, r) ==
  LET b == [a EXCEPT !.last = f, !.ticks = 0] IN
  CASE r.out = "ready"   -> [Rested(b) EXCEPT !.screen = "TokenInfo"]
    [] r.out = "keep"    -> [b EXCEPT !.retries = 0]
    [] r.out = "invalid" -> b
    [] r.out = "show"    -> [Rested(b) EXCEPT !.screen = "ScanResult"]

\* The results of one scanner await on the Scanning screen.
ScanRead(a) ==
  {[app |-> Expired(a), asm |-> asm, dev |-> dev]}
    \cup UNION {{[app |-> Scanned(a, f, r), asm |-> r.asm, dev |-> Assembled(dev, r)]
                   : r \in process(asm, f)} : f \in world.seen}

Scanning ==
  /\ app.screen = "Scanning"
  /\ \E a \in Harvest, touch \in {"none", "back"} : \E s \in ScanRead(a) :
       LET home == touch = "back" \/ GaveUp(s.app) IN
       /\ app' = IF home THEN GoHome(s.app) ELSE s.app
       /\ asm' = IF home THEN Empty ELSE s.asm
       /\ dev' = s.dev

OtherScreen ==
  /\ app.screen \in {"ScanResult", "WaitingToken", "TokenInfo", "ShowProofs"}
  /\ \E a \in Harvest, touch \in {"none", "back"} :
       /\ app' = IF touch = "back" THEN GoHome(a) ELSE a
       /\ asm' = IF touch = "back" THEN Empty ELSE asm
  /\ UNCHANGED dev

Tick ==
  /\ Home \/ Scanning \/ OtherScreen
  /\ UNCHANGED <<gen, signed, host, cmds, answers, world>>

\* No further code comes before the scanner.
Darken ==
  /\ world.seen # {} /\ world' = [world EXCEPT !.seen = {}]
  /\ UNCHANGED <<dev, asm, app, gen, signed, host, cmds, answers>>

-----------------------------------------------------------------------------
(* The host tool: one process per command line, one frame at a time.        *)

run_swap_script == <<"ImportToken", "GetTokenInfo", "GetBlinded", "SendSignatures", "GetProofs">>

\* The command lines of the host tool; NfcData comes from other CDC hosts.
Arms ==
  {<<"ImportToken">>, <<"GetTokenInfo">>, <<"GetBlinded">>, <<"GetBlinded", "SendSignatures">>,
   <<"GetProofs">>, <<"ScannerTrigger", "ScannerData">>, <<"NfcData">>, <<"ScannerCare">>,
   run_swap_script}

ASSUME DeviceAssumption ==
  /\ Parts \in Nat \ {0} /\ TickLimit \in Nat /\ RetryLimit \in Nat \ {0}
  /\ Worlds \subseteq [seen : SUBSET Codes, arms : SUBSET Arms, room : Nat]
  /\ Blob \notin Tokens /\ NONE \notin Tokens \cup {Blob}
  /\ \A t \in Tokens : Count[t] \in Nat \ {0}

Gone == [todo |-> <<>>, waits |-> FALSE, swap |-> FALSE, tok |-> NONE, sig |-> NONE]

\* Opening the port finds the answers that came too late for the last process,
\* or the system has thrown them away. An import may be no token at all.
Open ==
  /\ host.todo = <<>>
  /\ \E arm \in world.arms, t \in Tokens \cup {NONE} :
       /\ Head(arm) # "ImportToken" => t = NONE
       /\ arm = run_swap_script => t # NONE
       /\ host' = [Gone EXCEPT !.todo = arm, !.tok = t, !.swap = arm = run_swap_script]
  /\ answers' \in {answers, <<>>}
  /\ UNCHANGED <<dev, asm, app, gen, signed, cmds, world>>

Blindings == gen + Len(SelectSeq(cmds, LAMBDA c : c.c = "GetBlinded"))

Argument(c) ==
  CASE c = "ImportToken" -> host.tok [] c = "SendSignatures" -> host.sig [] OTHER -> NONE

Send ==
  /\ host.todo # <<>> /\ ~host.waits
  /\ Len(cmds) + Len(answers) < world.room
  /\ Head(host.todo) = "GetBlinded" => Blindings < MaxGen
  /\ cmds' = Append(cmds, Cmd(Head(host.todo), Argument(Head(host.todo))))
  /\ host' = [host EXCEPT !.waits = TRUE]
  /\ UNCHANGED <<dev, asm, app, gen, signed, answers, world>>

Has(body, field) == body # NONE /\ field \in DOMAIN body

\* The swap script's checks of an answer; the other arms look at the status.
Expected(c, body) ==
  CASE c = "GetTokenInfo" -> Has(body, "info") /\ Count[body.info] = Count[host.tok]
    [] c = "GetBlinded"   -> Has(body, "blinded") /\ Count[body.blinded.tok] = Count[host.tok]
    [] c = "GetProofs"    -> Has(body, "proofs") /\ Count[body.proofs.tok] = Count[host.tok]
    [] OTHER              -> TRUE

\* The process goes on; otherwise it bails out.
Proceeds(c, ans) ==
  /\ ans.st = "Ok" \/ c = "ScannerData"
  /\ host.swap => Expected(c, ans.body)

\* DemoMint::sign and prove_dleq with some key; a broken proof is that of the
\* self test's negative leg.
sign(b, key, proved) == [gen |-> b.gen, key |-> key, n |-> Count[b.tok], dleq |-> proved]

\* sign_blinded_outputs, which needs blinded outputs to sign.
Sign(b) ==
  \E key \in Keys, proved \in BOOLEAN :
    /\ host' = [host EXCEPT !.todo = Tail(@), !.waits = FALSE, !.sig = sign(b, key, proved)]
    /\ signed' = IF key = pinned_demo_mint_key THEN signed \cup {b.gen} ELSE signed

\* The scan arm asks again until there is a code: its 60 attempts end in Timeout.
Recv ==
  /\ host.waits /\ answers # <<>>
  /\ answers' = Tail(answers)
  /\ LET c == Head(host.todo)  ans == Head(answers)
         signs == c = "GetBlinded" /\ Len(host.todo) > 1 IN
     \/ /\ ~Proceeds(c, ans) \/ (signs /\ ~Has(ans.body, "blinded"))
        /\ host' = Gone /\ UNCHANGED signed
     \/ /\ Proceeds(c, ans) /\ signs /\ Has(ans.body, "blinded")
        /\ Sign(ans.body.blinded)
     \/ /\ Proceeds(c, ans) /\ ~signs
        /\ host' = [host EXCEPT !.todo = IF ans.st = "Ok" THEN Tail(@) ELSE @, !.waits = FALSE]
        /\ UNCHANGED signed
  /\ UNCHANGED <<dev, asm, app, gen, cmds, world>>

\* No answer within TIMEOUT_MS: the device may be awaiting a scan, or have lost
\* the frame.
Timeout ==
  /\ host.waits /\ host' = Gone
  /\ UNCHANGED <<dev, asm, app, gen, signed, cmds, answers, world>>

-----------------------------------------------------------------------------

FirmwareState == [imported |-> NONE, blinded |-> NONE, proofs |-> NONE, swap |-> "Idle"]

Init ==
  /\ dev = FirmwareState
  /\ asm = Empty
  /\ app = [screen |-> "Home", ticks |-> 0, retries |-> 0,
            capture |-> FALSE, last |-> NONE]
  /\ gen = 0 /\ signed = {} /\ host = Gone
  /\ cmds = <<>> /\ answers = <<>> /\ world \in Worlds

Next == handle_command \/ Tick \/ Darken \/ Open \/ Send \/ Recv \/ Timeout

\* The ticker fires every 5 ms whatever the host does: its client sends one
\* frame and waits, so the loop reaches the ticker again and again.
Spec == Init /\ [][Next]_vars /\ WF_vars(Tick)

-----------------------------------------------------------------------------

\* The proofs a device holds carry signatures of the pinned key: whatever
\* signatures arrive, of whatever key, for whichever blinding and in whatever
\* order, handle_send_signatures keeps only what the pinned key signed.
ProofsAreSigned == dev.proofs # NONE => dev.proofs.gen \in signed

\* A token imported from an animated code is the content of one sequence, all
\* of it, however the host's scans and the Scanning screen's share the assembler.
TokenIsWhole ==
  dev.imported # NONE /\ dev.imported.parts # {}
    => dev.imported.parts = {Ur(dev.imported.tok, i) : i \in 1..Parts}

\* When no further code is read, the Scanning screen is left: by its retries
\* running out, if not by the user.
ScanningEnds == world.seen = {} /\ app.screen = "Scanning" ~> app.screen # "Scanning"
=============================================================================
