---------------------------- MODULE BoardProofs ----------------------------
(***************************************************************************)
(* Proofs about what runs on the boards.  Of Device: the proofs it holds   *)
(* carry the mint's signatures, and the tokens it takes from animated      *)
(* codes are whole.  Of Tollgate: what pay() returns is true of the money, *)
(* and the Atom pays the network it has validated.                         *)
(***************************************************************************)
EXTENDS Device, Tollgate, FiniteSetTheorems, TLAPS

Sigs == [gen : Nat, key : Keys, n : Nat, dleq : BOOLEAN]

Blinding == [tok : Tokens, gen : Nat]

Held == [tok : Tokens, gen : Nat, keyset : {NONE} \cup Tokens]

Swaps == {"Idle", "TokenImported", "BlindedGenerated", "ProofsReady"}

Screens == {"Home", "Scanning", "ScanResult", "WaitingToken", "TokenInfo", "ShowProofs"}

Outs == {"ready", "show", "keep", "invalid"}

Bodies ==
  {NONE} \cup [info : Tokens] \cup [blinded : Blinding]
    \cup [proofs : Held, mint : Tokens] \cup [scan : Outs]

Statuses == {"Ok", "Error", "BufferOverflow", "InvalidPayload", "CryptoError",
             "ScannerNotConnected", "NoScanData", "NfcNoTag"}

DevType == [imported : {NONE} \cup [tok : Tokens, parts : SUBSET Codes],
            blinded : {NONE} \cup Blinding, proofs : {NONE} \cup Held, swap : Swaps]

AsmType == [hash : {NONE, Blob} \cup Tokens, got : SUBSET Codes]

AppType == [screen : Screens, ticks : Nat, retries : Nat, capture : BOOLEAN,
            last : {NONE} \cup Codes]

Kinds == {"ImportToken", "GetTokenInfo", "GetBlinded", "SendSignatures", "GetProofs",
          "ScannerTrigger", "ScannerData", "NfcData", "ScannerCare"}

HostType == [todo : Seq(Kinds), waits : BOOLEAN, swap : BOOLEAN,
             tok : {NONE} \cup Tokens, sig : {NONE} \cup Sigs]

Commands == [c : Kinds, arg : {NONE} \cup Tokens \cup Sigs]

Responses == [st : Statuses, body : Bodies]

Surroundings == [seen : SUBSET Codes, arms : SUBSET Arms, room : Nat]

TypeOK ==
  /\ dev \in DevType /\ asm \in AsmType /\ app \in AppType /\ host \in HostType
  /\ gen \in Nat /\ signed \subseteq Nat
  /\ cmds \in Seq(Commands) /\ answers \in Seq(Responses)
  /\ world \in Surroundings

Signed(sig) == sig \in Sigs /\ (sig.key = pinned_demo_mint_key => sig.gen \in signed)

\* The signatures a host has made or sent: those of the pinned key are on record
\* in signed, those of another key may be for any blinding.
SigsSigned ==
  /\ \A i \in 1 .. Len(cmds) : cmds[i].c = "SendSignatures" => Signed(cmds[i].arg)
  /\ host.todo # <<>> /\ host.todo[1] = "SendSignatures" => Signed(host.sig)

\* It waits only with a command to do, and asks for blinded outputs just before.
SignsFirst ==
  /\ host.waits => host.todo # <<>>
  /\ \A i \in 2 .. Len(host.todo) :
        host.todo[i] = "SendSignatures" => host.todo[i - 1] = "GetBlinded"

\* The assembler holds fragments of the one sequence it is bound to.
OneSequence ==
  /\ asm.got \subseteq {Ur(asm.hash, i) : i \in 1 .. Parts}
  /\ asm.hash = NONE => asm.got = {}

Inv == TypeOK /\ SigsSigned /\ SignsFirst /\ ProofsAreSigned /\ OneSequence /\ TokenIsWhole

-----------------------------------------------------------------------------
(* The assembler.                                                          *)

Fragments(h) == {Ur(h, i) : i \in 1 .. Parts}

\* A code is one of three kinds.
LEMMA CodeKinds ==
  ASSUME NEW f \in Codes
  PROVE  \/ \E h \in Tokens \cup {Blob}, i \in 0 .. Parts : f = Ur(h, i)
         \/ \E t \in Tokens : f = [kind |-> "token", tok |-> t]
         \/ f = [kind |-> "text"]
BY DEF Codes

LEMMA UrFields ==
  ASSUME NEW h, NEW i
  PROVE  Ur(h, i).kind = "ur" /\ Ur(h, i).hash = h /\ Ur(h, i).i = i
BY DEF Ur

LEMMA FragmentCodes ==
  ASSUME NEW h \in Tokens \cup {Blob}
  PROVE  Fragments(h) \subseteq Codes
<1>1. \A i \in 1 .. Parts : i \in 0 .. Parts
  BY DeviceAssumption
<1> QED
  BY <1>1 DEF Fragments, Codes

\* The joined fragments of one sequence, every index of it: the sequence's own
\* content, or none.
LEMMA DecodedWhole ==
  ASSUME NEW h \in Tokens \cup {Blob}, NEW got, got \subseteq Fragments(h),
         {g.i : g \in got} = 1 .. Parts
  PROVE  /\ got = Fragments(h)
         /\ \A t \in Decoded(got) : t = NONE \/ (t = h /\ t \in Tokens)
<1>1. \A g \in got : g.hash = h /\ \E i \in 1 .. Parts : g = Ur(h, i)
  BY UrFields DEF Fragments
<1>2. \A i \in 1 .. Parts : Ur(h, i) \in got
  <2> SUFFICES ASSUME NEW i \in 1 .. Parts PROVE Ur(h, i) \in got
    OBVIOUS
  <2>1. PICK g \in got : g.i = i
    OBVIOUS
  <2>2. PICK j \in 1 .. Parts : g = Ur(h, j)
    BY <1>1
  <2>3. j = i
    BY <2>1, <2>2, UrFields
  <2> QED
    BY <2>2, <2>3
<1>3. got = Fragments(h)
  BY <1>2 DEF Fragments
<1>4. 1 \in 1 .. Parts
  BY DeviceAssumption
<1>5. {g.hash : g \in got} = {h}
  BY <1>1, <1>2, <1>4
<1>6. Cardinality({h}) = 1
  BY FS_Singleton
<1>7. Decoded(got) = IF {h} \subseteq Tokens THEN {h} ELSE {NONE}
  BY <1>5, <1>6 DEF Decoded
<1> QED
  BY <1>3, <1>7

\* What the assembler makes of a fragment of the sequence it is bound to.
LEMMA FeedOK ==
  ASSUME NEW h \in Tokens \cup {Blob}, NEW i \in 0 .. Parts,
         NEW a, a = [hash |-> h, got |-> a.got], a.got \subseteq Fragments(h),
         NEW r \in feed(a, Ur(h, i))
  PROVE  /\ r.asm \in AsmType
         /\ r.asm.got \subseteq {Ur(r.asm.hash, j) : j \in 1 .. Parts}
         /\ r.asm.hash = NONE => r.asm.got = {}
         /\ r.out \in Outs
         /\ r.out = "ready" => r.tok \in Tokens /\ r.parts = Fragments(r.tok)
<1> DEFINE got == IF i = 0 THEN a.got ELSE a.got \cup {Ur(h, i)}
           b == [hash |-> h, got |-> got]
<1>1. got \subseteq Fragments(h)
  <2>1. CASE i = 0
    BY <2>1
  <2>2. CASE i # 0
    <3>1. i \in 1 .. Parts
      BY <2>2, DeviceAssumption
    <3> QED
      BY <2>2, <3>1 DEF Fragments
  <2> QED
    BY <2>1, <2>2
<1>2. Ur(h, i).i = i
  BY UrFields
<1>3. [a EXCEPT !.got = got] = b
  OBVIOUS
<1>4. h # NONE
  BY DeviceAssumption
<1>5. /\ b \in AsmType
      /\ b.got \subseteq {Ur(b.hash, j) : j \in 1 .. Parts} /\ b.hash # NONE
  <2>1. got \subseteq Codes
    BY <1>1, FragmentCodes
  <2>2. b.hash = h /\ b.got = got
    OBVIOUS
  <2> HIDE DEF got
  <2> QED
    BY <1>1, <1>4, <2>1, <2>2 DEF Fragments, AsmType
<1>6. /\ Empty \in AsmType
      /\ Empty.got = {}
  BY DEF Empty, AsmType
<1>7. CASE i # 0 /\ {g.i : g \in got} = 1 .. Parts
  <2>1. \E t \in Decoded(got) :
           r = IF t = NONE THEN Outcome(Empty, "show", NONE, {})
                           ELSE Outcome(b, "ready", t, got)
    BY <1>2, <1>3, <1>7 DEF feed
  <2> HIDE DEF got, b
  <2>2. PICK t \in Decoded(got) :
           r = IF t = NONE THEN Outcome(Empty, "show", NONE, {})
                           ELSE Outcome(b, "ready", t, got)
    BY <2>1
  <2>3. got = Fragments(h) /\ (t = NONE \/ (t = h /\ t \in Tokens))
    BY <1>1, <1>7, DecodedWhole
  <2>4. CASE t = NONE
    BY <1>6, <2>2, <2>4 DEF Outcome, Outs
  <2>5. CASE t # NONE
    BY <1>5, <2>2, <2>3, <2>5 DEF Outcome, Outs
  <2> QED
    BY <2>4, <2>5
<1>8. CASE ~(i # 0 /\ {g.i : g \in got} = 1 .. Parts)
  <2>1. r = Outcome(b, IF got # {} THEN "keep" ELSE "invalid", NONE, {})
    BY <1>2, <1>3, <1>8 DEF feed
  <2> HIDE DEF got, b
  <2> QED
    BY <1>5, <2>1 DEF Outcome, Outs
<1> QED
  BY <1>7, <1>8

\* A payload of either reader, in any state of the shared assembler.
LEMMA ProcessOK ==
  ASSUME TypeOK, OneSequence, NEW f \in Codes, NEW r \in process(asm, f)
  PROVE  /\ r.asm \in AsmType
         /\ r.asm.got \subseteq {Ur(r.asm.hash, j) : j \in 1 .. Parts}
         /\ r.asm.hash = NONE => r.asm.got = {}
         /\ r.out \in Outs
         /\ r.out = "ready" =>
               /\ r.tok \in Tokens
               /\ r.parts = {} \/ r.parts = Fragments(r.tok)
<1>1. /\ asm \in AsmType
      /\ asm.got \subseteq {Ur(asm.hash, j) : j \in 1 .. Parts}
      /\ asm.hash = NONE => asm.got = {}
  BY DEF TypeOK, OneSequence
<1>2. CASE \E h \in Tokens \cup {Blob}, i \in 0 .. Parts : f = Ur(h, i)
  <2>1. PICK h \in Tokens \cup {Blob}, i \in 0 .. Parts : f = Ur(h, i)
    BY <1>2
  <2>2. f.kind = "ur" /\ f.hash = h
    BY <2>1, UrFields
  <2>3. CASE ~same_sequence(asm, f)
    <3>1. r = Outcome(asm, "invalid", NONE, {})
      BY <2>2, <2>3 DEF process
    <3> QED
      BY <1>1, <3>1 DEF Outcome, Outs
  <2>4. CASE same_sequence(asm, f)
    <3> DEFINE a == [asm EXCEPT !.hash = h]
    <3>1. r \in feed(a, Ur(h, i))
      BY <2>1, <2>2, <2>4 DEF process
    <3>2. a = [hash |-> h, got |-> a.got] /\ a.got = asm.got
      BY <1>1 DEF AsmType
    <3>3. asm.got \subseteq Fragments(h)
      BY <1>1, <2>2, <2>4 DEF same_sequence, Fragments
    <3> HIDE DEF a
    <3>4. a.got \subseteq Fragments(h)
      BY <3>2, <3>3
    <3> QED
      BY <3>1, <3>2, <3>4, FeedOK
  <2> QED
    BY <2>3, <2>4
<1>3. CASE \E t \in Tokens : f = [kind |-> "token", tok |-> t]
  <2>1. PICK t \in Tokens : f = [kind |-> "token", tok |-> t]
    BY <1>3
  <2>2. r = Outcome(asm, "ready", t, {})
    BY <2>1 DEF process
  <2> QED
    BY <1>1, <2>2 DEF Outcome, Outs
<1>4. CASE f = [kind |-> "text"]
  <2>1. r = Outcome(asm, "show", NONE, {})
    BY <1>4 DEF process
  <2> QED
    BY <1>1, <2>1 DEF Outcome, Outs
<1> QED
  BY <1>2, <1>3, <1>4, CodeKinds

\* An import replaces the token and leaves the proofs.
LEMMA ImportedOK ==
  ASSUME dev \in DevType, NEW t \in Tokens, NEW p, p = {} \/ p = Fragments(t)
  PROVE  /\ Imported(dev, t, p) \in DevType
         /\ Imported(dev, t, p).proofs = dev.proofs
         /\ Imported(dev, t, p).imported = [tok |-> t, parts |-> p]
<1>1. p \subseteq Codes
  BY FragmentCodes
<1> QED
  BY <1>1 DEF Imported, DevType, Swaps

\* What a step may make of the device and keep the properties about it.
DevOK(d) ==
  /\ d \in DevType
  /\ d.proofs # NONE => d.proofs.gen \in signed
  /\ d.imported # NONE /\ d.imported.parts # {}
       => d.imported.parts = {Ur(d.imported.tok, i) : i \in 1..Parts}

AsmOK(a) ==
  /\ a \in AsmType
  /\ a.got \subseteq {Ur(a.hash, i) : i \in 1 .. Parts}
  /\ a.hash = NONE => a.got = {}

LEMMA NowOK ==
  ASSUME Inv
  PROVE  DevOK(dev) /\ AsmOK(asm) /\ AsmOK(Empty)
<1>1. AsmOK(Empty)
  BY DEF AsmOK, Empty, AsmType
<1> QED
  BY <1>1 DEF Inv, TypeOK, OneSequence, ProofsAreSigned, TokenIsWhole, DevOK, AsmOK

LEMMA ImportOK ==
  ASSUME Inv, NEW t \in Tokens, NEW p, p = {} \/ p = Fragments(t)
  PROVE  DevOK(Imported(dev, t, p))
<1> DEFINE d == Imported(dev, t, p)
<1>1. d \in DevType /\ d.proofs = dev.proofs /\ d.imported = [tok |-> t, parts |-> p]
  BY ImportedOK DEF Inv, TypeOK
<1> HIDE DEF d
<1>2. d.imported.parts # {} => d.imported.parts = {Ur(d.imported.tok, i) : i \in 1..Parts}
  BY <1>1 DEF Fragments
<1>3. DevOK(d)
  BY <1>1, <1>2, NowOK DEF DevOK
<1> QED
  BY <1>3 DEF d

LEMMA AssembledOK ==
  ASSUME Inv, NEW f \in Codes, NEW r \in process(asm, f)
  PROVE  DevOK(Assembled(dev, r)) /\ AsmOK(r.asm) /\ r.out \in Outs
<1>1. /\ r.asm \in AsmType
      /\ r.asm.got \subseteq {Ur(r.asm.hash, j) : j \in 1 .. Parts}
      /\ r.asm.hash = NONE => r.asm.got = {}
      /\ r.out \in Outs
      /\ r.out = "ready" => r.tok \in Tokens /\ (r.parts = {} \/ r.parts = Fragments(r.tok))
  BY ProcessOK DEF Inv
<1>2. DevOK(Assembled(dev, r))
  BY <1>1, ImportOK, NowOK DEF Assembled
<1> QED
  BY <1>1, <1>2 DEF AsmOK

-----------------------------------------------------------------------------
(* Commands.                                                               *)

LEMMA TailOf ==
  ASSUME NEW S, NEW s \in Seq(S), s # <<>>
  PROVE  /\ Tail(s) \in Seq(S) /\ Head(s) = s[1] /\ 1 \in 1 .. Len(s) /\ Head(s) \in S
         /\ Len(Tail(s)) = Len(s) - 1
         /\ \A i \in 1 .. Len(Tail(s)) : i + 1 \in 1 .. Len(s) /\ Tail(s)[i] = s[i + 1]
OBVIOUS

LEMMA LongOf ==
  ASSUME NEW S, NEW s \in Seq(S), Len(s) > 0
  PROVE  s # <<>>
OBVIOUS

LEMMA AppendOf ==
  ASSUME NEW S, NEW s \in Seq(S), NEW e \in S
  PROVE  /\ Append(s, e) \in Seq(S)
         /\ \A i \in 1 .. Len(Append(s, e)) :
               \/ i \in 1 .. Len(s) /\ Append(s, e)[i] = s[i]
               \/ Append(s, e)[i] = e
OBVIOUS

\* A command leaves the line, and perhaps the one behind it.
LEMMA ReceiveStep ==
  ASSUME Inv, NEW c, Receive(c)
  PROVE  /\ Head(cmds) \in Commands /\ Head(cmds).c = c
         /\ c = "SendSignatures" => Signed(Head(cmds).arg)
         /\ cmds' \in Seq(Commands) /\ SigsSigned' /\ SignsFirst'
         /\ UNCHANGED <<host, signed, world>>
<1>1. /\ cmds # <<>> /\ Head(cmds).c = c /\ cmds' \in decode(cmds)
      /\ UNCHANGED <<host, signed, world>>
  BY DEF Receive
<1>2. cmds \in Seq(Commands)
  BY DEF Inv, TypeOK
<1>3. Head(cmds) \in Commands /\ Head(cmds) = cmds[1] /\ 1 \in 1 .. Len(cmds)
  BY <1>1, <1>2, TailOf
<1>4. /\ cmds' \in Seq(Commands)
      /\ \A i \in 1 .. Len(cmds') : \E j \in 1 .. Len(cmds) : cmds'[i] = cmds[j]
  <2>1. /\ Tail(cmds) \in Seq(Commands)
        /\ \A i \in 1 .. Len(Tail(cmds)) : \E j \in 1 .. Len(cmds) : Tail(cmds)[i] = cmds[j]
    BY <1>1, <1>2, TailOf
  <2>2. ASSUME Len(cmds) > 1
        PROVE  /\ Tail(Tail(cmds)) \in Seq(Commands)
               /\ \A i \in 1 .. Len(Tail(Tail(cmds))) :
                     \E j \in 1 .. Len(Tail(cmds)) : Tail(Tail(cmds))[i] = Tail(cmds)[j]
    <3>1. Len(Tail(cmds)) = Len(cmds) - 1 /\ Len(cmds) \in Nat
      BY <1>1, <1>2, TailOf
    <3>2. Tail(cmds) # <<>>
      <4>1. Len(Tail(cmds)) > 0
        BY <2>2, <3>1
      <4> QED
        BY <2>1, <4>1, LongOf
    <3> QED
      BY <2>1, <3>2, TailOf
  <2>3. CASE cmds' = Tail(cmds)
    BY <2>1, <2>3
  <2>4. CASE cmds' # Tail(cmds)
    <3>1. Len(cmds) > 1 /\ cmds' = Tail(Tail(cmds))
      BY <1>1, <2>4 DEF decode
    <3>2. /\ cmds' \in Seq(Commands)
          /\ \A i \in 1 .. Len(cmds') : \E j \in 1 .. Len(Tail(cmds)) : cmds'[i] = Tail(cmds)[j]
      BY <2>2, <3>1
    <3>3. \A i \in 1 .. Len(cmds') : \E j \in 1 .. Len(cmds) : cmds'[i] = cmds[j]
      <4> TAKE i \in 1 .. Len(cmds')
      <4>1. PICK j \in 1 .. Len(Tail(cmds)) : cmds'[i] = Tail(cmds)[j]
        BY <3>2
      <4> QED
        BY <2>1, <4>1
    <3> QED
      BY <3>2, <3>3
  <2> QED
    BY <2>3, <2>4
<1>5. SigsSigned'
  <2>1. ASSUME NEW i \in 1 .. Len(cmds'), cmds'[i].c = "SendSignatures"
        PROVE  Signed(cmds[i].arg)'
    <3>1. PICK j \in 1 .. Len(cmds) : cmds'[i] = cmds[j]
      BY <1>4
    <3> QED
      BY <1>1, <2>1, <3>1 DEF Inv, SigsSigned, Signed
  <2> QED
    BY <1>1, <2>1 DEF Inv, SigsSigned, Signed
<1>6. SignsFirst'
  BY <1>1 DEF Inv, SignsFirst
<1>7. c = "SendSignatures" => Signed(Head(cmds).arg)
  BY <1>1, <1>3 DEF Inv, SigsSigned
<1> QED
  BY <1>1, <1>3, <1>4, <1>5, <1>6, <1>7

\* A command that leaves the device, the assembler and the screens well keeps
\* the invariant.
LEMMA CommandStep ==
  ASSUME Inv, NEW c, Receive(c), DevOK(dev'), AsmOK(asm'), app' \in AppType, gen' \in Nat,
         NEW a \in Responses, Reply(a)
  PROVE  Inv'
<1>1. /\ cmds' \in Seq(Commands) /\ SigsSigned' /\ SignsFirst'
      /\ UNCHANGED <<host, signed, world>>
  BY ReceiveStep
<1>2. answers' \in Seq(Responses)
  BY AppendOf DEF Reply, Inv, TypeOK
<1>3. TypeOK'
  BY <1>1, <1>2 DEF Inv, TypeOK, DevOK, AsmOK
<1>4. OneSequence'
  BY DEF OneSequence, AsmOK
<1>5. ProofsAreSigned' /\ TokenIsWhole'
  BY <1>1 DEF ProofsAreSigned, TokenIsWhole, DevOK
<1> QED
  BY <1>1, <1>3, <1>4, <1>5 DEF Inv
LEMMA AnswerOK ==
  ASSUME NEW st \in Statuses, NEW body \in Bodies
  PROVE  Answer(st, body) \in Responses
BY DEF Answer, Responses

LEMMA ImportTokenStep ==
  ASSUME Inv, ImportToken
  PROVE  Inv'
<1>1. Receive("ImportToken") /\ UNCHANGED <<asm, gen>>
  BY DEF ImportToken
<1>2. app' \in AppType
  BY DEF ImportToken, Inv, TypeOK, AppType, Screens
<1>3. AsmOK(asm') /\ gen' \in Nat
  BY <1>1, NowOK DEF Inv, TypeOK
<1>4. CASE Head(cmds).arg \in Tokens
  <2>1. dev' = Imported(dev, Head(cmds).arg, {}) /\ Reply(Answer("Ok", NONE))
    BY <1>4 DEF ImportToken
  <2>2. DevOK(dev')
    BY <1>4, <2>1, ImportOK
  <2>3. Answer("Ok", NONE) \in Responses
    BY AnswerOK DEF Statuses, Bodies
  <2> QED
    BY <1>1, <1>2, <1>3, <2>1, <2>2, <2>3, CommandStep
<1>5. CASE Head(cmds).arg \notin Tokens
  <2>1. dev' = dev /\ Reply(Answer("InvalidPayload", NONE))
    BY <1>5 DEF ImportToken
  <2>2. DevOK(dev')
    BY <2>1, NowOK
  <2>3. Answer("InvalidPayload", NONE) \in Responses
    BY AnswerOK DEF Statuses, Bodies
  <2> QED
    BY <1>1, <1>2, <1>3, <2>1, <2>2, <2>3, CommandStep
<1> QED
  BY <1>4, <1>5

\* A command that only answers.
LEMMA QuietStep ==
  ASSUME Inv, NEW c, Receive(c), Quiet, NEW a \in Responses, Reply(a)
  PROVE  Inv'
<1>1. DevOK(dev') /\ AsmOK(asm') /\ app' \in AppType /\ gen' \in Nat
  BY NowOK DEF Quiet, Inv, TypeOK
<1> QED
  BY <1>1, CommandStep

LEMMA GetTokenInfoStep ==
  ASSUME Inv, GetTokenInfo
  PROVE  Inv'
<1>1. dev \in DevType
  BY DEF Inv, TypeOK
<1>2. handle_get_token_info \in Responses
  <2>1. CASE dev.imported = NONE
    BY <2>1, AnswerOK DEF handle_get_token_info, Statuses, Bodies
  <2>2. CASE dev.imported # NONE
    <3>1. dev.imported.tok \in Tokens
      BY <1>1, <2>2 DEF DevType
    <3>2. [info |-> dev.imported.tok] \in Bodies
      BY <3>1 DEF Bodies
    <3> QED
      BY <2>2, <3>2, AnswerOK DEF handle_get_token_info, Statuses
  <2> QED
    BY <2>1, <2>2
<1> QED
  BY <1>2, QuietStep DEF GetTokenInfo

LEMMA GetProofsStep ==
  ASSUME Inv, GetProofs
  PROVE  Inv'
<1>1. dev \in DevType
  BY DEF Inv, TypeOK
<1>2. NONE \in Bodies /\ "Ok" \in Statuses /\ "Error" \in Statuses /\ "BufferOverflow" \in Statuses
  BY DEF Bodies, Statuses
<1>3. handle_get_proofs \in Responses
  <2>1. CASE dev.proofs = NONE \/ dev.imported = NONE
    BY <1>2, <2>1, AnswerOK DEF handle_get_proofs
  <2>2. CASE ~(dev.proofs = NONE \/ dev.imported = NONE)
    <3>1. dev.imported.tok \in Tokens /\ dev.proofs \in Held
      BY <1>1, <2>2 DEF DevType
    <3>2. build_export_token \in Bodies
      BY <3>1 DEF Bodies, build_export_token
    <3> QED
      BY <1>2, <2>2, <3>2, AnswerOK DEF handle_get_proofs
  <2> QED
    BY <2>1, <2>2
<1> QED
  BY <1>3, QuietStep DEF GetProofs

LEMMA ScannerCareStep ==
  ASSUME Inv, ScannerCare
  PROVE  Inv'
<1>1. PICK st \in {"Ok", "ScannerNotConnected"} : Reply(Answer(st, NONE))
  BY DEF ScannerCare
<1>2. Answer(st, NONE) \in Responses
  BY AnswerOK DEF Statuses, Bodies
<1> QED
  BY <1>1, <1>2, QuietStep DEF ScannerCare

LEMMA GetBlindedStep ==
  ASSUME Inv, GetBlinded
  PROVE  Inv'
<1>1. Receive("GetBlinded") /\ UNCHANGED <<asm, app>>
  BY DEF GetBlinded
<1>2. AsmOK(asm') /\ app' \in AppType
  BY <1>1, NowOK DEF Inv, TypeOK
<1>3. dev \in DevType /\ gen \in Nat /\ DevOK(dev)
  BY NowOK DEF Inv, TypeOK
<1>4. CASE dev.imported = NONE
  <2>1. Reply(Answer("Error", NONE)) /\ dev' = dev /\ gen' = gen
    BY <1>4 DEF GetBlinded
  <2>2. Answer("Error", NONE) \in Responses
    BY AnswerOK DEF Statuses, Bodies
  <2>3. DevOK(dev') /\ gen' \in Nat
    BY <1>3, <2>1
  <2> QED
    BY <1>1, <1>2, <2>1, <2>2, <2>3, CommandStep
<1>5. CASE dev.imported # NONE
  <2> DEFINE b == [tok |-> dev.imported.tok, gen |-> gen + 1]
  <2>1. /\ gen' = gen + 1
        /\ dev' = [dev EXCEPT !.blinded = b, !.swap = "BlindedGenerated"]
        /\ Reply(Answer("Ok", [blinded |-> b]))
    BY <1>5 DEF GetBlinded, blind_message, rng_fill_bytes
  <2>2. dev.imported.tok \in Tokens
    BY <1>3, <1>5 DEF DevType
  <2>3. b \in Blinding
    BY <1>3, <2>2 DEF Blinding
  <2> HIDE DEF b
  <2>4. dev' \in DevType /\ dev'.imported = dev.imported /\ dev'.proofs = dev.proofs
    BY <1>3, <2>1, <2>3 DEF DevType, Swaps
  <2>5. DevOK(dev') /\ gen' \in Nat
    BY <1>3, <2>1, <2>4 DEF DevOK
  <2>6. [blinded |-> b] \in Bodies
    BY <2>3 DEF Bodies
  <2>7. Answer("Ok", [blinded |-> b]) \in Responses
    BY <2>6, AnswerOK DEF Statuses
  <2> QED
    BY <1>1, <1>2, <2>1, <2>5, <2>7, CommandStep
<1> QED
  BY <1>4, <1>5

\* The signatures taken are the mint's, made for the outputs blinded now.
LEMMA SendSignaturesStep ==
  ASSUME Inv, SendSignatures
  PROVE  Inv'
<1> DEFINE sig == Head(cmds).arg
           st == SigsStatus(sig)
<1>1. /\ Receive("SendSignatures") /\ UNCHANGED <<asm, app, gen>>
      /\ dev' = IF st # "Ok" THEN dev
                ELSE [dev EXCEPT !.proofs = Unblinded(dev, sig),
                                 !.swap = "ProofsReady"]
      /\ Reply(Answer(st, NONE))
  BY DEF SendSignatures
<1>2. AsmOK(asm') /\ app' \in AppType /\ gen' \in Nat
  BY <1>1, NowOK DEF Inv, TypeOK
<1>3. dev \in DevType /\ DevOK(dev)
  BY NowOK DEF Inv, TypeOK
<1>4. Signed(sig) /\ signed' = signed
  BY <1>1, ReceiveStep
<1>5. st \in Statuses
  BY DEF SigsStatus, Statuses
<1>6. Answer(st, NONE) \in Responses
  BY <1>5, AnswerOK DEF Bodies
<1>7. DevOK(dev')
  <2>1. CASE st # "Ok"
    BY <1>1, <1>3, <2>1
  <2>2. CASE st = "Ok"
    <3>1. /\ dev.blinded # NONE
          /\ sig.gen = dev.blinded.gen /\ sig.key = pinned_demo_mint_key
      BY <2>2 DEF SigsStatus, verify_dleq
    <3>2. dev.blinded \in Blinding
      BY <1>3, <3>1 DEF DevType
    <3> DEFINE p == Unblinded(dev, sig)
               k == IF dev.imported = NONE THEN NONE ELSE dev.imported.tok
    <3>3. p = [tok |-> dev.blinded.tok, gen |-> sig.gen, keyset |-> k]
      BY <3>1 DEF Unblinded, unblind_signature
    <3>4. p \in Held /\ p.gen = sig.gen
      <4>1. k \in {NONE} \cup Tokens
        BY <1>3 DEF DevType
      <4> HIDE DEF k, p
      <4> QED
        BY <3>1, <3>2, <3>3, <4>1 DEF Blinding, Held
    <3>5. dev' = [dev EXCEPT !.proofs = p, !.swap = "ProofsReady"]
      BY <1>1, <2>2
    <3> HIDE DEF p, sig, st
    <3>6. dev' \in DevType /\ dev'.imported = dev.imported /\ dev'.proofs = p
      BY <1>3, <3>4, <3>5 DEF DevType, Swaps
    <3>7. p.gen \in signed
      BY <1>4, <3>1, <3>4 DEF Signed
    <3> QED
      BY <1>3, <3>6, <3>7 DEF DevOK
  <2> QED
    BY <2>1, <2>2
<1> HIDE DEF st, sig
<1> QED
  BY <1>1, <1>2, <1>6, <1>7, CommandStep

LEMMA ScannerTriggerStep ==
  ASSUME Inv, ScannerTrigger
  PROVE  Inv'
<1>1. PICK st \in {"Ok", "ScannerNotConnected"} : Reply(Answer(st, NONE))
  BY DEF ScannerTrigger
<1>2. Answer(st, NONE) \in Responses
  BY AnswerOK DEF Statuses, Bodies
<1>3. Receive("ScannerTrigger")
  BY DEF ScannerTrigger
<1>4. DevOK(dev') /\ AsmOK(asm') /\ gen' \in Nat
  BY NowOK DEF ScannerTrigger, Inv, TypeOK
<1>5. app' \in AppType
  BY DEF ScannerTrigger, Inv, TypeOK, AppType
<1> QED
  BY <1>1, <1>2, <1>3, <1>4, <1>5, CommandStep

LEMMA AssembleStep ==
  ASSUME Inv, NEW c, Receive(c), NEW f \in Codes, classify_and_assemble(f),
         app' \in AppType, gen' = gen
  PROVE  Inv'
<1>1. PICK r \in process(asm, f) :
         /\ asm' = r.asm /\ dev' = Assembled(dev, r)
         /\ Reply(Answer("Ok", [scan |-> r.out]))
  BY DEF classify_and_assemble
<1>2. DevOK(Assembled(dev, r)) /\ AsmOK(r.asm) /\ r.out \in Outs
  BY AssembledOK
<1>3. DevOK(dev') /\ AsmOK(asm')
  BY <1>1, <1>2
<1>4. [scan |-> r.out] \in Bodies
  BY <1>2 DEF Bodies
<1>5. Answer("Ok", [scan |-> r.out]) \in Responses
  BY <1>4, AnswerOK DEF Statuses
<1>6. gen' \in Nat
  BY DEF Inv, TypeOK
<1> QED
  BY <1>1, <1>3, <1>5, <1>6, CommandStep

LEMMA ScannerDataStep ==
  ASSUME Inv, ScannerData
  PROVE  Inv'
<1>1. Receive("ScannerData") /\ app' = [app EXCEPT !.last = NONE] /\ gen' = gen
  BY DEF ScannerData
<1>2. app' \in AppType /\ app.last \in {NONE} \cup Codes
  BY <1>1 DEF Inv, TypeOK, AppType
<1>3. CASE Reply(Answer("NoScanData", NONE)) /\ UNCHANGED <<dev, asm>>
  <2>1. DevOK(dev') /\ AsmOK(asm') /\ gen' \in Nat
    BY <1>1, <1>3, NowOK DEF Inv, TypeOK
  <2>2. Answer("NoScanData", NONE) \in Responses
    BY AnswerOK DEF Statuses, Bodies
  <2> QED
    BY <1>1, <1>2, <1>3, <2>1, <2>2, CommandStep
<1>4. CASE app.last # NONE /\ classify_and_assemble(app.last)
  <2>1. app.last \in Codes
    BY <1>2, <1>4
  <2> QED
    BY <1>1, <1>2, <1>4, <2>1, AssembleStep
<1> QED
  BY <1>3, <1>4 DEF ScannerData

LEMMA NfcDataStep ==
  ASSUME Inv, NfcData
  PROVE  Inv'
<1>1. Receive("NfcData") /\ app' = app /\ gen' = gen
  BY DEF NfcData
<1>2. app' \in AppType
  BY <1>1 DEF Inv, TypeOK
<1>3. CASE Reply(Answer("NfcNoTag", NONE)) /\ UNCHANGED <<dev, asm>>
  <2>1. DevOK(dev') /\ AsmOK(asm') /\ gen' \in Nat
    BY <1>1, <1>3, NowOK DEF Inv, TypeOK
  <2>2. Answer("NfcNoTag", NONE) \in Responses
    BY AnswerOK DEF Statuses, Bodies
  <2> QED
    BY <1>1, <1>2, <1>3, <2>1, <2>2, CommandStep
<1>4. CASE \E f \in world.seen : classify_and_assemble(f)
  <2>1. PICK f \in Codes : classify_and_assemble(f)
    BY <1>4 DEF Inv, TypeOK, Surroundings
  <2> QED
    BY <1>1, <1>2, <2>1, AssembleStep
<1> QED
  BY <1>3, <1>4 DEF NfcData

LEMMA CommandsKeep ==
  ASSUME Inv, handle_command
  PROVE  Inv'
BY ImportTokenStep, GetTokenInfoStep, GetBlindedStep, SendSignaturesStep, GetProofsStep,
   ScannerTriggerStep, ScannerDataStep, NfcDataStep, ScannerCareStep DEF handle_command
-----------------------------------------------------------------------------
(* The tick.                                                               *)

LEMMA TickStep ==
  ASSUME Inv, DevOK(dev'), AsmOK(asm'), app' \in AppType,
         UNCHANGED <<gen, signed, host, cmds, answers, world>>
  PROVE  Inv'
<1>1. TypeOK'
  BY DEF Inv, TypeOK, DevOK, AsmOK
<1>2. SigsSigned' /\ SignsFirst'
  BY DEF Inv, SigsSigned, SignsFirst, Signed
<1>3. OneSequence' /\ ProofsAreSigned' /\ TokenIsWhole'
  BY DEF OneSequence, ProofsAreSigned, TokenIsWhole, AsmOK, DevOK
<1> QED
  BY <1>1, <1>2, <1>3 DEF Inv

LEMMA HarvestOK ==
  ASSUME Inv, NEW a \in Harvest
  PROVE  a \in AppType
<1>1. app \in AppType
  BY DEF Inv, TypeOK
<1>2. [app EXCEPT !.capture = FALSE] \in AppType
  BY <1>1 DEF AppType
<1>3. \A f \in world.seen : [app EXCEPT !.capture = FALSE, !.last = f] \in AppType
  <2>1. world.seen \subseteq Codes
    BY DEF Inv, TypeOK, Surroundings
  <2> QED
    BY <1>1, <2>1 DEF AppType
<1> QED
  BY <1>1, <1>2, <1>3 DEF Harvest

LEMMA HomeOK ==
  ASSUME NEW a \in AppType
  PROVE  Rested(a) \in AppType /\ GoHome(a) \in AppType /\ Expired(a) \in AppType
<1>1. Rested(a) \in AppType
  BY DEF Rested, AppType
<1>2. GoHome(a) \in AppType
  BY <1>1 DEF GoHome, AppType, Screens
<1>3. Expired(a) \in AppType
  <2>1. a.ticks + 1 \in Nat /\ a.retries + 1 \in Nat
    BY DEF AppType
  <2>2. ASSUME NEW n \in Nat PROVE [a EXCEPT !.ticks = n] \in AppType
    BY DEF AppType
  <2>3. ASSUME NEW n \in Nat PROVE [a EXCEPT !.ticks = 0, !.retries = n] \in AppType
    BY DEF AppType
  <2>4. [a EXCEPT !.ticks = a.ticks + 1] \in AppType
    BY <2>1, <2>2
  <2>5. [a EXCEPT !.ticks = 0, !.retries = a.retries + 1] \in AppType
    BY <2>1, <2>3
  <2> QED
    BY <2>4, <2>5, Zenon DEF Expired
<1> QED
  BY <1>1, <1>2, <1>3

LEMMA ScannedOK ==
  ASSUME NEW a \in AppType, NEW f \in Codes, NEW r, r.out \in Outs
  PROVE  Scanned(a, f, r) \in AppType
<1> DEFINE b == [a EXCEPT !.last = f, !.ticks = 0]
<1>1. b \in AppType
  BY DEF AppType
<1> HIDE DEF b
<1>2. Rested(b) \in AppType
  BY <1>1, HomeOK
<1>3. [Rested(b) EXCEPT !.screen = "TokenInfo"] \in AppType
  BY <1>2 DEF AppType, Screens
<1>4. [Rested(b) EXCEPT !.screen = "ScanResult"] \in AppType
  BY <1>2 DEF AppType, Screens
<1>5. [b EXCEPT !.retries = 0] \in AppType
  BY <1>1 DEF AppType
<1>6. Scanned(a, f, r) =
        CASE r.out = "ready"   -> [Rested(b) EXCEPT !.screen = "TokenInfo"]
          [] r.out = "keep"    -> [b EXCEPT !.retries = 0]
          [] r.out = "invalid" -> b
          [] r.out = "show"    -> [Rested(b) EXCEPT !.screen = "ScanResult"]
  BY DEF Scanned, b
<1> QED
  BY <1>1, <1>3, <1>4, <1>5, <1>6 DEF Outs

LEMMA HomeStep ==
  ASSUME Inv, Home, UNCHANGED <<gen, signed, host, cmds, answers, world>>
  PROVE  Inv'
<1>1. PICK a \in Harvest, touch \in {"none", "scan", "token", "proofs"} :
        /\ app' = CASE touch = "scan"   -> [Rested(a) EXCEPT !.screen = "Scanning", !.last = NONE]
                    [] touch = "token"  -> [a EXCEPT !.screen = IF a.last # NONE THEN "ScanResult"
                                                                ELSE "WaitingToken"]
                    [] touch = "proofs" -> [a EXCEPT !.screen = IF dev.swap = "ProofsReady"
                                                                THEN "ShowProofs" ELSE "Home"]
                    [] touch = "none"   -> a
        /\ asm' = IF touch = "scan" THEN Empty ELSE asm
  BY DEF Home
<1>2. DevOK(dev') /\ AsmOK(asm')
  BY <1>1, NowOK DEF Home
<1>3. a \in AppType /\ Rested(a) \in AppType
  BY HarvestOK, HomeOK
<1>4. app' \in AppType
  <2>1. CASE touch = "scan"
    <3>1. app' = [Rested(a) EXCEPT !.screen = "Scanning", !.last = NONE]
      BY <1>1, <2>1
    <3> QED
      BY <1>3, <3>1 DEF AppType, Screens
  <2>2. CASE touch = "token"
    <3>1. app' = [a EXCEPT !.screen = IF a.last # NONE THEN "ScanResult" ELSE "WaitingToken"]
      BY <1>1, <2>2
    <3> QED
      BY <1>3, <3>1 DEF AppType, Screens
  <2>3. CASE touch = "proofs"
    <3>1. app' = [a EXCEPT !.screen = IF dev.swap = "ProofsReady" THEN "ShowProofs" ELSE "Home"]
      BY <1>1, <2>3
    <3> QED
      BY <1>3, <3>1 DEF AppType, Screens
  <2>4. CASE touch = "none"
    BY <1>1, <1>3, <2>4
  <2> QED
    BY <1>1, <2>1, <2>2, <2>3, <2>4
<1> QED
  BY <1>2, <1>4, TickStep

LEMMA ScanReadOK ==
  ASSUME Inv, NEW a \in AppType, NEW s \in ScanRead(a)
  PROVE  DevOK(s.dev) /\ AsmOK(s.asm) /\ s.app \in AppType
<1>1. CASE s = [app |-> Expired(a), asm |-> asm, dev |-> dev]
  BY <1>1, NowOK, HomeOK
<1>2. CASE \E f \in Codes : \E r \in process(asm, f) :
              s = [app |-> Scanned(a, f, r), asm |-> r.asm, dev |-> Assembled(dev, r)]
  <2>0. PICK f \in Codes : \E r \in process(asm, f) :
           s = [app |-> Scanned(a, f, r), asm |-> r.asm, dev |-> Assembled(dev, r)]
    BY <1>2
  <2>1. PICK r \in process(asm, f) :
           s = [app |-> Scanned(a, f, r), asm |-> r.asm, dev |-> Assembled(dev, r)]
    BY <2>0
  <2>2. DevOK(Assembled(dev, r)) /\ AsmOK(r.asm) /\ r.out \in Outs
    BY AssembledOK
  <2>3. Scanned(a, f, r) \in AppType
    BY <2>2, ScannedOK
  <2> QED
    BY <2>1, <2>2, <2>3
<1>3. world.seen \subseteq Codes
  BY DEF Inv, TypeOK, Surroundings
<1> QED
  BY <1>1, <1>2, <1>3 DEF ScanRead

LEMMA ScanningStep ==
  ASSUME Inv, Scanning, UNCHANGED <<gen, signed, host, cmds, answers, world>>
  PROVE  Inv'
<1>1. PICK a \in Harvest, touch \in {"none", "back"} : \E s \in ScanRead(a) :
        LET home == touch = "back" \/ GaveUp(s.app) IN
        /\ app' = IF home THEN GoHome(s.app) ELSE s.app
        /\ asm' = IF home THEN Empty ELSE s.asm
        /\ dev' = s.dev
  BY DEF Scanning
<1>2. PICK s \in ScanRead(a) :
        /\ app' = GoHome(s.app) \/ app' = s.app
        /\ asm' = Empty \/ asm' = s.asm
        /\ dev' = s.dev
  BY <1>1
<1>3. DevOK(s.dev) /\ AsmOK(s.asm) /\ s.app \in AppType /\ GoHome(s.app) \in AppType
  BY HarvestOK, ScanReadOK, HomeOK
<1> QED
  BY <1>2, <1>3, NowOK, TickStep

LEMMA OtherScreenStep ==
  ASSUME Inv, OtherScreen, UNCHANGED <<gen, signed, host, cmds, answers, world>>
  PROVE  Inv'
<1>1. PICK a \in Harvest :
        /\ app' = GoHome(a) \/ app' = a
        /\ asm' = Empty \/ asm' = asm
  BY DEF OtherScreen
<1>2. a \in AppType /\ GoHome(a) \in AppType
  BY HarvestOK, HomeOK
<1>3. dev' = dev
  BY DEF OtherScreen
<1> QED
  BY <1>1, <1>2, <1>3, NowOK, TickStep

LEMMA TickKeeps ==
  ASSUME Inv, Tick
  PROVE  Inv'
BY HomeStep, ScanningStep, OtherScreenStep DEF Tick

LEMMA DarkenKeeps ==
  ASSUME Inv, Darken
  PROVE  Inv'
<1>1. TypeOK'
  BY DEF Darken, Inv, TypeOK, Surroundings
<1> QED
  BY <1>1 DEF Darken, Inv, SigsSigned, SignsFirst, Signed, OneSequence, ProofsAreSigned,
              TokenIsWhole
-----------------------------------------------------------------------------
(* The host.                                                               *)

\* No command line starts by sending signatures, and one that sends any asks
\* for the blinded outputs just before.
LEMMA ArmsOK ==
  ASSUME NEW arm \in Arms
  PROVE  /\ arm \in Seq(Kinds) /\ arm # <<>> /\ arm[1] # "SendSignatures"
         /\ \A i \in 2 .. Len(arm) : arm[i] = "SendSignatures" => arm[i - 1] = "GetBlinded"
<1>1. CASE arm = run_swap_script
  <2>1. arm \in Seq(Kinds)
    BY <1>1 DEF run_swap_script, Kinds
  <2>2. /\ Len(arm) = 5 /\ arm[1] = "ImportToken" /\ arm[2] = "GetTokenInfo"
        /\ arm[3] = "GetBlinded" /\ arm[4] = "SendSignatures" /\ arm[5] = "GetProofs"
    BY <1>1 DEF run_swap_script
  <2>3. ASSUME NEW i \in 2 .. 5, arm[i] = "SendSignatures"
        PROVE  arm[i - 1] = "GetBlinded"
    <3>1. i = 2 \/ i = 3 \/ i = 4 \/ i = 5
      OBVIOUS
    <3>2. i = 4
      BY <2>2, <2>3, <3>1
    <3> QED
      BY <2>2, <3>2
  <2>4. arm # <<>>
    <3>1. Len(arm) > 0
      BY <2>2
    <3> QED
      BY <2>1, <3>1, LongOf
  <2> QED
    BY <2>1, <2>2, <2>3, <2>4
<1>2. ASSUME NEW c \in Kinds, NEW d \in Kinds, arm = <<c, d>>, c # "SendSignatures",
             d = "SendSignatures" => c = "GetBlinded"
      PROVE  /\ arm \in Seq(Kinds) /\ arm # <<>> /\ arm[1] # "SendSignatures"
             /\ \A i \in 2 .. Len(arm) : arm[i] = "SendSignatures" => arm[i - 1] = "GetBlinded"
  <2>1. arm \in Seq(Kinds) /\ Len(arm) = 2 /\ arm[1] = c /\ arm[2] = d
    BY <1>2
  <2>2. arm # <<>>
    <3>1. Len(arm) > 0
      BY <2>1
    <3> QED
      BY <2>1, <3>1, LongOf
  <2>3. \A i \in 2 .. Len(arm) : i = 2
    BY <2>1
  <2> QED
    BY <1>2, <2>1, <2>2, <2>3
<1>3. ASSUME NEW c \in Kinds, arm = <<c>>, c # "SendSignatures"
      PROVE  /\ arm \in Seq(Kinds) /\ arm # <<>> /\ arm[1] # "SendSignatures"
             /\ \A i \in 2 .. Len(arm) : arm[i] = "SendSignatures" => arm[i - 1] = "GetBlinded"
  <2>1. arm \in Seq(Kinds) /\ Len(arm) = 1 /\ arm[1] = c
    BY <1>3
  <2>2. arm # <<>>
    <3>1. Len(arm) > 0
      BY <2>1
    <3> QED
      BY <2>1, <3>1, LongOf
  <2>3. \A i \in 2 .. Len(arm) : FALSE
    BY <2>1
  <2> QED
    BY <1>3, <2>1, <2>2, <2>3
<1>4. CASE arm = <<"GetBlinded", "SendSignatures">>
  BY <1>2, <1>4 DEF Kinds
<1>5. CASE arm = <<"ScannerTrigger", "ScannerData">>
  BY <1>2, <1>5 DEF Kinds
<1>6. CASE \E c \in Kinds \ {"SendSignatures"} : arm = <<c>>
  BY <1>3, <1>6
<1>7. \/ \E c \in Kinds \ {"SendSignatures"} : arm = <<c>>
      \/ arm = run_swap_script \/ arm = <<"GetBlinded", "SendSignatures">>
      \/ arm = <<"ScannerTrigger", "ScannerData">>
  <2>1. \A c \in {"ImportToken", "GetTokenInfo", "GetBlinded", "GetProofs", "NfcData",
                  "ScannerCare"} : c \in Kinds \ {"SendSignatures"}
    BY DEF Kinds
  <2>2. \/ \E c \in {"ImportToken", "GetTokenInfo", "GetBlinded", "GetProofs", "NfcData",
                     "ScannerCare"} : arm = <<c>>
        \/ arm = run_swap_script \/ arm = <<"GetBlinded", "SendSignatures">>
        \/ arm = <<"ScannerTrigger", "ScannerData">>
    BY Zenon DEF Arms
  <2> QED
    BY <2>1, <2>2, Zenon
<1> QED
  BY <1>1, <1>4, <1>5, <1>6, <1>7

\* A step of the host, which leaves the device alone and forgets no signature.
LEMMA HostStep ==
  ASSUME Inv, UNCHANGED <<dev, asm, app, gen, world>>,
         signed \subseteq signed', signed' \subseteq Nat, host' \in HostType,
         cmds' \in Seq(Commands), answers' \in Seq(Responses), SigsSigned', SignsFirst'
  PROVE  Inv'
<1>1. TypeOK'
  BY DEF Inv, TypeOK
<1>2. OneSequence' /\ TokenIsWhole'
  BY DEF Inv, OneSequence, TokenIsWhole
<1>3. ProofsAreSigned'
  BY DEF Inv, ProofsAreSigned
<1> QED
  BY <1>1, <1>2, <1>3 DEF Inv

\* The signatures on the line stay signed.
LEMMA LineKeeps ==
  ASSUME Inv, cmds' = cmds, signed \subseteq signed'
  PROVE  \A i \in 1 .. Len(cmds') : cmds'[i].c = "SendSignatures" => Signed(cmds[i].arg)'
BY DEF Inv, SigsSigned, Signed

LEMMA GoneOK ==
  /\ Gone \in HostType
  /\ host' = Gone => SignsFirst'
<1>1. Gone \in HostType
  BY DEF Gone, HostType, Bodies
<1>2. Gone.todo = <<>> /\ ~Gone.waits
  BY DEF Gone
<1>3. host' = Gone => SignsFirst'
  BY <1>2 DEF SignsFirst
<1> QED
  BY <1>1, <1>3

LEMMA OpenKeeps ==
  ASSUME Inv, Open
  PROVE  Inv'
<1>1. PICK arm \in world.arms, t \in Tokens \cup {NONE} :
         host' = [Gone EXCEPT !.todo = arm, !.tok = t, !.swap = arm = run_swap_script]
  BY DEF Open
<1>2. /\ arm \in Seq(Kinds) /\ arm # <<>> /\ arm[1] # "SendSignatures"
      /\ \A i \in 2 .. Len(arm) : arm[i] = "SendSignatures" => arm[i - 1] = "GetBlinded"
  BY ArmsOK DEF Inv, TypeOK, Surroundings
<1>3. PICK b \in BOOLEAN : b <=> arm = run_swap_script
  OBVIOUS
<1>4. host' = [Gone EXCEPT !.todo = arm, !.tok = t, !.swap = b]
  BY <1>1, <1>3
<1>5. host' \in HostType /\ host'.todo = arm /\ ~host'.waits
  BY <1>2, <1>4 DEF Gone, HostType, Bodies
<1>6. /\ UNCHANGED <<dev, asm, app, gen, signed, cmds, world>>
      /\ answers' \in {answers, <<>>}
  BY DEF Open
<1>7. answers' \in Seq(Responses) /\ cmds' \in Seq(Commands) /\ signed' \subseteq Nat
  <2>1. <<>> \in Seq(Responses)
    OBVIOUS
  <2>2. answers \in Seq(Responses) /\ cmds \in Seq(Commands) /\ signed \subseteq Nat
    BY DEF Inv, TypeOK
  <2> QED
    BY <1>6, <2>1, <2>2, Zenon
<1>8. SigsSigned'
  BY <1>2, <1>5, <1>6, LineKeeps DEF SigsSigned
<1>9. SignsFirst'
  BY <1>2, <1>5 DEF SignsFirst
<1> QED
  BY <1>5, <1>6, <1>7, <1>8, <1>9, HostStep

LEMMA SendKeeps ==
  ASSUME Inv, Send
  PROVE  Inv'
<1> DEFINE c == Head(host.todo)
           e == Cmd(c, Argument(c))
<1>1. /\ host.todo # <<>> /\ cmds' = Append(cmds, e)
      /\ host' = [host EXCEPT !.waits = TRUE]
      /\ UNCHANGED <<dev, asm, app, gen, signed, answers, world>>
  BY DEF Send
<1>2. host \in HostType /\ cmds \in Seq(Commands) /\ answers \in Seq(Responses) /\ signed \subseteq Nat
  BY DEF Inv, TypeOK
<1>3. c = host.todo[1] /\ c \in Kinds
  BY <1>1, <1>2, TailOf DEF HostType
<1>4. Argument(c) \in {NONE} \cup Tokens \cup Sigs
  BY <1>2 DEF Argument, HostType
<1>5. e \in Commands /\ e.c = c /\ e.arg = Argument(c)
  BY <1>3, <1>4 DEF Cmd, Commands
<1>6. c = "SendSignatures" => Signed(e.arg)
  BY <1>1, <1>3, <1>5 DEF Inv, SigsSigned, Argument
<1> HIDE DEF c, e
<1>7. host' \in HostType /\ host'.todo = host.todo /\ host'.sig = host.sig
  BY <1>1, <1>2 DEF HostType
<1>8. /\ cmds' \in Seq(Commands)
      /\ \A i \in 1 .. Len(cmds') : (i \in 1 .. Len(cmds) /\ cmds'[i] = cmds[i]) \/ cmds'[i] = e
  BY <1>1, <1>2, <1>5, AppendOf
<1>9. SigsSigned'
  <2>1. \A i \in 1 .. Len(cmds') : cmds'[i].c = "SendSignatures" => Signed(cmds'[i].arg)
    BY <1>5, <1>6, <1>8 DEF Inv, SigsSigned
  <2>2. \A x : Signed(x) => Signed(x)'
    BY <1>1 DEF Signed
  <2>3. host'.todo # <<>> /\ host'.todo[1] = "SendSignatures" => Signed(host.sig)
    BY <1>7 DEF Inv, SigsSigned
  <2> QED
    BY <1>1, <1>7, <2>1, <2>3 DEF SigsSigned, Signed
<1>10. SignsFirst'
  BY <1>1, <1>7 DEF Inv, SignsFirst
<1> QED
  BY <1>1, <1>2, <1>7, <1>8, <1>9, <1>10, HostStep

\* Leaving, by a bail out or a timeout, breaks nothing.
LEMMA LeaveStep ==
  ASSUME Inv, host' = Gone, UNCHANGED <<dev, asm, app, gen, signed, cmds, world>>,
         answers' \in Seq(Responses)
  PROVE  Inv'
<1>1. host' \in HostType /\ SignsFirst' /\ host'.todo = <<>>
  BY GoneOK DEF Gone
<1>2. SigsSigned'
  BY <1>1, LineKeeps DEF SigsSigned
<1> QED
  BY <1>1, <1>2, HostStep DEF Inv, TypeOK

LEMMA TimeoutKeeps ==
  ASSUME Inv, Timeout
  PROVE  Inv'
BY LeaveStep DEF Timeout, Inv, TypeOK
\* An answer of blinded outputs, which the tool's own mint signs.
LEMMA SignedBody ==
  ASSUME NEW body \in Bodies, Has(body, "blinded")
  PROVE  body.blinded \in Blinding
<1>1. body # NONE /\ "blinded" \in DOMAIN body
  BY DEF Has
<1>2. \/ body \in [info : Tokens] \/ body \in [blinded : Blinding]
      \/ body \in [proofs : Held, mint : Tokens] \/ body \in [scan : Outs]
  BY <1>1 DEF Bodies
<1>3. body \notin [info : Tokens]
  <2>1. body \in [info : Tokens] => DOMAIN body = {"info"}
    OBVIOUS
  <2> QED
    BY <1>1, <2>1
<1>4. body \notin [proofs : Held, mint : Tokens]
  <2>1. body \in [proofs : Held, mint : Tokens] => DOMAIN body = {"proofs", "mint"}
    OBVIOUS
  <2> QED
    BY <1>1, <2>1
<1>5. body \notin [scan : Outs]
  <2>1. body \in [scan : Outs] => DOMAIN body = {"scan"}
    OBVIOUS
  <2> QED
    BY <1>1, <2>1
<1> QED
  BY <1>2, <1>3, <1>4, <1>5

\* The next command may send signatures only once they are made.
LEMMA TailSignsFirst ==
  ASSUME Inv, host.todo # <<>>
  PROVE  /\ Tail(host.todo) \in Seq(Kinds)
         /\ \A i \in 2 .. Len(Tail(host.todo)) :
               Tail(host.todo)[i] = "SendSignatures" => Tail(host.todo)[i - 1] = "GetBlinded"
         /\ Tail(host.todo) # <<>> /\ Tail(host.todo)[1] = "SendSignatures"
              => Head(host.todo) = "GetBlinded" /\ Len(host.todo) > 1
<1> DEFINE t == Tail(host.todo)
<1>1. host.todo \in Seq(Kinds)
  BY DEF Inv, TypeOK, HostType
<1>2. /\ t \in Seq(Kinds) /\ Head(host.todo) = host.todo[1]
      /\ Len(t) = Len(host.todo) - 1
      /\ \A i \in 1 .. Len(t) : i + 1 \in 1 .. Len(host.todo) /\ t[i] = host.todo[i + 1]
  BY <1>1, TailOf
<1> HIDE DEF t
<1>3. ASSUME NEW i \in 2 .. Len(t), t[i] = "SendSignatures"
      PROVE  t[i - 1] = "GetBlinded"
  <2>1. i \in 1 .. Len(t) /\ i - 1 \in 1 .. Len(t) /\ (i - 1) + 1 = i /\ (i + 1) - 1 = i
    BY <1>2
  <2>2. t[i] = host.todo[i + 1] /\ t[i - 1] = host.todo[i] /\ i + 1 \in 2 .. Len(host.todo)
    BY <1>2, <2>1
  <2> QED
    BY <1>3, <2>1, <2>2 DEF Inv, SignsFirst
<1>4. ASSUME t # <<>>, t[1] = "SendSignatures"
      PROVE  Head(host.todo) = "GetBlinded" /\ Len(host.todo) > 1
  <2>1. 1 \in 1 .. Len(t)
    BY <1>2, <1>4, TailOf
  <2>2. t[1] = host.todo[2] /\ 2 \in 2 .. Len(host.todo) /\ Len(host.todo) > 1
    BY <1>1, <1>2, <2>1
  <2>3. host.todo[2 - 1] = "GetBlinded"
    BY <1>4, <2>2 DEF Inv, SignsFirst
  <2> QED
    BY <1>2, <2>2, <2>3
<1> QED
  BY <1>2, <1>3, <1>4 DEF t

LEMMA RecvKeeps ==
  ASSUME Inv, Recv
  PROVE  Inv'
<1> DEFINE c == Head(host.todo)
           ans == Head(answers)
           signs == c = "GetBlinded" /\ Len(host.todo) > 1
<1>1. /\ host.waits /\ answers # <<>> /\ answers' = Tail(answers)
      /\ UNCHANGED <<dev, asm, app, gen, cmds, world>>
  BY DEF Recv
<1>2. /\ host \in HostType /\ cmds \in Seq(Commands) /\ answers \in Seq(Responses)
      /\ signed \subseteq Nat
  BY DEF Inv, TypeOK
<1>3. answers' \in Seq(Responses) /\ ans \in Responses
  BY <1>1, <1>2, TailOf
<1>4. \/ host' = Gone /\ UNCHANGED signed
      \/ Has(ans.body, "blinded") /\ signs /\ Sign(ans.body.blinded)
      \/ /\ ~signs /\ UNCHANGED signed
         /\ host' = [host EXCEPT !.todo = IF ans.st = "Ok" THEN Tail(@) ELSE @, !.waits = FALSE]
  BY DEF Recv
<1>5. ans.body \in Bodies
  BY <1>3 DEF Responses
<1>6. CASE host' = Gone /\ UNCHANGED signed
  BY <1>1, <1>3, <1>6, LeaveStep
<1>7. CASE Has(ans.body, "blinded") /\ signs /\ Sign(ans.body.blinded)
  <2> DEFINE b == ans.body.blinded
  <2>1. b \in Blinding
    BY <1>5, <1>7, SignedBody
  <2> HIDE DEF b
  <2>2. PICK key \in Keys, proved \in BOOLEAN :
           /\ host' = [host EXCEPT !.todo = Tail(@), !.waits = FALSE, !.sig = sign(b, key, proved)]
           /\ signed' = IF key = pinned_demo_mint_key THEN signed \cup {b.gen} ELSE signed
    BY <1>7 DEF Sign, b
  <2>3. /\ signed \subseteq signed' /\ signed' \subseteq signed \cup {b.gen}
        /\ key = pinned_demo_mint_key => b.gen \in signed'
    BY <2>2
  <2>4. /\ sign(b, key, proved) \in Sigs
        /\ sign(b, key, proved).gen = b.gen /\ sign(b, key, proved).key = key
    <3>1. Count[b.tok] \in Nat /\ b.gen \in Nat
      BY <2>1, DeviceAssumption DEF Blinding
    <3> QED
      BY <3>1 DEF sign, Sigs
  <2>5. host.todo # <<>> /\ Tail(host.todo) \in Seq(Kinds)
    <3>1. host.todo # <<>>
      BY <1>1 DEF Inv, SignsFirst
    <3> QED
      BY <3>1, TailSignsFirst
  <2>6. PICK g : g = sign(b, key, proved)
    OBVIOUS
  <2>7. /\ host' \in HostType /\ host'.todo = Tail(host.todo) /\ host'.sig = g /\ ~host'.waits
    BY <1>2, <2>2, <2>4, <2>5, <2>6 DEF HostType
  <2>8. Signed(host.sig)'
    BY <2>3, <2>4, <2>6, <2>7 DEF Signed
  <2>9. SigsSigned'
    BY <1>1, <2>3, <2>8, LineKeeps DEF SigsSigned
  <2>10. SignsFirst'
    BY <2>5, <2>7, TailSignsFirst DEF SignsFirst
  <2>11. signed' \subseteq Nat
    BY <1>2, <2>1, <2>3 DEF Blinding
  <2> QED
    BY <1>1, <1>2, <1>3, <2>3, <2>7, <2>9, <2>10, <2>11, HostStep
<1>8. CASE /\ ~signs /\ UNCHANGED signed
           /\ host' = [host EXCEPT !.todo = IF ans.st = "Ok" THEN Tail(@) ELSE @, !.waits = FALSE]
  <2>2. CASE ans.st = "Ok" /\ host.todo # <<>>
    <3>1. host' = [host EXCEPT !.todo = Tail(@), !.waits = FALSE]
      BY <1>8, <2>2
    <3>2. Tail(host.todo) \in Seq(Kinds)
      BY <2>2, TailSignsFirst
    <3>3. host' \in HostType /\ host'.todo = Tail(host.todo) /\ ~host'.waits
      BY <1>2, <3>1, <3>2 DEF HostType
    <3>4. SigsSigned'
      <4>1. ~(Tail(host.todo) # <<>> /\ Tail(host.todo)[1] = "SendSignatures")
        BY <1>8, <2>2, TailSignsFirst
      <4> QED
        BY <1>1, <1>8, <3>3, <4>1, LineKeeps DEF SigsSigned
    <3>5. SignsFirst'
      BY <2>2, <3>3, TailSignsFirst DEF SignsFirst
    <3> QED
      BY <1>1, <1>2, <1>3, <1>8, <3>3, <3>4, <3>5, HostStep
  <2>3. CASE ans.st # "Ok"
    <3>1. host' = [host EXCEPT !.waits = FALSE]
      BY <1>2, <1>8, <2>3 DEF HostType
    <3>2. host' \in HostType /\ host'.todo = host.todo /\ host'.sig = host.sig /\ ~host'.waits
      BY <1>2, <3>1 DEF HostType
    <3>3. SigsSigned'
      <4>1. host'.todo # <<>> /\ host'.todo[1] = "SendSignatures" => Signed(host.sig)'
        BY <1>8, <3>2 DEF SigsSigned, Signed, Inv
      <4> QED
        BY <1>1, <1>8, <4>1, LineKeeps DEF SigsSigned
    <3>4. SignsFirst'
      BY <3>2 DEF Inv, SignsFirst
    <3> QED
      BY <1>1, <1>2, <1>3, <1>8, <3>2, <3>3, <3>4, HostStep
  <2>4. host.todo # <<>>
    BY <1>1 DEF Inv, SignsFirst
  <2> QED
    BY <2>2, <2>3, <2>4
<1> QED
  BY <1>4, <1>6, <1>7, <1>8
-----------------------------------------------------------------------------

LEMMA InvInit ==
  ASSUME Init
  PROVE  Inv
<1>1. TypeOK
  <2>1. dev \in DevType /\ asm \in AsmType
    BY DEF Init, FirmwareState, Empty, DevType, AsmType, Swaps
  <2>2. app \in AppType
    BY DEF Init, AppType, Screens
  <2>3. host \in HostType
    BY GoneOK DEF Init
  <2>4. cmds \in Seq(Commands) /\ answers \in Seq(Responses)
    BY DEF Init
  <2>5. gen \in Nat /\ signed \subseteq Nat /\ world \in Surroundings
    BY DeviceAssumption DEF Init, Surroundings
  <2> QED
    BY <2>1, <2>2, <2>3, <2>4, <2>5 DEF TypeOK
<1>2. SigsSigned /\ SignsFirst
  BY DEF Init, Gone, SigsSigned, SignsFirst
<1>3. ProofsAreSigned /\ TokenIsWhole /\ OneSequence
  BY DEF Init, FirmwareState, Empty, ProofsAreSigned, TokenIsWhole, OneSequence
<1> QED
  BY <1>1, <1>2, <1>3 DEF Inv

LEMMA InvStutters ==
  ASSUME Inv, UNCHANGED vars
  PROVE  Inv'
BY DEF vars, Inv, TypeOK, SigsSigned, SignsFirst, Signed, OneSequence, ProofsAreSigned,
       TokenIsWhole

LEMMA InvInvariant == Spec => []Inv
<1>1. ASSUME Inv, [Next]_vars
      PROVE  Inv'
  BY <1>1, CommandsKeep, TickKeeps, DarkenKeeps, OpenKeeps, SendKeeps, RecvKeeps, TimeoutKeeps,
     InvStutters DEF Next
<1> QED
  BY <1>1, InvInit, PTL DEF Spec

\* Whatever signatures reach the device, late, repeated, meant for another
\* blinding or made with another key, the proofs handle_send_signatures keeps
\* carry signatures of the pinned key: for any tokens, any command lines and any
\* number of blindings.
THEOREM HeldProofsAreSigned == Spec => []ProofsAreSigned
<1>1. Inv => ProofsAreSigned
  BY DEF Inv
<1> QED
  BY <1>1, InvInvariant, PTL

\* A token taken from an animated code is one sequence, and all of it, however
\* many parts it has and however the command handler, the tag reader and the
\* Scanning screen share the assembler.
THEOREM ScannedTokenIsWhole == Spec => []TokenIsWhole
<1>1. Inv => TokenIsWhole
  BY DEF Inv
<1> QED
  BY <1>1, InvInvariant, PTL
-----------------------------------------------------------------------------
(* TollGate clients.                                                       *)

PayType == [amount : Nat \cup {None}, spent : Nat, credited : BOOLEAN]

\* What a pay call has done when it is at each of its steps.
PayInv ==
  /\ pay \in PayType
  /\ pc \in InPay => outcome = None
  /\ pc \in {"discover", "probe", "spend"} => pay.spent = 0
  /\ pc = "spend" => pay.amount \in Nat
  /\ pc = "submit" => pay.spent > 0
  /\ pc \in {"verify", "verify_again"} => pay.spent > 0 /\ pay.credited
  /\ OutcomeIsTrue

\* Past its validation the Atom is on the network it validated.
AtomInv ==
  front = "atom" /\ pc \in {"Pay", "Monitor"} \cup InPay =>
    Ad[disc] \in {"good", "no_mint"} /\ disc = net

TollgateInv == PayInv /\ AtomInv

LEMMA TollgateStart == TollgateInit => TollgateInv
  <1> SUFFICES ASSUME TollgateInit
               PROVE  TollgateInv
    OBVIOUS
  <1>1. pc \in {"idle", "Scan", "wifi"} /\ pay = NoPay /\ outcome = None
    BY DEF TollgateInit, Started
  <1>2. PayInv
    BY <1>1, TollgateAssumption DEF PayInv, PayType, OutcomeIsTrue, NoPay, InPay
  <1>3. AtomInv
    BY <1>1 DEF AtomInv, InPay
  <1> QED
    BY <1>2, <1>3 DEF TollgateInv

\* A step that leaves the call, its place and the networks alone.
LEMMA AtRest ==
    ASSUME TollgateInv, pay' = pay, outcome' = outcome, front' = front,
           pc' = pc \/ pc' \notin {"Pay", "Monitor"} \cup InPay, disc' = disc, net' = net
    PROVE  TollgateInv'
  BY DEF TollgateInv, PayInv, AtomInv, OutcomeIsTrue, InPay

\* Where pay() returns to, and what must be so by then.
LEMMA Returned ==
    ASSUME TollgateInv, pc \in InPay, NEW o \in {"Paid", "AlreadyAuthed", "Error"}, Return(o),
           front' = front, disc' = disc, net' = net,
           pay' \in PayType,
           o = "Paid" => pay'.spent > 0 /\ pay'.credited,
           o = "AlreadyAuthed" => pay'.spent = 0
    PROVE  TollgateInv'
  <1>1. outcome' = o /\ pc' \in {"idle", "Scan", "Monitor"}
    BY DEF Return, after_pay
  <1>2. PayInv'
    BY <1>1 DEF PayInv, PayType, OutcomeIsTrue, InPay
  <1>3. AtomInv'
    BY <1>1 DEF TollgateInv, AtomInv
  <1> QED
    BY <1>2, <1>3 DEF TollgateInv

LEMMA PayKeeps ==
    ASSUME TollgateInv, Pay
    PROVE  TollgateInv'
  <1> USE DEF InPay
  <1>1. CASE PayDiscover
    <2>1. PICK ok \in BOOLEAN :
            IF disc = None /\ ~discovered(ok) THEN Return("Error") /\ UNCHANGED disc
            ELSE pc' = "probe" /\ disc' = (IF disc = None THEN net ELSE disc) /\ UNCHANGED outcome
      BY <1>1 DEF PayDiscover
    <2>2. pc = "discover" /\ front' = front /\ net' = net /\ pay' = pay
      BY <1>1 DEF PayDiscover
    <2>3. CASE disc = None /\ ~discovered(ok)
      <3>1. pay' \in PayType
        BY <2>2 DEF TollgateInv, PayInv
      <3> QED
        BY <2>1, <2>2, <2>3, <3>1, Returned
    <2>4. CASE ~(disc = None /\ ~discovered(ok))
      <3>1. pc' = "probe" /\ disc' = (IF disc = None THEN net ELSE disc) /\ outcome' = outcome
        BY <2>1, <2>4
      <3>2. PayInv'
        BY <2>2, <3>1 DEF TollgateInv, PayInv, PayType, OutcomeIsTrue
      <3>3. AtomInv'
        BY <2>2, <3>1 DEF TollgateInv, AtomInv
      <3> QED
        BY <3>2, <3>3 DEF TollgateInv
    <2> QED
      BY <2>3, <2>4
  <1>2. CASE PayProbe
    <2>1. pc = "probe" /\ front' = front /\ net' = net /\ disc' = disc
      BY <1>2 DEF PayProbe
    <2>2. pay \in PayType /\ pay.spent = 0
          /\ outcome = None
      BY <2>1 DEF TollgateInv, PayInv
    <2>3. \/ Return("Error") /\ pay' = pay
          \/ Return("AlreadyAuthed") /\ pay' = pay
          \/ /\ pc' = "spend" /\ outcome' = outcome
             /\ pay' = [pay EXCEPT !.amount =
                          IF @ # None THEN @
                          ELSE IF price_sats(disc) # None THEN price_sats(disc) ELSE DefaultPrice]
      BY <1>2 DEF PayProbe, probe
    <2>4. CASE Return("Error") /\ pay' = pay
      BY <2>1, <2>2, <2>4, Returned
    <2>5. CASE Return("AlreadyAuthed") /\ pay' = pay
      BY <2>1, <2>2, <2>5, Returned
    <2>6. CASE pc' = "spend" /\ outcome' = outcome
                 /\ pay' = [pay EXCEPT !.amount =
                              IF @ # None THEN @
                              ELSE IF price_sats(disc) # None THEN price_sats(disc) ELSE DefaultPrice]
      <3>1. price_sats(disc) \in {Price, 0, None}
        BY DEF price_sats
      <3>2. PICK a \in Nat : pay' = [pay EXCEPT !.amount = a]
        BY <2>2, <2>6, <3>1, TollgateAssumption DEF PayType
      <3>3. PayInv'
        BY <2>2, <2>6, <3>2, TollgateAssumption DEF PayInv, PayType, OutcomeIsTrue
      <3>4. AtomInv'
        BY <2>1, <2>6 DEF TollgateInv, AtomInv
      <3> QED
        BY <3>3, <3>4 DEF TollgateInv
    <2> QED
      BY <2>3, <2>4, <2>5, <2>6
  <1>3. CASE PaySpend
    <2>1. pc = "spend" /\ front' = front /\ net' = net /\ disc' = disc
      BY <1>3 DEF PaySpend
    <2>2. pay \in PayType /\ pay.amount \in Nat
          /\ outcome = None
      BY <2>1 DEF TollgateInv, PayInv
    <2>3. \/ /\ pay.amount > 0 /\ pay' = [pay EXCEPT !.spent = pay.amount]
             /\ pc' = "submit" /\ outcome' = outcome
          \/ Return("Error") /\ pay' = pay
      BY <1>3 DEF PaySpend
    <2>4. CASE /\ pay.amount > 0 /\ pay' = [pay EXCEPT !.spent = pay.amount]
               /\ pc' = "submit" /\ outcome' = outcome
      <3>1. PayInv'
        BY <2>2, <2>4, TollgateAssumption DEF PayInv, PayType, OutcomeIsTrue
      <3>2. AtomInv'
        BY <2>1, <2>4 DEF TollgateInv, AtomInv
      <3> QED
        BY <3>1, <3>2 DEF TollgateInv
    <2>5. CASE Return("Error") /\ pay' = pay
      BY <2>1, <2>2, <2>5, Returned
    <2> QED
      BY <2>3, <2>4, <2>5
  <1>4. CASE PaySubmit
    <2>1. pc = "submit" /\ front' = front /\ net' = net /\ disc' = disc
      BY <1>4 DEF PaySubmit
    <2>2. pay \in PayType /\ pay.spent > 0
          /\ outcome = None
      BY <2>1 DEF TollgateInv, PayInv
    <2>3. PICK reply \in {"taken", "refused", "lost"}, took \in BOOLEAN :
            /\ reply # "lost" => took = (reply = "taken")
            /\ pay' = [pay EXCEPT !.credited = took]
            /\ IF accepted(reply) THEN pc' = "verify" /\ outcome' = outcome ELSE Return("Error")
      BY <1>4 DEF PaySubmit
    <2>4. pay' \in PayType /\ pay'.spent > 0
          /\ pay'.credited = took
      BY <2>2, <2>3 DEF PayType
    <2>5. CASE accepted(reply)
      <3>1. pc' = "verify" /\ outcome' = outcome /\ took = TRUE
        BY <2>3, <2>5 DEF accepted
      <3>2. PayInv'
        BY <2>2, <2>4, <3>1, TollgateAssumption DEF PayInv, PayType, OutcomeIsTrue
      <3>3. AtomInv'
        BY <2>1, <3>1 DEF TollgateInv, AtomInv
      <3> QED
        BY <3>2, <3>3 DEF TollgateInv
    <2>6. CASE ~accepted(reply)
      BY <2>1, <2>3, <2>4, <2>6, Returned
    <2> QED
      BY <2>5, <2>6
  <1>5. CASE PayVerify
    <2>1. /\ pc \in {"verify", "verify_again"}
          /\ front' = front /\ net' = net /\ disc' = disc /\ pay' = pay
      BY <1>5 DEF PayVerify
    <2>2. pay \in PayType /\ pay.spent > 0 /\ pay.credited
      BY <2>1 DEF TollgateInv, PayInv
    <2>3. \/ Return("Paid") \/ Return("Error")
          \/ pc' = "verify_again" /\ outcome' = outcome
      BY <1>5 DEF PayVerify, retried
    <2>4. CASE Return("Paid") \/ Return("Error")
      BY <2>1, <2>2, <2>4, Returned
    <2>5. CASE pc' = "verify_again" /\ outcome' = outcome
      BY <2>1, <2>5 DEF TollgateInv, PayInv, AtomInv, OutcomeIsTrue
    <2> QED
      BY <2>3, <2>4, <2>5
  <1> QED
    BY <1>1, <1>2, <1>3, <1>4, <1>5 DEF Pay

\* A front end that starts a call.
LEMMA Called ==
    ASSUME TollgateInv, NEW amount \in Nat \cup {None}, Start(amount), pc' = "discover",
           front' = front, disc' = disc, net' = net,
           front = "atom" => pc = "Pay"
    PROVE  TollgateInv'
  <1>1. pay' = [amount |-> amount, spent |-> 0, credited |-> FALSE] /\ outcome' = None
    BY DEF Start, NoPay
  <1>2. PayInv'
    BY <1>1, TollgateAssumption DEF PayInv, PayType, OutcomeIsTrue, InPay
  <1>3. AtomInv'
    BY DEF TollgateInv, AtomInv, InPay
  <1> QED
    BY <1>2, <1>3 DEF TollgateInv

LEMMA ConsoleKeeps ==
    ASSUME TollgateInv, ConsoleStep
    PROVE  TollgateInv'
  <1>1. front = "console" /\ pc = "idle"
    BY DEF ConsoleStep, Console
  <1>2. CASE Join \/ WifiRetry \/ Connect \/ ReceivePasted \/ SendToken
    <2>1. pay' = pay /\ outcome' = outcome /\ front' = front /\ pc' = pc
      BY <1>2 DEF Join, WifiRetry, Connect, ReceivePasted, SendToken, wallet
    <2> QED
      BY <1>1, <2>1 DEF TollgateInv, PayInv, AtomInv, OutcomeIsTrue
  <1>3. CASE ConsolePay
    BY <1>1, <1>3, Called, TollgateAssumption DEF ConsolePay
  <1> QED
    BY <1>2, <1>3 DEF ConsoleStep, Console

LEMMA AtomKeeps ==
    ASSUME TollgateInv, AtomStep
    PROVE  TollgateInv'
  <1>1. CASE Atom("Scan", ScanJoin)
    <2>1. /\ pay' = pay /\ outcome' = outcome /\ front' = front
          /\ pc' \in {"Validate", "Scan", "exited"}
      BY <1>1 DEF Atom, ScanJoin, wallet
    <2> QED
      BY <2>1 DEF TollgateInv, PayInv, AtomInv, OutcomeIsTrue, InPay
  <1>2. CASE Atom("Validate", Validate)
    <2>1. /\ pay' = pay /\ outcome' = outcome /\ front' = front /\ net' = net
          /\ pc' \in {"Scan", "Monitor", "Pay"}
      BY <1>2 DEF Atom, Validate, wallet
    <2>2. pc' # "Scan" => disc' = net /\ Ad[net] \in {"good", "no_mint"}
      BY <1>2 DEF Atom, Validate, discover, discovered, ad_valid, own_mint, price_sats
    <2>3. PayInv'
      BY <2>1 DEF TollgateInv, PayInv, PayType, OutcomeIsTrue, InPay
    <2>4. AtomInv'
      BY <2>1, <2>2 DEF AtomInv, InPay
    <2> QED
      BY <2>3, <2>4 DEF TollgateInv
  <1>3. CASE Atom("Pay", AtomPay)
    BY <1>3, Called, TollgateAssumption DEF Atom, AtomPay
  <1>4. CASE Atom("Monitor", Monitor)
    <2>1. /\ pay' = pay /\ outcome' = outcome /\ front' = front /\ net' = net /\ disc' = disc
          /\ pc = "Monitor" /\ pc' \in {"Scan", "Pay", "Monitor"}
      BY <1>4 DEF Atom, Monitor, wallet
    <2> QED
      BY <2>1 DEF TollgateInv, PayInv, AtomInv, OutcomeIsTrue, InPay
  <1> QED
    BY <1>1, <1>2, <1>3, <1>4 DEF AtomStep

LEMMA KioskKeeps ==
    ASSUME TollgateInv, KioskStep
    PROVE  TollgateInv'
  <1>1. /\ front = "kiosk" /\ front' = front /\ pay' = pay /\ outcome' = outcome
        /\ pc' \in {"wifi", "gateway", "find", "exited", "create", "poll", "error", "rest",
                 "paid"}
    BY DEF KioskStep, Kiosk, KioskWifi, KioskGateway, KioskFind, KioskCreate, KioskPoll,
           KioskError, KioskRest, DrawnOr
  <1> QED
    BY <1>1 DEF TollgateInv, PayInv, AtomInv, OutcomeIsTrue, InPay

LEMMA TollgateInvariant == TollgateSpec => []TollgateInv
  <1>1. ASSUME TollgateInv, [TollgateNext]_tollgateVars
        PROVE  TollgateInv'
    <2>1. CASE World
      BY <1>1, <2>1, AtRest DEF World, LinkLost, Expire, Heal, wallet
    <2>2. CASE UNCHANGED tollgateVars
      BY <1>1, <2>2, AtRest DEF tollgateVars
    <2> QED
      BY <1>1, <2>1, <2>2, PayKeeps, ConsoleKeeps, AtomKeeps, KioskKeeps DEF TollgateNext
  <1> QED
    BY <1>1, TollgateStart, PTL DEF TollgateSpec

\* TollgateClient::pay returns Paid only when the backend took the token of this
\* very call, and AlreadyAuthed only when it spent nothing: for any prices and
\* networks, and wherever a link, a reply or the gate fails it.
THEOREM PayOutcomes == TollgateSpec => []OutcomeIsTrue
  <1>1. TollgateInv => OutcomeIsTrue
    BY DEF TollgateInv, PayInv
  <1> QED
    BY <1>1, TollgateInvariant, PTL

\* The Atom's loop composes a token only on the network whose advertisement it
\* has validated: a link that drops makes it scan and validate again.
THEOREM AtomPaysItsNetwork == TollgateSpec => []ComposesForPayable
  <1>1. TollgateInv => ComposesForPayable
    BY DEF TollgateInv, AtomInv, InPay, ComposesForPayable
  <1> QED
    BY <1>1, TollgateInvariant, PTL
=============================================================================
