--------------------------- MODULE UpstreamProofs ---------------------------
(***************************************************************************)
(* What Upstream guarantees for every set of invoices and deposits, every  *)
(* amount and fee and any number of crashes, lost replies and payments     *)
(* the upstream mint decides late.                                         *)
(***************************************************************************)
EXTENDS Upstream, Sums

(* The inductive invariant.                                                *)

\* The shapes of the state.
MeltState == {"UNPAID", "PENDING", "PAID", "FAILED"}

Shapes ==
    /\ front \in [Invoices -> {"NONE", "UNPAID", "PENDING", "PAID", "FAILED"}]
    /\ deposit \in [Deposits -> {"NONE", "UNPAID", "PAID"}]
    /\ remote = [melt |-> remote.melt, deposits |-> remote.deposits,
                 spent |-> remote.spent, held |-> remote.held]
    /\ remote.melt \in [Invoices -> MeltState]
    /\ remote.held = [i \in Invoices |-> remote.held[i]]
    /\ disk = snapshot(disk.url, disk.proofs)

\* The shapes of the call in progress.
Call ==
    \/ call = Idle
    \/ /\ call.step \in {"lookup", "quote", "mint", "select"}
       /\ call = [step |-> call.step, inv |-> call.inv]
       /\ call.inv \in Invoices
    \/ /\ call.step = "poll"
       /\ call = [step |-> "poll", inv |-> call.inv, tries |-> call.tries]
       /\ call.inv \in Invoices
    \/ /\ call.step = "melt"
       /\ call = [step |-> "melt", inv |-> call.inv, sel |-> call.sel,
                  change |-> call.change]
       /\ call.inv \in Invoices
    \/ /\ call.step = "answer"
       /\ call = [step |-> "answer", inv |-> call.inv, sel |-> call.sel,
                  change |-> call.change, state |-> call.state]
       /\ call.inv \in Invoices
       /\ call.state \in {"PAID", "PENDING", "FAILED", "REFUSED", "ERROR"}
    \/ /\ call.step = "settle"
       /\ call = [step |-> "settle", inv |-> call.inv, ok |-> call.ok]
       /\ call.inv \in Invoices

\* A running reserve has in memory what it has on file and what a top-up that
\* failed half way left there; a stopped process has neither memory nor a call.
Loaded == IF up THEN mem = disk.proofs \cup torn
          ELSE mem = {} /\ torn = {} /\ call = Idle

\* What the call in progress believes of the payment is so.
Believed ==
    /\ call.step = "answer" /\ call.state = "PAID" =>
           remote.melt[call.inv] = "PAID" /\ call.sel \subseteq remote.spent
    /\ call.step = "settle" /\ call.ok => remote.melt[call.inv] = "PAID"

BooksInv == Shapes /\ Call /\ Loaded /\ Believed
            /\ LiveProofsOnFile /\ FrontFollowsUpstream
-----------------------------------------------------------------------------
LEMMA BooksInit == Init => BooksInv
<1> SUFFICES ASSUME Init PROVE BooksInv
  OBVIOUS
<1>1. Shapes
  BY DEF Init, Shapes, snapshot, MeltState
<1>2. Call /\ Loaded /\ Believed
  BY DEF Init, Call, Loaded, Believed, Idle, snapshot
<1>3. LiveProofsOnFile /\ FrontFollowsUpstream
  BY DEF Init, LiveProofsOnFile, FrontFollowsUpstream
<1> QED
  BY <1>1, <1>2, <1>3 DEF BooksInv

\* The front mint's calls.
LEMMA BooksRequests ==
    ASSUME BooksInv, Requests
    PROVE  BooksInv'
<1> USE DEF BooksInv, world, ghosts
<1>1. ASSUME NEW d \in Deposits, NEW a \in BOOLEAN, IsSettled(d, a)
      PROVE  BooksInv'
  BY <1>1 DEF IsSettled, Shapes, Call, Loaded, Believed, LiveProofsOnFile,
              FrontFollowsUpstream, SettledUpstream, Ready, Idle, snapshot
<1>2. ASSUME NEW d \in Deposits, CreateInvoice(d)
      PROVE  BooksInv'
  BY <1>2 DEF CreateInvoice, Shapes, Call, Loaded, Believed, LiveProofsOnFile,
              FrontFollowsUpstream, Ready, Idle, snapshot
<1>3. ASSUME NEW i \in Invoices, PostMeltQuote(i)
      PROVE  BooksInv'
  BY <1>3 DEF PostMeltQuote, Shapes, Call, Loaded, Believed, LiveProofsOnFile,
              FrontFollowsUpstream, Ready, Idle, snapshot
<1>4. ASSUME NEW i \in Invoices, PostMelt(i)
      PROVE  BooksInv'
  BY <1>4 DEF PostMelt, Shapes, Call, Loaded, Believed, LiveProofsOnFile,
              FrontFollowsUpstream, Ready, Idle, snapshot
<1> QED
  BY <1>1, <1>2, <1>3, <1>4 DEF Requests, Answered, upstream_get, json_fields

\* A step that does nothing but move the call on, to a failure or to a step
\* before the melt request.
Onward(i) ==
    \/ \E step \in {"lookup", "quote", "mint", "select"} :
          call' = [step |-> step, inv |-> i]
    \/ \E tries : call' = [step |-> "poll", inv |-> i, tries |-> tries]
    \/ \E sel, change : call' = [step |-> "melt", inv |-> i, sel |-> sel,
                                 change |-> change]
    \/ call' = [step |-> "settle", inv |-> i, ok |-> FALSE]

LEMMA BooksOnward ==
    ASSUME BooksInv, NEW i \in Invoices, up, Onward(i),
           UNCHANGED <<up, mem, disk, front, world, ghosts>>
    PROVE  BooksInv'
<1>1. Call'
  BY DEF Call, Onward
<1>2. Believed'
  BY DEF Believed, Onward
<1>3. (Shapes /\ Loaded /\ LiveProofsOnFile /\ FrontFollowsUpstream)'
  BY DEF BooksInv, Shapes, Loaded, LiveProofsOnFile, FrontFollowsUpstream,
         world, ghosts, snapshot
<1> QED
  BY <1>1, <1>2, <1>3 DEF BooksInv

\* The steps of a payment before the melt request leave the books alone.
LEMMA BooksTopUp ==
    ASSUME BooksInv,
           \/ \E a \in BOOLEAN : Lookup(a) \/ TopUpQuote(a)
           \/ \E a \in BOOLEAN, n \in Nat : TopUpMint(a, n)
           \/ \E answer \in {"paid", "unpaid", "error"} : TopUpPoll(answer)
           \/ Select
    PROVE  BooksInv'
<1> USE DEF BooksInv, Calling, Returns
<1>1. ASSUME NEW a \in BOOLEAN, Lookup(a)
      PROVE  BooksInv'
  <2>1. call.inv \in Invoices /\ call = [step |-> "lookup", inv |-> call.inv]
    BY <1>1 DEF Lookup, Call, Idle
  <2>2. Onward(call.inv)
    BY <1>1, <2>1 DEF Lookup, Onward
  <2> QED
    BY <1>1, <2>1, <2>2, BooksOnward DEF Lookup
<1>2. ASSUME NEW a \in BOOLEAN, TopUpQuote(a)
      PROVE  BooksInv'
  <2>1. call.inv \in Invoices
    BY <1>2 DEF TopUpQuote, Call, Idle
  <2>2. Onward(call.inv)
    BY <1>2 DEF TopUpQuote, Onward
  <2> QED
    BY <1>2, <2>1, <2>2, BooksOnward DEF TopUpQuote
<1>3. ASSUME NEW answer \in {"paid", "unpaid", "error"}, TopUpPoll(answer)
      PROVE  BooksInv'
  <2>1. call.inv \in Invoices /\
        call = [step |-> "poll", inv |-> call.inv, tries |-> call.tries]
    BY <1>3 DEF TopUpPoll, Call, Idle
  <2>2. CASE answer = "paid"
    <3>1. Onward(call.inv)
      BY <1>3, <2>2 DEF TopUpPoll, Onward
    <3> QED
      BY <1>3, <2>1, <3>1, BooksOnward DEF TopUpPoll
  <2>3. CASE answer = "error"
    <3>1. Onward(call.inv)
      BY <1>3, <2>3 DEF TopUpPoll, Onward
    <3> QED
      BY <1>3, <2>1, <3>1, BooksOnward DEF TopUpPoll
  <2>4. CASE answer = "unpaid"
    <3>1. call' = Unpaid(call.tries)
      BY <1>3, <2>4 DEF TopUpPoll
    <3>2. [call EXCEPT !.tries = call.tries - 1]
            = [step |-> "poll", inv |-> call.inv, tries |-> call.tries - 1]
      BY <2>1
    <3>3. Onward(call.inv)
      BY <3>1, <3>2 DEF Unpaid, Onward
    <3> QED
      BY <1>3, <2>1, <3>3, BooksOnward DEF TopUpPoll
  <2> QED
    BY <2>2, <2>3, <2>4
<1>4. ASSUME NEW a \in BOOLEAN, NEW n \in Nat, TopUpMint(a, n)
      PROVE  BooksInv'
  <2> DEFINE amounts == Decompose(TopUp)
             fresh   == append_unblinded(amounts, n)
             whole   == a /\ Whole(amounts, n)
  <2>1. call.inv \in Invoices
    BY <1>4 DEF TopUpMint, Call, Idle
  <2>2. /\ up /\ UNCHANGED <<up, front, world, gone>>
        /\ mem' = mem \cup fresh /\ credited' = credited \cup fresh
    BY <1>4 DEF TopUpMint
  <2>3. IF whole
        THEN /\ disk' = snapshot(disk.url, mem') /\ torn' = {}
             /\ call' = [step |-> "select", inv |-> call.inv]
        ELSE /\ disk' = disk /\ torn' = torn \cup fresh
             /\ call' = [step |-> "settle", inv |-> call.inv, ok |-> FALSE]
    BY <1>4 DEF TopUpMint, Saved
  <2> HIDE DEF fresh, whole
  <2>4. (Call /\ Believed)'
    BY <2>1, <2>3 DEF Call, Believed
  <2>5. Shapes'
    BY <2>2, <2>3 DEF Shapes, world, snapshot
  <2>6. Loaded'
    BY <2>2, <2>3 DEF Loaded, snapshot
  <2>7. LiveProofsOnFile'
    BY <2>2, <2>3 DEF LiveProofsOnFile, Loaded, world, snapshot
  <2>8. FrontFollowsUpstream'
    BY <2>2 DEF FrontFollowsUpstream, world
  <2> QED
    BY <2>4, <2>5, <2>6, <2>7, <2>8
<1>5. ASSUME Select
      PROVE  BooksInv'
  <2>1. call.inv \in Invoices
    BY <1>5 DEF Select, Call, Idle
  <2>2. Onward(call.inv)
    BY <1>5 DEF Select, Onward
  <2> QED
    BY <1>5, <2>1, <2>2, BooksOnward DEF Select
<1> QED
  BY <1>1, <1>2, <1>3, <1>4, <1>5

\* The melt request: what the upstream mint takes it also records.
LEMMA BooksMeltRequest ==
    ASSUME BooksInv,
           NEW reached \in BOOLEAN, NEW heard \in BOOLEAN,
           NEW verdict \in {"PAID", "PENDING", "FAILED"},
           MeltRequest(reached, verdict, heard)
    PROVE  BooksInv'
<1> DEFINE i     == call.inv
           valid == remote.melt[i] = "UNPAID" /\ call.sel \cap Taken = {}
           state == IF reached /\ valid THEN verdict ELSE "REFUSED"
<1>1. /\ i \in Invoices
      /\ remote.melt \in [Invoices -> MeltState]
      /\ remote = [melt |-> remote.melt, deposits |-> remote.deposits,
                   spent |-> remote.spent, held |-> remote.held]
      /\ remote.held = [j \in Invoices |-> remote.held[j]]
  BY DEF MeltRequest, Calling, BooksInv, Call, Idle, Shapes
<1>2. /\ up /\ UNCHANGED <<up, mem, disk, front, deposit, credited, torn, gone>>
      /\ call' = [step |-> "answer", inv |-> i, sel |-> call.sel,
                  change |-> call.change, state |-> Reply(reached, heard, state)]
  BY DEF MeltRequest, Calling
<1>3. state \in {"PAID", "PENDING", "FAILED", "REFUSED"} /\
      (state \in {"PAID", "PENDING"} => remote.melt[i] = "UNPAID")
  OBVIOUS
<1>4. \/ /\ state = "PAID"
         /\ remote' = [melt |-> [remote.melt EXCEPT ![i] = "PAID"],
                       deposits |-> remote.deposits,
                       spent |-> remote.spent \cup call.sel, held |-> remote.held]
      \/ /\ state = "PENDING"
         /\ remote' = [melt |-> [remote.melt EXCEPT ![i] = "PENDING"],
                       deposits |-> remote.deposits, spent |-> remote.spent,
                       held |-> [remote.held EXCEPT ![i] = call.sel]]
      \/ state \in {"FAILED", "REFUSED"} /\ remote' = remote
  <2>1. CASE state = "PAID"
    <3>1. remote' = [remote EXCEPT !.melt[i] = "PAID", !.spent = @ \cup call.sel]
      BY <2>1 DEF MeltRequest
    <3> QED
      BY <1>1, <2>1, <3>1
  <2>2. CASE state = "PENDING"
    <3>1. remote' = [remote EXCEPT !.melt[i] = "PENDING", !.held[i] = call.sel]
      BY <2>2 DEF MeltRequest
    <3> QED
      BY <1>1, <2>2, <3>1
  <2>3. CASE state \in {"FAILED", "REFUSED"}
    BY <2>3 DEF MeltRequest
  <2> QED
    BY <1>3, <2>1, <2>2, <2>3
<1> HIDE DEF i, state, valid
<1>5. Shapes'
  BY <1>1, <1>2, <1>4 DEF BooksInv, Shapes, MeltState, snapshot
<1>6. Call'
  BY <1>1, <1>2, <1>3 DEF Call, Reply
<1>7. Loaded'
  BY <1>2 DEF BooksInv, Loaded
<1>8. Believed'
  BY <1>1, <1>2, <1>4 DEF Believed, Reply
<1>9. LiveProofsOnFile'
  BY <1>2, <1>4 DEF BooksInv, LiveProofsOnFile
<1>10. FrontFollowsUpstream'
  BY <1>1, <1>2, <1>3, <1>4 DEF BooksInv, FrontFollowsUpstream
<1> QED
  BY <1>5, <1>6, <1>7, <1>8, <1>9, <1>10 DEF BooksInv

\* What pay() makes of the answer: the selection leaves the reserve only when
\* it is spent or parked.
LEMMA BooksAnswer ==
    ASSUME BooksInv, NEW n \in Nat, Answer(n)
    PROVE  BooksInv'
<1> DEFINE fresh == ChangeBack(n)
<1>1. /\ call.inv \in Invoices
      /\ call.step = "answer"
      /\ call.state \in {"PAID", "PENDING", "FAILED", "REFUSED", "ERROR"}
  BY DEF Answer, Calling, BooksInv, Call, Idle
<1>2. /\ up /\ UNCHANGED <<up, front, deposit, remote>>
      /\ mem' = IF Kept(call.state) THEN mem ELSE (mem \ call.sel) \cup fresh
      /\ Kept(call.state) => UNCHANGED <<disk, torn>>
      /\ ~Kept(call.state) => disk' = snapshot(disk.url, mem') /\ torn' = {}
      /\ credited' = credited \cup fresh
      /\ gone' = IF call.state = "PENDING" THEN gone \cup call.sel ELSE gone
      /\ call' = [step |-> "settle", inv |-> call.inv, ok |-> call.state = "PAID"]
  BY DEF Answer, Calling, Returns, Saved, world
<1>3. Kept(call.state) => fresh = {}
  BY DEF Kept, ChangeBack
<1>4. ~Kept(call.state) => call.state \in {"PAID", "PENDING"}
  BY <1>1 DEF Kept
<1> HIDE DEF fresh
<1>5. Shapes'
  BY <1>2 DEF BooksInv, Shapes, snapshot
<1>6. Call'
  BY <1>1, <1>2 DEF Call
<1>7. Loaded'
  BY <1>2 DEF BooksInv, Loaded, snapshot
<1>8. Believed'
  BY <1>1, <1>2 DEF BooksInv, Believed
<1>9. LiveProofsOnFile'
  <2>1. /\ mem = disk.proofs \cup torn
        /\ credited \ (remote.spent \cup gone) \subseteq mem
    BY <1>2 DEF BooksInv, Loaded, LiveProofsOnFile
  <2>2. up' /\ mem' = disk'.proofs \cup torn'
    BY <1>7, <1>2 DEF Loaded
  <2>3. call.state = "PAID" => call.sel \subseteq remote.spent
    BY <1>1 DEF BooksInv, Believed
  <2> QED
    BY <1>2, <1>3, <1>4, <2>1, <2>2, <2>3 DEF LiveProofsOnFile
<1>10. FrontFollowsUpstream'
  BY <1>2 DEF BooksInv, FrontFollowsUpstream
<1> QED
  BY <1>5, <1>6, <1>7, <1>8, <1>9, <1>10 DEF BooksInv

LEMMA BooksSettle ==
    ASSUME BooksInv, Settle
    PROVE  BooksInv'
<1>1. /\ call.inv \in Invoices
      /\ call.ok => remote.melt[call.inv] = "PAID"
      /\ front \in [Invoices -> {"NONE", "UNPAID", "PENDING", "PAID", "FAILED"}]
  BY DEF Settle, Calling, BooksInv, Call, Idle, Believed, Shapes
<1>2. /\ up /\ UNCHANGED <<up, mem, disk, deposit, remote, credited, torn, gone>>
      /\ front' = [front EXCEPT ![call.inv] = IF call.ok THEN "PAID" ELSE "FAILED"]
      /\ call' = Idle
  BY DEF Settle, Calling, world, ghosts
<1>3. Shapes'
  BY <1>1, <1>2 DEF BooksInv, Shapes, snapshot
<1>4. (Call /\ Loaded /\ Believed /\ LiveProofsOnFile)'
  BY <1>2 DEF BooksInv, Call, Loaded, Believed, LiveProofsOnFile, Idle
<1>5. FrontFollowsUpstream'
  BY <1>1, <1>2 DEF BooksInv, FrontFollowsUpstream
<1> QED
  BY <1>3, <1>4, <1>5 DEF BooksInv

\* The upstream mint, the payers and the process.
LEMMA BooksWorld ==
    ASSUME BooksInv, World
    PROVE  BooksInv'
<1>1. ASSUME NEW i \in Invoices, NEW paid \in BOOLEAN, Resolve(i, paid)
      PROVE  BooksInv'
  <2>1. /\ remote.melt[i] = "PENDING"
        /\ UNCHANGED <<up, mem, disk, call, front, deposit, credited, torn, gone>>
    BY <1>1 DEF Resolve, ghosts
  <2>2. remote' = [melt |-> [remote.melt EXCEPT ![i] = IF paid THEN "PAID" ELSE "FAILED"],
                   deposits |-> remote.deposits,
                   spent |-> IF paid THEN remote.spent \cup remote.held[i]
                             ELSE remote.spent,
                   held |-> [remote.held EXCEPT ![i] = {}]]
    <3>1. /\ remote.melt \in [Invoices -> MeltState]
          /\ remote = [melt |-> remote.melt, deposits |-> remote.deposits,
                       spent |-> remote.spent, held |-> remote.held]
          /\ remote.held = [j \in Invoices |-> remote.held[j]]
      BY DEF BooksInv, Shapes
    <3> QED
      BY <1>1, <3>1 DEF Resolve
  <2>3. Shapes'
    BY <2>1, <2>2 DEF BooksInv, Shapes, MeltState, snapshot
  <2>4. (Call /\ Loaded)'
    BY <2>1 DEF BooksInv, Call, Loaded, Idle
  <2>5. Believed'
    BY <2>1, <2>2 DEF BooksInv, Shapes, Believed
  <2>6. LiveProofsOnFile'
    BY <2>1, <2>2 DEF BooksInv, LiveProofsOnFile
  <2>7. FrontFollowsUpstream'
    BY <2>1, <2>2 DEF BooksInv, Shapes, FrontFollowsUpstream
  <2> QED
    BY <2>3, <2>4, <2>5, <2>6, <2>7 DEF BooksInv
<1>2. ASSUME NEW d \in Deposits, PayerPays(d)
      PROVE  BooksInv'
  <2>1. UNCHANGED <<up, mem, disk, call, front, deposit, credited, torn, gone>>
    BY <1>2 DEF PayerPays, ghosts
  <2>2. remote' = [melt |-> remote.melt, deposits |-> remote.deposits \cup {d},
                   spent |-> remote.spent, held |-> remote.held]
    BY <1>2 DEF PayerPays, BooksInv, Shapes
  <2>3. Shapes'
    BY <2>1, <2>2 DEF BooksInv, Shapes, snapshot
  <2>4. (Call /\ Loaded /\ Believed)'
    BY <2>1, <2>2 DEF BooksInv, Call, Loaded, Believed, Idle
  <2>5. (LiveProofsOnFile /\ FrontFollowsUpstream)'
    BY <2>1, <2>2 DEF BooksInv, LiveProofsOnFile, FrontFollowsUpstream
  <2> QED
    BY <2>3, <2>4, <2>5 DEF BooksInv
<1>3. ASSUME Crash
      PROVE  BooksInv'
  BY <1>3 DEF Crash, world, BooksInv, Shapes, Call, Loaded, Believed,
              LiveProofsOnFile, FrontFollowsUpstream, Idle, snapshot
<1>4. ASSUME NEW url \in Urls, Restart(url)
      PROVE  BooksInv'
  BY <1>4 DEF Restart, world, ghosts, BooksInv, Shapes, Call, Loaded, Believed,
              LiveProofsOnFile, FrontFollowsUpstream, Idle, snapshot
<1> QED
  BY <1>1, <1>2, <1>3, <1>4 DEF World

LEMMA BooksNext ==
    ASSUME BooksInv, [Next]_vars
    PROVE  BooksInv'
<1>1. CASE Requests
  BY <1>1, BooksRequests
<1>2. CASE PaySteps
  <2>1. \A http \in Http : Answered(http) \in BOOLEAN
    BY DEF Answered, upstream_get, json_fields
  <2>2. 0 .. MaxProofs \subseteq Nat
    BY UpstreamAssumption
  <2> QED
    BY <1>2, <2>1, <2>2, BooksTopUp, BooksMeltRequest, BooksAnswer, BooksSettle
       DEF PaySteps
<1>3. CASE World
  BY <1>3, BooksWorld
<1>4. CASE UNCHANGED vars
  BY <1>4 DEF vars, BooksInv, Shapes, Call, Loaded, Believed, LiveProofsOnFile,
              FrontFollowsUpstream, Idle, snapshot
<1> QED
  BY <1>1, <1>2, <1>3, <1>4 DEF Next

LEMMA BooksAlways == Spec => []BooksInv
BY BooksInit, BooksNext, PTL DEF Spec

\* The reserve (reserve.rs, persist and restore around pay): no crash, lost
\* reply, refused melt or unreadable signature costs it a proof that is
\* neither spent upstream nor parked with an undecided payment, but for the
\* proofs of a top-up that failed half way, which the next crash takes unless
\* something is saved before.
THEOREM ReserveKeepsLiveProofs == Spec => []LiveProofsOnFile
<1>1. BooksInv => LiveProofsOnFile
  BY DEF BooksInv
<1> QED
  BY <1>1, BooksAlways, PTL

\* The Lightning seam (upstream.rs, pay_invoice and is_settled): the front
\* mint calls nothing paid that the upstream mint does not.
THEOREM FrontMintFollowsUpstream == Spec => []FrontFollowsUpstream
<1>1. BooksInv => FrontFollowsUpstream
  BY DEF BooksInv
<1> QED
  BY <1>1, BooksAlways, PTL
-----------------------------------------------------------------------------
(* Parked, never reused.                                                   *)

\* The reserve's proofs have different numbers and integer amounts.
Stock ==
    /\ serial \in Nat /\ \A p \in credited : p[1] \in 1 .. serial
    /\ IsFiniteSet(disk.proofs) /\ IsFiniteSet(torn)
    /\ \A p \in disk.proofs \cup torn : p[2] \in Int
    /\ call.step \in {"melt", "answer"} => call.change \in Int

\* Nothing is spent, held or offered that was not the reserve's.
Own ==
    /\ disk.proofs \cup torn \subseteq credited /\ Taken \subseteq credited
    /\ call.step = "melt" => call.sel \subseteq mem
    /\ call.step = "answer" => call.sel \subseteq credited

\* The selection pay() is about to remove.
Leaving == IF call.step = "answer" /\ ~Kept(call.state) THEN call.sel ELSE {}

\* While every answer is heard, neither the file nor what a failed top-up left
\* in memory has anything upstream has taken but what is about to be removed.
Untaken == ~silent => (disk.proofs \cup torn) \cap Taken \subseteq Leaving

Offers == Stock /\ Own /\ Untaken

LEMMA FreshProofs ==
    ASSUME serial \in Nat, NEW m \in Int, NEW n \in Nat
    PROVE  LET fresh == append_unblinded(Decompose(m), n)
           IN  /\ IsFiniteSet(fresh)
               /\ \A p \in fresh : p[1] \in serial + 1 .. serial + n /\ p[2] \in Int
<1>1. PICK c \in Nat : /\ DOMAIN Decompose(m) = 1 .. c
                       /\ \A j \in 1 .. c : Decompose(m)[j] \in Int
  BY Decomposed
<1> DEFINE all   == Numbered(serial + 1, Decompose(m))
           fresh == append_unblinded(Decompose(m), n)
<1>2. /\ IsFiniteSet(all)
      /\ \A p \in all : p[1] \in serial + 1 .. serial + 1 + c - 1 /\ p[2] \in Int
  BY <1>1, NumberedFresh
<1>3. fresh \subseteq all /\ \A p \in fresh : p[1] <= serial + n
  BY DEF append_unblinded
<1> HIDE DEF all, fresh
<1>4. IsFiniteSet(fresh)
  BY <1>2, <1>3, FS_Subset
<1>5. \A p \in fresh : p[1] \in serial + 1 .. serial + n /\ p[2] \in Int
  BY <1>2, <1>3
<1> QED
  BY <1>4, <1>5 DEF fresh

LEMMA OffersInit == Init => Offers
BY FS_EmptySet DEF Init, Offers, Stock, Own, Untaken, Taken, snapshot, Idle

\* A step that changes neither the file nor what upstream has taken, and is
\* not about a melt.
LEMMA OffersQuiet ==
    ASSUME Offers, UNCHANGED <<disk, torn, serial, credited, silent>>,
           Taken' \subseteq Taken, call'.step \notin {"melt", "answer"},
           call.step = "answer" => Kept(call.state)
    PROVE  Offers'
BY DEF Offers, Stock, Own, Untaken, Leaving

\* The melt request carries proofs of the file, and what it makes of them
\* the call remembers.
LEMMA OffersMeltRequest ==
    ASSUME BooksInv, Offers,
           NEW reached \in BOOLEAN, NEW heard \in BOOLEAN,
           NEW verdict \in {"PAID", "PENDING", "FAILED"},
           MeltRequest(reached, verdict, heard)
    PROVE  Offers'
<1> DEFINE i     == call.inv
           valid == remote.melt[i] = "UNPAID" /\ call.sel \cap Taken = {}
           state == IF reached /\ valid THEN verdict ELSE "REFUSED"
<1>1. /\ i \in Invoices /\ mem = disk.proofs \cup torn
      /\ remote = [melt |-> remote.melt, deposits |-> remote.deposits,
                   spent |-> remote.spent, held |-> remote.held]
      /\ remote.held = [j \in Invoices |-> remote.held[j]]
  BY DEF MeltRequest, Calling, BooksInv, Call, Idle, Shapes, Loaded
<1>2. /\ call.step = "melt"
      /\ UNCHANGED <<mem, disk, torn, serial, credited>>
      /\ call' = [step |-> "answer", inv |-> i, sel |-> call.sel,
                  change |-> call.change, state |-> Reply(reached, heard, state)]
      /\ silent' = (silent \/ (state \in {"PAID", "PENDING"} /\ ~heard))
  BY DEF MeltRequest, Calling
<1>3. /\ state \in {"PAID", "PENDING", "FAILED", "REFUSED"}
      /\ state \in {"PAID", "PENDING"} => reached
  OBVIOUS
<1>4. IF state \in {"PAID", "PENDING"} THEN Taken' \subseteq Taken \cup call.sel
      ELSE Taken' = Taken
  <2>1. CASE state = "PAID"
    <3>1. remote' = [remote EXCEPT !.melt[i] = "PAID", !.spent = @ \cup call.sel]
      BY <2>1 DEF MeltRequest
    <3>2. remote'.spent = remote.spent \cup call.sel /\ remote'.held = remote.held
      BY <1>1, <3>1
    <3> QED
      BY <2>1, <3>2 DEF Taken
  <2>2. CASE state = "PENDING"
    <3>1. remote' = [remote EXCEPT !.melt[i] = "PENDING", !.held[i] = call.sel]
      BY <2>2 DEF MeltRequest
    <3>2. /\ remote'.spent = remote.spent
          /\ \A j \in Invoices : remote'.held[j] \subseteq remote.held[j] \cup call.sel
      BY <1>1, <3>1
    <3> QED
      BY <2>2, <3>2 DEF Taken
  <2>3. CASE state \in {"FAILED", "REFUSED"}
    <3>1. remote' = remote
      BY <2>3 DEF MeltRequest
    <3> QED
      BY <2>3, <3>1 DEF Taken
  <2> QED
    BY <1>3, <2>1, <2>2, <2>3
<1> HIDE DEF i, state, valid
<1>5. Stock'
  BY <1>2 DEF Offers, Stock
<1>6. call.sel \subseteq disk.proofs \cup torn /\ disk.proofs \cup torn \subseteq credited
  BY <1>1, <1>2 DEF Offers, Own
<1>7. Own'
  BY <1>1, <1>2, <1>4, <1>6 DEF Offers, Own
<1>8. Untaken'
  <2> SUFFICES ASSUME ~silent' PROVE ((disk.proofs \cup torn) \cap Taken \subseteq Leaving)'
    BY DEF Untaken
  <2>1. (disk.proofs \cup torn) \cap Taken = {}
    BY <1>2 DEF Offers, Untaken, Leaving
  <2>2. CASE state \in {"PAID", "PENDING"}
    <3>1. Reply(reached, heard, state) = state
      BY <1>2, <1>3, <2>2 DEF Reply
    <3>2. ~Kept(state)
      BY <2>2 DEF Kept
    <3> QED
      BY <1>2, <1>4, <2>1, <2>2, <3>1, <3>2 DEF Leaving
  <2>3. CASE state \notin {"PAID", "PENDING"}
    BY <1>2, <1>4, <2>1, <2>3
  <2> QED
    BY <2>2, <2>3
<1> QED
  BY <1>5, <1>7, <1>8 DEF Offers

\* The answer: the selection leaves the file and the change is new.
LEMMA OffersAnswer ==
    ASSUME BooksInv, Offers, NEW n \in Nat, Answer(n)
    PROVE  Offers'
<1> DEFINE fresh == ChangeBack(n)
<1>1. /\ call.step = "answer" /\ UNCHANGED <<remote, silent>>
      /\ ~Kept(call.state) =>
            disk' = snapshot(disk.url, (mem \ call.sel) \cup fresh) /\ torn' = {}
      /\ Kept(call.state) => UNCHANGED <<disk, torn>>
      /\ credited' = credited \cup fresh
      /\ serial' = serial + n
      /\ call' = [step |-> "settle", inv |-> call.inv, ok |-> call.state = "PAID"]
      /\ mem = disk.proofs \cup torn
  BY DEF Answer, Calling, Returns, Saved, world, BooksInv, Loaded
<1>2. /\ IsFiniteSet(fresh)
      /\ \A p \in fresh : p[1] \in serial + 1 .. serial + n /\ p[2] \in Int
  <2>1. serial \in Nat /\ call.change \in Int
    BY <1>1 DEF Offers, Stock
  <2>2. CASE fresh = {}
    BY <2>2, FS_EmptySet
  <2>3. CASE fresh = append_unblinded(Decompose(call.change), n)
    <3> HIDE DEF fresh
    <3> QED BY <2>1, <2>3, FreshProofs
  <2> QED
    BY <2>2, <2>3 DEF ChangeBack
<1>3. Kept(call.state) => fresh = {} /\ n = 0
  BY DEF Kept, ChangeBack, Answer
<1> HIDE DEF fresh
<1>4. Taken' = Taken
  BY <1>1 DEF Taken
<1>5. CASE Kept(call.state)
  <2>1. fresh = {} /\ UNCHANGED <<disk, torn>> /\ credited' = credited
    BY <1>1, <1>3, <1>5
  <2>2. serial' = serial
    BY <1>1, <1>3, <1>5 DEF Offers, Stock
  <2> QED
    BY <1>1, <1>4, <1>5, <2>1, <2>2, OffersQuiet
<1>6. CASE ~Kept(call.state)
  <2> DEFINE kept == mem \ call.sel
  <2>1. disk'.proofs = kept \cup fresh /\ torn' = {} /\ kept \subseteq disk.proofs \cup torn
    BY <1>1, <1>6 DEF snapshot
  <2>2. IsFiniteSet(kept)
    <3>1. IsFiniteSet(mem)
      BY <1>1, FS_Union DEF Offers, Stock
    <3> QED
      BY <3>1, FS_Difference
  <2> HIDE DEF kept
  <2>3. IsFiniteSet(disk'.proofs) /\ IsFiniteSet(torn')
    <3>1. IsFiniteSet(kept \cup fresh)
      BY <1>2, <2>2, FS_Union
    <3> QED
      BY <2>1, <3>1, FS_EmptySet
  <2>4. \A p \in disk'.proofs \cup torn' : p[2] \in Int
    BY <1>2, <2>1 DEF Offers, Stock
  <2>5. serial' \in Nat /\ \A p \in credited' : p[1] \in 1 .. serial'
    BY <1>1, <1>2 DEF Offers, Stock
  <2>6. Stock'
    BY <1>1, <2>3, <2>4, <2>5 DEF Stock
  <2>7. Own'
    BY <1>1, <1>4, <2>1 DEF Offers, Own
  <2>8. Untaken'
    <3>1. fresh \cap Taken = {}
      BY <1>2 DEF Offers, Stock, Own
    <3>2. ~silent => kept \cap Taken = {}
      BY <1>1 DEF kept, Offers, Untaken, Leaving
    <3> QED
      BY <1>1, <1>4, <2>1, <3>1, <3>2 DEF Untaken
  <2> QED
    BY <2>6, <2>7, <2>8 DEF Offers
<1> QED
  BY <1>5, <1>6

\* A top-up mints proofs nobody has seen; whole, they go to the file, and
\* half of them stay in memory.
LEMMA OffersTopUpMint ==
    ASSUME BooksInv, Offers, NEW a \in BOOLEAN, NEW n \in Nat, TopUpMint(a, n)
    PROVE  Offers'
<1> DEFINE amounts == Decompose(TopUp)
           fresh   == append_unblinded(amounts, n)
<1>1. /\ call.step = "mint" /\ UNCHANGED <<remote, silent>>
      /\ mem = disk.proofs \cup torn /\ call.inv \in Invoices
  BY DEF TopUpMint, Calling, world, BooksInv, Loaded, Call, Idle
<1>2. Taken' = Taken
  BY <1>1 DEF Taken
<1>3. /\ credited' = credited \cup fresh
      /\ serial' = serial + n
      /\ \/ disk' = snapshot(disk.url, mem \cup fresh) /\ torn' = {}
         \/ disk' = disk /\ torn' = torn \cup fresh
      /\ call'.step \in {"select", "settle"}
  BY DEF TopUpMint, Saved, Returns
<1>4. IsFiniteSet(mem) /\ \A p \in mem : p[2] \in Int
  BY <1>1, FS_Union DEF Offers, Stock
<1>5. TopUp \in Int
  <2>1. Sum(mem) \in Int
    BY <1>4, SumOfProofs
  <2> QED
    BY <1>1, <2>1, UpstreamAssumption DEF TopUp
<1>6. /\ IsFiniteSet(fresh)
      /\ \A p \in fresh : p[1] \in serial + 1 .. serial + n /\ p[2] \in Int
  BY <1>5, FreshProofs DEF Offers, Stock
<1> HIDE DEF fresh
<1>7. /\ disk'.proofs \cup torn' = disk.proofs \cup torn \cup fresh
      /\ IsFiniteSet(disk'.proofs) /\ IsFiniteSet(torn')
  <2>1. IsFiniteSet(mem \cup fresh)
    BY <1>4, <1>6, FS_Union
  <2>2. CASE disk' = snapshot(disk.url, mem \cup fresh) /\ torn' = {}
    BY <1>1, <2>1, <2>2, FS_EmptySet DEF snapshot
  <2>3. CASE disk' = disk /\ torn' = torn \cup fresh
    <3>1. IsFiniteSet(torn \cup fresh) /\ IsFiniteSet(disk.proofs)
      BY <1>6, FS_Union DEF Offers, Stock
    <3> QED
      BY <2>3, <3>1
  <2> QED
    BY <1>3, <2>2, <2>3
<1>8. Stock'
  <2>1. serial' \in Nat /\ \A p \in credited' : p[1] \in 1 .. serial'
    BY <1>3, <1>6 DEF Offers, Stock
  <2>2. \A p \in disk'.proofs \cup torn' : p[2] \in Int
    BY <1>6, <1>7 DEF Offers, Stock
  <2> QED
    BY <1>3, <1>7, <2>1, <2>2 DEF Stock
<1>9. Own'
  BY <1>2, <1>3, <1>7 DEF Offers, Own
<1>10. Untaken'
  <2>1. fresh \cap Taken = {}
    BY <1>6 DEF Offers, Stock, Own
  <2>2. ~silent => (disk.proofs \cup torn) \cap Taken = {}
    BY <1>1 DEF Offers, Untaken, Leaving
  <2> QED
    BY <1>1, <1>2, <1>7, <2>1, <2>2 DEF Untaken
<1> QED
  BY <1>8, <1>9, <1>10 DEF Offers

\* select_covering takes from the reserve.
LEMMA OffersSelect ==
    ASSUME BooksInv, Offers, Select
    PROVE  Offers'
<1> DEFINE needed == Needed[call.inv]
<1>1. /\ call.step = "select" /\ UNCHANGED <<disk, torn, mem, remote, serial, credited, silent>>
      /\ mem = disk.proofs \cup torn /\ needed \in Int
  BY UpstreamAssumption
     DEF Select, Calling, world, ghosts, BooksInv, Loaded, Call, Idle
<1>2. Taken' = Taken
  BY <1>1 DEF Taken
<1>3. PICK sel \in SmallestFirst(mem, needed + needed \div 20 + 1) :
        LET change == Sum(sel) - needed - FeeOf(FeePpk, Cardinality(sel))
        IN  \/ Returns(FALSE)
            \/ call' = [step |-> "melt", inv |-> call.inv, sel |-> sel,
                        change |-> change]
  BY DEF Select
<1>4. sel \in SUBSET (disk.proofs \cup torn)
  BY <1>1 DEF SmallestFirst
<1> DEFINE change == Sum(sel) - needed - FeeOf(FeePpk, Cardinality(sel))
<1>5. change \in Int
  <2>1. IsFiniteSet(sel) /\ Cardinality(sel) \in Nat /\ \A p \in sel : p[2] \in Int
    BY <1>4, FS_Union, FS_Subset, FS_CardinalityType DEF Offers, Stock
  <2>2. Sum(sel) \in Int
    BY <2>1, SumOfProofs
  <2>3. FeeOf(FeePpk, Cardinality(sel)) \in Int
    <3>1. FeePpk * Cardinality(sel) \in Int
      BY <2>1, UpstreamAssumption
    <3> QED
      BY <3>1 DEF FeeOf
  <2> HIDE DEF needed
  <2> QED
    BY <1>1, <2>2, <2>3
<1> HIDE DEF needed
<1>6. CASE Returns(FALSE)
  BY <1>1, <1>2, <1>6, OffersQuiet DEF Returns
<1>7. CASE call' = [step |-> "melt", inv |-> call.inv, sel |-> sel, change |-> change]
  <2> HIDE DEF change
  <2>1. Stock'
    BY <1>1, <1>5, <1>7 DEF Offers, Stock
  <2>2. Own'
    BY <1>1, <1>2, <1>4, <1>7 DEF Offers, Own
  <2>3. Untaken'
    BY <1>1, <1>2, <1>7 DEF Offers, Untaken, Leaving
  <2> QED
    BY <2>1, <2>2, <2>3 DEF Offers
<1> QED
  BY <1>3, <1>6, <1>7

\* The calls of the front mint and the rest of pay() are about no melt.
LEMMA OffersRest ==
    ASSUME BooksInv, Offers,
           \/ Requests
           \/ \E a \in BOOLEAN : Lookup(a) \/ TopUpQuote(a)
           \/ \E answer \in {"paid", "unpaid", "error"} : TopUpPoll(answer)
           \/ Settle
    PROVE  Offers'
<1>1. ASSUME Requests PROVE Offers'
  <2>1. UNCHANGED <<disk, torn, remote, serial, credited, silent>> /\ call = Idle
    BY <1>1 DEF Requests, IsSettled, CreateInvoice, PostMeltQuote, PostMelt, Ready,
                world, ghosts
  <2>2. call' = Idle \/ \E i \in Invoices : call' = [step |-> "lookup", inv |-> i]
    BY <1>1 DEF Requests, IsSettled, CreateInvoice, PostMeltQuote, PostMelt, Ready
  <2> QED
    BY <2>1, <2>2, OffersQuiet DEF Taken, Idle
<1>2. ASSUME NEW a \in BOOLEAN, Lookup(a) PROVE Offers'
  <2>1. UNCHANGED <<disk, torn, remote, serial, credited, silent>> /\ call.step = "lookup"
    BY <1>2 DEF Lookup, Calling, world, ghosts
  <2>2. call = [step |-> "lookup", inv |-> call.inv]
    BY <2>1 DEF BooksInv, Call, Idle
  <2>3. call'.step \in {"quote", "select", "settle"}
    BY <1>2, <2>2 DEF Lookup, Returns
  <2> QED
    BY <2>1, <2>3, OffersQuiet DEF Taken
<1>3. ASSUME NEW a \in BOOLEAN, TopUpQuote(a) PROVE Offers'
  BY <1>3, OffersQuiet DEF TopUpQuote, Calling, Returns, Taken, world, ghosts
<1>4. ASSUME NEW answer \in {"paid", "unpaid", "error"}, TopUpPoll(answer)
      PROVE  Offers'
  <2>1. UNCHANGED <<disk, torn, remote, serial, credited, silent>> /\ call.step = "poll"
    BY <1>4 DEF TopUpPoll, Calling, world, ghosts
  <2>2. call = [step |-> "poll", inv |-> call.inv, tries |-> call.tries]
    BY <2>1 DEF BooksInv, Call, Idle
  <2>3. \/ call' = [step |-> "mint", inv |-> call.inv]
        \/ Returns(FALSE)
        \/ call' = Unpaid(call.tries)
    BY <1>4 DEF TopUpPoll
  <2>4. call'.step \in {"mint", "settle", "poll"}
    BY <2>2, <2>3 DEF Returns, Unpaid
  <2> QED
    BY <2>1, <2>4, OffersQuiet DEF Taken
<1>5. ASSUME Settle PROVE Offers'
  BY <1>5, OffersQuiet DEF Settle, Calling, Taken, Idle, world, ghosts
<1> QED
  BY <1>1, <1>2, <1>3, <1>4, <1>5

\* Nothing the world does puts a taken proof back into the file.
LEMMA OffersWorld ==
    ASSUME BooksInv, Offers, World
    PROVE  Offers'
<1>1. ASSUME NEW i \in Invoices, NEW paid \in BOOLEAN, Resolve(i, paid)
      PROVE  Offers'
  <2>1. /\ remote = [melt |-> remote.melt, deposits |-> remote.deposits,
                     spent |-> remote.spent, held |-> remote.held]
        /\ remote.held = [j \in Invoices |-> remote.held[j]]
    BY DEF BooksInv, Shapes
  <2>2. /\ remote'.spent \subseteq remote.spent \cup remote.held[i]
        /\ remote'.held = [remote.held EXCEPT ![i] = {}]
        /\ UNCHANGED <<mem, disk, torn, call, serial, credited, silent>>
    BY <1>1, <2>1 DEF Resolve, ghosts
  <2>3. Taken' \subseteq Taken
    BY <2>1, <2>2 DEF Taken
  <2> QED
    BY <2>2, <2>3 DEF Offers, Stock, Own, Untaken, Leaving
<1>2. ASSUME NEW d \in Deposits, PayerPays(d)
      PROVE  Offers'
  <2>1. /\ remote'.spent = remote.spent /\ remote'.held = remote.held
        /\ UNCHANGED <<mem, disk, torn, call, serial, credited, silent>>
    BY <1>2 DEF PayerPays, ghosts, BooksInv, Shapes
  <2>2. Taken' = Taken
    BY <2>1 DEF Taken
  <2> QED
    BY <2>1, <2>2 DEF Offers, Stock, Own, Untaken, Leaving
<1>3. ASSUME Crash
      PROVE  Offers'
  <2>1. /\ UNCHANGED <<disk, remote, serial, credited>> /\ call' = Idle
        /\ silent' = (silent \/ (call.step = "answer" /\ ~Kept(call.state)))
        /\ torn' = {}
    BY <1>3 DEF Crash, world
  <2>2. Taken' = Taken
    BY <2>1 DEF Taken
  <2> QED
    BY <2>1, <2>2, FS_EmptySet DEF Offers, Stock, Own, Untaken, Leaving, Idle
<1>4. ASSUME NEW url \in Urls, Restart(url)
      PROVE  Offers'
  BY <1>4, OffersQuiet DEF Restart, Taken, Idle, world, ghosts, BooksInv, Loaded
<1> QED
  BY <1>1, <1>2, <1>3, <1>4 DEF World

LEMMA OffersNext ==
    ASSUME BooksInv, Offers, [Next]_vars
    PROVE  Offers'
<1>1. CASE Requests
  BY <1>1, OffersRest
<1>2. CASE PaySteps
  <2>1. \A http \in Http : Answered(http) \in BOOLEAN
    BY DEF Answered, upstream_get, json_fields
  <2>2. 0 .. MaxProofs \subseteq Nat
    BY UpstreamAssumption
  <2> QED
    BY <1>2, <2>1, <2>2, OffersRest, OffersTopUpMint, OffersSelect, OffersMeltRequest,
       OffersAnswer DEF PaySteps
<1>3. CASE World
  BY <1>3, OffersWorld
<1>4. CASE UNCHANGED vars
  BY <1>4 DEF vars, Offers, Stock, Own, Untaken, Leaving, Taken
<1> QED
  BY <1>1, <1>2, <1>3, <1>4 DEF Next

\* "Parked, never reused" (upstream.rs, pay): as long as no answer is missed
\* the reserve offers no proof that the upstream mint has spent or holds.
THEOREM ParkedNeverReused == Spec => []OffersLiveProofs
<1>1. BooksInv /\ Offers => OffersLiveProofs
  BY DEF BooksInv, Loaded, Call, Idle, Offers, Own, Untaken, Leaving, OffersLiveProofs
<1> QED
  BY <1>1, BooksAlways, OffersInit, OffersNext, PTL DEF Spec
=============================================================================
