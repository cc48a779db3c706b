-------------------------- MODULE AcceptanceProofs --------------------------
(***************************************************************************)
(* When a proof is accepted: the spending conditions the mint verifies and *)
(* the replay window of the offline gate, for every lock, witness, clock,  *)
(* ring capacity, price and set of secrets.                                *)
(*                                                                         *)
(* Conditions.  The constructors of a condition leave keys with different  *)
(* x-coordinates and thresholds they can meet; a count of signatures is    *)
(* then one of holders, which is what AcceptedIsAuthorized is stated in.   *)
(* OwnWitnessAccepted is inductive with one more fact: what the wallet     *)
(* builds signs no outputs, so a change of outputs does not matter to it.  *)
(*                                                                         *)
(* Gate.  NoDoubleEntry is not inductive: it says nothing of where in a    *)
(* ring a secret stands.  Remembers does: a secret that has opened the     *)
(* gate (or is about to) stands no further from the end of the ring than   *)
(* from the end of the history, so the ring drops it only after Capacity   *)
(* later pushes.                                                           *)
(***************************************************************************)
EXTENDS OfflineGate, SpendingConditions, FiniteSetTheorems, TLAPS

\* The pushes the gate has opened for or is about to.
Live(i) == history[i].opened \/ (opening # 0 /\ history[i].scan = opening)

\* The ring holds the secret of push i at least as late as the history does.
Holds(ring, i) ==
    \E k \in DOMAIN ring :
        ring[k] = history[i].secret /\ Len(ring) - k <= Len(history) - i

Remembers(ring) ==
    \A i \in DOMAIN history :
        Live(i) /\ Len(history) - i < Capacity => Holds(ring, i)

ScansNamed == \A i \in DOMAIN history : history[i].scan <= Len(history)

NoDoubleLive ==
    \A i, j \in DOMAIN history :
        /\ Live(i) /\ Live(j)
        /\ history[i].secret = history[j].secret
        /\ history[i].scan < history[j].scan
        => j - i > Capacity

GateInv ==
    /\ TypeOK
    /\ ScansNamed
    /\ up => Remembers(spent)
    /\ intact => Remembers(blob)
    /\ NoDoubleLive
-----------------------------------------------------------------------------
\* A scanned token is a non-empty sequence of secrets.
LEMMA TokensAreSequences ==
    ASSUME NEW token \in Tokens
    PROVE  token \in Seq(Secrets) /\ Len(token) \in Nat \ {0}
           /\ DOMAIN token = 1 .. Len(token)
  <1>1. PICK n \in 1 .. MaxProofs : token \in [1 .. n -> Secrets]
    BY DEF Tokens
  <1>2. n \in Nat \ {0}
    BY GateAssumption, <1>1
  <1> QED
    BY <1>1, <1>2

\* Pushing a token keeps a ring within its capacity, ends it with the token
\* and shifts what stays of it.
LEMMA PushedRing ==
    ASSUME TypeOK, NEW token \in Tokens
    PROVE  /\ Pushed(token) \in Seq(Secrets)
           /\ Len(Pushed(token)) <= Capacity
           /\ \A k \in DOMAIN spent :
                 Len(spent) - k + Len(token) < Capacity =>
                   \E m \in DOMAIN Pushed(token) :
                      /\ Pushed(token)[m] = spent[k]
                      /\ Len(Pushed(token)) - m = Len(spent) - k + Len(token)
           /\ \A k \in DOMAIN token :
                 Len(token) - k < Capacity =>
                   \E m \in DOMAIN Pushed(token) :
                      /\ Pushed(token)[m] = token[k]
                      /\ Len(Pushed(token)) - m = Len(token) - k
  <1> DEFINE ring == spent \o token
             cut  == IF Len(ring) <= Capacity THEN 0 ELSE Len(ring) - Capacity
             P    == Pushed(token)
  <1>1. /\ token \in Seq(Secrets) /\ Len(token) \in Nat \ {0}
        /\ DOMAIN token = 1 .. Len(token)
    BY TokensAreSequences
  <1>2. /\ spent \in Seq(Secrets) /\ Len(spent) \in Nat
        /\ DOMAIN spent = 1 .. Len(spent) /\ Capacity \in Nat \ {0}
    BY GateAssumption DEF TypeOK
  <1>3. /\ ring \in Seq(Secrets) /\ Len(ring) = Len(spent) + Len(token)
        /\ \A k \in 1 .. Len(spent) : ring[k] = spent[k]
        /\ \A k \in 1 .. Len(token) : ring[Len(spent) + k] = token[k]
    BY <1>1, <1>2
  <1>4. cut \in Nat /\ cut <= Len(ring) /\ Len(ring) - cut <= Capacity
        /\ (cut # 0 => Len(ring) - cut = Capacity)
    BY <1>1, <1>2, <1>3
  <1>5. /\ P \in Seq(Secrets) /\ Len(P) = Len(ring) - cut
        /\ \A m \in 1 .. Len(P) : P[m] = ring[cut + m]
    <2>1. CASE Len(ring) <= Capacity
      BY <2>1, <1>3 DEF Pushed
    <2>2. CASE ~(Len(ring) <= Capacity)
      <3>1. P = SubSeq(ring, cut + 1, Len(ring))
        BY <2>2, <1>3, <1>2 DEF Pushed
      <3> HIDE DEF ring, P, cut
      <3>2. Len(ring) \in Nat
        BY <1>3
      <3> QED
        BY <3>1, <3>2, <1>3, <1>4
    <2> QED
      BY <2>1, <2>2
  <1> HIDE DEF ring, cut, P
  <1>6. DOMAIN P = 1 .. Len(P) /\ Len(P) \in Nat
    BY <1>5
  <1>7. ASSUME NEW k \in DOMAIN spent, Len(spent) - k + Len(token) < Capacity
        PROVE  \E m \in DOMAIN P :
                  P[m] = spent[k] /\ Len(P) - m = Len(spent) - k + Len(token)
    <2>1. k - cut \in 1 .. Len(P) /\ cut + (k - cut) = k
      BY <1>7, <1>1, <1>2, <1>3, <1>4, <1>5
    <2>2. P[k - cut] = spent[k]
      BY <2>1, <1>5, <1>3, <1>2
    <2>3. Len(P) - (k - cut) = Len(spent) - k + Len(token)
      BY <1>7, <1>1, <1>2, <1>3, <1>4, <1>5
    <2> QED
      BY <2>1, <2>2, <2>3, <1>6
  <1>8. ASSUME NEW k \in DOMAIN token, Len(token) - k < Capacity
        PROVE  \E m \in DOMAIN P :
                  P[m] = token[k] /\ Len(P) - m = Len(token) - k
    <2> DEFINE m == Len(spent) + k - cut
    <2>1. m \in 1 .. Len(P) /\ cut + m = Len(spent) + k
      BY <1>8, <1>1, <1>2, <1>3, <1>4, <1>5
    <2>2. P[m] = token[k]
      BY <2>1, <1>5, <1>3, <1>1
    <2>3. Len(P) - m = Len(token) - k
      BY <1>8, <1>1, <1>2, <1>3, <1>4, <1>5
    <2> QED
      BY <2>1, <2>2, <2>3, <1>6
  <1> QED
    BY <1>4, <1>5, <1>7, <1>8 DEF P

\* The elements of the history.
LEMMA Pushes ==
    ASSUME TypeOK
    PROVE  /\ history \in Seq(Push) /\ Len(history) \in Nat
           /\ DOMAIN history = 1 .. Len(history)
           /\ \A i \in DOMAIN history :
                 history[i] \in Push /\ history[i].scan \in Nat \ {0}
  <1>1. history \in Seq(Push)
    BY DEF TypeOK
  <1>2. /\ Len(history) \in Nat /\ DOMAIN history = 1 .. Len(history)
        /\ \A i \in DOMAIN history : history[i] \in Push
    BY <1>1
  <1> QED
    BY <1>1, <1>2 DEF Push

\* What the history is after a scan, position by position.
LEMMA RecordedHistory ==
    ASSUME TypeOK, NEW token \in Tokens
    PROVE  LET H == Record(token)
               n == Len(history)
           IN  /\ H \in Seq(Push)
               /\ Len(H) = n + Len(token)
               /\ DOMAIN H = 1 .. n + Len(token)
               /\ DOMAIN history = 1 .. n
               /\ n \in Nat
               /\ \A i \in 1 .. n : H[i] = history[i]
               /\ \A i \in (n + 1) .. (n + Len(token)) :
                     /\ i - n \in DOMAIN token
                     /\ H[i].secret = token[i - n]
                     /\ H[i].scan = n + 1
                     /\ ~H[i].opened
  <1> DEFINE n == Len(history)
             new == [i \in DOMAIN token |->
                       [secret |-> token[i], scan |-> n + 1, opened |-> FALSE]]
  <1>1. /\ token \in Seq(Secrets) /\ Len(token) \in Nat \ {0}
        /\ DOMAIN token = 1 .. Len(token)
    BY TokensAreSequences
  <1>2. history \in Seq(Push) /\ n \in Nat /\ DOMAIN history = 1 .. n
    BY DEF TypeOK
  <1>3. new \in Seq(Push) /\ Len(new) = Len(token)
    <2>1. \A i \in DOMAIN token : new[i] \in Push
      BY <1>1, <1>2 DEF Push
    <2> QED
      BY <2>1, <1>1
  <1>4. \A i \in 1 .. Len(token) :
          new[i] = [secret |-> token[i], scan |-> n + 1, opened |-> FALSE]
    BY <1>1
  <1>5. Record(token) = history \o new
    BY DEF Record
  <1> HIDE DEF new
  <1>6. /\ Record(token) \in Seq(Push)
        /\ Len(Record(token)) = n + Len(token)
        /\ \A i \in 1 .. n : Record(token)[i] = history[i]
        /\ \A i \in 1 .. Len(new) : Record(token)[n + i] = new[i]
        /\ DOMAIN Record(token) = 1 .. n + Len(token)
    <2> HIDE DEF Record
    <2>1. ASSUME NEW s \in Seq(Push), NEW r \in Seq(Push)
          PROVE  /\ s \o r \in Seq(Push)
                 /\ Len(s \o r) = Len(s) + Len(r)
                 /\ DOMAIN (s \o r) = 1 .. Len(s) + Len(r)
                 /\ \A i \in 1 .. Len(s) : (s \o r)[i] = s[i]
                 /\ \A i \in 1 .. Len(r) : (s \o r)[Len(s) + i] = r[i]
      OBVIOUS
    <2>2. /\ history \o new \in Seq(Push)
          /\ Len(history \o new) = n + Len(token)
          /\ DOMAIN (history \o new) = 1 .. n + Len(token)
          /\ \A i \in 1 .. n : (history \o new)[i] = history[i]
          /\ \A i \in 1 .. Len(new) : (history \o new)[n + i] = new[i]
      <3>1. history \in Seq(Push) /\ new \in Seq(Push) /\ Len(new) = Len(token)
        BY <1>2, <1>3
      <3> QED
        BY <2>1, <3>1, Zenon
    <2> QED
      BY <2>2, <1>5, Zenon
  <1>7. ASSUME NEW i \in (n + 1) .. (n + Len(token))
        PROVE  /\ i - n \in DOMAIN token
               /\ Record(token)[i].secret = token[i - n]
               /\ Record(token)[i].scan = n + 1
               /\ ~Record(token)[i].opened
    <2>1. i - n \in 1 .. Len(token) /\ i = n + (i - n)
      BY <1>1, <1>2
    <2>2. Record(token)[i] = new[i - n]
      <3>1. Record(token)[n + (i - n)] = new[i - n]
        BY <2>1, <1>3, <1>6, Zenon
      <3> QED
        BY <2>1, <3>1, Zenon
    <2>3. Record(token)[i] =
             [secret |-> token[i - n], scan |-> n + 1, opened |-> FALSE]
      BY <2>1, <2>2, <1>4, Zenon
    <2>4. i - n \in DOMAIN token
      BY <2>1, <1>1, Zenon
    <2> QED
      BY <2>3, <2>4
  <1> QED
    BY <1>1, <1>2, <1>6, <1>7
-----------------------------------------------------------------------------
LEMMA GateInit == Init => GateInv
  BY GateAssumption DEF Init, GateInv, TypeOK, ScansNamed, Remembers, NoDoubleLive

\* An accepted scan, saved or not: the ring in memory remembers what it did
\* and, when the scan is the one about to open the gate, its own secrets.
LEMMA ScanRing ==
    ASSUME GateInv, NEW token \in Tokens, up, opening = 0,
           history' = Record(token), spent' = Pushed(token),
           opening' \in {0, Len(history) + 1}
    PROVE  /\ spent' \in Seq(Secrets) /\ Len(spent') <= Capacity
           /\ Remembers(spent)'
           /\ ScansNamed'
           /\ history' \in Seq(Push)
           /\ opening' \in 0 .. Len(history')
  <1> USE DEF GateInv
  <1> DEFINE n == Len(history)
  <1>1. /\ spent' \in Seq(Secrets) /\ Len(spent') <= Capacity
        /\ \A k \in DOMAIN spent :
              Len(spent) - k + Len(token) < Capacity =>
                \E m \in DOMAIN spent' :
                   /\ spent'[m] = spent[k]
                   /\ Len(spent') - m = Len(spent) - k + Len(token)
        /\ \A k \in DOMAIN token :
              Len(token) - k < Capacity =>
                \E m \in DOMAIN spent' :
                   spent'[m] = token[k] /\ Len(spent') - m = Len(token) - k
    BY PushedRing
  <1>2. /\ history' \in Seq(Push)
        /\ Len(history') = n + Len(token)
        /\ DOMAIN history' = 1 .. n + Len(token)
        /\ DOMAIN history = 1 .. n
        /\ n \in Nat
        /\ \A i \in 1 .. n : history'[i] = history[i]
        /\ \A i \in (n + 1) .. (n + Len(token)) :
              /\ i - n \in DOMAIN token
              /\ history'[i].secret = token[i - n]
              /\ history'[i].scan = n + 1
              /\ ~history'[i].opened
    BY RecordedHistory
  <1>3. Len(token) \in Nat \ {0} /\ DOMAIN token = 1 .. Len(token)
    BY TokensAreSequences
  <1>4. ScansNamed'
    BY <1>2, <1>3, Pushes DEF ScansNamed
  <1>5. /\ DOMAIN spent = 1 .. Len(spent) /\ Len(spent) \in Nat
        /\ DOMAIN spent' = 1 .. Len(spent') /\ Len(spent') \in Nat
        /\ Capacity \in Nat
    BY <1>1, GateAssumption DEF TypeOK
  <1>6. ASSUME NEW i \in DOMAIN history', Live(i)', Len(history') - i < Capacity
        PROVE  \E k \in DOMAIN spent' :
                  /\ spent'[k] = history'[i].secret
                  /\ Len(spent') - k <= Len(history') - i
    <2>1. CASE i <= n
      <3>1. i \in DOMAIN history /\ history'[i] = history[i] /\ history[i].scan <= n
        BY <2>1, <1>2, <1>3 DEF ScansNamed
      <3>2. history[i].scan \in Nat
        BY <3>1, Pushes
      <3>3. Live(i) /\ Len(history) - i < Capacity
        BY <1>6, <1>2, <1>3, <1>5, <3>1, <3>2, <2>1 DEF Live
      <3>4. PICK k \in DOMAIN spent : /\ spent[k] = history[i].secret
                                      /\ Len(spent) - k <= Len(history) - i
        BY <3>1, <3>3 DEF Remembers, Holds
      <3>5. Len(spent) - k + Len(token) < Capacity
        BY <3>4, <1>6, <1>2, <1>3, <1>5, <3>1
      <3>6. PICK m \in DOMAIN spent' :
               /\ spent'[m] = spent[k]
               /\ Len(spent') - m = Len(spent) - k + Len(token)
        BY <1>1, <3>5
      <3>7. Len(spent') - m <= Len(history') - i
        BY <3>6, <3>4, <1>2, <1>3, <1>5, <3>1
      <3> QED
        BY <3>1, <3>4, <3>6, <3>7
    <2>2. CASE i > n
      <3>1. /\ i - n \in DOMAIN token /\ history'[i].secret = token[i - n]
            /\ Len(token) - (i - n) = Len(history') - i
        BY <2>2, <1>2, <1>3
      <3>2. PICK m \in DOMAIN spent' :
               /\ spent'[m] = token[i - n]
               /\ Len(spent') - m = Len(token) - (i - n)
        BY <1>1, <1>6, <3>1
      <3>3. Len(spent') - m <= Len(history') - i
        BY <3>1, <3>2, <1>2, <1>3, <1>5
      <3> QED
        BY <3>1, <3>2, <3>3
    <2> QED
      BY <2>1, <2>2, <1>2, <1>3
  <1>7. Remembers(spent)'
    BY <1>6 DEF Remembers, Holds
  <1>8. opening' \in 0 .. Len(history')
    BY <1>2, <1>3
  <1> QED
    BY <1>1, <1>2, <1>4, <1>7, <1>8

\* A scan is accepted only if the ring has none of its secrets, so the pushes
\* it adds are more than Capacity later than any live one of the same secret.
LEMMA ScanEntry ==
    ASSUME GateInv, NEW token \in Tokens, Scanning(token),
           history' = Record(token), opening' \in {0, Len(history) + 1}
    PROVE  NoDoubleLive'
  <1> USE DEF GateInv
  <1> DEFINE n == Len(history)
  <1>1. /\ Len(history') = n + Len(token)
        /\ DOMAIN history' = 1 .. n + Len(token)
        /\ DOMAIN history = 1 .. n
        /\ n \in Nat
        /\ \A i \in 1 .. n : history'[i] = history[i]
        /\ \A i \in (n + 1) .. (n + Len(token)) :
              /\ i - n \in DOMAIN token
              /\ history'[i].secret = token[i - n]
              /\ history'[i].scan = n + 1
    BY RecordedHistory
  <1>2. Len(token) \in Nat \ {0} /\ DOMAIN token = 1 .. Len(token) /\ Capacity \in Nat
    BY TokensAreSequences, GateAssumption
  <1>3. \A i \in 1 .. n : history[i].scan \in Nat /\ history[i].scan <= n
    BY <1>1, Pushes DEF ScansNamed
  <1>4. \A i \in 1 .. n : Live(i)' => Live(i)
    BY <1>1, <1>3 DEF Live, Scanning
  <1>5. SUFFICES ASSUME NEW i \in DOMAIN history', NEW j \in DOMAIN history',
                        Live(i)', Live(j)',
                        history'[i].secret = history'[j].secret,
                        history'[i].scan < history'[j].scan
                 PROVE  j - i > Capacity
    BY DEF NoDoubleLive
  <1>6. i <= n
    <2> SUFFICES ASSUME i > n PROVE FALSE
      BY <1>1, <1>2
    <2>1. history'[i].scan = n + 1
      BY <1>1, <1>2
    <2>2. history'[j].scan \in Nat /\ history'[j].scan <= n + 1
      BY <1>1, <1>2, <1>3
    <2> QED
      BY <2>1, <2>2, <1>5, <1>1
  <1>7. CASE j <= n
    BY <1>7, <1>6, <1>5, <1>4, <1>1, <1>2 DEF NoDoubleLive
  <1>8. CASE j > n
    <2>1. j - n \in DOMAIN token /\ history'[j].secret = token[j - n]
      BY <1>8, <1>1, <1>2
    <2>2. history[i].secret \notin Range(spent)
      BY <2>1, <1>5, <1>6, <1>1, <1>2 DEF Scanning, Accepts
    <2>3. ~(n - i < Capacity)
      <3> SUFFICES ASSUME n - i < Capacity PROVE FALSE
        OBVIOUS
      <3>1. Live(i) /\ i \in DOMAIN history
        BY <1>4, <1>5, <1>6, <1>1, <1>2
      <3>2. PICK k \in DOMAIN spent : spent[k] = history[i].secret
        BY <3>1 DEF Remembers, Holds, Scanning
      <3> QED
        BY <3>2, <2>2 DEF Range
    <2> QED
      BY <2>3, <1>8, <1>1, <1>2, <1>6
  <1> QED
    BY <1>7, <1>8, <1>1, <1>2

LEMMA GateStep == GateInv /\ [Next]_vars => GateInv'
  <1> SUFFICES ASSUME GateInv, [Next]_vars PROVE GateInv'
    OBVIOUS
  <1> USE GateAssumption DEF GateInv
  <1>1. ASSUME NEW token \in Tokens, ScanSaved(token) PROVE GateInv'
    <2>1. /\ up /\ opening = 0 /\ Scanning(token) /\ up' = up /\ intact' = TRUE
          /\ history' = Record(token) /\ spent' = Pushed(token)
          /\ blob' = spent' /\ opening' = Len(history) + 1
      BY <1>1 DEF ScanSaved, Scanning
    <2>2. /\ spent' \in Seq(Secrets) /\ Len(spent') <= Capacity
          /\ Remembers(spent)' /\ ScansNamed'
          /\ history' \in Seq(Push) /\ opening' \in 0 .. Len(history')
      BY <2>1, ScanRing
    <2>3. NoDoubleLive'
      BY <2>1, ScanEntry
    <2>4. Remembers(blob)'
      BY <2>1, <2>2 DEF Remembers, Holds
    <2>5. TypeOK'
      BY <2>1, <2>2 DEF TypeOK
    <2> QED
      BY <2>2, <2>3, <2>4, <2>5
  <1>2. ASSUME NEW token \in Tokens, ScanNotSaved(token) PROVE GateInv'
    <2>1. /\ up /\ opening = 0 /\ Scanning(token) /\ up' = up
          /\ intact' = intact /\ blob' = blob /\ opening' = 0
          /\ history' = Record(token) /\ spent' = Pushed(token)
      BY <1>2 DEF ScanNotSaved, Scanning
    <2>2. /\ spent' \in Seq(Secrets) /\ Len(spent') <= Capacity
          /\ Remembers(spent)' /\ ScansNamed'
          /\ history' \in Seq(Push) /\ opening' \in 0 .. Len(history')
      BY <2>1, ScanRing
    <2>3. NoDoubleLive'
      BY <2>1, ScanEntry
    <2>4. ASSUME intact PROVE Remembers(blob)'
      <3>1. /\ Len(history') = Len(history) + Len(token)
            /\ DOMAIN history' = 1 .. Len(history) + Len(token)
            /\ DOMAIN history = 1 .. Len(history)
            /\ Len(history) \in Nat
            /\ \A i \in 1 .. Len(history) : history'[i] = history[i]
            /\ \A i \in (Len(history) + 1) .. (Len(history) + Len(token)) :
                  ~history'[i].opened
        BY <2>1, RecordedHistory
      <3>2. Len(token) \in Nat
        BY TokensAreSequences
      <3>3. blob' = blob /\ DOMAIN blob = 1 .. Len(blob) /\ Len(blob) \in Nat
        BY <2>1 DEF TypeOK
      <3>4. SUFFICES ASSUME NEW i \in DOMAIN history', Live(i)',
                            Len(history') - i < Capacity
                     PROVE  Holds(blob, i)'
        BY DEF Remembers
      <3>5. i \in DOMAIN history /\ Live(i) /\ history'[i] = history[i]
        BY <3>1, <3>2, <3>4, <2>1 DEF Live
      <3>6. Holds(blob, i)
        BY <3>1, <3>2, <3>4, <3>5, <2>4 DEF Remembers
      <3> QED
        BY <3>1, <3>2, <3>3, <3>5, <3>6 DEF Holds
    <2>5. TypeOK'
      BY <2>1, <2>2 DEF TypeOK
    <2> QED
      BY <2>1, <2>2, <2>3, <2>4, <2>5
  <1>3. CASE OpenGate
    <2>1. /\ history \in Seq(Push) /\ Len(history) \in Nat
          /\ DOMAIN history = 1 .. Len(history)
      BY DEF TypeOK
    <2>2. /\ DOMAIN history' = DOMAIN history
          /\ \A i \in DOMAIN history :
                /\ history'[i] \in Push
                /\ history'[i].secret = history[i].secret
                /\ history'[i].scan = history[i].scan
                /\ history'[i].opened = (history[i].opened \/ history[i].scan = opening)
      <3>1. \A i \in DOMAIN history : history[i] \in Push
        BY <2>1
      <3> QED
        BY <3>1, <1>3 DEF OpenGate, Push
    <2>3. history' \in Seq(Push) /\ Len(history') = Len(history)
      <3> DEFINE f(i) == IF history[i].scan = opening
                         THEN [history[i] EXCEPT !.opened = TRUE] ELSE history[i]
      <3>1. history' = [i \in 1 .. Len(history) |-> f(i)]
        BY <1>3, <2>1 DEF OpenGate
      <3>2. \A i \in 1 .. Len(history) : f(i) \in Push
        BY <3>1, <2>1, <2>2
      <3> HIDE DEF f
      <3> QED
        BY <3>1, <3>2, <2>1
    <2>4. /\ opening' = 0 /\ opening # 0 /\ up' = up /\ spent' = spent
          /\ blob' = blob /\ intact' = intact
      BY <1>3 DEF OpenGate
    <2>5. \A i \in DOMAIN history : Live(i)' => Live(i)
      BY <2>2, <2>4 DEF Live
    <2>6. TypeOK'
      BY <2>1, <2>3, <2>4 DEF TypeOK
    <2>7. ScansNamed'
      BY <2>2, <2>3 DEF ScansNamed
    <2>8. NoDoubleLive'
      BY <2>2, <2>5 DEF NoDoubleLive
    <2>9. (up => Remembers(spent))' /\ (intact => Remembers(blob))'
      BY <2>2, <2>3, <2>4, <2>5 DEF Remembers, Holds
    <2> QED
      BY <2>6, <2>7, <2>8, <2>9
  <1>4. CASE PowerLoss
    <2>1. \A i \in DOMAIN history : Live(i)' => Live(i)
      BY <1>4 DEF PowerLoss, Live
    <2>2. TypeOK'
      <3>1. /\ history' = history /\ blob' = blob /\ intact' = intact
            /\ up' = FALSE /\ spent' = << >> /\ opening' = 0
        BY <1>4 DEF PowerLoss
      <3>2. Len(history) \in Nat /\ Len(<< >>) = 0
        BY Pushes
      <3>3. /\ << >> \in Seq(Secrets) /\ Len(<< >>) <= Capacity
            /\ 0 \in 0 .. Len(history)
        BY <3>2
      <3>4. /\ blob \in Seq(Secrets) /\ Len(blob) <= Capacity
            /\ intact \in BOOLEAN /\ history \in Seq(Push)
        BY DEF TypeOK
      <3> HIDE DEF GateInv
      <3> QED
        BY <3>1, <3>3, <3>4, Zenon DEF TypeOK
    <2> QED
      BY <1>4, <2>1, <2>2 DEF PowerLoss, ScansNamed, Remembers, Holds, NoDoubleLive
  <1>5. CASE Restart
    <2>1. CASE intact
      <3>1. /\ history' = history /\ opening' = opening /\ spent' = blob
            /\ blob' = blob /\ up' = TRUE /\ intact' = intact
        BY <1>5, <2>1 DEF Restart
      <3>2. TypeOK'
        BY <3>1 DEF TypeOK
      <3> QED
        BY <3>1, <3>2, <2>1 DEF ScansNamed, Remembers, Holds, NoDoubleLive, Live
    <2>2. CASE ~intact
      <3>1. /\ history' = << >> /\ opening' = 0 /\ spent' = << >>
            /\ blob' = blob /\ up' = TRUE /\ intact' = intact
        BY <1>5, <2>2 DEF Restart, TypeOK
      <3>2. TypeOK'
        BY <3>1 DEF TypeOK
      <3> QED
        BY <3>1, <3>2, <2>2 DEF ScansNamed, Remembers, NoDoubleLive
    <2> QED
      BY <2>1, <2>2
  <1>6. CASE Rot
    <2>1. TypeOK'
      BY <1>6 DEF Rot, TypeOK
    <2> QED
      BY <1>6, <2>1 DEF Rot, ScansNamed, Remembers, Holds, NoDoubleLive, Live
  <1>7. CASE UNCHANGED vars
    <2>1. TypeOK'
      BY <1>7 DEF vars, TypeOK
    <2> QED
      BY <1>7, <2>1 DEF vars, ScansNamed, Remembers, Holds, NoDoubleLive, Live
  <1> QED
    BY <1>1, <1>2, <1>3, <1>4, <1>5, <1>6, <1>7 DEF Next, handle_scan
-----------------------------------------------------------------------------
\* The types of the validator's state, and its ring within
\* SPENT_RING_CAPACITY in memory and in the store, after any sequence of
\* scans, failed saves and power losses.
THEOREM RingTypes == Spec => []TypeOK
  <1>1. GateInv => TypeOK
    BY DEF GateInv
  <1> QED
    BY <1>1, GateInit, GateStep, PTL DEF Spec

\* verify_token's persist-before-open and its ring together bound replays:
\* the gate never opens twice for a secret within Capacity pushes.
THEOREM ReplayWindow == Spec => []NoDoubleEntry
  <1>1. GateInv => NoDoubleEntry
    BY DEF GateInv, NoDoubleLive, NoDoubleEntry, Live
  <1> QED
    BY <1>1, GateInit, GateStep, PTL DEF Spec
-----------------------------------------------------------------------------
\* A list, and a lock the mint has parsed.
HasLen(v) == Len(v) \in Nat /\ DOMAIN v = 1 .. Len(v)

IsLock(s) == s.kind \in SecretKind /\ RowsTyped(s) /\ from_secret_ok(s)

\* A list of values is one.
LEMMA ListHasLen ==
    ASSUME NEW v, v \in Seq(Range(v))
    PROVE  HasLen(v) /\ (v # <<>> => 1 \in DOMAIN v) /\ \A j \in DOMAIN v : v[j] \in Range(v)
  BY DEF HasLen, Range

\* The row that Vals reads.
LEMMA RowOfTag ==
    ASSUME NEW s, IsLock(s), NEW tag, Rows(TagRows(s), tag) # {}
    PROVE  \E k \in DOMAIN TagRows(s) :
              TagRows(s)[k].tag = tag /\ Vals(TagRows(s), tag) = TagRows(s)[k].vals
  BY DEF Rows, Vals

LEMMA ParsedTags ==
    ASSUME NEW s, IsLock(s)
    PROVE  parse_condition_tags_ok(TagRows(s))
  BY DEF IsLock, from_secret_ok, P2pkConditions_ok, HtlcConditions_ok

\* A tag's values are a list.
LEMMA ValsHasLen ==
    ASSUME NEW s, IsLock(s), NEW tag, Rows(TagRows(s), tag) # {}
    PROVE  LET v == Vals(TagRows(s), tag)
           IN  v \in Seq(Range(v)) /\ HasLen(v)
  <1>1. PICK k \in DOMAIN TagRows(s) : Vals(TagRows(s), tag) = TagRows(s)[k].vals
    BY RowOfTag
  <1>2. TagRows(s)[k].vals \in Seq(Range(TagRows(s)[k].vals))
    BY DEF IsLock, RowsTyped
  <1> QED
    BY <1>1, <1>2, ListHasLen

\* A number a lock gives is one, and a threshold is positive.
LEMMA TagNumbers ==
    ASSUME NEW s, IsLock(s)
    PROVE  LET first(tag) == Vals(TagRows(s), tag)[1]
           IN  /\ Rows(TagRows(s), "locktime") # {} => first("locktime") \in Nat
               /\ Rows(TagRows(s), "n_sigs") # {} => first("n_sigs") \in Nat \ {0}
               /\ Rows(TagRows(s), "n_sigs_refund") # {} => first("n_sigs_refund") \in Nat \ {0}
               /\ Rows(TagRows(s), "refund") # {} => Vals(TagRows(s), "refund") # <<>>
  <1> DEFINE tags == TagRows(s)
  <1>1. ASSUME NEW tag \in {"locktime", "n_sigs", "n_sigs_refund"}, Rows(tags, tag) # {}
        PROVE  /\ Vals(tags, tag)[1] \in Nat
               /\ tag # "locktime" => Vals(tags, tag)[1] # 0
    <2>1. PICK k \in DOMAIN tags : tags[k].tag = tag /\ Vals(tags, tag) = tags[k].vals
      BY <1>1, RowOfTag
    <2>2. /\ tags[k].vals \in Seq(Range(tags[k].vals))
          /\ Range(tags[k].vals) \subseteq Nat \cup {Bad}
      BY <1>1, <2>1 DEF IsLock, RowsTyped
    <2>3. /\ tags[k].vals # <<>> /\ tags[k].vals[1] # Bad
          /\ tag # "locktime" => tags[k].vals[1] # 0
      BY <1>1, <2>1, ParsedTags DEF parse_condition_tags_ok
    <2>4. tags[k].vals[1] \in Range(tags[k].vals)
      BY <2>2, <2>3, ListHasLen
    <2> QED
      BY <2>1, <2>2, <2>3, <2>4
  <1>2. ASSUME Rows(tags, "refund") # {}
        PROVE  Vals(tags, "refund") # <<>>
    <2>1. PICK k \in DOMAIN tags : tags[k].tag = "refund" /\ Vals(tags, "refund") = tags[k].vals
      BY <1>2, RowOfTag
    <2>2. tags[k].vals # <<>>
      BY <2>1, ParsedTags DEF parse_condition_tags_ok
    <2> QED
      BY <2>1, <2>2
  <1> QED
    BY <1>1, <1>2

\* What the constructors of the conditions guarantee.
LEMMA SoundConditions ==
    ASSUME NEW s, IsLock(s)
    PROVE  LET c == ConditionTags(s)
           IN  /\ HasLen(c.pubkeys) /\ HasLen(c.refund)
               /\ c.locktime = None \/ c.locktime \in Nat
               /\ c.num_sigs = None \/ c.num_sigs \in Nat \ {0}
               /\ c.refundSigs \in Nat \ {0}
               /\ c.refund # <<>> => c.refundSigs <= Len(c.refund)
  <1> DEFINE tags == TagRows(s)
             c == ConditionTags(s)
  <1>1. HasLen(<<>>)
    BY DEF HasLen
  <1>2. HasLen(c.pubkeys) /\ HasLen(c.refund)
    BY <1>1, ValsHasLen DEF ConditionTags
  <1>3. c.locktime = None \/ c.locktime \in Nat
    BY TagNumbers DEF ConditionTags
  <1>4. c.num_sigs = None \/ c.num_sigs \in Nat \ {0}
    BY TagNumbers DEF ConditionTags
  <1>5. c.refundSigs \in Nat \ {0}
    BY TagNumbers DEF ConditionTags
  <1>6. ASSUME c.refund # <<>>
        PROVE  c.refundSigs <= Len(c.refund)
    <2>1. Rows(tags, "refund") # {} /\ c.refund = Vals(tags, "refund")
      BY <1>6 DEF ConditionTags
    <2>2. CASE Rows(tags, "n_sigs_refund") = {}
      <3>1. c.refundSigs = 1
        BY <2>2 DEF ConditionTags
      <3>2. Len(c.refund) # 0
        BY <1>6, <2>1, ValsHasLen DEF HasLen
      <3> QED
        BY <1>2, <3>1, <3>2 DEF HasLen
    <2>3. CASE Rows(tags, "n_sigs_refund") # {}
      <3>1. c.refundSigs = Vals(tags, "n_sigs_refund")[1]
        BY <2>3 DEF ConditionTags
      <3>2. Vals(tags, "n_sigs_refund")[1] <= Len(Vals(tags, "refund"))
        BY <2>3, ParsedTags DEF parse_condition_tags_ok
      <3> QED
        BY <2>1, <3>1, <3>2
    <2> QED
      BY <2>2, <2>3
  <1> QED
    BY <1>2, <1>3, <1>4, <1>5, <1>6

\* The keys of the primary pathway.
LEMMA SoundKeys ==
    ASSUME NEW s, IsLock(s)
    PROVE  LET c == ConditionTags(s)
               keys == signing_pubkeys(s)
           IN  /\ HasLen(keys)
               /\ ~has_duplicate_x_coordinates(keys)
               /\ ~has_duplicate_x_coordinates(c.refund)
               /\ c.num_sigs # None => c.num_sigs <= Len(keys)
               /\ s.kind = "P2PK" => keys # <<>>
               /\ s.kind = "HTLC" => keys = c.pubkeys
  <1> DEFINE c == ConditionTags(s)
  <1>1. s.kind = "HTLC" => signing_pubkeys(s) = c.pubkeys
    BY DEF signing_pubkeys
  <1>2. PathwaysSound(signing_pubkeys(s), c)
    BY <1>1 DEF IsLock, SecretKind, from_secret_ok, P2pkConditions_ok, HtlcConditions_ok
  <1>3. ASSUME s.kind = "P2PK"
        PROVE  HasLen(signing_pubkeys(s)) /\ signing_pubkeys(s) # <<>>
    <2> DEFINE S == {s.data} \cup Range(c.pubkeys)
    <2>1. c.pubkeys \in Seq(Range(c.pubkeys))
      <3>1. CASE Rows(TagRows(s), "pubkeys") = {}
        BY <3>1 DEF ConditionTags
      <3>2. CASE Rows(TagRows(s), "pubkeys") # {}
        BY <3>2, ValsHasLen DEF ConditionTags
      <3> QED
        BY <3>1, <3>2
    <2>2. c.pubkeys \in Seq(S) /\ <<s.data>> \in Seq(S)
      BY <2>1
    <2>3. signing_pubkeys(s) = <<s.data>> \o c.pubkeys
      BY <1>3 DEF signing_pubkeys
    <2>4. signing_pubkeys(s) \in Seq(S) /\ Len(signing_pubkeys(s)) = 1 + Len(c.pubkeys)
      BY <2>2, <2>3
    <2> HIDE DEF S, c
    <2> QED
      BY <2>2, <2>4 DEF HasLen
  <1>4. HasLen(signing_pubkeys(s))
    BY <1>1, <1>3, SoundConditions DEF IsLock, SecretKind
  <1> QED
    BY <1>1, <1>2, <1>3, <1>4 DEF PathwaysSound
-----------------------------------------------------------------------------
\* Keys without a common x-coordinate have as many x-coordinates as keys.
LEMMA DistinctKeys ==
    ASSUME NEW keys, HasLen(keys)
    PROVE  /\ IsFiniteSet(Xs(keys))
           /\ ~has_duplicate_x_coordinates(keys) => Cardinality(Xs(keys)) = Len(keys)
  <1> DEFINE f == [k \in DOMAIN keys |-> keys[k][1]]
  <1>1. IsFiniteSet(DOMAIN keys) /\ Cardinality(DOMAIN keys) = Len(keys)
    <2>1. Len(keys) \in Nat /\ DOMAIN keys = 1 .. Len(keys)
      BY DEF HasLen
    <2>2. /\ IsFiniteSet(1 .. Len(keys))
          /\ Cardinality(1 .. Len(keys)) = IF 1 > Len(keys) THEN 0 ELSE Len(keys) - 1 + 1
      BY <2>1, FS_Interval
    <2> QED
      BY <2>1, <2>2
  <1>2. f \in Surjection(DOMAIN keys, Xs(keys))
    BY DEF Surjection, Xs
  <1>3. ~has_duplicate_x_coordinates(keys) => f \in Injection(DOMAIN keys, Xs(keys))
    BY <1>2 DEF Injection, IsInjective, Surjection, has_duplicate_x_coordinates
  <1> QED
    BY <1>1, <1>2, <1>3, FS_Surjection

\* A count of valid signatures is one of different holders.
LEMMA CountedHolders ==
    ASSUME NEW keys, HasLen(keys), NEW msg, NEW w, w # None, w.sigs # None,
           w.sigs \in Seq(Signature \cup {Bad}), NEW n \in Nat,
           count_valid_signatures(msg, keys, w.sigs) >= n
    PROVE  Cardinality(Holders(msg, w, Xs(keys))) >= n
  <1> DEFINE sigs == w.sigs
             hits == {h \in (DOMAIN keys) \X (DOMAIN sigs) :
                        sigs[h[2]].by = keys[h[1]][1] /\ sigs[h[2]].msg = msg}
             xs == {keys[h[1]][1] : h \in hits}
             holders == Holders(msg, w, Xs(keys))
  <1>1. /\ \A j \in DOMAIN sigs : sigs[j] # Bad
        /\ Cardinality(xs) >= n
    BY DEF count_valid_signatures
  <1>3. ASSUME NEW x \in xs
        PROVE  x \in holders
    <2>1. PICK k \in DOMAIN keys, j \in DOMAIN sigs :
             x = keys[k][1] /\ sigs[j].by = x /\ sigs[j].msg = msg
      BY <1>3
    <2>2. sigs[j] \in Signature
      BY <1>1
    <2>3. sigs[j] = [by |-> x, msg |-> msg]
      BY <2>1, <2>2 DEF Signature
    <2> QED
      BY <2>1, <2>3 DEF Holders, Xs
  <1>4. IsFiniteSet(holders)
    <2>1. holders \subseteq Xs(keys)
      BY DEF Holders
    <2> QED
      BY <2>1, DistinctKeys, FS_Subset
  <1>5. xs \subseteq holders
    BY <1>3
  <1>6. IsFiniteSet(xs) /\ Cardinality(xs) <= Cardinality(holders)
    BY <1>4, <1>5, FS_Subset
  <1>7. Cardinality(xs) \in Nat /\ Cardinality(holders) \in Nat
    BY <1>4, <1>6, FS_CardinalityType
  <1> HIDE DEF xs, holders
  <1>8. Cardinality(holders) >= n
    BY <1>1, <1>6, <1>7
  <1> QED
    BY <1>8 DEF holders
\* The signatures an open pathway of a lock asks for.
Most(c) == IF c.num_sigs = None THEN 1 ELSE c.num_sigs

LEMMA Requirements ==
    ASSUME NEW s, IsLock(s), NEW t \in Nat
    PROVE  LET c == ConditionTags(s)
               req == requirements_at(s, t)
           IN  /\ req.pubkeys = signing_pubkeys(s)
               /\ req.required = IF signing_pubkeys(s) = <<>> THEN 0 ELSE Most(c)
               /\ Most(c) \in Nat \ {0} /\ req.required \in Nat
               /\ req.refund # None => /\ c.locktime \in Nat /\ c.locktime < t
                                       /\ req.refund = RefundPath(c)
               /\ c.locktime # None /\ c.locktime < t => req.refund = RefundPath(c)
               /\ RefundPath(c).required = 0 <=> c.refund = <<>>
               /\ RefundPath(c).required \in Nat
  <1> DEFINE c == ConditionTags(s)
             req == requirements_at(s, t)
  <1>1. /\ c.locktime = None \/ c.locktime \in Nat
        /\ c.num_sigs = None \/ c.num_sigs \in Nat \ {0}
        /\ c.refundSigs \in Nat \ {0}
    BY SoundConditions
  <1> HIDE DEF c
  <1>2. /\ req.pubkeys = signing_pubkeys(s)
        /\ req.required = PrimarySigs(s)
        /\ req.refund = IF Expired(c.locktime, t) THEN RefundPath(c) ELSE None
    BY DEF requirements_at, c
  <1>3. PrimarySigs(s) = IF signing_pubkeys(s) = <<>> THEN 0 ELSE Most(c)
    BY DEF PrimarySigs, Most, c
  <1>4. Most(c) \in Nat \ {0}
    BY <1>1 DEF Most
  <1>5. /\ RefundPath(c).required = 0 <=> c.refund = <<>>
        /\ RefundPath(c).required \in Nat
    BY <1>1 DEF RefundPath
  <1>6. Expired(c.locktime, t) <=> c.locktime # None /\ c.locktime < t
    BY DEF Expired
  <1> QED
    BY <1>1, <1>2, <1>3, <1>4, <1>5, <1>6 DEF c

\* What the mint verifies, holders have authorised.
LEMMA VerifiedIsAuthorized ==
    ASSUME NEW s, IsLock(s), NEW msg, NEW w \in Witness \cup {None}, now \in Nat,
           Verified(s, msg, w, now)
    PROVE  Authorized(s, msg, w)
  <1> DEFINE c == ConditionTags(s)
             req == requirements_at(s, now)
             keys == signing_pubkeys(s)
             Lapsed == c.locktime # None /\ now > c.locktime
             Counts(ks, n) == Cardinality(Holders(msg, w, Xs(ks))) >= n
  <1>1. HasLen(keys) /\ HasLen(c.refund)
    BY SoundKeys, SoundConditions
  <1>2. w # None /\ w.sigs # None => w.sigs \in Seq(Signature \cup {Bad})
    BY DEF Witness
  <1>3. /\ req.pubkeys = keys
        /\ req.required = IF keys = <<>> THEN 0 ELSE Most(c)
        /\ Most(c) \in Nat \ {0} /\ req.required \in Nat
        /\ req.refund # None => Lapsed /\ req.refund = RefundPath(c)
        /\ RefundPath(c).required = 0 <=> c.refund = <<>>
        /\ RefundPath(c).required \in Nat
    BY Requirements, PlaceholdersAssumption
  <1>4. /\ c.refund # <<>> => RefundPath(c) = [pubkeys |-> c.refund, required |-> c.refundSigs]
        /\ RefundPath(c).pubkeys = c.refund
    BY DEF RefundPath
  <1>5. Authorized(s, msg, w) <=>
          \/ s.kind = "P2PK" /\ Counts(keys, Most(c))
          \/ s.kind = "HTLC" /\ w # None /\ w.preimage = Preimage
                /\ (c.pubkeys = <<>> \/ Counts(keys, Most(c)))
          \/ Lapsed /\ (c.refund = <<>> \/ Counts(c.refund, c.refundSigs))
    BY DEF Authorized, Most
  <1>6. /\ s.kind = "P2PK" => keys # <<>>
        /\ s.kind = "HTLC" => keys = c.pubkeys
        /\ s.kind \in {"P2PK", "HTLC"}
    BY SoundKeys DEF IsLock, SecretKind
  <1> HIDE DEF c, req, keys
  <1>7. ASSUME w # None, w.sigs # None,
               count_valid_signatures(msg, req.pubkeys, w.sigs) >= req.required
        PROVE  Counts(keys, req.required)
    BY <1>1, <1>2, <1>3, <1>7, CountedHolders
  <1>8. ASSUME req.refund # None, w # None, w.sigs # None,
               count_valid_signatures(msg, req.refund.pubkeys, w.sigs) >= req.refund.required
        PROVE  Lapsed /\ (c.refund = <<>> \/ Counts(c.refund, c.refundSigs))
    <2>1. Lapsed /\ req.refund.pubkeys = c.refund /\ req.refund.required \in Nat
      BY <1>3, <1>4, <1>8
    <2>2. Counts(c.refund, req.refund.required)
      BY <1>1, <1>2, <1>8, <2>1, CountedHolders
    <2> QED
      BY <1>3, <1>4, <1>8, <2>1, <2>2
  <1>9. is_anyone_can_spend(req) => Lapsed /\ c.refund = <<>>
    BY <1>3 DEF is_anyone_can_spend
  <1> HIDE DEF Lapsed, Counts
  <1>10. CASE s.kind = "P2PK"
    <2>1. P2pkVerified(msg, req, w)
      BY <1>10 DEF Verified, req
    <2>2. \/ Lapsed /\ c.refund = <<>>
          \/ Counts(keys, req.required)
          \/ Lapsed /\ (c.refund = <<>> \/ Counts(c.refund, c.refundSigs))
      BY <2>1, <1>7, <1>8, <1>9 DEF P2pkVerified, verify_p2pk_pathways
    <2> QED
      BY <1>3, <1>5, <1>6, <1>10, <2>2
  <1>11. CASE s.kind = "HTLC"
    <2>1. verify_htlc_pathways(msg, req, w)
      BY <1>11 DEF Verified, req
    <2>2. CASE w # None /\ matches_preimage(w.preimage)
      <3>1. req.required = 0 \/ Counts(keys, req.required)
        BY <2>1, <2>2, <1>7 DEF verify_htlc_pathways, verify_witness_signatures
      <3>2. c.pubkeys = <<>> \/ Counts(keys, Most(c))
        BY <1>3, <1>6, <1>11, <3>1
      <3> QED
        BY <1>5, <1>11, <2>2, <3>2 DEF matches_preimage
    <2>3. CASE ~(w # None /\ matches_preimage(w.preimage))
      BY <2>1, <2>3, <1>5, <1>8, <1>9 DEF verify_htlc_pathways, verify_witness_signatures
    <2> QED
      BY <2>2, <2>3
  <1> QED
    BY <1>6, <1>10, <1>11

\* The types of a request in the making.
RequestOK ==
    /\ inputs \in Transactions /\ outputs \in Outputs
    /\ wit \in [DOMAIN inputs -> Witness \cup {None}]
    /\ own \in BOOLEAN /\ now \in Nat

\* A lock the mint has accepted is a lock.
LEMMA InputLocks ==
    ASSUME RequestOK, NEW i \in DOMAIN inputs, Lock(i).kind # "plain"
    PROVE  /\ Lock(i) = inputs[i] /\ Lock(i).kind \in SecretKind /\ RowsTyped(Lock(i))
           /\ from_secret_ok(Lock(i)) => IsLock(Lock(i))
  <1>1. Lock(i) = inputs[i] /\ Lock(i).kind \in SecretKind
    BY DEF Lock, parse
  <1>2. RowsTyped(Lock(i))
    BY TransactionsAssumption DEF RequestOK, Lock
  <1> QED
    BY <1>1, <1>2 DEF IsLock

LEMMA Authorization ==
    ASSUME RequestOK
    PROVE  AcceptedIsAuthorized
  <1> SUFFICES ASSUME verify_spending_conditions(now),
                      NEW i \in DOMAIN inputs, Lock(i).kind # "plain"
               PROVE  LET c == ConditionTags(Lock(i))
                      IN  /\ IF \E k \in DOMAIN inputs : SigAll(Lock(k))
                             THEN Authorized(Lock(i), sig_all_message, wit[1])
                             ELSE Authorized(Lock(i), SecretMessage(inputs[i]), wit[i])
                          /\ c.num_sigs # None =>
                                c.num_sigs <= Cardinality(Xs(signing_pubkeys(Lock(i))))
                          /\ c.refund # <<>> => c.refundSigs <= Cardinality(Xs(c.refund))
    BY DEF AcceptedIsAuthorized
  <1> DEFINE s == Lock(i)
             c == ConditionTags(s)
  <1>1. IsLock(s)
    BY InputLocks DEF verify_spending_conditions
  <1>2. now \in Nat
    BY DEF RequestOK
  <1>3. ASSUME \E k \in DOMAIN inputs : SigAll(Lock(k))
        PROVE  Authorized(s, sig_all_message, wit[1])
    <2>1. s = Lock(1) /\ Verified(Lock(1), sig_all_message, wit[1], now)
      BY <1>3 DEF verify_spending_conditions, verify_sig_all
    <2>2. 1 \in DOMAIN inputs
      <3>1. inputs \in Seq(Range(inputs))
        BY TransactionsAssumption DEF RequestOK
      <3> QED
        BY <3>1
    <2>3. wit[1] \in Witness \cup {None}
      BY <2>2 DEF RequestOK
    <2> QED
      BY <1>1, <1>2, <2>1, <2>3, VerifiedIsAuthorized
  <1>4. ASSUME ~ \E k \in DOMAIN inputs : SigAll(Lock(k))
        PROVE  Authorized(s, SecretMessage(inputs[i]), wit[i])
    <2>1. Verified(s, SecretMessage(inputs[i]), wit[i], now)
      BY <1>4 DEF verify_spending_conditions, verify_inputs_individually
    <2>2. wit[i] \in Witness \cup {None}
      BY DEF RequestOK
    <2> QED
      BY <1>1, <1>2, <2>1, <2>2, VerifiedIsAuthorized
  <1>5. Cardinality(Xs(signing_pubkeys(s))) = Len(signing_pubkeys(s))
    BY <1>1, SoundKeys, DistinctKeys
  <1>6. Cardinality(Xs(c.refund)) = Len(c.refund)
    BY <1>1, SoundKeys, SoundConditions, DistinctKeys
  <1>7. c.num_sigs # None => c.num_sigs <= Len(signing_pubkeys(s))
    BY <1>1, SoundKeys
  <1>8. c.refund # <<>> => c.refundSigs <= Len(c.refund)
    BY <1>1, SoundConditions
  <1> QED
    BY <1>3, <1>4, <1>5, <1>6, <1>7, <1>8
-----------------------------------------------------------------------------
\* Time opens the refund pathway and changes nothing else.
LEMMA LaterRequirements ==
    ASSUME NEW s, IsLock(s), NEW t \in Nat, NEW u \in Nat, t <= u
    PROVE  /\ requirements_at(s, u).pubkeys = requirements_at(s, t).pubkeys
           /\ requirements_at(s, u).required = requirements_at(s, t).required
           /\ requirements_at(s, t).refund # None =>
                 requirements_at(s, u).refund = requirements_at(s, t).refund
  <1> DEFINE c == ConditionTags(s)
  <1>1. c.locktime = None \/ c.locktime \in Nat
    BY SoundConditions
  <1>2. Expired(c.locktime, t) => Expired(c.locktime, u)
    BY <1>1 DEF Expired
  <1> QED
    BY <1>2 DEF requirements_at

LEMMA VerifiedLater ==
    ASSUME NEW s, IsLock(s), NEW t \in Nat, NEW u \in Nat, t <= u, NEW msg, NEW w,
           Verified(s, msg, w, t)
    PROVE  Verified(s, msg, w, u)
  <1> DEFINE r == requirements_at(s, t)
             q == requirements_at(s, u)
  <1>1. /\ q.pubkeys = r.pubkeys /\ q.required = r.required
        /\ r.refund # None => q.refund = r.refund
    BY LaterRequirements
  <1>2. IF s.kind = "P2PK" THEN P2pkVerified(msg, r, w) ELSE verify_htlc_pathways(msg, r, w)
    BY DEF Verified
  <1> HIDE DEF r, q
  <1>3. is_anyone_can_spend(r) => is_anyone_can_spend(q)
    BY <1>1 DEF is_anyone_can_spend
  <1>4. P2pkVerified(msg, r, w) => P2pkVerified(msg, q, w)
    BY <1>1, <1>3 DEF P2pkVerified, verify_p2pk_pathways
  <1>5. verify_htlc_pathways(msg, r, w) => verify_htlc_pathways(msg, q, w)
    BY <1>1, <1>3 DEF verify_htlc_pathways
  <1>6. IF s.kind = "P2PK" THEN P2pkVerified(msg, q, w) ELSE verify_htlc_pathways(msg, q, w)
    BY <1>2, <1>4, <1>5
  <1> QED
    BY <1>6 DEF Verified, q

LEMMA AcceptedLater ==
    ASSUME RequestOK, NEW u \in Nat, now <= u, verify_spending_conditions(now)
    PROVE  verify_spending_conditions(u)
  <1>1. now \in Nat
    BY DEF RequestOK
  <1>2. ASSUME NEW i \in DOMAIN inputs, Lock(i).kind # "plain", NEW msg, NEW w,
               Verified(Lock(i), msg, w, now)
        PROVE  Verified(Lock(i), msg, w, u)
    <2>1. IsLock(Lock(i))
      BY <1>2, InputLocks DEF verify_spending_conditions
    <2> QED
      BY <1>1, <1>2, <2>1, VerifiedLater
  <1>3. ASSUME verify_sig_all(now), \E i \in DOMAIN inputs : SigAll(Lock(i))
        PROVE  verify_sig_all(u)
    <2>1. PICK i \in DOMAIN inputs : SigAll(Lock(i))
      BY <1>3
    <2>2. Lock(i) = Lock(1) /\ Lock(i).kind # "plain"
      BY <1>3, <2>1 DEF verify_sig_all
    <2>3. Verified(Lock(1), sig_all_message, wit[1], u)
      BY <1>2, <1>3, <2>2 DEF verify_sig_all
    <2> QED
      BY <1>3, <2>3 DEF verify_sig_all
  <1>4. verify_inputs_individually(now) => verify_inputs_individually(u)
    BY <1>2 DEF verify_inputs_individually
  <1> QED
    BY <1>3, <1>4 DEF verify_spending_conditions

\* One signature of the wallet counts for the one key of a pathway it holds.
LEMMA OwnSignatureCounts ==
    ASSUME NEW s, [by |-> Me, msg |-> SecretMessage(s)] # Bad,
           NEW keys, HasLen(keys), ~has_duplicate_x_coordinates(keys),
           path_holds_identity(keys)
    PROVE  count_valid_signatures(SecretMessage(s), keys, Signed(s).sigs) = 1
  <1> DEFINE sigs == <<[by |-> Me, msg |-> SecretMessage(s)]>>
             hits == {h \in (DOMAIN keys) \X (DOMAIN sigs) :
                        sigs[h[2]].by = keys[h[1]][1] /\ sigs[h[2]].msg = SecretMessage(s)}
             xs == {keys[h[1]][1] : h \in hits}
  <1>1. Signed(s).sigs = sigs
    BY DEF Signed
  <1>2. DOMAIN sigs = {1} /\ sigs[1] = [by |-> Me, msg |-> SecretMessage(s)]
    OBVIOUS
  <1>3. PICK k \in DOMAIN keys : keys[k][1] = Me
    BY DEF path_holds_identity
  <1>4. \A j \in DOMAIN keys : keys[j][1] = Me => j = k
    BY <1>3 DEF has_duplicate_x_coordinates
  <1> HIDE DEF sigs
  <1>5. hits = {<<k, 1>>}
    <2>1. <<k, 1>> \in hits
      BY <1>2, <1>3
    <2>2. ASSUME NEW h \in hits
          PROVE  h = <<k, 1>>
      <3>1. h[2] = 1 /\ h[1] \in DOMAIN keys /\ keys[h[1]][1] = Me /\ h = <<h[1], h[2]>>
        BY <1>2, <2>2
      <3> QED
        BY <1>4, <3>1
    <2> QED
      BY <2>1, <2>2
  <1> HIDE DEF hits
  <1>6. xs = {Me}
    BY <1>3, <1>5
  <1>7. Cardinality(hits) = 1 /\ Cardinality(xs) = 1
    BY <1>5, <1>6, FS_Singleton
  <1>8. ~ \E j \in DOMAIN sigs : sigs[j] = Bad
    BY <1>2
  <1>9. count_valid_signatures(SecretMessage(s), keys, sigs) =
          IF \E j \in DOMAIN sigs : sigs[j] = Bad THEN -1
          ELSE IF Cardinality(xs) < Cardinality(hits) THEN -1 ELSE Cardinality(xs)
    BY DEF count_valid_signatures, hits
  <1> HIDE DEF xs
  <1> QED
    BY <1>1, <1>7, <1>8, <1>9

\* What the wallet signs is a signature, and its witnesses are witnesses.
LEMMA OwnWitnesses ==
    ASSUME RequestOK, NEW i \in DOMAIN inputs
    PROVE  LET s == inputs[i]
           IN  /\ [by |-> Me, msg |-> SecretMessage(s)] # Bad
               /\ Signed(s) \in Witness /\ Signed(s).sigs # None
               /\ [Signed(s) EXCEPT !.preimage = Preimage] \in Witness
               /\ [sigs |-> None, preimage |-> Preimage] \in Witness
  <1> DEFINE sig == [by |-> Me, msg |-> SecretMessage(inputs[i])]
  <1>1. inputs[i] \in Range(inputs) /\ inputs \in Transactions
    BY DEF RequestOK, Range
  <1>2. SecretMessage(inputs[i]) \in Message
    BY <1>1 DEF Message
  <1>3. sig \in Signature
    BY <1>2, SpendingAssumption DEF Signature
  <1> HIDE DEF sig
  <1>4. <<sig>> \in Seq(Signature \cup {Bad})
    BY <1>3
  <1>5. Signed(inputs[i]) = [sigs |-> <<sig>>, preimage |-> None]
    BY DEF Signed, sig
  <1>6. [Signed(inputs[i]) EXCEPT !.preimage = Preimage] = [sigs |-> <<sig>>, preimage |-> Preimage]
    BY <1>5
  <1>7. /\ [sigs |-> <<sig>>, preimage |-> None] \in Witness
        /\ [sigs |-> <<sig>>, preimage |-> Preimage] \in Witness
        /\ [sigs |-> None, preimage |-> Preimage] \in Witness
    <2> DEFINE Sigs == Seq(Signature \cup {Bad}) \cup {None}
    <2>1. <<sig>> \in Sigs /\ None \in Sigs
      BY <1>4
    <2>2. Witness = [sigs : Sigs, preimage : {None, Preimage, Bad}]
      BY DEF Witness
    <2>3. \A a \in Sigs, b \in {None, Preimage, Bad} : [sigs |-> a, preimage |-> b] \in Witness
      BY <2>2
    <2> HIDE DEF Sigs
    <2> QED
      BY <2>1, <2>3
  <1>8. sig # Bad /\ Signed(inputs[i]).sigs # None
    <2>1. sig # Bad
      BY <1>3, PlaceholdersAssumption
    <2>2. <<sig>> # None
      BY <1>4, PlaceholdersAssumption
    <2> QED
      BY <1>5, <2>1, <2>2
  <1> QED
    BY <1>5, <1>6, <1>7, <1>8 DEF sig

\* The witness the wallet builds for a lock is one the mint verifies.
LEMMA OwnVerified ==
    ASSUME RequestOK, NEW i \in DOMAIN inputs, Lock(i).kind # "plain",
           NEW p, witness_for_secret(inputs[i], p, now) # Bad
    PROVE  LET w == witness_for_secret(inputs[i], p, now)
           IN  /\ IsLock(Lock(i)) /\ ~SigAll(Lock(i))
               /\ w \in Witness \cup {None}
               /\ Verified(Lock(i), SecretMessage(inputs[i]), w, now)
  <1> DEFINE s == Lock(i)
             msg == SecretMessage(s)
             req == requirements_at(s, now)
             w == witness_for_secret(inputs[i], p, now)
  <1>1. s = inputs[i] /\ s = parse(inputs[i]) /\ s.kind \in {"P2PK", "HTLC"}
    <2>1. s = parse(inputs[i])
      BY DEF Lock
    <2>2. s = inputs[i] /\ s.kind \in SecretKind
      BY InputLocks
    <2> QED
      BY <2>1, <2>2 DEF SecretKind
  <1>2. /\ from_secret_ok(s) /\ ~SigAll(s)
        /\ w = IF s.kind = "P2PK" THEN p2pk_witness(s, req) ELSE htlc_witness(s, req, p)
    BY <1>1 DEF witness_for_secret
  <1>3. IsLock(s)
    BY <1>2, InputLocks
  <1> DEFINE c == ConditionTags(s)
             mine == Signed(s)
             revealed == [Signed(s) EXCEPT !.preimage = Preimage]
             bare == [sigs |-> None, preimage |-> Preimage]
  <1>4. /\ [by |-> Me, msg |-> msg] # Bad
        /\ mine \in Witness /\ revealed \in Witness /\ bare \in Witness
    BY <1>1, OwnWitnesses
  <1>5. /\ mine # None /\ mine.sigs # None /\ revealed.sigs = mine.sigs
        /\ revealed # None /\ bare # None
        /\ revealed.preimage = Preimage /\ bare.preimage = Preimage /\ mine.preimage = None
    <2>1. mine.sigs = <<[by |-> Me, msg |-> msg]>> /\ mine.preimage = None
      BY DEF Signed
    <2>2. mine.sigs # None
      BY <1>1, OwnWitnesses
    <2> QED
      BY <1>4, <2>1, <2>2, PlaceholdersAssumption DEF Signed
  <1>6. /\ req.pubkeys = signing_pubkeys(s)
        /\ req.refund # None => req.refund = RefundPath(c)
    BY <1>3, Requirements DEF RequestOK
  <1>7. ASSUME path_holds_identity(req.pubkeys)
        PROVE  count_valid_signatures(msg, req.pubkeys, mine.sigs) = 1
    BY <1>3, <1>4, <1>6, <1>7, SoundKeys, OwnSignatureCounts
  <1>8. ASSUME req.refund # None, path_holds_identity(req.refund.pubkeys)
        PROVE  count_valid_signatures(msg, req.refund.pubkeys, mine.sigs) = 1
    <2>1. req.refund.pubkeys = c.refund
      BY <1>6, <1>8 DEF RefundPath
    <2> QED
      BY <1>3, <1>4, <1>8, <2>1, SoundKeys, SoundConditions, OwnSignatureCounts
  <1>9. Verified(s, msg, w, now) <=>
          IF s.kind = "P2PK" THEN P2pkVerified(msg, req, w) ELSE verify_htlc_pathways(msg, req, w)
    BY DEF Verified
  <1> HIDE DEF s, msg, req, w, c, mine, revealed, bare
  <1>10. CASE s.kind = "P2PK"
    <2>1. w = p2pk_witness(s, req) /\ w # Bad
      BY <1>2, <1>10 DEF w
    <2>2. \/ is_anyone_can_spend(req) /\ w = None
          \/ path_holds_identity(req.pubkeys) /\ req.required = 1 /\ w = mine
          \/ /\ req.refund # None /\ req.refund.required = 1
             /\ path_holds_identity(req.refund.pubkeys) /\ w = mine
      BY <2>1 DEF p2pk_witness, mine
    <2>3. P2pkVerified(msg, req, w)
      BY <1>5, <1>7, <1>8, <2>2 DEF P2pkVerified, verify_p2pk_pathways
    <2> QED
      BY <1>1, <1>2, <1>3, <1>4, <1>9, <1>10, <2>2, <2>3 DEF s, msg, w
  <1>11. CASE s.kind = "HTLC"
    <2>1. w = htlc_witness(s, req, p) /\ w # Bad
      BY <1>2, <1>11 DEF w
    <2>2. \/ is_anyone_can_spend(req) /\ w = None
          \/ req.required = 0 /\ w = bare
          \/ req.required = 1 /\ path_holds_identity(req.pubkeys) /\ w = revealed
      BY <2>1 DEF htlc_witness, matches_preimage, bare, revealed
    <2>3. verify_htlc_pathways(msg, req, w)
      BY <1>5, <1>7, <2>2
         DEF verify_htlc_pathways, verify_witness_signatures, matches_preimage
    <2> QED
      BY <1>1, <1>2, <1>3, <1>4, <1>9, <1>11, <2>2, <2>3 DEF s, msg, w
  <1> QED
    BY <1>1, <1>10, <1>11
-----------------------------------------------------------------------------
\* What the wallet built is accepted, and signs no outputs.
OwnInv ==
    own => /\ verify_spending_conditions(now)
           /\ \A i \in DOMAIN inputs : ~SigAll(Lock(i))

ConditionsInv == RequestOK /\ OwnInv

LEMMA ConditionsStart == ConditionsInit => ConditionsInv
  <1>1. ConditionsInit => RequestOK
    <2> SUFFICES ASSUME ConditionsInit
                 PROVE  RequestOK
      OBVIOUS
    <2>1. /\ inputs \in Transactions /\ outputs \in Outputs
          /\ own \in BOOLEAN /\ now \in Nat
      BY DEF ConditionsInit
    <2>2. wit \in [DOMAIN inputs -> Witness \cup {None}]
      BY DEF ConditionsInit
    <2> QED
      BY <2>1, <2>2 DEF RequestOK
  <1>2. ConditionsInit => OwnInv
    BY Zenon DEF ConditionsInit, OwnInv
  <1> QED
    BY <1>1, <1>2 DEF ConditionsInv

\* A witness in the making stays one.
LEMMA SignedWitness ==
    ASSUME NEW w \in Witness \cup {None}, NEW sig \in Signature \cup {Bad},
           NEW p \in {Preimage, Bad}
    PROVE  LET w1 == IF w = None THEN [sigs |-> <<>>, preimage |-> None] ELSE w
               w2 == IF w = None THEN [sigs |-> None, preimage |-> None] ELSE w
               sigs == IF w1.sigs = None THEN <<>> ELSE w1.sigs
           IN  /\ [w1 EXCEPT !.sigs = Append(sigs, sig)] \in Witness
               /\ [w2 EXCEPT !.preimage = p] \in Witness
  <1> DEFINE w1 == IF w = None THEN [sigs |-> <<>>, preimage |-> None] ELSE w
             w2 == IF w = None THEN [sigs |-> None, preimage |-> None] ELSE w
             sigs == IF w1.sigs = None THEN <<>> ELSE w1.sigs
             Some == Seq(Signature \cup {Bad})
             Sigs == Some \cup {None}
  <1>1. Witness = [sigs : Sigs, preimage : {None, Preimage, Bad}]
    BY DEF Witness
  <1>2. <<>> \in Some /\ \A q \in Some : Append(q, sig) \in Some
    OBVIOUS
  <1> HIDE DEF Some
  <1>3. w1 \in Witness /\ w2 \in Witness
    BY <1>1, <1>2
  <1> HIDE DEF w1, w2
  <1>4. sigs \in Some
    BY <1>1, <1>2, <1>3
  <1> HIDE DEF sigs
  <1>5. Append(sigs, sig) \in Sigs
    BY <1>2, <1>4
  <1>6. /\ [w1 EXCEPT !.sigs = Append(sigs, sig)] \in Witness
        /\ [w2 EXCEPT !.preimage = p] \in Witness
    BY <1>1, <1>3, <1>5
  <1> QED
    BY <1>6 DEF w1, w2, sigs

LEMMA RequestTyped ==
    ASSUME ConditionsInv, [ConditionsNext]_conditionVars
    PROVE  RequestOK'
  <1> USE DEF ConditionsInv, RequestOK
  <1>1. ASSUME NEW p, ReceiveToken(p)
        PROVE  RequestOK'
    <2>1. ASSUME NEW i \in DOMAIN inputs
          PROVE  witness_for_secret(inputs[i], p, now) \in Witness \cup {None}
      <3>1. witness_for_secret(inputs[i], p, now) # Bad
        BY <1>1 DEF ReceiveToken
      <3>2. CASE Lock(i).kind = "plain"
        BY <3>2 DEF witness_for_secret, Lock
      <3>3. CASE Lock(i).kind # "plain"
        BY <3>1, <3>3, OwnVerified
      <3> QED
        BY <3>2, <3>3
    <2> QED
      BY <1>1, <2>1 DEF ReceiveToken
  <1>2. ASSUME NEW i \in DOMAIN inputs, NEW sig \in Signature \cup {Bad}, CoSign(i, sig)
        PROVE  RequestOK'
    <2>1. wit[i] \in Witness \cup {None}
      OBVIOUS
    <2>2. PICK v \in Witness : wit' = [wit EXCEPT ![i] = v]
      BY <1>2, <2>1, SignedWitness DEF CoSign
    <2> QED
      BY <1>2, <2>2 DEF CoSign
  <1>3. ASSUME NEW i \in DOMAIN inputs, NEW p \in {Preimage, Bad}, Reveal(i, p)
        PROVE  RequestOK'
    <2>1. wit[i] \in Witness \cup {None}
      OBVIOUS
    <2>2. PICK v \in Witness : wit' = [wit EXCEPT ![i] = v]
      BY <1>3, <2>1, SignedWitness DEF Reveal
    <2> QED
      BY <1>3, <2>2 DEF Reveal
  <1>4. ASSUME NEW o \in Outputs, Retarget(o)
        PROVE  RequestOK'
    BY <1>4 DEF Retarget
  <1>5. CASE Tick
    BY <1>5 DEF Tick
  <1>6. CASE UNCHANGED conditionVars
    BY <1>6 DEF conditionVars
  <1>7. ASSUME NEW i \in DOMAIN inputs, NEW x \in Signers,
               NEW msg \in {SecretMessage(inputs[i]), sig_all_message}
        PROVE  [by |-> x, msg |-> msg] \in Signature
    <2>1. SecretMessage(inputs[i]) \in Message
      BY DEF Range, Message
    <2>2. sig_all_message \in Message
      BY DEF sig_all_message, Message
    <2> QED
      BY <1>7, <2>1, <2>2 DEF Signature
  <1> QED
    BY <1>1, <1>2, <1>3, <1>4, <1>5, <1>6, <1>7 DEF ConditionsNext

LEMMA OwnKept ==
    ASSUME ConditionsInv, [ConditionsNext]_conditionVars
    PROVE  OwnInv'
  <1> SUFFICES ASSUME own'
               PROVE  verify_spending_conditions(now)' /\ \A i \in DOMAIN inputs' : ~SigAll(Lock(i))'
    BY DEF OwnInv
  <1>1. CASE \E p \in {None, Preimage, Bad} : ReceiveToken(p)
    <2>1. PICK p \in {None, Preimage, Bad} : ReceiveToken(p)
      BY <1>1
    <2>2. ASSUME NEW i \in DOMAIN inputs
          PROVE  /\ wit'[i] = witness_for_secret(inputs[i], p, now)
                 /\ wit'[i] # Bad
      BY <2>1 DEF ReceiveToken
    <2>3. inputs' = inputs /\ outputs' = outputs /\ now' = now
      BY <2>1 DEF ReceiveToken
    <2>4. ASSUME NEW i \in DOMAIN inputs, Lock(i).kind # "plain"
          PROVE  /\ from_secret_ok(Lock(i)) /\ ~SigAll(Lock(i))
                 /\ Verified(Lock(i), SecretMessage(inputs[i]), wit'[i], now)
      BY <2>2, <2>4, OwnVerified DEF ConditionsInv, IsLock
    <2>5. ASSUME NEW i \in DOMAIN inputs, Lock(i).kind = "plain"
          PROVE  wit'[i] = None /\ ~SigAll(Lock(i))
      BY <2>2, <2>5 DEF witness_for_secret, Lock, SigAll
    <2>6. \A i \in DOMAIN inputs : ~SigAll(Lock(i))
      BY <2>4, <2>5
    <2>7. \A i : Lock(i)' = Lock(i) /\ SigAll(Lock(i))' = SigAll(Lock(i))
      BY <2>3 DEF Lock, SigAll
    <2> QED
      BY <2>3, <2>4, <2>5, <2>6, <2>7
         DEF verify_spending_conditions, verify_inputs_individually
  <1>2. CASE \E o \in Outputs : Retarget(o)
    <2>1. own /\ inputs' = inputs /\ wit' = wit /\ now' = now
      BY <1>2 DEF Retarget
    <2>2. verify_spending_conditions(now) /\ \A i \in DOMAIN inputs : ~SigAll(Lock(i))
      BY <2>1 DEF ConditionsInv, OwnInv
    <2>3. \A i : Lock(i)' = Lock(i) /\ SigAll(Lock(i))' = SigAll(Lock(i))
      BY <2>1 DEF Lock, SigAll
    <2> QED
      BY <2>1, <2>2, <2>3 DEF verify_spending_conditions, verify_inputs_individually
  <1>3. CASE Tick \/ UNCHANGED conditionVars
    <2>1. /\ inputs' = inputs /\ wit' = wit /\ outputs' = outputs
          /\ now' \in Nat /\ now <= now'
      <3>1. now \in Nat
        BY DEF ConditionsInv, RequestOK
      <3>2. CASE Tick
        BY <3>1, <3>2 DEF Tick
      <3>3. CASE UNCHANGED conditionVars
        BY <3>1, <3>3 DEF conditionVars
      <3> QED
        BY <1>3, <3>2, <3>3
    <2>2. verify_spending_conditions(now) /\ \A i \in DOMAIN inputs : ~SigAll(Lock(i))
      BY <1>3, Zenon DEF Tick, conditionVars, ConditionsInv, OwnInv
    <2>3. verify_spending_conditions(now')
      BY <2>1, <2>2, AcceptedLater DEF ConditionsInv
    <2>4. \A i : Lock(i)' = Lock(i) /\ SigAll(Lock(i))' = SigAll(Lock(i))
      BY <2>1 DEF Lock, SigAll
    <2> QED
      BY <2>1, <2>2, <2>3, <2>4 DEF verify_spending_conditions, verify_inputs_individually
  <1>4. ASSUME NEW i, NEW sig, CoSign(i, sig) \/ Reveal(i, sig)
        PROVE  FALSE
    BY <1>4 DEF CoSign, Reveal
  <1> QED
    BY <1>1, <1>2, <1>3, <1>4 DEF ConditionsNext

LEMMA ConditionsInvariant == ConditionsSpec => []ConditionsInv
  <1>1. ConditionsInv /\ [ConditionsNext]_conditionVars => ConditionsInv'
    BY RequestTyped, OwnKept DEF ConditionsInv
  <1> QED
    BY <1>1, ConditionsStart, PTL DEF ConditionsSpec

\* What the mint accepts has been authorised, whatever was signed, added or
\* retargeted before (verify_spending_conditions).
THEOREM AcceptedAuthorized == ConditionsSpec => []AcceptedIsAuthorized
  <1>1. ConditionsInv => AcceptedIsAuthorized
    BY Authorization DEF ConditionsInv
  <1> QED
    BY <1>1, ConditionsInvariant, PTL

\* The mint accepts the witnesses the wallet builds (witness_for_secret), when
\* they are built and ever after.
THEOREM OwnAccepted == ConditionsSpec => []OwnWitnessAccepted
  <1>1. ConditionsInv => OwnWitnessAccepted
    BY DEF ConditionsInv, OwnInv, OwnWitnessAccepted
  <1> QED
    BY <1>1, ConditionsInvariant, PTL

\* No request that would be accepted is refused because time passed
\* (requirements_at).
THEOREM TimeOpensOnly == ConditionsSpec => TimeClosesNothing
  <1>1. ConditionsInv /\ [ConditionsNext]_conditionVars =>
          [now' > now /\ verify_spending_conditions(now)
             => verify_spending_conditions(now')]_conditionVars
    <2>1. ASSUME ConditionsInv, [ConditionsNext]_conditionVars,
                 now' > now, verify_spending_conditions(now)
          PROVE  verify_spending_conditions(now')
      <3>1. RequestOK /\ now' \in Nat /\ now \in Nat
        BY <2>1, RequestTyped DEF ConditionsInv, RequestOK
      <3> QED
        BY <2>1, <3>1, AcceptedLater
    <2> QED
      BY <2>1
  <1> QED
    BY <1>1, ConditionsInvariant, PTL DEF ConditionsSpec, TimeClosesNothing
=============================================================================
