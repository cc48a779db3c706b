------------------------ MODULE MCSpendingConditions ------------------------
(***************************************************************************)
(* Locks for TLC: each row of every tag, good and bad, and the pairs and   *)
(* triples of rows that interact.                                          *)
(***************************************************************************)
EXTENDS SpendingConditions

CONSTANTS Bob, Hash, o1, o2

me == <<Me, 2>>
meOdd == <<Me, 3>>
bob == <<Bob, 2>>

Row(tag, vals) == [tag |-> tag, vals |-> vals]

SomeRows ==
    {Row("sigflag", <<"SIG_ALL">>), Row("sigflag", <<Bad>>),
     Row("pubkeys", <<bob>>), Row("pubkeys", <<me>>), Row("pubkeys", <<meOdd, bob>>),
     Row("n_sigs", <<0>>), Row("n_sigs", <<2>>),
     Row("locktime", <<0>>), Row("locktime", <<1>>),
     Row("refund", <<>>), Row("refund", <<me>>), Row("refund", <<bob, me>>),
     Row("refund", <<me, meOdd>>), Row("n_sigs_refund", <<2>>), Row("", <<>>)}

TagLists ==
    {<<>>} \cup {<<r>> : r \in SomeRows} \cup (SomeRows \X SomeRows)
      \cup {<<Row("locktime", <<0>>), Row("refund", <<bob, me>>), Row("n_sigs_refund", <<2>>)>>,
            <<Row("locktime", <<0>>), Row("refund", <<me, meOdd>>), Row("n_sigs_refund", <<2>>)>>,
            <<Row("pubkeys", <<bob>>), Row("n_sigs", <<2>>), Row("sigflag", <<"SIG_ALL">>)>>,
            <<Row("pubkeys", <<bob>>), Row("n_sigs", <<2>>), Row("locktime", <<0>>),
              Row("refund", <<me>>)>>}

Locks ==
    [kind : {"P2PK"}, data : {me, bob}, tags : TagLists]
      \cup [kind : {"HTLC"}, data : {Hash}, tags : TagLists]
      \cup {[kind |-> "P2PK", data |-> d, tags |-> t] : d \in {me, Bad, None}, t \in {<<>>, None, Bad}}

Plain == [kind |-> "FOO", data |-> me, tags |-> <<>>]
Ours == [kind |-> "P2PK", data |-> me, tags |-> <<>>]
OursAll == [kind |-> "P2PK", data |-> me, tags |-> <<Row("sigflag", <<"SIG_ALL">>)>>]
Hashed == [kind |-> "HTLC", data |-> Hash, tags |-> <<>>]

Pairs ==
    {<<Plain, OursAll>>, <<OursAll, Plain>>, <<OursAll, OursAll>>, <<OursAll, Ours>>,
     <<Ours, Hashed>>, <<Ours, [Ours EXCEPT !.tags = Bad]>>}

SomeTransactions == {<<s>> : s \in Locks} \cup Pairs

TwoOutputs == {o1, o2}
=============================================================================
