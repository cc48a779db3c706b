------------------------------ MODULE MCDevice ------------------------------
EXTENDS Device, TLC

CONSTANTS A, B

\* Two tokens of one size: signatures for the one fit the other.
MCCount == (A :> 1) @@ (B :> 1)

\* The user and the host scan two animated codes, one part with a bad index.
ScanWorld ==
  [seen |-> {Ur(A, 1), Ur(B, 0), Ur(B, 1), Ur(B, 2)},
   arms |-> {<<"ImportToken">>, <<"ScannerTrigger", "ScannerData">>, <<"NfcData">>},
   room |-> 1]

\* The host swaps, in one command line or several, late answers on the line,
\* while the user scans another token.
SwapWorld ==
  [seen |-> {[kind |-> "token", tok |-> B]},
   arms |-> {<<"GetBlinded", "SendSignatures">>, run_swap_script},
   room |-> 2]

\* Codes that are no token, and the remaining command lines.
OtherWorld ==
  [seen |-> {[kind |-> "text"], Ur(Blob, 1), Ur(Blob, 2)},
   arms |-> {<<"ImportToken">>, <<"GetTokenInfo">>, <<"GetBlinded">>, <<"GetProofs">>,
             <<"ScannerCare">>},
   room |-> 1]

MCWorlds == {ScanWorld, SwapWorld, OtherWorld}
=============================================================================
