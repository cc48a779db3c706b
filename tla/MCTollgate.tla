----------------------------- MODULE MCTollgate -----------------------------
EXTENDS Tollgate, TLC

CONSTANTS home, venue, plain, rival, broken, bare, foreign, gratis

\* One network of each kind.
MCAd == (home :> "free") @@ (venue :> "good") @@ (rival :> "other_mint")
          @@ (broken :> "degraded") @@ (bare :> "no_price") @@ (plain :> "no_mint")
          @@ (foreign :> "other_unit") @@ (gratis :> "zero_price")
=============================================================================
