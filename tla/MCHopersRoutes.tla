--------------------------- MODULE MCHopersRoutes ---------------------------
(* Two pools that share the hopers token, so that each can pass a swap     *)
(* through the other.                                                      *)
EXTENDS HopersPool, TLC

CONSTANTS
    p, q, alice, dev, hopers, left, right, none, never,
    Supply,     \* what alice holds of each token
    Burns       \* the burn fees the pools may have

TwoPools == {p, q}
ThreeTokens == {hopers, left, right}
PoolDenoms == (p :> <<hopers, left>>) @@ (q :> <<hopers, right>>)
Holdings == [t \in ThreeTokens |-> [u \in Users |-> Supply[t]]]

(* The pools pay their protocol fee to dev and to pool q.                  *)
StartConfigs ==
    {[r \in TwoPools |->
        [num |-> 2, den |-> 5, burn |-> burn,
         wallets |-> << [address |-> dev, ratio |-> 1], [address |-> q, ratio |-> 1] >>]] :
     burn \in Burns}

SupplyOf == (hopers :> 9) @@ (left :> 8) @@ (right :> 7)
=============================================================================
