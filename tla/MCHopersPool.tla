---------------------------- MODULE MCHopersPool ----------------------------
(* One pool of the hopers token and one other token.  The cfg says which   *)
(* of the two are cw20 contracts and who sends transactions; dev is a dev  *)
(* wallet that does not.                                                   *)
EXTENDS HopersPool, TLC

CONSTANTS
    p, alice, dev, hopers, other, none, never,
    Supply,     \* what each user holds of each token
    StartBurn   \* the burn fees a pool may start with

OnePool == {p}
TwoTokens == {hopers, other}
PoolDenom == (p :> <<hopers, other>>)
Holdings == [t \in TwoTokens |-> [u \in Users |-> Supply]]

(* Protocol fee num/den split between dev and alice, burn fee burn/den.    *)
FeeConfig(num, den, burn) ==
    [num |-> num, den |-> den, burn |-> burn,
     wallets |-> << [address |-> dev, ratio |-> 1], [address |-> alice, ratio |-> 1] >>]

StartConfigs == {(p :> FeeConfig(1, 4, burn)) : burn \in StartBurn}

(* The second one's fees add up to more than everything: an update accepts *)
(* them, and no swap of the hopers token goes through.                     *)
NewConfigs == {FeeConfig(0, 4, 1), FeeConfig(3, 4, 2)}
=============================================================================
