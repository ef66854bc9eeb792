---------------------------- MODULE MCOrdersPool ----------------------------
(* Two pools that can pass a swap through each other in both directions:   *)
(* p starts with the code of hopers-swap_hopers, q with that of            *)
(* hopers-swap_orders, and the hopers token, which p burns, is the second  *)
(* token of q.                                                             *)
EXTENDS OrdersPool, TLC

CONSTANTS
    p, q, alice, hopers, orders, other, none, never,
    Supply      \* what alice holds of each token

TwoPools == {p, q}
ThreeTokens == {hopers, orders, other}
PoolDenoms == (p :> <<hopers, other>>) @@ (q :> <<orders, hopers>>)
Holdings == [t \in ThreeTokens |-> [u \in Users |-> Supply[t]]]
SupplyOf == (hopers :> 40) @@ (orders :> 40) @@ (other :> 40)

FeeConfig(num, den, burn) ==
    [num |-> num, den |-> den, burn |-> burn,
     wallets |-> << [address |-> alice, ratio |-> 1], [address |-> q, ratio |-> 1] >>]

StartConfigs == {(p :> FeeConfig(1, 4, 1)) @@ (q :> FeeConfig(1, 4, 0))}
NewConfigs == {FeeConfig(1, 4, 0)}
Started == {(p :> "hopers") @@ (q :> "orders")}
=============================================================================
