------------------------------- MODULE Ledger -------------------------------
(***************************************************************************)
(* What a token promises, whoever may move it: units change hands, are     *)
(* issued and are destroyed one holder at a time, nobody goes below zero,  *)
(* and the total supply follows every issue and destruction.  cw20-base    *)
(* implements it, and so do the LP tokens inside the pools.                *)
(***************************************************************************)
EXTENDS Naturals, Functions

CONSTANTS
    Holder,     \* the accounts
    Opening,    \* what the holders may start with
    Quantity,   \* the amounts that can be moved, issued or destroyed
    Total       \* the largest supply

VARIABLES balance, supply

ledger == <<balance, supply>>

(* What the holders own between them.                                      *)
Owned == SumFunctionOnSet(balance, Holder)

(* n units taken from one account and given to another, or to itself.      *)
Shifted(f, from, to, n) ==
    LET taken == [f EXCEPT ![from] = f[from] - n]
    IN  [taken EXCEPT ![to] = taken[to] + n]

Move(from, to, n) ==
    /\ n <= balance[from]
    /\ balance' = Shifted(balance, from, to, n)
    /\ supply' = supply

Issue(to, n) ==
    /\ supply + n <= Total
    /\ balance' = [balance EXCEPT ![to] = balance[to] + n]
    /\ supply' = supply + n

Retire(from, n) ==
    /\ n <= balance[from]
    /\ n <= supply
    /\ balance' = [balance EXCEPT ![from] = balance[from] - n]
    /\ supply' = supply - n

Init ==
    /\ balance \in Opening
    /\ supply \in 0 .. Total
    /\ supply = Owned

Next ==
    \E n \in Quantity, a \in Holder :
        \/ \E b \in Holder : Move(a, b, n)
        \/ Issue(a, n)
        \/ Retire(a, n)

Spec == Init /\ [][Next]_ledger

-----------------------------------------------------------------------------
(* What the holders own is what has been issued: the promise that makes a  *)
(* supply something to divide by.                                          *)
SupplyIsOwned == supply = Owned
=============================================================================
