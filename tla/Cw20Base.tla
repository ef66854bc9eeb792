------------------------------ MODULE Cw20Base ------------------------------
(***************************************************************************)
(* The cw20-base token: balances, supply, minter and allowances, the       *)
(* allowances kept twice, by owner and by spender.                         *)
(*                                                                         *)
(* Send and SendFrom save the balances and then call the receiving         *)
(* contract; what that contract sends back to the token in turn are        *)
(* further steps, with it as the sender.  A transaction that fails is a    *)
(* step that is not taken.  Names are left out; the marketing record is in *)
(* Cw20Marketing.                                                          *)
(***************************************************************************)
EXTENDS Naturals, FiniteSets

CONSTANTS
    Users,          \* the accounts, contracts included
    Nobody,         \* mint = None
    NoCap,          \* cap = None
    Never,          \* Expiration::Never
    Kept,           \* expires = None: the expiration is left as it is
    MaxUint,        \* the largest Uint128
    MaxHeight,      \* bound: the last block height considered
    MaxIssued,      \* bound: how much the minters issue
    \* What messages may carry (bounds of the model).
    Genesis,        \* initial_balances of an InstantiateMsg
    Minters,        \* its minter, and those of UpdateMinter
    Caps,           \* its cap
    OldAllowances,  \* allowances left by a version before 0.14
    Senders,        \* the accounts that spend tokens of their own
    Amounts,
    Expirations     \* expires of an allowance

ASSUME Cw20BaseAssumption ==
    /\ IsFiniteSet(Users)
    /\ Nobody \notin Users
    /\ NoCap \notin Nat
    /\ Never \notin Nat
    /\ Kept \notin Nat \cup {Never}
    /\ MaxUint \in Nat
    /\ MaxHeight \in Nat
    /\ MaxIssued \in Nat
    /\ Genesis \subseteq [Users -> Nat]
    /\ Minters \subseteq Users \cup {Nobody}
    /\ Caps \subseteq Nat \cup {NoCap}
    /\ Senders \subseteq Users
    /\ Amounts \subseteq Nat
    /\ Expirations \subseteq Nat \cup {Never, Kept}

(* AllowanceResponse; kept is FALSE where the map has no entry.            *)
Allowance == [kept : BOOLEAN, amount : Nat, expires : Nat \cup {Never}]
NoAllowance == [kept |-> FALSE, amount |-> 0, expires |-> Never]

ASSUME OldAllowancesAssumption == OldAllowances \subseteq [Users \X Users -> Allowance]

VARIABLES
    balances,           \* BALANCES
    total_supply,       \* TOKEN_INFO.total_supply
    minter,             \* TOKEN_INFO.mint: the minter, or Nobody,
    cap,                \* and the cap, NoCap without a minter
    allowances,         \* ALLOWANCES[owner, spender]
    allowances_spender, \* ALLOWANCES_SPENDER[spender, owner]
    current,            \* whether this version of the code runs
    height,             \* env.block.height
    issued              \* history: what the minters issued

token == <<balances, total_supply, minter, cap>>
approvals == <<allowances, allowances_spender>>
vars == <<balances, total_supply, minter, cap, allowances, allowances_spender,
          current, height, issued>>

Fits(n) == n <= MaxUint
WithinCap(n) == cap # NoCap => n <= cap
Expired(allowance) == allowance.expires # Never /\ height >= allowance.expires

-----------------------------------------------------------------------------
(* Balances.                                                               *)

(* Mutant: the recipient's balance is read before the sender's is saved.   *)
MovedStale(from, to, n) ==
    [balances EXCEPT ![from] = balances[from] - n, ![to] = balances[to] + n]

Moved(from, to, n) ==
    LET lowered == [balances EXCEPT ![from] = balances[from] - n]
    IN  [lowered EXCEPT ![to] = lowered[to] + n]

(* Mutant: the sender's balance is not looked at.                          *)
MovingUnchecked(from, to, n) ==
    /\ balances' = Moved(from, to, n)
    /\ UNCHANGED <<total_supply, minter, cap, issued>>

(* The two updates of BALANCES of every transfer.                          *)
Moving(from, to, n) ==
    /\ n <= balances[from]
    /\ balances' = Moved(from, to, n)
    /\ UNCHANGED <<total_supply, minter, cap, issued>>

(* Mutant: the supply is not reduced.                                      *)
BurningKeptSupply(from, n) ==
    /\ n <= balances[from]
    /\ balances' = [balances EXCEPT ![from] = balances[from] - n]
    /\ UNCHANGED <<total_supply, minter, cap, issued>>

(* The update of BALANCES and that of TOKEN_INFO of every burn.            *)
Burning(from, n) ==
    /\ n <= balances[from]
    /\ n <= total_supply
    /\ balances' = [balances EXCEPT ![from] = balances[from] - n]
    /\ total_supply' = total_supply - n
    /\ UNCHANGED <<minter, cap, issued>>

-----------------------------------------------------------------------------
(* Allowances.                                                             *)

(* Saves an allowance in both maps.                                        *)
Approved(owner, spender, allowance) ==
    /\ allowances' = [allowances EXCEPT ![<<owner, spender>>] = allowance]
    /\ allowances_spender' = [allowances_spender EXCEPT ![<<spender, owner>>] = allowance]

(* update_fn of an increase, on the entry of either map.                   *)
Increased(allowance, n, expires) ==
    [kept |-> TRUE, amount |-> allowance.amount + n,
     expires |-> IF expires = Kept THEN allowance.expires ELSE expires]

(* Mutant: only the owner's map is reduced.                                *)
DeductOwnerOnly(owner, spender, n) ==
    LET allowance == allowances[<<owner, spender>>]
    IN  /\ allowance.kept
        /\ ~Expired(allowance)
        /\ n <= allowance.amount
        /\ allowances' = [allowances EXCEPT ![<<owner, spender>>] =
                             [allowance EXCEPT !.amount = allowance.amount - n]]
        /\ allowances_spender' = allowances_spender

(* Mutant: an expired allowance can be spent.                              *)
DeductExpired(owner, spender, n) ==
    LET left(a) == [a EXCEPT !.amount = a.amount - n]
    IN  /\ allowances[<<owner, spender>>].kept
        /\ n <= allowances[<<owner, spender>>].amount
        /\ Approved(owner, spender, left(allowances[<<owner, spender>>]))

(* deduct_allowance: the same update of each map, from its own entry.      *)
Deduct(owner, spender, n) ==
    LET mine == allowances[<<owner, spender>>]
        theirs == allowances_spender[<<spender, owner>>]
    IN  /\ \A a \in {mine, theirs} : a.kept /\ ~Expired(a) /\ n <= a.amount
        /\ allowances' = [allowances EXCEPT ![<<owner, spender>>] =
                             [mine EXCEPT !.amount = mine.amount - n]]
        /\ allowances_spender' = [allowances_spender EXCEPT ![<<spender, owner>>] =
                                     [theirs EXCEPT !.amount = theirs.amount - n]]

-----------------------------------------------------------------------------
(* The messages.                                                           *)

(* A token seen as a ledger.                                               *)
AsLedger == INSTANCE Ledger WITH
    Holder <- Users, Opening <- Genesis, Quantity <- Amounts, Total <- MaxUint,
    balance <- balances, supply <- total_supply

NoAllowances == [pair \in Users \X Users |-> NoAllowance]

(* A new token, or one a version before 0.14 has run, which kept the       *)
(* allowances by owner only.                                               *)
Init ==
    /\ balances \in Genesis
    /\ total_supply \in 0 .. MaxUint
    /\ total_supply = AsLedger!Owned
    /\ minter \in Minters
    /\ cap \in IF minter = Nobody THEN {NoCap} ELSE Caps
    /\ WithinCap(total_supply)
    /\ allowances_spender = NoAllowances
    /\ \/ current = TRUE /\ allowances = NoAllowances
       \/ current = FALSE /\ allowances \in OldAllowances
    /\ height = 0
    /\ issued = 0

Transfer(u, to, n) ==
    /\ current
    /\ n > 0
    /\ Moving(u, to, n)
    /\ UNCHANGED <<approvals, current, height>>

(* The hook call that follows changes nothing here.                        *)
Send(u, contract, n) ==
    /\ current
    /\ n > 0
    /\ Moving(u, contract, n)
    /\ UNCHANGED <<approvals, current, height>>

Burn(u, n) ==
    /\ current
    /\ n > 0
    /\ Burning(u, n)
    /\ UNCHANGED <<approvals, current, height>>

(* Mutant: the cap is compared with the amount.                            *)
AmountWithinCap(n) == cap # NoCap => n <= cap

MintWithinCap(n) == WithinCap(total_supply + n)

Mint(u, to, n) ==
    /\ current
    /\ n > 0
    /\ u = minter
    /\ issued + n <= MaxIssued
    /\ Fits(total_supply + n)
    /\ MintWithinCap(n)
    /\ total_supply' = total_supply + n
    /\ balances' = [balances EXCEPT ![to] = balances[to] + n]
    /\ issued' = issued + n
    /\ UNCHANGED <<minter, cap, approvals, current, height>>

(* Mutant: anybody may take over a token without a minter.                 *)
IsMinterOrNone(u) == minter \in {u, Nobody}

IsMinter(u) == minter = u

(* The new minter inherits the cap.                                        *)
UpdateMinter(u, new_minter) ==
    /\ current
    /\ IsMinter(u)
    /\ minter' = new_minter
    /\ cap' = IF new_minter = Nobody THEN NoCap ELSE cap
    /\ UNCHANGED <<balances, total_supply, approvals, current, height, issued>>

IncreaseAllowance(u, spender, n, expires) ==
    /\ current
    /\ spender # u
    /\ Fits(allowances[<<u, spender>>].amount + n)
    /\ Fits(allowances_spender[<<spender, u>>].amount + n)
    /\ allowances' = [allowances EXCEPT ![<<u, spender>>] =
                         Increased(allowances[<<u, spender>>], n, expires)]
    /\ allowances_spender' = [allowances_spender EXCEPT ![<<spender, u>>] =
                         Increased(allowances_spender[<<spender, u>>], n, expires)]
    /\ UNCHANGED <<token, current, height, issued>>

(* The entries go when nothing is left, and with them the expiration.      *)
DecreaseAllowance(u, spender, n, expires) ==
    LET allowance == allowances[<<u, spender>>]
        left == [kept |-> TRUE, amount |-> allowance.amount - n,
                 expires |-> IF expires = Kept THEN allowance.expires ELSE expires]
    IN  /\ current
        /\ spender # u
        /\ allowance.kept
        /\ Approved(u, spender, IF n < allowance.amount THEN left ELSE NoAllowance)
        /\ UNCHANGED <<token, current, height, issued>>

(* TransferFrom, SendFrom and BurnFrom do not refuse a zero amount.        *)
TransferFrom(u, owner, to, n) ==
    /\ current
    /\ Deduct(owner, u, n)
    /\ Moving(owner, to, n)
    /\ UNCHANGED <<current, height>>

SendFrom(u, owner, contract, n) ==
    /\ current
    /\ Deduct(owner, u, n)
    /\ Moving(owner, contract, n)
    /\ UNCHANGED <<current, height>>

BurnFrom(u, owner, n) ==
    /\ current
    /\ Deduct(owner, u, n)
    /\ Burning(owner, n)
    /\ UNCHANGED <<current, height>>

(* Mutant: the spenders' map is left to be filled by later messages.       *)
MirrorLeftEmpty == allowances_spender' = allowances_spender

(* The reverse map built from ALLOWANCES.                                  *)
MirrorBuilt ==
    allowances_spender' = [pair \in Users \X Users |-> allowances[<<pair[2], pair[1]>>]]

(* The migration of an older version, or of this one to itself.            *)
Migrate ==
    /\ IF current THEN UNCHANGED allowances_spender ELSE MirrorBuilt
    /\ current' = TRUE
    /\ UNCHANGED <<token, allowances, height, issued>>

NextBlock ==
    /\ height < MaxHeight
    /\ height' = height + 1
    /\ UNCHANGED <<token, approvals, current, issued>>

HolderStep ==
    \E u \in Senders, n \in Amounts :
        \/ \E to \in Users : Transfer(u, to, n) \/ Send(u, to, n)
        \/ Burn(u, n)

MinterStep ==
    \E u \in Users :
        \/ \E to \in Users, n \in Amounts : Mint(u, to, n)
        \/ \E new_minter \in Minters : UpdateMinter(u, new_minter)

AllowanceStep ==
    \E u, v \in Users, n \in Amounts :
        \/ \E expires \in Expirations : IncreaseAllowance(u, v, n, expires)
        \/ \E expires \in Expirations : DecreaseAllowance(u, v, n, expires)
        \/ \E to \in Users : TransferFrom(u, v, to, n) \/ SendFrom(u, v, to, n)
        \/ BurnFrom(u, v, n)

Next == HolderStep \/ MinterStep \/ AllowanceStep \/ Migrate \/ NextBlock

Spec == Init /\ [][Next]_vars

-----------------------------------------------------------------------------
(* Properties.                                                             *)

(* The types of the state.                                                 *)
TypeOK ==
    /\ balances \in [Users -> Nat]
    /\ total_supply \in Nat
    /\ minter \in Users \cup {Nobody}
    /\ cap \in Nat \cup {NoCap}
    /\ allowances \in [Users \X Users -> Allowance]
    /\ allowances_spender \in [Users \X Users -> Allowance]
    /\ current \in BOOLEAN
    /\ height \in Nat
    /\ issued \in Nat

(* The token implements the ledger: no message moves the tokens of two     *)
(* holders, or a balance without the supply that goes with it.             *)
ImplementsLedger == AsLedger!Spec

(* What the holders own adds up to the supply, so that no balance can      *)
(* overflow (the unchecked-looking additions of contract.rs:262 and        *)
(* allowances.rs:143).                                                     *)
SupplyIsOwned == AsLedger!SupplyIsOwned

(* The two maps of allowances say the same, whatever sequence of           *)
(* increases, decreases, spending and a migration wrote them               *)
(* (allowances.rs:32, 71, 115; contract.rs:611).                           *)
MirrorExact ==
    current => \A u, v \in Users : allowances_spender[<<v, u>>] = allowances[<<u, v>>]

(* "The hard cap on maximum tokens after minting" (msg.rs:85) holds        *)
(* whoever the minter has become.                                          *)
SupplyWithinCap == WithinCap(total_supply)

(* A token whose minter gave the role up stays without one, and its supply *)
(* only shrinks.                                                           *)
MinterGoneForGood ==
    [][minter = Nobody => minter' = Nobody /\ total_supply' <= total_supply]_vars

(* An account that sends no tokens itself loses only what a live allowance *)
(* of its own loses with it.                                               *)
OnlyByAllowance ==
    [][\A u \in Users \ Senders :
          balances'[u] < balances[u] =>
              \E v \in Users :
                  /\ allowances[<<u, v>>].kept /\ ~Expired(allowances[<<u, v>>])
                  /\ allowances[<<u, v>>].amount - allowances'[<<u, v>>].amount
                        = balances[u] - balances'[u]]_vars
=============================================================================
