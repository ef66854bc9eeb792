--------------------------- MODULE Cw20BaseProofs ---------------------------
(***************************************************************************)
(* Theorems about Cw20Base for any accounts, amounts, caps and bounds.     *)
(* That the balances add up to the supply rests on the sums of SumProofs.  *)
(***************************************************************************)
EXTENDS Cw20Base, SumProofs

USE DEF token, approvals

-----------------------------------------------------------------------------
(* The inductive invariant: the types, a cap only with a minter, and a     *)
(* supply within the cap and within Uint128.                               *)
IInv ==
    /\ TypeOK
    /\ minter = Nobody => cap = NoCap
    /\ total_supply <= MaxUint
    /\ SupplyWithinCap

(* An allowance that is changed in its amount, raised or removed is still  *)
(* an allowance.                                                           *)
LEMMA AllowanceType ==
    ASSUME NEW a \in Allowance
    PROVE  /\ a.kept \in BOOLEAN
           /\ a.amount \in Nat
           /\ a.expires \in Nat \cup {Never}
           /\ NoAllowance \in Allowance
           /\ \A n \in Nat : n <= a.amount => [a EXCEPT !.amount = a.amount - n] \in Allowance
           /\ \A n \in Nat, expires \in Expirations :
                 /\ Increased(a, n, expires) \in Allowance
                 /\ n < a.amount =>
                       [kept |-> TRUE, amount |-> a.amount - n,
                        expires |-> IF expires = Kept THEN a.expires ELSE expires]
                           \in Allowance
  BY Cw20BaseAssumption DEF Allowance, NoAllowance, Increased

(* A transfer keeps balances what they are, to oneself too.                *)
LEMMA MovedType ==
    ASSUME balances \in [Users -> Nat], NEW from \in Users, NEW to \in Users,
           NEW n \in Nat, n <= balances[from]
    PROVE  /\ Moved(from, to, n) \in [Users -> Nat]
           /\ \A u \in Users : Moved(from, to, n)[u] < balances[u] =>
                 u = from /\ balances[u] - Moved(from, to, n)[u] = n
  BY DEF Moved

LEMMA MovingOK ==
    ASSUME IInv, NEW from \in Users, NEW to \in Users, NEW n \in Nat, Moving(from, to, n)
    PROVE  /\ balances' \in [Users -> Nat]
           /\ \A u \in Users : balances'[u] < balances[u] =>
                 u = from /\ balances[u] - balances'[u] = n
  BY MovedType DEF Moving, IInv, TypeOK

LEMMA BurningOK ==
    ASSUME IInv, NEW from \in Users, NEW n \in Nat, Burning(from, n)
    PROVE  /\ balances' \in [Users -> Nat]
           /\ total_supply' \in Nat /\ total_supply' <= total_supply
           /\ WithinCap(total_supply')
           /\ \A u \in Users : balances'[u] < balances[u] =>
                 u = from /\ balances[u] - balances'[u] = n
  BY DEF Burning, IInv, TypeOK, SupplyWithinCap, WithinCap

LEMMA DeductOK ==
    ASSUME IInv, NEW owner \in Users, NEW spender \in Users, NEW n \in Nat,
           Deduct(owner, spender, n)
    PROVE  /\ allowances' \in [Users \X Users -> Allowance]
           /\ allowances_spender' \in [Users \X Users -> Allowance]
  <1>1. /\ allowances[<<owner, spender>>] \in Allowance
        /\ allowances_spender[<<spender, owner>>] \in Allowance
    BY DEF IInv, TypeOK
  <1>2. /\ [allowances[<<owner, spender>>] EXCEPT
               !.amount = allowances[<<owner, spender>>].amount - n] \in Allowance
        /\ [allowances_spender[<<spender, owner>>] EXCEPT
               !.amount = allowances_spender[<<spender, owner>>].amount - n] \in Allowance
    BY <1>1, AllowanceType DEF Deduct
  <1> QED BY <1>2 DEF Deduct, IInv, TypeOK

-----------------------------------------------------------------------------
(* The inductive invariant holds of a new token, and of one left by an     *)
(* older version.                                                          *)
THEOREM InitOK == Init => IInv
  <1> SUFFICES ASSUME Init PROVE IInv
    OBVIOUS
  <1>1. NoAllowance \in Allowance
    BY DEF NoAllowance, Allowance
  <1>2. NoAllowances \in [Users \X Users -> Allowance]
    BY <1>1 DEF NoAllowances
  <1>3. balances \in [Users -> Nat] /\ total_supply \in Nat /\ height \in Nat /\ issued \in Nat
    BY Cw20BaseAssumption DEF Init
  <1>4. minter \in Users \cup {Nobody} /\ cap \in Nat \cup {NoCap}
    BY Cw20BaseAssumption DEF Init
  <1>5. /\ allowances \in [Users \X Users -> Allowance]
        /\ allowances_spender \in [Users \X Users -> Allowance]
    BY <1>2, OldAllowancesAssumption DEF Init
  <1>6. current \in BOOLEAN
    BY Zenon DEF Init
  <1>7. TypeOK
    BY <1>3, <1>4, <1>5, <1>6 DEF TypeOK
  <1>8. total_supply <= MaxUint
    BY Cw20BaseAssumption DEF Init
  <1> QED BY <1>7, <1>8, Cw20BaseAssumption DEF Init, IInv, SupplyWithinCap

(* Each message keeps the invariant.                                       *)
LEMMA TransferStep ==
    ASSUME IInv, NEW u \in Users, NEW to \in Users, NEW n \in Nat,
           Transfer(u, to, n) \/ Send(u, to, n)
    PROVE  IInv'
  <1>1. Moving(u, to, n) /\ UNCHANGED <<approvals, current, height>>
    BY DEF Transfer, Send
  <1>2. balances' \in [Users -> Nat]
    BY <1>1, MovingOK
  <1> QED BY <1>1, <1>2 DEF Moving, IInv, TypeOK, SupplyWithinCap, WithinCap

LEMMA BurnStep ==
    ASSUME IInv, NEW u \in Users, NEW n \in Nat, Burn(u, n)
    PROVE  IInv'
  <1>1. Burning(u, n) /\ UNCHANGED <<approvals, current, height>>
    BY DEF Burn
  <1>2. /\ balances' \in [Users -> Nat]
        /\ total_supply' \in Nat /\ total_supply' <= total_supply
        /\ WithinCap(total_supply')
    BY <1>1, BurningOK
  <1> QED BY <1>1, <1>2, Cw20BaseAssumption
          DEF Burning, IInv, TypeOK, SupplyWithinCap, WithinCap

LEMMA MintStep ==
    ASSUME IInv, NEW u \in Users, NEW to \in Users, NEW n \in Nat, Mint(u, to, n)
    PROVE  IInv'
  <1>1. balances' \in [Users -> Nat] /\ total_supply' \in Nat /\ issued' \in Nat
    BY DEF Mint, IInv, TypeOK
  <1>2. total_supply' <= MaxUint /\ SupplyWithinCap'
    BY DEF Mint, MintWithinCap, Fits, SupplyWithinCap, WithinCap
  <1> QED BY <1>1, <1>2 DEF Mint, IInv, TypeOK

LEMMA UpdateMinterStep ==
    ASSUME IInv, NEW u \in Users, NEW new_minter \in Minters, UpdateMinter(u, new_minter)
    PROVE  IInv'
  <1>1. minter' \in Users \cup {Nobody} /\ cap' \in Nat \cup {NoCap}
    BY Cw20BaseAssumption DEF UpdateMinter, IInv, TypeOK
  <1>2. SupplyWithinCap' /\ (minter' = Nobody => cap' = NoCap)
    BY DEF UpdateMinter, IInv, SupplyWithinCap, WithinCap
  <1> QED BY <1>1, <1>2 DEF UpdateMinter, IInv, TypeOK

LEMMA IncreaseStep ==
    ASSUME IInv, NEW u \in Users, NEW v \in Users, NEW n \in Nat,
           NEW expires \in Expirations, IncreaseAllowance(u, v, n, expires)
    PROVE  IInv'
  <1>1. /\ Increased(allowances[<<u, v>>], n, expires) \in Allowance
        /\ Increased(allowances_spender[<<v, u>>], n, expires) \in Allowance
    BY AllowanceType DEF IInv, TypeOK
  <1>2. /\ allowances' \in [Users \X Users -> Allowance]
        /\ allowances_spender' \in [Users \X Users -> Allowance]
    BY <1>1 DEF IncreaseAllowance, IInv, TypeOK
  <1> QED BY <1>2 DEF IncreaseAllowance, IInv, TypeOK, SupplyWithinCap, WithinCap

LEMMA DecreaseStep ==
    ASSUME IInv, NEW u \in Users, NEW v \in Users, NEW n \in Nat,
           NEW expires \in Expirations, DecreaseAllowance(u, v, n, expires)
    PROVE  IInv'
  <1> DEFINE a == allowances[<<u, v>>]
             left == [kept |-> TRUE, amount |-> a.amount - n,
                      expires |-> IF expires = Kept THEN a.expires ELSE expires]
             new == IF n < a.amount THEN left ELSE NoAllowance
  <1>1. a \in Allowance
    BY DEF IInv, TypeOK
  <1>2. new \in Allowance
    BY <1>1, AllowanceType
  <1>3. Approved(u, v, new) /\ UNCHANGED <<token, current, height, issued>>
    BY DEF DecreaseAllowance
  <1> HIDE DEF new
  <1>4. /\ allowances' \in [Users \X Users -> Allowance]
        /\ allowances_spender' \in [Users \X Users -> Allowance]
    BY <1>2, <1>3 DEF Approved, IInv, TypeOK
  <1> QED BY <1>3, <1>4 DEF IInv, TypeOK, SupplyWithinCap, WithinCap

LEMMA TransferFromStep ==
    ASSUME IInv, NEW u \in Users, NEW owner \in Users, NEW to \in Users, NEW n \in Nat,
           TransferFrom(u, owner, to, n) \/ SendFrom(u, owner, to, n)
    PROVE  IInv'
  <1>1. Deduct(owner, u, n) /\ Moving(owner, to, n) /\ UNCHANGED <<current, height>>
    BY DEF TransferFrom, SendFrom
  <1>2. /\ allowances' \in [Users \X Users -> Allowance]
        /\ allowances_spender' \in [Users \X Users -> Allowance]
    BY <1>1, DeductOK
  <1>3. balances' \in [Users -> Nat]
    BY <1>1, MovingOK
  <1> QED BY <1>1, <1>2, <1>3 DEF Moving, IInv, TypeOK, SupplyWithinCap, WithinCap

LEMMA BurnFromStep ==
    ASSUME IInv, NEW u \in Users, NEW owner \in Users, NEW n \in Nat, BurnFrom(u, owner, n)
    PROVE  IInv'
  <1>1. Deduct(owner, u, n) /\ Burning(owner, n) /\ UNCHANGED <<current, height>>
    BY DEF BurnFrom
  <1>2. /\ allowances' \in [Users \X Users -> Allowance]
        /\ allowances_spender' \in [Users \X Users -> Allowance]
    BY <1>1, DeductOK
  <1>3. /\ balances' \in [Users -> Nat]
        /\ total_supply' \in Nat /\ total_supply' <= total_supply
        /\ WithinCap(total_supply')
    BY <1>1, BurningOK
  <1> QED BY <1>1, <1>2, <1>3, Cw20BaseAssumption
          DEF Burning, IInv, TypeOK, SupplyWithinCap, WithinCap

LEMMA MigrateStep ==
    ASSUME IInv, Migrate
    PROVE  IInv'
  <1>1. allowances_spender' \in [Users \X Users -> Allowance]
    BY DEF Migrate, MirrorBuilt, IInv, TypeOK
  <1>2. current' \in BOOLEAN
    BY Zenon DEF Migrate
  <1> QED BY <1>1, <1>2 DEF Migrate, IInv, TypeOK, SupplyWithinCap, WithinCap

LEMMA StepOK == IInv /\ [Next]_vars => IInv'
  <1> SUFFICES ASSUME IInv, [Next]_vars PROVE IInv'
    OBVIOUS
  <1>1. CASE HolderStep
    BY <1>1, TransferStep, BurnStep, Cw20BaseAssumption DEF HolderStep
  <1>2. CASE MinterStep
    BY <1>2, MintStep, UpdateMinterStep, Cw20BaseAssumption DEF MinterStep
  <1>3. CASE AllowanceStep
    BY <1>3, IncreaseStep, DecreaseStep, TransferFromStep, BurnFromStep, Cw20BaseAssumption
       DEF AllowanceStep
  <1>4. CASE Migrate
    BY <1>4, MigrateStep
  <1>5. CASE NextBlock
    BY <1>5, Cw20BaseAssumption DEF NextBlock, IInv, TypeOK, SupplyWithinCap, WithinCap
  <1>6. CASE UNCHANGED vars
    BY <1>6 DEF vars, IInv, TypeOK, SupplyWithinCap, WithinCap
  <1> QED BY <1>1, <1>2, <1>3, <1>4, <1>5, <1>6 DEF Next

(* The inductive invariant of the token.                                   *)
THEOREM InductiveInvariant == Spec => []IInv
  BY InitOK, StepOK, PTL DEF Spec

(* No balance, supply or allowance goes below zero.                        *)
THEOREM TypeCorrect == Spec => []TypeOK
  <1>1. IInv => TypeOK
    BY DEF IInv
  <1> QED BY <1>1, InductiveInvariant, PTL

(* The supply stays within the cap, whoever the minter has become.         *)
THEOREM CapHolds == Spec => []SupplyWithinCap
  <1>1. IInv => SupplyWithinCap
    BY DEF IInv
  <1> QED BY <1>1, InductiveInvariant, PTL

-----------------------------------------------------------------------------
(* The maps of allowances.                                                 *)

LEMMA MirrorInit == Init => MirrorExact
  BY DEF Init, MirrorExact, NoAllowances

(* The two updates of an allowance, from equal entries.                    *)
LEMMA DeductMirrors ==
    ASSUME IInv, MirrorExact, current, current',
           NEW owner \in Users, NEW spender \in Users, NEW n \in Nat,
           Deduct(owner, spender, n)
    PROVE  MirrorExact'
  <1>1. allowances[<<owner, spender>>] = allowances_spender[<<spender, owner>>]
    BY DEF MirrorExact
  <1> QED BY <1>1 DEF Deduct, MirrorExact, IInv, TypeOK

LEMMA MirrorStep == IInv /\ MirrorExact /\ [Next]_vars => MirrorExact'
  <1> SUFFICES ASSUME IInv, MirrorExact, [Next]_vars PROVE MirrorExact'
    OBVIOUS
  <1>1. CASE UNCHANGED <<approvals, current>>
    BY <1>1 DEF MirrorExact
  <1>2. ASSUME NEW u \in Users, NEW v \in Users, NEW n \in Nat, NEW expires \in Expirations,
               IncreaseAllowance(u, v, n, expires)
        PROVE  MirrorExact'
    <2>1. allowances[<<u, v>>] = allowances_spender[<<v, u>>]
      BY <1>2 DEF MirrorExact, IncreaseAllowance
    <2> QED BY <2>1, <1>2 DEF IncreaseAllowance, MirrorExact, IInv, TypeOK
  <1>3. ASSUME NEW u \in Users, NEW v \in Users, NEW n \in Nat, NEW expires \in Expirations,
               DecreaseAllowance(u, v, n, expires)
        PROVE  MirrorExact'
    <2>1. PICK a : Approved(u, v, a)
      BY <1>3 DEF DecreaseAllowance
    <2>2. current /\ current' = current
      BY <1>3 DEF DecreaseAllowance
    <2> QED BY <2>1, <2>2 DEF Approved, MirrorExact, IInv, TypeOK
  <1>4. ASSUME NEW u \in Users, NEW v \in Users, NEW to \in Users, NEW n \in Nat,
               TransferFrom(u, v, to, n) \/ SendFrom(u, v, to, n) \/ BurnFrom(u, v, n)
        PROVE  MirrorExact'
    BY <1>4, DeductMirrors DEF TransferFrom, SendFrom, BurnFrom
  <1>5. CASE HolderStep
    BY <1>5, <1>1 DEF HolderStep, Transfer, Send, Burn
  <1>6. CASE MinterStep
    BY <1>6, <1>1 DEF MinterStep, Mint, UpdateMinter
  <1>7. CASE AllowanceStep
    BY <1>7, <1>2, <1>3, <1>4, Cw20BaseAssumption DEF AllowanceStep
  <1>8. CASE Migrate
    BY <1>8 DEF Migrate, MirrorBuilt, MirrorExact, IInv, TypeOK
  <1>9. CASE NextBlock
    BY <1>9, <1>1 DEF NextBlock
  <1> QED BY <1>1, <1>5, <1>6, <1>7, <1>8, <1>9 DEF Next, vars

(* Whatever sequence of increases, decreases, spending and a migration     *)
(* wrote them, the owners' and the spenders' maps agree.                   *)
THEOREM MirrorKept == Spec => []MirrorExact
  BY MirrorInit, MirrorStep, InductiveInvariant, PTL DEF Spec

-----------------------------------------------------------------------------
(* What a step may never do.                                               *)

(* What the messages about allowances do to balances and supply: nothing,  *)
(* a transfer or a burn, and the latter two out of an allowance.           *)
LEMMA AllowanceKinds ==
    ASSUME AllowanceStep
    PROVE  \E s, o \in Users, n \in Amounts :
              \/ UNCHANGED <<balances, total_supply, minter>>
              \/ \E to \in Users : Deduct(o, s, n) /\ Moving(o, to, n)
              \/ Deduct(o, s, n) /\ Burning(o, n)
  <1>1. PICK s \in Users, o \in Users, n \in Amounts :
           \/ \E expires \in Expirations : IncreaseAllowance(s, o, n, expires)
           \/ \E expires \in Expirations : DecreaseAllowance(s, o, n, expires)
           \/ \E to \in Users : TransferFrom(s, o, to, n) \/ SendFrom(s, o, to, n)
           \/ BurnFrom(s, o, n)
    BY DEF AllowanceStep
  <1>2. CASE \E expires \in Expirations :
                IncreaseAllowance(s, o, n, expires) \/ DecreaseAllowance(s, o, n, expires)
    <2>1. UNCHANGED <<balances, total_supply, minter>>
      BY <1>2 DEF IncreaseAllowance, DecreaseAllowance
    <2> QED BY <2>1, <1>1
  <1>3. CASE \E to \in Users : TransferFrom(s, o, to, n) \/ SendFrom(s, o, to, n)
    <2>1. \E to \in Users : Deduct(o, s, n) /\ Moving(o, to, n)
      BY <1>3 DEF TransferFrom, SendFrom
    <2> QED BY <2>1
  <1>4. CASE BurnFrom(s, o, n)
    <2>1. Deduct(o, s, n) /\ Burning(o, n)
      BY <1>4 DEF BurnFrom
    <2> QED BY <2>1
  <1> QED BY <1>1, <1>2, <1>3, <1>4

LEMMA MinterGoneStep ==
    IInv /\ [Next]_vars =>
        (minter = Nobody => minter' = Nobody /\ total_supply' <= total_supply)
  <1> SUFFICES ASSUME IInv, [Next]_vars, minter = Nobody
               PROVE  minter' = Nobody /\ total_supply' <= total_supply
    OBVIOUS
  <1>0. total_supply \in Nat /\ total_supply <= total_supply
    BY DEF IInv, TypeOK
  <1>1. CASE HolderStep
    BY <1>1, <1>0, BurningOK, Cw20BaseAssumption
       DEF HolderStep, Transfer, Send, Burn, Moving, Burning
  <1>2. CASE MinterStep
    BY <1>2, Cw20BaseAssumption DEF MinterStep, Mint, UpdateMinter, IsMinter
  <1>3. CASE AllowanceStep
    <2>1. PICK s \in Users, o \in Users, n \in Amounts :
             \/ UNCHANGED <<balances, total_supply, minter>>
             \/ \E to \in Users : Deduct(o, s, n) /\ Moving(o, to, n)
             \/ Deduct(o, s, n) /\ Burning(o, n)
      BY <1>3, AllowanceKinds
    <2>2. CASE Burning(o, n)
      <3>1. n \in Nat
        BY Cw20BaseAssumption
      <3> QED BY <2>2, <3>1, BurningOK DEF Burning
    <2>3. CASE \E to \in Users : Moving(o, to, n)
      BY <2>3, <1>0 DEF Moving
    <2> QED BY <2>1, <2>2, <2>3, <1>0
  <1>4. CASE Migrate \/ NextBlock \/ UNCHANGED vars
    BY <1>4, <1>0 DEF Migrate, NextBlock, vars
  <1> QED BY <1>1, <1>2, <1>3, <1>4 DEF Next

(* A token whose minter gave the role up never gets one again.             *)
THEOREM MinterGone == Spec => MinterGoneForGood
  BY MinterGoneStep, InductiveInvariant, PTL DEF Spec, MinterGoneForGood, vars

(* Spending through an allowance loses of the balance what the allowance   *)
(* loses.                                                                  *)
LEMMA SpentFrom ==
    ASSUME IInv, NEW u \in Users, NEW spender \in Users, NEW owner \in Users, NEW n \in Nat,
           Deduct(owner, spender, n),
           balances'[u] < balances[u],
           u = owner /\ balances[u] - balances'[u] = n
    PROVE  \E v \in Users :
              /\ allowances[<<u, v>>].kept /\ ~Expired(allowances[<<u, v>>])
              /\ allowances[<<u, v>>].amount - allowances'[<<u, v>>].amount
                    = balances[u] - balances'[u]
  <1>1. allowances[<<owner, spender>>] \in Allowance
    BY DEF IInv, TypeOK
  <1>2. allowances'[<<owner, spender>>]
            = [allowances[<<owner, spender>>] EXCEPT
                  !.amount = allowances[<<owner, spender>>].amount - n]
    BY DEF Deduct, IInv, TypeOK
  <1>3. allowances'[<<owner, spender>>].amount = allowances[<<owner, spender>>].amount - n
    BY <1>1, <1>2 DEF Allowance
  <1>4. allowances[<<owner, spender>>].kept /\ ~Expired(allowances[<<owner, spender>>])
    BY DEF Deduct
  <1>5. allowances[<<owner, spender>>].amount \in Nat
    BY <1>1 DEF Allowance
  <1> QED BY <1>3, <1>4, <1>5

LEMMA OnlyByAllowanceStep ==
    ASSUME IInv, [Next]_vars, NEW u \in Users \ Senders, balances'[u] < balances[u]
    PROVE  \E v \in Users :
              /\ allowances[<<u, v>>].kept /\ ~Expired(allowances[<<u, v>>])
              /\ allowances[<<u, v>>].amount - allowances'[<<u, v>>].amount
                    = balances[u] - balances'[u]
  <1>0. balances[u] \in Nat
    BY DEF IInv, TypeOK
  <1>1. CASE UNCHANGED balances
    BY <1>1, <1>0
  <1>2. CASE HolderStep
    <2>1. PICK s \in Senders, n \in Amounts :
             (\E to \in Users : Transfer(s, to, n) \/ Send(s, to, n)) \/ Burn(s, n)
      BY <1>2 DEF HolderStep
    <2>2. s \in Users /\ n \in Nat
      BY <2>1, Cw20BaseAssumption
    <2>3. (\E to \in Users : Moving(s, to, n)) \/ Burning(s, n)
      BY <2>1 DEF Transfer, Send, Burn
    <2>4. u = s
      BY <2>2, <2>3, MovingOK, BurningOK
    <2> QED BY <2>1, <2>4
  <1>3. CASE MinterStep
    <2>1. CASE \E m \in Users, to \in Users, n \in Amounts : Mint(m, to, n)
      <3>1. PICK to \in Users, n \in Amounts :
               balances' = [balances EXCEPT ![to] = balances[to] + n]
        BY <2>1 DEF Mint
      <3>2. balances \in [Users -> Nat] /\ n \in Nat /\ u \in Users
        BY Cw20BaseAssumption DEF IInv, TypeOK
      <3>3. balances'[u] >= balances[u]
        BY <3>1, <3>2
      <3>4. balances'[u] \in Nat
        BY <3>1, <3>2
      <3> QED BY <3>3, <3>4, <1>0
    <2>2. CASE \E m \in Users, new_minter \in Minters : UpdateMinter(m, new_minter)
      BY <2>2, <1>1 DEF UpdateMinter
    <2> QED BY <1>3, <2>1, <2>2 DEF MinterStep
  <1>4. CASE AllowanceStep
    <2>1. PICK s \in Users, o \in Users, n \in Amounts :
             \/ UNCHANGED <<balances, total_supply, minter>>
             \/ \E to \in Users : Deduct(o, s, n) /\ Moving(o, to, n)
             \/ Deduct(o, s, n) /\ Burning(o, n)
      BY <1>4, AllowanceKinds
    <2>2. n \in Nat
      BY Cw20BaseAssumption
    <2>3. CASE UNCHANGED <<balances, total_supply, minter>>
      BY <2>3, <1>1
    <2>4. CASE \E to \in Users : Deduct(o, s, n) /\ Moving(o, to, n)
      <3>1. Deduct(o, s, n) /\ u = o /\ balances[u] - balances'[u] = n
        BY <2>4, <2>2, MovingOK
      <3> QED BY <3>1, <2>2, SpentFrom
    <2>5. CASE Deduct(o, s, n) /\ Burning(o, n)
      <3>1. u = o /\ balances[u] - balances'[u] = n
        BY <2>5, <2>2, BurningOK
      <3> QED BY <3>1, <2>5, <2>2, SpentFrom
    <2> QED BY <2>1, <2>3, <2>4, <2>5
  <1>5. CASE Migrate \/ NextBlock \/ UNCHANGED vars
    BY <1>5, <1>1 DEF Migrate, NextBlock, vars
  <1> QED BY <1>2, <1>3, <1>4, <1>5 DEF Next

(* An account that sends nothing itself loses only what a live allowance   *)
(* of its own loses.                                                       *)
THEOREM LossNeedsAllowance == Spec => OnlyByAllowance
  <1>1. IInv /\ [Next]_vars =>
          \A u \in Users \ Senders :
             balances'[u] < balances[u] =>
                \E v \in Users :
                   /\ allowances[<<u, v>>].kept /\ ~Expired(allowances[<<u, v>>])
                   /\ allowances[<<u, v>>].amount - allowances'[<<u, v>>].amount
                         = balances[u] - balances'[u]
    BY OnlyByAllowanceStep
  <1> QED BY <1>1, InductiveInvariant, PTL DEF Spec, OnlyByAllowance, vars

-----------------------------------------------------------------------------
(* The balances and the supply.                                            *)

LEMMA OwnedIs ==
    /\ AsLedger!Owned = SumFunctionOnSet(balances, Users)
    /\ AsLedger!Owned' = SumFunctionOnSet(balances', Users)
  BY DEF AsLedger!Owned, AsLedger!SumFunctionOnSet, AsLedger!FoldFunctionOnSet,
     AsLedger!MapThenFoldSet, SumFunctionOnSet, FoldFunctionOnSet, MapThenFoldSet

LEMMA OwnedChange ==
    ASSUME NEW f \in [Users -> Nat], NEW u \in Users, NEW n \in Nat
    PROVE  /\ SumFunctionOnSet(f, Users) \in Nat
           /\ f[u] <= SumFunctionOnSet(f, Users)
           /\ SumFunctionOnSet([f EXCEPT ![u] = n], Users)
                = SumFunctionOnSet(f, Users) + (n - f[u])
  <1> DEFINE g == [f EXCEPT ![u] = n]
  <1>1. IsFiniteSet(Users) /\ g[u] = n
    BY Cw20BaseAssumption
  <1>2. \A v \in Users : f[v] \in Int /\ g[v] \in Int
    OBVIOUS
  <1>3. \A v \in Users \ {u} : g[v] = f[v]
    OBVIOUS
  <1> HIDE DEF g
  <1>4. SumFunctionOnSet(g, Users) = SumFunctionOnSet(f, Users) + (g[u] - f[u])
    BY ONLY <1>1, <1>2, <1>3, SumChange, u \in Users
  <1>5. SumFunctionOnSet(f, Users) \in Nat /\ f[u] <= SumFunctionOnSet(f, Users)
    BY <1>1, SumNat, SumMember
  <1> QED
    BY <1>1, <1>4, <1>5 DEF g

LEMMA OwnedMoving ==
    ASSUME IInv, NEW from \in Users, NEW to \in Users, NEW n \in Nat, Moving(from, to, n)
    PROVE  SumFunctionOnSet(balances', Users) = SumFunctionOnSet(balances, Users)
  <1> DEFINE lowered == [balances EXCEPT ![from] = balances[from] - n]
             Sum(f) == SumFunctionOnSet(f, Users)
  <1>1. /\ balances \in [Users -> Nat] /\ balances[from] - n \in Nat
        /\ balances' = [lowered EXCEPT ![to] = lowered[to] + n]
    BY DEF IInv, TypeOK, Moving, Moved
  <1>2. lowered \in [Users -> Nat]
    BY <1>1
  <1>3. Sum(lowered) = Sum(balances) + ((balances[from] - n) - balances[from])
    BY <1>1, OwnedChange
  <1>4. lowered[to] + n \in Nat /\ lowered[to] \in Nat
    BY <1>2
  <1> HIDE DEF lowered, Sum
  <1>5. Sum(balances') = Sum(lowered) + ((lowered[to] + n) - lowered[to])
    BY <1>1, <1>2, <1>4, OwnedChange DEF Sum
  <1>6. Sum(balances) \in Nat /\ Sum(lowered) \in Nat /\ balances[from] \in Nat
    BY <1>1, <1>2, OwnedChange DEF Sum
  <1>7. Sum(balances') = Sum(balances)
    BY <1>3, <1>4, <1>5, <1>6
  <1> QED
    BY <1>7 DEF Sum

LEMMA OwnedBurning ==
    ASSUME IInv, NEW from \in Users, NEW n \in Nat, Burning(from, n),
           total_supply = SumFunctionOnSet(balances, Users)
    PROVE  total_supply' = SumFunctionOnSet(balances', Users)
  <1>1. /\ balances \in [Users -> Nat] /\ n <= balances[from] /\ total_supply \in Nat
        /\ balances' = [balances EXCEPT ![from] = balances[from] - n]
        /\ total_supply' = total_supply - n
    BY DEF IInv, TypeOK, Burning
  <1>2. balances[from] - n \in Nat /\ balances[from] \in Nat
    BY <1>1
  <1>3. SumFunctionOnSet(balances', Users)
           = SumFunctionOnSet(balances, Users) + ((balances[from] - n) - balances[from])
    BY <1>1, <1>2, OwnedChange
  <1> QED
    BY <1>1, <1>2, <1>3

LEMMA OwnedMint ==
    ASSUME IInv, NEW u \in Users, NEW to \in Users, NEW n \in Nat, Mint(u, to, n),
           total_supply = SumFunctionOnSet(balances, Users)
    PROVE  total_supply' = SumFunctionOnSet(balances', Users)
  <1>1. /\ balances \in [Users -> Nat] /\ total_supply \in Nat
        /\ balances' = [balances EXCEPT ![to] = balances[to] + n]
        /\ total_supply' = total_supply + n
    BY DEF IInv, TypeOK, Mint
  <1>2. balances[to] + n \in Nat /\ balances[to] \in Nat
    BY <1>1
  <1>3. SumFunctionOnSet(balances', Users)
           = SumFunctionOnSet(balances, Users) + ((balances[to] + n) - balances[to])
    BY <1>1, <1>2, OwnedChange
  <1> QED
    BY <1>1, <1>2, <1>3

LEMMA OwnedStep ==
    ASSUME IInv, SupplyIsOwned, [Next]_vars
    PROVE  SupplyIsOwned'
  <1> DEFINE Sum(f) == SumFunctionOnSet(f, Users)
  <1>0. SUFFICES total_supply' = Sum(balances')
    BY OwnedIs DEF SupplyIsOwned, AsLedger!SupplyIsOwned
  <1>1. total_supply = Sum(balances)
    BY OwnedIs DEF SupplyIsOwned, AsLedger!SupplyIsOwned
  <1>2. ASSUME NEW from \in Users, NEW to \in Users, NEW n \in Amounts, Moving(from, to, n)
        PROVE  total_supply' = Sum(balances')
    <2>1. total_supply' = total_supply /\ n \in Nat
      BY <1>2, Cw20BaseAssumption DEF Moving
    <2> QED
      BY <1>1, <1>2, <2>1, OwnedMoving
  <1>3. ASSUME NEW from \in Users, NEW n \in Amounts, Burning(from, n)
        PROVE  total_supply' = Sum(balances')
    BY <1>1, <1>3, OwnedBurning, Cw20BaseAssumption
  <1>4. CASE UNCHANGED <<balances, total_supply>>
    BY <1>1, <1>4
  <1> HIDE DEF Sum
  <1>5. CASE HolderStep
    <2>1. PICK u \in Senders, n \in Amounts :
             (\E to \in Users : Transfer(u, to, n) \/ Send(u, to, n)) \/ Burn(u, n)
      BY <1>5 DEF HolderStep
    <2>2. u \in Users
      BY Cw20BaseAssumption
    <2> QED
      BY <1>2, <1>3, <2>1, <2>2 DEF Transfer, Send, Burn
  <1>6. CASE MinterStep
    <2>1. CASE \E u \in Users, to \in Users, n \in Amounts : Mint(u, to, n)
      BY <1>1, <2>1, OwnedMint, Cw20BaseAssumption DEF Sum
    <2>2. CASE \E u \in Users, new_minter \in Minters : UpdateMinter(u, new_minter)
      BY <1>4, <2>2 DEF UpdateMinter
    <2> QED
      BY <1>6, <2>1, <2>2 DEF MinterStep
  <1>7. CASE AllowanceStep
    BY <1>2, <1>3, <1>4, <1>7, AllowanceKinds
  <1>8. CASE Migrate \/ NextBlock \/ UNCHANGED vars
    BY <1>4, <1>8 DEF Migrate, NextBlock, vars
  <1> QED
    BY <1>5, <1>6, <1>7, <1>8 DEF Next

(* What all accounts together own is the supply, after every transfer,     *)
(* burn and mint, with an allowance or without, and to oneself too.        *)
THEOREM SupplyOwned == Spec => []SupplyIsOwned
  <1>1. Init => SupplyIsOwned
    BY DEF Init, SupplyIsOwned, AsLedger!SupplyIsOwned
  <1> QED
    BY <1>1, OwnedStep, InductiveInvariant, PTL DEF Spec

(* So no balance overflows: the additions to a recipient's balance         *)
(* (contract.rs:262, allowances.rs:143) cannot fail.                       *)
THEOREM BalancesFit ==
    Spec => [](\A u \in Users : balances[u] <= total_supply /\ total_supply <= MaxUint)
  <1>1. ASSUME IInv, SupplyIsOwned
        PROVE  \A u \in Users : balances[u] <= total_supply /\ total_supply <= MaxUint
    <2> TAKE u \in Users
    <2>1. balances \in [Users -> Nat] /\ balances[u] \in Nat /\ total_supply <= MaxUint
      BY <1>1 DEF IInv, TypeOK
    <2>2. total_supply = SumFunctionOnSet(balances, Users)
      BY <1>1, OwnedIs DEF SupplyIsOwned, AsLedger!SupplyIsOwned
    <2> QED
      BY <2>1, <2>2, OwnedChange
  <1> QED
    BY <1>1, SupplyOwned, InductiveInvariant, PTL

-----------------------------------------------------------------------------
(* Refinement.                                                             *)

LEMMA LedgerInit == Init => AsLedger!Init
  BY DEF Init, AsLedger!Init

LEMMA LedgerMove ==
    ASSUME NEW from \in Users, NEW to \in Users, NEW n \in Amounts, Moving(from, to, n)
    PROVE  AsLedger!Next
  <1>1. AsLedger!Move(from, to, n)
    BY DEF Moving, Moved, AsLedger!Move, AsLedger!Shifted
  <1> QED BY <1>1 DEF AsLedger!Next

LEMMA LedgerBurn ==
    ASSUME NEW from \in Users, NEW n \in Amounts, Burning(from, n)
    PROVE  AsLedger!Next
  <1>1. AsLedger!Retire(from, n)
    BY DEF Burning, AsLedger!Retire
  <1> QED BY <1>1 DEF AsLedger!Next

LEMMA LedgerMint ==
    ASSUME NEW u \in Users, NEW to \in Users, NEW n \in Amounts, Mint(u, to, n)
    PROVE  AsLedger!Next
  <1>1. AsLedger!Issue(to, n)
    BY DEF Mint, Fits, AsLedger!Issue
  <1> QED BY <1>1 DEF AsLedger!Next

LEMMA LedgerStep == [Next]_vars => [AsLedger!Next]_(AsLedger!ledger)
  <1> SUFFICES ASSUME [Next]_vars PROVE AsLedger!Next \/ UNCHANGED <<balances, total_supply>>
    BY DEF AsLedger!ledger
  <1>1. CASE HolderStep
    BY <1>1, LedgerMove, LedgerBurn, Cw20BaseAssumption DEF HolderStep, Transfer, Send, Burn
  <1>2. CASE MinterStep
    BY <1>2, LedgerMint DEF MinterStep, UpdateMinter
  <1>3. CASE AllowanceStep
    BY <1>3, AllowanceKinds, LedgerMove, LedgerBurn
  <1>4. CASE Migrate \/ NextBlock \/ UNCHANGED vars
    BY <1>4 DEF Migrate, NextBlock, vars
  <1> QED BY <1>1, <1>2, <1>3, <1>4 DEF Next

(* The token implements the abstract ledger.                               *)
THEOREM Refinement == Spec => ImplementsLedger
  BY LedgerInit, LedgerStep, PTL DEF Spec, ImplementsLedger, AsLedger!Spec
=============================================================================
