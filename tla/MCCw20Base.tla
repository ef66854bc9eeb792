----------------------------- MODULE MCCw20Base -----------------------------
(* A cw20 token of a few accounts.  The cfg says who spends, who mints and *)
(* what the messages carry.  A token with a marketing record starts        *)
(* without tokens and without a minter: the two have nothing to do with    *)
(* each other but the code they are in.                                    *)
EXTENDS Cw20Marketing, TLC

CONSTANTS
    alice, bob,
    Supplies    \* what each account may start with

Nothing == [u \in Users |-> 0]
GenesisBalances == [Users -> Supplies] \cup {Nothing}

Granted(amount, expires) ==
    (<<alice, bob>> :> [kept |-> TRUE, amount |-> amount, expires |-> expires])

(* What an older version may have left: nothing, an allowance that expires *)
(* and one that does not.                                                  *)
Left ==
    {Granted(1, 1) @@ NoAllowances, Granted(2, Never) @@ NoAllowances, NoAllowances}

(* Logos that verify_logo accepts, and one of each kind that it does not.  *)
Drawn(kind, size) == [kind |-> kind, headed |-> TRUE, size |-> size]
LogosTried ==
    {Drawn("url", 9), Drawn("svg", LOGO_SIZE_CAP), Drawn("svg", LOGO_SIZE_CAP + 1),
     [Drawn("png", 1) EXCEPT !.headed = FALSE]}

Campaign(description, promoter, l) ==
    [balances |-> Nothing, minter |-> Nobody, project |-> FALSE,
     description |-> description, marketing |-> promoter, logo |-> l]

CampaignsRun ==
    {Campaign(TRUE, bob, NoLogo), Campaign(FALSE, Nobody, Drawn("png", 1)),
     Campaign(TRUE, bob, Drawn("url", 9))}
=============================================================================
