------------------------------ MODULE MCWallet ------------------------------
(* One user, a task and a retry of it, a card, a cheap and a dear package.    *)
EXTENDS Wallet, TLC

CONSTANTS basic, top

MCPrice == basic :> 1 @@ top :> 2
MCDays == basic :> 2 @@ top :> 1
MCSlots == basic :> 2 @@ top :> 3
MCBonus == basic :> 0 @@ top :> 1
MCDiscount == basic :> 1 @@ top :> 1
=============================================================================
