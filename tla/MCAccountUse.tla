----------------------------- MODULE MCAccountUse -----------------------------
EXTENDS AccountUse, TLC
CONSTANTS t1, t2, a1, a2

MCCharge == Task \X (1..MaxClaims)
SameAccounts == Permutations(Acct)
=============================================================================
