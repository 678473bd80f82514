------------------------------ MODULE MCExchange ------------------------------
(* Account 2 takes the fees, account 1 comes in by its first deposit, before it *)
(* in the list.  Asset 1 is configured, asset 2 is a token the guest refuses.    *)
(* Nobody trades.                                                             *)
EXTENDS Exchange

MCScale == 1 :> 1
MCMarkets == <<>>
MCLimits == [accounts |-> 3, orders |-> 0, deposits |-> 2, withdrawals |-> 1, forced |-> 1,
             assets |-> 2, markets |-> 1, u64 |-> 20]
MCAssetOrder == <<1, 2>>
=============================================================================
