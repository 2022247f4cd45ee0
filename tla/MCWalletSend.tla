---------------------------- MODULE MCWalletSend ----------------------------
(* Two addresses with four coins, and payments that one transaction makes, one per address,
   or none. *)
EXTENDS WalletSend

CONSTANTS p, q, alice, bob
MCWalletAddresses == <<p, q>>
Coin(n, address, amount) == [n |-> n, address |-> address, amount |-> amount, born |-> 1]
MCInitialCoins == {Coin(1, p, 3), Coin(2, p, 2), Coin(3, p, 2), Coin(4, q, 4)}
MCRequests == {<<<<alice, 2>>>>, <<<<alice, 4>>, <<bob, 2>>>>}
=============================================================================
