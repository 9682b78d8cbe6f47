------------------------------- MODULE MCWebhook -------------------------------
(* Two users, two handlers at once, and two updates: u1 opens the          *)
(* invitation menu, and u2 starts the bot with the code of u1.             *)
EXTENDS Webhook, TLC

CONSTANTS u1, u2, d1, d2

Symmetric == Permutations(Slots)

Messages == [d \in Updates |->
               IF d = d1 THEN [wants |-> "menu", user |-> u1, via |-> NoUser]
                         ELSE [wants |-> "start", user |-> u2, via |-> u1]]
=============================================================================
