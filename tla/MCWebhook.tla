------------------------------ MODULE MCWebhook ------------------------------
(***************************************************************************)
(* m1 and m2 have two texts of one number, as "1" and "01" are, and may    *)
(* become orders; m3 has no timestamp, its type in mixed case and a rate   *)
(* below zero; m4, with the text of m1, lacks the limits; m5 has the       *)
(* string "0" for its maximum; the text of m6 is no number.                *)
(***************************************************************************)
EXTENDS Webhook, TLC

CONSTANTS m1, m2, m3, m4, m5, m6,
          one, zeroOne, three, word

MCParseInt == (one :> 1) @@ (zeroOne :> 1) @@ (three :> 3) @@ (word :> NaN)

MCStamp == (m1 :> one) @@ (m2 :> zeroOne) @@ (m3 :> NoStamp) @@ (m4 :> one)
           @@ (m5 :> three) @@ (m6 :> word)

Sell == [telegram_id |-> TRUE, type |-> "sell", rate |-> 9, amount |-> 2,
         min_limit |-> 1, max_limit |-> 2]
MCBody == (m1 :> Sell)
          @@ (m2 :> [Sell EXCEPT !.type = "buy", !.rate = ZeroText, !.max_limit = 0])
          @@ (m3 :> [Sell EXCEPT !.type = "Buy", !.rate = -1])
          @@ (m4 :> [Sell EXCEPT !.min_limit = Missing, !.max_limit = Missing])
          @@ (m5 :> [Sell EXCEPT !.max_limit = ZeroText])
          @@ (m6 :> Sell)

Alike == Permutations(Replicas) \cup Permutations(Workers)
=============================================================================
