--------------------------- MODULE Autoregression ---------------------------
(***************************************************************************)
(* What an inference driver promises: the text grows one token at a time,  *)
(* each token chosen from the prompt and the tokens before it alone, until *)
(* there are as many as were asked for (a request for none gets the one    *)
(* the prompt's own pass yields).  Or the driver gives up.                 *)
(***************************************************************************)
EXTENDS Transformer

CONSTANTS Prompts, Lengths

VARIABLES prompt, want, greedy, text, status

vars == <<prompt, want, greedy, text, status>>

Goal == IF want = 0 THEN 1 ELSE want

\* Slot of the last token once the whole text has been read.
LastRead == LET all == prompt \o text IN Reads(all)[Len(all) - 1]

Init == /\ prompt \in Prompts
        /\ want \in Lengths
        /\ greedy \in BOOLEAN
        /\ text = <<>>
        /\ status = "running"

Emit == /\ status = "running"
        /\ Len(text) < Goal
        /\ \E t \in NextTokens(LastRead, greedy) : text' = Append(text, t)
        /\ UNCHANGED <<prompt, want, greedy, status>>

Finish == /\ status = "running"
          /\ Len(text) = Goal
          /\ status' = "returned"
          /\ UNCHANGED <<prompt, want, greedy, text>>

GiveUp == /\ status = "running"
          /\ status' = "failed"
          /\ UNCHANGED <<prompt, want, greedy, text>>

Next == Emit \/ Finish \/ GiveUp

Spec == Init /\ [][Next]_vars
=============================================================================
