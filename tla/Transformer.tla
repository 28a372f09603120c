---------------------------- MODULE Transformer ----------------------------
(***************************************************************************)
(* The language model of the inference drivers, as far as decoding can     *)
(* tell: what one forward pass puts into a slot of the KV cache, and what  *)
(* the next token may depend on.  Every layer's keys and values, and the   *)
(* hidden state the logits come from, are functions of the token, of the   *)
(* position its rotary embedding is taken at, and of the slots the         *)
(* attention sees.  The model keeps exactly these three and no function of *)
(* them, so two passes that read anything different differ.                *)
(***************************************************************************)
EXTENDS Naturals, Sequences

CONSTANT Samples        \* token ids a temperature may pick besides the best one

\* A token: one of the vocabulary by its id, or (id 0) the model's choice
\* after a pass.
Word(id) == [id |-> id, after |-> <<>>]
Choose(entry) == [id |-> 0, after |-> <<entry>>]

\* The content of a slot.
Entry(tok, pos, seen) == [tok |-> tok, pos |-> pos, seen |-> seen]
Blank == Entry(Word(0), 0, <<>>)

\* The slots 0 .. Len(text)-1 after a causal pass over the whole text.
Reads(text) ==
    LET slot[i \in 0..(Len(text) - 1)] ==
            Entry(text[i + 1], i, [j \in 0..(i - 1) |-> slot[j]])
    IN  slot

\* The first n slots of c are as such a pass leaves them: each one was computed
\* from its own token and the slots before it.
Reading(c, text, n) ==
    \A s \in 0..(n - 1) : c[s] = Entry(text[s + 1], s, [j \in 0..(s - 1) |-> c[j]])

\* argmax, or any token with a chance under multinomial.
NextTokens(entry, greedy) ==
    {Choose(entry)} \cup (IF greedy THEN {} ELSE {Word(id) : id \in Samples})
=============================================================================
