------------------------------- MODULE Verify -------------------------------
(***************************************************************************)
(* kuipy/verify.py: the switch, the tolerance and the statistics of a run  *)
(* that compares every kernel's result with stock PyTorch.  One record v   *)
(* stands for the module's globals.  A pair of results is what the         *)
(* comparison can tell of it:                                              *)
(*   kind "integer"    not floating point                                  *)
(*        "empty"      no element                                          *)
(*        "reshaped"   the shapes differ                                   *)
(*        "nonfinite"  no position is finite in both                       *)
(*        "undefined"  both norms overflow: inf / inf                      *)
(*        "measured"   the relative norm is rel                            *)
(***************************************************************************)
EXTENDS Naturals, Sequences, SequencesExt

DefaultTol == 2

Pair == [kind : {"integer", "empty", "reshaped", "nonfinite", "undefined", "measured"},
         rel : Nat]
Measured(rel) == [kind |-> "measured", rel |-> rel]
Special(kind) == [kind |-> kind, rel |-> 0]

NoStats == [n |-> 0, fail |-> 0, max_rel |-> 0]
Fresh(ops) == [enabled |-> FALSE, tol |-> DefaultTol, stats |-> [o \in ops |-> <<>>]]

SetEnabled(v, on, tol) == [v EXCEPT !.enabled = on, !.tol = tol]
Reset(v) == [v EXCEPT !.stats = [o \in DOMAIN @ |-> <<>>]]

\* One pair folded into an operator's statistics.
Fold(st, pair, tol) ==
    CASE pair.kind \in {"integer", "empty", "nonfinite"} -> st
      [] pair.kind = "reshaped"  -> [st EXCEPT !.fail = @ + 1]
      [] pair.kind = "undefined" -> [st EXCEPT !.n = @ + 1]
      [] OTHER -> [st EXCEPT !.n = @ + 1,
                             !.max_rel = IF pair.rel > @ THEN pair.rel ELSE @,
                             !.fail = IF pair.rel > tol THEN @ + 1 ELSE @]

\* The statistics of an operator exist (a sequence of one) from its first
\* comparison on, whether or not any of its pairs counts.  A call that fell
\* back has no pairs and is not compared.
Compare(seen, pairs, tol) ==
    LET upTo[i \in 0..Len(pairs)] ==
            IF i > 0 THEN Fold(upTo[i - 1], pairs[i], tol)
            ELSE IF seen = <<>> THEN NoStats ELSE seen[1]
    IN  IF pairs = <<>> THEN seen ELSE <<upTo[Len(pairs)]>>

\* The verdict of print_report; TRUE also when nothing was compared.
Passes(v) == \A o \in DOMAIN v.stats :
                v.stats[o] = <<>> \/ v.stats[o][1].fail = 0
=============================================================================
