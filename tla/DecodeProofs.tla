---------------------------- MODULE DecodeProofs ----------------------------
(***************************************************************************)
(* The inference drivers implement the abstract decoder, for any prompts,  *)
(* numbers of tokens, warm-ups and slack: what a warm-up leaves in the     *)
(* cache is never attended to.  And the report of --verify says what its   *)
(* comparisons found.                                                      *)
(*                                                                         *)
(* Facts about the recursive functions in Reads and Compare are proved by  *)
(* the least counterexample, which exists because the strict subset        *)
(* relation on finite sets is well founded.                                *)
(***************************************************************************)
EXTENDS Decode, FiniteSetTheorems, NaturalsInduction, SequenceTheorems, WellFoundedInduction, TLAPS

\* A set of natural numbers has a least element.
LEMMA LeastNumber ==
  ASSUME NEW T, T \subseteq Nat, T # {}
  PROVE  \E x \in T : \A y \in T : x <= y
  <1>1. PICK x \in T : \A y \in T : ~(<<y, x>> \in OpToRel(<, Nat))
    BY WFMin, NatLessThanWellFounded, Zenon
  <1>2. \A y \in T : ~(y < x)
    BY <1>1, Zenon DEF OpToRel
  <1> QED BY <1>2

-----------------------------------------------------------------------------
(* Recursive reading *)

\* The equation Reads solves.
IsPass(c, text, n) ==
  c = [i \in 0..(n - 1) |-> Entry(text[i + 1], i, [j \in 0..(i - 1) |-> c[j]])]

LEMMA PassAt ==
  ASSUME NEW text, NEW n \in Nat, NEW c, IsPass(c, text, n), NEW i \in 0..(n - 1)
  PROVE  c[i] = Entry(text[i + 1], i, [j \in 0..(i - 1) |-> c[j]])
  BY DEF IsPass

\* It has a solution.
LEMMA PassExists == ASSUME NEW text PROVE \A n \in Nat : \E c : IsPass(c, text, n)
  <1> DEFINE Solved == {n \in Nat : \E c : IsPass(c, text, n)}
             Unsolved == Nat \ Solved
  <1>0. SUFFICES ASSUME Unsolved # {} PROVE FALSE
    BY Zenon
  <1>1. PICK n \in Unsolved : \A m \in Unsolved : n <= m
    <2> Unsolved \subseteq Nat OBVIOUS
    <2> QED BY <1>0, LeastNumber
  <1>2. CASE n = 0
    <2>1. 0..(0 - 1) = {} OBVIOUS
    <2>2. IsPass([i \in 0..(0 - 1) |-> i], text, 0) BY <2>1 DEF IsPass
    <2> QED BY <1>1, <1>2, <2>2
  <1>3. CASE n # 0
    <2>1. n \in Nat /\ n - 1 \in Nat /\ n - 1 \in Solved BY <1>1, <1>3
    <2>2. PICK c : IsPass(c, text, n - 1) BY <2>1
    <2> DEFINE d == [i \in 0..(n - 1) |-> Entry(text[i + 1], i, [j \in 0..(i - 1) |-> c[j]])]
    <2>3. ASSUME NEW i \in 0..(n - 2) PROVE d[i] = c[i]
      <3>1. i \in 0..((n - 1) - 1) /\ i \in 0..(n - 1) BY <2>1
      <3>2. c[i] = Entry(text[i + 1], i, [j \in 0..(i - 1) |-> c[j]]) BY <2>1, <2>2, <3>1, PassAt
      <3> QED BY <3>1, <3>2
    <2>4. ASSUME NEW i \in 0..(n - 1)
          PROVE  [j \in 0..(i - 1) |-> c[j]] = [j \in 0..(i - 1) |-> d[j]]
      <3> HIDE DEF d
      <3>1. \A j \in 0..(i - 1) : j \in 0..(n - 2) BY <2>1
      <3> QED BY <2>3, <3>1
    <2>5. d = [i \in 0..(n - 1) |-> Entry(text[i + 1], i, [j \in 0..(i - 1) |-> d[j]])]
      BY <2>4
    <2> HIDE DEF d
    <2>6. IsPass(d, text, n) BY <2>5 DEF IsPass
    <2> QED BY <1>1, <2>6
  <1> QED BY <1>1, <1>2, <1>3

LEMMA ReadsUnfold ==
  ASSUME NEW text, Len(text) \in Nat
  PROVE  Reading(Reads(text), text, Len(text))
  <1>1. Reads(text) = CHOOSE c : IsPass(c, text, Len(text)) BY DEF Reads, IsPass
  <1>2. \E c : IsPass(c, text, Len(text)) BY PassExists
  <1>3. IsPass(Reads(text), text, Len(text)) BY <1>1, <1>2
  <1> QED BY <1>3, PassAt DEF Reading

\* What a pass leaves is determined by the text it reads.
LEMMA ReadingUnique ==
  ASSUME NEW n \in Nat, NEW c, NEW d, NEW s, NEW t,
         Reading(c, s, n), Reading(d, t, n), \A i \in 1..n : s[i] = t[i]
  PROVE  \A i \in 0..(n - 1) : c[i] = d[i]
  <1> DEFINE Differ == {i \in 0..(n - 1) : c[i] # d[i]}
  <1> SUFFICES ASSUME Differ # {} PROVE FALSE
    OBVIOUS
  <1>1. PICK i \in Differ : \A m \in Differ : i <= m
    <2> Differ \subseteq Nat OBVIOUS
    <2> QED BY LeastNumber
  <1>2. \A j \in 0..(i - 1) : c[j] = d[j] BY <1>1
  <1>3. [j \in 0..(i - 1) |-> c[j]] = [j \in 0..(i - 1) |-> d[j]] BY <1>2
  <1>4. s[i + 1] = t[i + 1] BY <1>1
  <1> QED BY <1>1, <1>3, <1>4 DEF Reading

-----------------------------------------------------------------------------
(* Sequences of no matter what *)

IsSeq(s) == s \in Seq(Range(s))

LEMMA SeqIs ==
  ASSUME NEW S, NEW s \in Seq(S)
  PROVE  IsSeq(s) /\ Len(s) \in Nat /\ DOMAIN s = 1..Len(s)
  <1>1. Len(s) \in Nat /\ s \in [1..Len(s) -> S] /\ DOMAIN s = 1..Len(s) BY LenProperties
  <1>2. s \in [1..Len(s) -> Range(s)] BY <1>1 DEF Range
  <1>3. s \in Seq(Range(s)) BY <1>1, <1>2, SeqDef
  <1> QED BY <1>1, <1>3 DEF IsSeq

LEMMA LenIs ==
  ASSUME NEW s, IsSeq(s)
  PROVE  Len(s) \in Nat /\ DOMAIN s = 1..Len(s)
  BY SeqIs DEF IsSeq

LEMMA SameSeq ==
  ASSUME NEW s, NEW t, IsSeq(s), IsSeq(t), Len(s) = Len(t), \A i \in 1..Len(s) : s[i] = t[i]
  PROVE  s = t
  <1> DEFINE S == Range(s) \cup Range(t)
  <1>1. s \in Seq(S) /\ t \in Seq(S) BY SeqMonotonic DEF IsSeq
  <1> HIDE DEF S
  <1> QED BY <1>1, SeqEqual

LEMMA ConcatIs ==
  ASSUME NEW s, NEW t, IsSeq(s), IsSeq(t)
  PROVE  /\ IsSeq(s \o t)
         /\ Len(s \o t) = Len(s) + Len(t)
         /\ \A i \in 1..(Len(s) + Len(t)) :
              (s \o t)[i] = IF i <= Len(s) THEN s[i] ELSE t[i - Len(s)]
  <1> DEFINE S == Range(s) \cup Range(t)
  <1>1. s \in Seq(S) /\ t \in Seq(S) BY SeqMonotonic DEF IsSeq
  <1> HIDE DEF S
  <1> QED BY <1>1, ConcatProperties, SeqIs

LEMMA AppendIs ==
  ASSUME NEW s, NEW e, IsSeq(s)
  PROVE  /\ IsSeq(Append(s, e))
         /\ Len(Append(s, e)) = Len(s) + 1
         /\ \A i \in 1..Len(s) : Append(s, e)[i] = s[i]
         /\ Append(s, e)[Len(s) + 1] = e
  <1> DEFINE S == Range(s) \cup {e}
  <1>1. s \in Seq(S) /\ e \in S BY SeqMonotonic DEF IsSeq
  <1> HIDE DEF S
  <1>2. /\ Append(s, e) \in Seq(S)
        /\ Len(Append(s, e)) = Len(s) + 1
        /\ \A i \in 1..Len(s) : Append(s, e)[i] = s[i]
        /\ Append(s, e)[Len(s) + 1] = e
    BY <1>1, AppendProperties
  <1>3. IsSeq(Append(s, e)) BY <1>2, SeqIs
  <1> QED BY <1>2, <1>3

LEMMA PrefixIs ==
  ASSUME NEW s, NEW k \in Nat, 1..k \subseteq DOMAIN s
  PROVE  /\ IsSeq(SubSeq(s, 1, k))
         /\ Len(SubSeq(s, 1, k)) = k
         /\ \A i \in 1..k : SubSeq(s, 1, k)[i] = s[i]
  <1> DEFINE S == Range(s)
  <1>1. \A i \in 1..k : s[i] \in S BY DEF Range
  <1> HIDE DEF S
  <1>2. /\ SubSeq(s, 1, k) \in Seq(S)
        /\ Len(SubSeq(s, 1, k)) = IF 1 <= k THEN k - 1 + 1 ELSE 0
        /\ \A i \in 1..(k - 1 + 1) : SubSeq(s, 1, k)[i] = s[1 + i - 1]
    BY <1>1, SubSeqProperties
  <1>3. IsSeq(SubSeq(s, 1, k)) BY <1>2, SeqIs
  <1> QED BY <1>2, <1>3

LEMMA OneIs == ASSUME NEW x PROVE IsSeq(<<x>>) /\ Len(<<x>>) = 1 /\ <<x>>[1] = x
  <1>1. <<x>> \in Seq({x}) OBVIOUS
  <1> QED BY <1>1, SeqIs

LEMMA EmptyIs == IsSeq(<<>>) /\ Len(<<>>) = 0
  BY EmptySeq, SeqIs

\* The text of a driver that answered with o, a list or the start of a buffer.
LEMMA ListText ==
  ASSUME NEW f, NEW o, IsSeq(o)
  PROVE  /\ IsSeq(<<f>> \o o)
         /\ Len(<<f>> \o o) = Len(o) + 1
         /\ (<<f>> \o o)[1] = f
         /\ \A i \in 1..Len(o) : (<<f>> \o o)[i + 1] = o[i]
  <1>1. IsSeq(<<f>>) /\ Len(<<f>>) = 1 /\ <<f>>[1] = f BY OneIs
  <1>2. Len(o) \in Nat BY LenIs
  <1>3. /\ IsSeq(<<f>> \o o)
        /\ Len(<<f>> \o o) = 1 + Len(o)
        /\ \A i \in 1..(1 + Len(o)) : (<<f>> \o o)[i] = IF i <= 1 THEN <<f>>[i] ELSE o[i - 1]
    BY <1>1, ConcatIs
  <1>4. (<<f>> \o o)[1] = f BY <1>1, <1>2, <1>3
  <1>5. ASSUME NEW i \in 1..Len(o) PROVE (<<f>> \o o)[i + 1] = o[i]
    <2>1. i + 1 \in 1..(1 + Len(o)) /\ ~(i + 1 <= 1) /\ (i + 1) - 1 = i BY <1>2
    <2> QED BY <1>3, <2>1
  <1> QED BY <1>2, <1>3, <1>4, <1>5

LEMMA BufferText ==
  ASSUME NEW f, NEW o, NEW k \in Nat, 1..k \subseteq DOMAIN o
  PROVE  /\ IsSeq(<<f>> \o SubSeq(o, 1, k))
         /\ Len(<<f>> \o SubSeq(o, 1, k)) = k + 1
         /\ (<<f>> \o SubSeq(o, 1, k))[1] = f
         /\ \A i \in 1..k : (<<f>> \o SubSeq(o, 1, k))[i + 1] = o[i]
  <1>1. /\ IsSeq(SubSeq(o, 1, k)) /\ Len(SubSeq(o, 1, k)) = k
        /\ \A i \in 1..k : SubSeq(o, 1, k)[i] = o[i]
    BY PrefixIs
  <1> QED BY <1>1, ListText

-----------------------------------------------------------------------------
(* Reading, one token further *)

LEMMA ReadingKept ==
  ASSUME NEW n \in Nat, NEW c, NEW d, NEW s, NEW t, Reading(c, s, n),
         \A i \in 0..(n - 1) : d[i] = c[i], \A i \in 1..n : t[i] = s[i]
  PROVE  Reading(d, t, n)
  <1> SUFFICES ASSUME NEW i \in 0..(n - 1)
               PROVE  d[i] = Entry(t[i + 1], i, [j \in 0..(i - 1) |-> d[j]])
    BY DEF Reading
  <1>1. \A j \in 0..(i - 1) : d[j] = c[j] OBVIOUS
  <1>2. [j \in 0..(i - 1) |-> d[j]] = [j \in 0..(i - 1) |-> c[j]] BY <1>1
  <1>3. c[i] = Entry(s[i + 1], i, [j \in 0..(i - 1) |-> c[j]]) BY DEF Reading
  <1> QED BY <1>2, <1>3

LEMMA ReadingGrows ==
  ASSUME NEW n \in Nat, NEW c, NEW d, NEW s, Reading(c, s, n),
         \A i \in 0..(n - 1) : d[i] = c[i],
         d[n] = Entry(s[n + 1], n, [j \in 0..(n - 1) |-> c[j]])
  PROVE  Reading(d, s, n + 1)
  <1>1. Reading(d, s, n) BY ReadingKept
  <1>2. [j \in 0..(n - 1) |-> c[j]] = [j \in 0..(n - 1) |-> d[j]] OBVIOUS
  <1>3. \A i \in 0..((n + 1) - 1) : i \in 0..(n - 1) \/ i = n OBVIOUS
  <1> QED BY <1>1, <1>2, <1>3 DEF Reading

LEMMA PutIs ==
  ASSUME NEW n \in Nat, NEW c, n \in DOMAIN c, NEW e
  PROVE  /\ DOMAIN [c EXCEPT ![n] = e] = DOMAIN c
         /\ [c EXCEPT ![n] = e][n] = e
         /\ \A i \in DOMAIN c : i # n => [c EXCEPT ![n] = e][i] = c[i]
  OBVIOUS

-----------------------------------------------------------------------------
(* The invariant *)

LEMMA JobFacts ==
  ASSUME job \in Jobs
  PROVE  /\ job.prompt \in Prompts /\ IsSeq(job.prompt) /\ Plen \in Nat /\ Plen > 0
         /\ job.n \in Lengths /\ job.n \in Nat /\ job.warmup \in Nat /\ job.greedy \in BOOLEAN
         /\ Rounds \in Nat /\ Rounds <= job.n /\ Goal = Rounds + 1
         /\ Total \in Nat /\ Total >= Plen + job.n
         /\ job.driver \in Drivers
  <1>1. CommandLine(job) BY DecodeAssumption
  <1>2. /\ job.prompt \in Prompts /\ job.n \in Lengths /\ job.warmup \in Nat
        /\ job.greedy \in BOOLEAN /\ job.driver \in Drivers
    BY <1>1 DEF CommandLine
  <1>3. IsSeq(job.prompt) /\ job.prompt # <<>> BY <1>2, DecodeAssumption DEF IsSeq
  <1>4. Plen \in Nat /\ Plen > 0
    BY <1>3, EmptySeq, LenIs DEF Plen, IsSeq
  <1>5. job.n \in Nat BY <1>2, DecodeAssumption
  <1> QED BY <1>2, <1>3, <1>4, <1>5, DecodeAssumption DEF Rounds, Goal, Total

\* Where the next key goes while decoding, and the text so far.
At == Plen + (Rounds - left)
All == job.prompt \o Text

PromptRead == phase \in {"warm", "rewind"} => Reading(cache, job.prompt, Plen)

WarmInv ==
  phase = "warm" =>
    IF OnHost THEN left <= job.warmup /\ slot = Plen + (job.warmup - left)
              ELSE pos = Plen + step /\ step + left = job.warmup

DecodeInv ==
  phase = "decode" =>
    /\ left <= Rounds
    /\ Reading(cache, All, At)
    /\ IF OnHost THEN slot = At
                 ELSE pos = At /\ step = Rounds - left /\ tok_in = All[At + 1]

\* The list of "manual" holds the rounds run so far.
ListInv ==
  OnHost => /\ phase \in {"warm", "rewind"} => out = <<>>
            /\ phase = "decode" => IsSeq(out) /\ Len(out) = Rounds - left

IInv == TypeOK /\ PromptRead /\ WarmInv /\ DecodeInv /\ ListInv /\ OnlyLongWarmupFails

LEMMA InvInit == Init => IInv
  BY DEF Init, IInv, TypeOK, PromptRead, WarmInv, DecodeInv, ListInv, OnlyLongWarmupFails

-----------------------------------------------------------------------------
(* One round of decoding *)

LEMMA TextIs ==
  ASSUME TypeOK, DecodeInv, ListInv, phase = "decode"
  PROVE  /\ IsSeq(Text) /\ Len(Text) = (Rounds - left) + 1 /\ Rounds - left \in Nat
         /\ Text[1] = first /\ \A i \in 1..(Rounds - left) : Text[i + 1] = out[i]
  <1>1. Rounds - left \in Nat /\ Rounds - left <= job.n /\ Goal - 1 - left = Rounds - left
    BY JobFacts DEF TypeOK, DecodeInv
  <1>2. CASE OnHost
    <2>1. Text = <<first>> \o out BY <1>2 DEF Text
    <2> QED BY <1>1, <1>2, <2>1, ListText DEF ListInv
  <1>3. CASE ~OnHost
    <2>1. Text = <<first>> \o SubSeq(out, 1, Rounds - left) BY <1>1, <1>3 DEF Text
    <2>2. 1..(Rounds - left) \subseteq DOMAIN out
      BY <1>1, <1>3, JobFacts DEF TypeOK
    <2> DEFINE k == Rounds - left
    <2>3. k \in Nat BY <1>1
    <2> HIDE DEF k
    <2>4. /\ IsSeq(<<first>> \o SubSeq(out, 1, k))
          /\ Len(<<first>> \o SubSeq(out, 1, k)) = k + 1
          /\ (<<first>> \o SubSeq(out, 1, k))[1] = first
          /\ \A i \in 1..k : (<<first>> \o SubSeq(out, 1, k))[i + 1] = out[i]
      BY <2>2, <2>3, BufferText DEF k
    <2> QED BY <1>1, <2>1, <2>4 DEF k
  <1> QED BY <1>2, <1>3

LEMMA AllIs ==
  ASSUME TypeOK, DecodeInv, ListInv, phase = "decode"
  PROVE  /\ IsSeq(All) /\ Len(All) = At + 1 /\ At \in Nat
         /\ \A i \in 1..Plen : All[i] = job.prompt[i]
         /\ \A i \in 1..((Rounds - left) + 1) : All[Plen + i] = Text[i]
  <1>1. IsSeq(job.prompt) /\ Plen \in Nat /\ Rounds \in Nat BY JobFacts DEF TypeOK
  <1>2. IsSeq(Text) /\ Len(Text) = (Rounds - left) + 1 /\ Rounds - left \in Nat BY TextIs
  <1>3. /\ IsSeq(All) /\ Len(All) = Plen + Len(Text)
        /\ \A i \in 1..(Plen + Len(Text)) :
             All[i] = IF i <= Plen THEN job.prompt[i] ELSE Text[i - Plen]
    BY <1>1, <1>2, ConcatIs DEF All, Plen
  <1>4. \A i \in 1..((Rounds - left) + 1) :
          Plen + i \in 1..(Plen + Len(Text)) /\ ~(Plen + i <= Plen) /\ (Plen + i) - Plen = i
    BY <1>1, <1>2
  <1>5. \A i \in 1..Plen : i \in 1..(Plen + Len(Text)) BY <1>1, <1>2
  <1> QED BY <1>1, <1>2, <1>3, <1>4, <1>5 DEF At

\* The driver puts the next entry behind the text and chooses from it.
Advances(nxt) ==
  /\ UNCHANGED <<job, phase, first>>
  /\ left' = left - 1
  /\ DOMAIN cache' = DOMAIN cache
  /\ \A i \in 0..(At - 1) : cache'[i] = cache[i]
  /\ cache'[At] = Entry(All[At + 1], At, [j \in 0..(At - 1) |-> cache[j]])
  /\ nxt \in NextTokens(cache'[At], job.greedy)
  /\ IF OnHost THEN out' = Append(out, nxt) /\ slot' = slot + 1 /\ step' = step /\ pos' = At
     ELSE /\ out' = [out EXCEPT ![step + 1] = nxt] /\ tok_in' = nxt
          /\ pos' = pos + 1 /\ step' = step + 1 /\ slot' = slot

LEMMA PassIs ==
  ASSUME NEW tok, NEW p \in Nat
  PROVE  Pass(tok, p, p) = Entry(tok, p, [j \in 0..(p - 1) |-> cache[j]])
  <1>1. Visible(p, p) = 0..(p - 1) BY DEF Visible
  <1> QED BY <1>1 DEF Pass

LEMMA DecodeAdvances ==
  ASSUME IInv, Decode
  PROVE  \E nxt : Advances(nxt)
  <1> USE DEF IInv
  <1>0. phase = "decode" /\ left > 0 /\ left' = left - 1 /\ UNCHANGED <<job, phase>>
    BY DEF Decode
  <1>1. /\ Plen \in Nat /\ Rounds \in Nat /\ left \in Nat /\ left <= Rounds /\ Total \in Nat
        /\ Rounds <= job.n /\ Total >= Plen + job.n /\ job.n \in Nat /\ job.greedy \in BOOLEAN
    BY <1>0, JobFacts DEF TypeOK, DecodeInv
  <1>2. At \in Nat /\ At < Total /\ DOMAIN cache = 0..(Total - 1)
    BY <1>0, <1>1 DEF At, TypeOK
  <1>3. CASE OnHost
    <2> DEFINE cur == IF out = <<>> THEN first ELSE out[Len(out)]
    <2>1. Replay /\ slot = At BY <1>0, <1>3 DEF Decode, DecodeInv
    <2>2. cur = All[At + 1]
      <3>1. IsSeq(out) /\ Len(out) = Rounds - left BY <1>0, <1>3 DEF ListInv
      <3>2. At + 1 = Plen + ((Rounds - left) + 1) /\ Rounds - left \in Nat
            /\ (Rounds - left) + 1 \in 1..((Rounds - left) + 1)
        BY <1>1 DEF At
      <3>3. All[At + 1] = Text[(Rounds - left) + 1] BY <1>0, <3>2, AllIs
      <3>4. CASE out = <<>>
        <4>1. Rounds - left = 0 BY <3>1, <3>4, EmptyIs
        <4> QED BY <1>0, <3>3, <3>4, <4>1, TextIs
      <3>5. CASE out # <<>>
        <4>1. Rounds - left # 0 BY <3>1, <3>5, EmptyIs, SameSeq
        <4>2. Len(out) \in 1..(Rounds - left) BY <3>1, <3>2, <4>1
        <4> QED BY <1>0, <3>1, <3>3, <3>5, <4>2, TextIs
      <3> QED BY <3>4, <3>5
    <2>3. StepForward(cur, At) /\ out' = Append(out, Choose(cache'[slot]))
          /\ UNCHANGED <<first, step, V, diverged>>
      BY <2>1 DEF Replay, At
    <2> HIDE DEF cur
    <2>4. cache' = [cache EXCEPT ![At] = Pass(cur, At, At)] /\ slot' = slot + 1 /\ pos' = At
      BY <2>1, <2>3 DEF StepForward
    <2>5. Pass(cur, At, At) = Entry(All[At + 1], At, [j \in 0..(At - 1) |-> cache[j]])
      BY <1>2, <2>2, PassIs
    <2>6. Choose(cache'[At]) \in NextTokens(cache'[At], job.greedy) BY DEF NextTokens
    <2>7. /\ DOMAIN cache' = DOMAIN cache
          /\ \A i \in 0..(At - 1) : cache'[i] = cache[i]
          /\ cache'[At] = Entry(All[At + 1], At, [j \in 0..(At - 1) |-> cache[j]])
      <3>1. At \in DOMAIN cache /\ \A i \in 0..(At - 1) : i \in DOMAIN cache /\ i # At
        BY <1>1, <1>2
      <3> QED BY <1>2, <2>4, <2>5, <3>1, PutIs
    <2>8. Advances(Choose(cache'[At]))
      BY <1>0, <1>3, <2>1, <2>3, <2>4, <2>6, <2>7 DEF Advances
    <2> QED BY <2>8
  <1>4. CASE ~OnHost
    <2>1. DecodeStep /\ pos = At /\ step = Rounds - left /\ tok_in = All[At + 1]
      BY <1>0, <1>4 DEF Decode, DecodeInv
    <2>2. PICK nxt \in NextTokens(Pass(tok_in, pos, pos), job.greedy) :
            out' = [out EXCEPT ![step + 1] = nxt] /\ tok_in' = nxt
      BY <2>1 DEF DecodeStep
    <2>3. /\ cache' = [cache EXCEPT ![At] = Pass(tok_in, At, At)]
          /\ pos' = pos + 1 /\ step' = step + 1 /\ UNCHANGED <<first, slot>>
      BY <2>1 DEF DecodeStep
    <2>4. Pass(tok_in, At, At) = Entry(All[At + 1], At, [j \in 0..(At - 1) |-> cache[j]])
      BY <1>2, <2>1, PassIs
    <2>5. /\ DOMAIN cache' = DOMAIN cache
          /\ \A i \in 0..(At - 1) : cache'[i] = cache[i]
          /\ cache'[At] = Entry(All[At + 1], At, [j \in 0..(At - 1) |-> cache[j]])
      <3>1. At \in DOMAIN cache /\ \A i \in 0..(At - 1) : i \in DOMAIN cache /\ i # At
        BY <1>1, <1>2
      <3> QED BY <1>2, <2>3, <2>4, <3>1, PutIs
    <2>6. nxt \in NextTokens(cache'[At], job.greedy) BY <2>1, <2>2, <2>4, <2>5
    <2>7. Advances(nxt)
      BY <1>0, <1>4, <2>2, <2>3, <2>5, <2>6 DEF Advances
    <2> QED BY <2>7
  <1> QED BY <1>3, <1>4

LEMMA TextGrows ==
  ASSUME IInv, phase = "decode", left > 0, NEW nxt, Advances(nxt)
  PROVE  Text' = Append(Text, nxt)
  <1> USE DEF IInv
  <1> DEFINE k == Rounds - left
  <1>1. /\ k \in Nat /\ k + 1 <= job.n /\ job.n \in Nat /\ left \in Nat
        /\ Goal - 1 - (left - 1) = k + 1
    <2>1. Rounds \in Nat /\ Rounds <= job.n /\ job.n \in Nat /\ Goal = Rounds + 1
      BY JobFacts DEF TypeOK
    <2>2. left \in Nat /\ left <= Rounds BY DEF TypeOK, DecodeInv
    <2> QED BY <2>1, <2>2
  <1>2. IsSeq(Text) /\ Len(Text) = k + 1 /\ Text[1] = first /\ \A i \in 1..k : Text[i + 1] = out[i]
    BY TextIs
  <1>3. /\ IsSeq(Append(Text, nxt)) /\ Len(Append(Text, nxt)) = k + 2
        /\ \A i \in 1..(k + 1) : Append(Text, nxt)[i] = Text[i]
        /\ Append(Text, nxt)[k + 2] = nxt
    <2>1. (k + 1) + 1 = k + 2 BY <1>1
    <2> HIDE DEF k
    <2> QED BY <1>2, <2>1, AppendIs
  <1>4. UNCHANGED <<job, first>> /\ phase' = "decode" /\ left' = left - 1 BY DEF Advances
  <1>5. /\ IsSeq(Text') /\ Len(Text') = k + 2 /\ Text'[1] = first
        /\ \A i \in 1..k : Text'[i + 1] = out[i]
        /\ Text'[k + 2] = nxt
    <2>1. CASE OnHost
      <3>1. out' = Append(out, nxt) /\ IsSeq(out) /\ Len(out) = k BY <2>1 DEF Advances, ListInv
      <3>2. Text' = <<first>> \o Append(out, nxt) BY <1>4, <2>1, <3>1 DEF Text, OnHost
      <3> HIDE DEF k
      <3>3. /\ IsSeq(Append(out, nxt)) /\ Len(Append(out, nxt)) = k + 1
            /\ \A i \in 1..k : Append(out, nxt)[i] = out[i]
            /\ Append(out, nxt)[k + 1] = nxt
        BY <3>1, AppendIs
      <3>4. /\ IsSeq(Text') /\ Len(Text') = (k + 1) + 1 /\ Text'[1] = first
            /\ \A i \in 1..(k + 1) : Text'[i + 1] = Append(out, nxt)[i]
        BY <3>2, <3>3, ListText
      <3> QED BY <1>1, <3>3, <3>4
    <2>2. CASE ~OnHost
      <3>1. step = k /\ DOMAIN out = 1..job.n BY <2>2 DEF DecodeInv, TypeOK
      <3>2. out' = [out EXCEPT ![k + 1] = nxt] BY <2>2, <3>1 DEF Advances
      <3>3. Text' = <<first>> \o SubSeq(out', 1, k + 1)
        <4>1. Goal' = Goal /\ ~OnHost' BY <1>4, <2>2 DEF Goal, OnHost
        <4>2. Text' = <<first>> \o SubSeq(out', 1, Goal - 1 - (left - 1))
          BY <1>4, <4>1 DEF Text
        <4> QED BY <1>1, <4>2
      <3> HIDE DEF k
      <3>4. 1..(k + 1) \subseteq DOMAIN out' BY <1>1, <3>1, <3>2
      <3>5. /\ IsSeq(Text') /\ Len(Text') = (k + 1) + 1 /\ Text'[1] = first
            /\ \A i \in 1..(k + 1) : Text'[i + 1] = out'[i]
        <4> DEFINE o == out'
        <4>1. 1..(k + 1) \subseteq DOMAIN o /\ k + 1 \in Nat BY <1>1, <3>4
        <4>2. Text' = <<first>> \o SubSeq(o, 1, k + 1) BY <3>3
        <4> HIDE DEF o
        <4>3. /\ IsSeq(Text') /\ Len(Text') = (k + 1) + 1 /\ Text'[1] = first
              /\ \A i \in 1..(k + 1) : Text'[i + 1] = o[i]
          BY <4>1, <4>2, BufferText
        <4> QED BY <4>3 DEF o
      <3>6. (\A i \in 1..k : out'[i] = out[i]) /\ out'[k + 1] = nxt BY <1>1, <3>1, <3>2
      <3> QED BY <1>1, <3>5, <3>6
    <2> QED BY <2>1, <2>2
  <1> HIDE DEF k
  <1>6. \A i \in 1..(k + 2) : Text'[i] = Append(Text, nxt)[i]
    <2>1. \A i \in 1..(k + 2) : i = 1 \/ i = k + 2 \/ (i - 1 \in 1..k /\ i = (i - 1) + 1) BY <1>1
    <2>2. 1 \in 1..(k + 1) /\ \A i \in 1..k : i + 1 \in 1..(k + 1) BY <1>1
    <2>3. Append(Text, nxt)[1] = first /\ \A i \in 1..k : Append(Text, nxt)[i + 1] = out[i]
      BY <1>2, <1>3, <2>2
    <2>4. ASSUME NEW i \in 1..(k + 2) PROVE Text'[i] = Append(Text, nxt)[i]
      <3>1. CASE i = 1 BY <1>5, <2>3, <3>1
      <3>2. CASE i = k + 2 BY <1>3, <1>5, <3>2
      <3>3. CASE i - 1 \in 1..k /\ i = (i - 1) + 1 BY <1>5, <2>3, <3>3
      <3> QED BY <2>1, <3>1, <3>2, <3>3
    <2> QED BY <2>4
  <1> QED BY <1>3, <1>5, <1>6, SameSeq

\* The chosen token is one the abstract decoder may choose.
LEMMA ChoiceIsReading ==
  ASSUME IInv, phase = "decode", left > 0, NEW nxt, Advances(nxt)
  PROVE  nxt \in NextTokens(Reads(All)[Len(All) - 1], job.greedy) /\ Reading(cache', All, At + 1)
  <1> USE DEF IInv
  <1>1. Len(All) = At + 1 /\ At \in Nat BY AllIs
  <1>2. Reading(cache', All, At + 1)
    <2>1. /\ Reading(cache, All, At) /\ \A i \in 0..(At - 1) : cache'[i] = cache[i]
          /\ cache'[At] = Entry(All[At + 1], At, [j \in 0..(At - 1) |-> cache[j]])
      BY DEF DecodeInv, Advances
    <2> QED BY <1>1, <2>1, ReadingGrows
  <1>3. Reading(Reads(All), All, At + 1)
    <2>1. Len(All) \in Nat BY <1>1
    <2> QED BY <1>1, <2>1, ReadsUnfold
  <1>4. \A i \in 0..((At + 1) - 1) : cache'[i] = Reads(All)[i]
    <2>1. At + 1 \in Nat BY <1>1
    <2> QED BY <1>2, <1>3, <2>1, ReadingUnique
  <1>5. cache'[At] = Reads(All)[Len(All) - 1] BY <1>1, <1>4
  <1> QED BY <1>2, <1>5 DEF Advances

LEMMA AdvanceKeeps ==
  ASSUME IInv, phase = "decode", left > 0, NEW nxt, Advances(nxt)
  PROVE  IInv'
  <1> USE DEF IInv
  <1>1. /\ job \in Jobs /\ Plen \in Nat /\ Rounds \in Nat /\ left \in Nat /\ left <= Rounds
        /\ At \in Nat /\ Rounds - left \in Nat
    BY JobFacts, AllIs, TextIs DEF TypeOK, DecodeInv
  <1>2. /\ UNCHANGED <<job, phase, first>> /\ phase' = "decode" /\ left' = left - 1
        /\ Plen' = Plen /\ Rounds' = Rounds /\ Total' = Total /\ OnHost' = OnHost
    BY DEF Advances, Plen, Rounds, Total, OnHost
  <1>3. At' = At + 1 /\ At' \in Nat BY <1>1, <1>2 DEF At
  <1>4. /\ Len(All) = At + 1 /\ \A i \in 1..(At + 1) : All'[i] = All[i]
        /\ All'[At + 2] = nxt
    <2>1. IsSeq(job.prompt) /\ IsSeq(Text) /\ Len(Text) = (Rounds - left) + 1
      BY JobFacts, TextIs DEF TypeOK
    <2>2. Text' = Append(Text, nxt) /\ All' = job.prompt \o Append(Text, nxt)
      BY <1>2, TextGrows DEF All
    <2>3. /\ IsSeq(Append(Text, nxt)) /\ Len(Append(Text, nxt)) = Len(Text) + 1
          /\ \A i \in 1..Len(Text) : Append(Text, nxt)[i] = Text[i]
          /\ Append(Text, nxt)[Len(Text) + 1] = nxt
      BY <2>1, AppendIs
    <2>4. /\ Len(All) = Plen + Len(Text)
          /\ \A i \in 1..(Plen + Len(Text)) :
               All[i] = IF i <= Plen THEN job.prompt[i] ELSE Text[i - Plen]
      BY <2>1, ConcatIs DEF All, Plen
    <2>5. \A i \in 1..(Plen + (Len(Text) + 1)) :
            All'[i] = IF i <= Plen THEN job.prompt[i] ELSE Append(Text, nxt)[i - Plen]
      <3>1. \A i \in 1..(Len(job.prompt) + Len(Append(Text, nxt))) :
              (job.prompt \o Append(Text, nxt))[i] =
                IF i <= Len(job.prompt) THEN job.prompt[i] ELSE Append(Text, nxt)[i - Len(job.prompt)]
        BY <2>1, <2>3, ConcatIs
      <3> QED BY <2>2, <2>3, <3>1 DEF Plen
    <2>6. Plen + Len(Text) = At + 1 /\ Len(Text) \in Nat BY <1>1, <2>1 DEF At
    <2>7. ASSUME NEW i \in 1..(At + 1) PROVE All'[i] = All[i]
      <3>1. i \in 1..(Plen + Len(Text)) /\ i \in 1..(Plen + (Len(Text) + 1))
            /\ (~(i <= Plen) => i - Plen \in 1..Len(Text))
        BY <1>1, <2>6
      <3> QED BY <2>3, <2>4, <2>5, <3>1
    <2>8. All'[At + 2] = nxt
      <3>1. At + 2 \in 1..(Plen + (Len(Text) + 1)) /\ ~(At + 2 <= Plen)
            /\ (At + 2) - Plen = Len(Text) + 1
        BY <1>1, <2>6
      <3> QED BY <2>3, <2>5, <3>1
    <2> QED BY <2>4, <2>6, <2>7, <2>8
  <1>5. Reading(cache', All', At')
    <2>1. Reading(cache', All, At + 1) BY ChoiceIsReading
    <2>2. At + 1 \in Nat BY <1>1
    <2>3. \A i \in 1..(At + 1) : All'[i] = All[i] BY <1>4
    <2> QED BY <1>3, <2>1, <2>2, <2>3, ReadingKept
  <1>6. DecodeInv'
    <2>1. CASE OnHost
      <3>1. slot' = At' BY <1>3, <2>1 DEF Advances, DecodeInv
      <3> QED BY <1>1, <1>2, <1>5, <2>1, <3>1 DEF DecodeInv
    <2>2. CASE ~OnHost
      <3>1. /\ pos' = At' /\ step' = (Rounds - left) + 1 /\ tok_in' = nxt
        BY <1>3, <2>2 DEF Advances, DecodeInv
      <3>2. step' = Rounds' - left' /\ tok_in' = All'[At' + 1] BY <1>1, <1>2, <1>3, <1>4, <3>1
      <3> QED BY <1>1, <1>2, <1>3, <1>5, <2>2, <3>1, <3>2 DEF DecodeInv
    <2> QED BY <2>1, <2>2
  <1>7. TypeOK'
    <2>1. left' \in Nat /\ step' \in Nat /\ pos' \in Nat /\ slot' \in Nat
      BY <1>1, <1>2 DEF TypeOK, Advances
    <2>2. DOMAIN cache' = 0..(Total' - 1) BY <1>2 DEF TypeOK, Advances
    <2>3. ~OnHost' => DOMAIN out' = 1..job'.n BY <1>2 DEF TypeOK, Advances
    <2> QED BY <1>1, <1>2, <2>1, <2>2, <2>3 DEF TypeOK
  <1>8. ListInv'
    <2>1. CASE OnHost
      <3>1. IsSeq(out) /\ Len(out) = Rounds - left /\ out' = Append(out, nxt)
        BY <2>1 DEF ListInv, Advances
      <3>2. IsSeq(out') /\ Len(out') = Len(out) + 1 BY <3>1, AppendIs
      <3> QED BY <1>1, <1>2, <3>1, <3>2 DEF ListInv
    <2> QED BY <1>2, <2>1 DEF ListInv
  <1> QED BY <1>2, <1>6, <1>7, <1>8 DEF PromptRead, WarmInv, OnlyLongWarmupFails

-----------------------------------------------------------------------------
(* The other steps *)

LEMMA LaunchKeeps == ASSUME IInv, Launch PROVE IInv'
  <1> USE DEF IInv
  <1>1. UNCHANGED <<job, left, first, tok_in, pos, step, slot, out>> /\ Total' = Total
    BY DEF Launch, Total, Plen
  <1>2. \/ phase' = "refused"
        \/ phase' = "throwaway" /\ cache' = [s \in 0..(Total - 1) |-> Blank]
    BY DEF Launch
  <1>3. TypeOK' BY <1>1, <1>2 DEF TypeOK, Terminal
  <1> QED BY <1>2, <1>3 DEF PromptRead, WarmInv, DecodeInv, ListInv, OnlyLongWarmupFails

LEMMA ThrowawayKeeps == ASSUME IInv, Throwaway PROVE IInv'
  <1> USE DEF IInv
  <1>1. UNCHANGED <<job, left, first, tok_in, pos, step, slot, out>> /\ Total' = Total
    BY DEF Throwaway, Total, Plen
  <1>2. phase' = "prefill" /\ DOMAIN cache' = DOMAIN cache /\ phase = "throwaway"
    BY DEF Throwaway, Prefilled
  <1>3. TypeOK' BY <1>1, <1>2 DEF TypeOK, Terminal
  <1> QED BY <1>2, <1>3 DEF PromptRead, WarmInv, DecodeInv, ListInv, OnlyLongWarmupFails

\* The prompt's own pass fills the slots of the prompt.
LEMMA PrefillReads ==
  ASSUME IInv, phase = "prefill"
  PROVE  /\ DOMAIN Prefilled = DOMAIN cache
         /\ Reading(Prefilled, job.prompt, Plen)
         /\ Prefilled[Plen - 1] = Reads(job.prompt)[Plen - 1]
  <1> USE DEF IInv
  <1>1. /\ Plen \in Nat /\ Plen > 0 /\ Total \in Nat /\ Total >= Plen + job.n /\ job.n \in Nat
        /\ Plen = Len(job.prompt)
    BY JobFacts DEF TypeOK, Plen
  <1>2. DOMAIN cache = 0..(Total - 1) BY DEF TypeOK
  <1>3. \A i \in 0..(Plen - 1) : Prefilled[i] = Reads(job.prompt)[i]
    BY <1>1, <1>2 DEF Prefilled
  <1>4. Reading(Reads(job.prompt), job.prompt, Plen)
    <2>1. Len(job.prompt) \in Nat BY <1>1
    <2> QED BY <1>1, <2>1, ReadsUnfold
  <1>5. Reading(Prefilled, job.prompt, Plen) BY <1>1, <1>3, <1>4, ReadingKept
  <1> QED BY <1>1, <1>3, <1>5 DEF Prefilled

LEMMA PrefillKeeps == ASSUME IInv, Prefill PROVE IInv'
  <1> USE DEF IInv
  <1>1. /\ phase = "prefill" /\ phase' = "warm" /\ UNCHANGED job /\ cache' = Prefilled
        /\ left' = job.warmup /\ pos' = Plen /\ step' = 0 /\ slot' = Plen
        /\ out' = IF OnHost THEN <<>> ELSE [i \in 1..job.n |-> Word(0)]
        /\ Total' = Total /\ OnHost' = OnHost /\ Plen' = Plen
    BY DEF Prefill, Total, Plen, OnHost
  <1>2. Plen \in Nat /\ job.warmup \in Nat BY JobFacts DEF TypeOK
  <1>3. DOMAIN cache' = 0..(Total' - 1) BY <1>1, PrefillReads DEF TypeOK
  <1>4. TypeOK' BY <1>1, <1>2, <1>3 DEF TypeOK
  <1>5. PromptRead' BY <1>1, PrefillReads DEF PromptRead
  <1>6. WarmInv' BY <1>1, <1>2 DEF WarmInv
  <1>7. ListInv' BY <1>1 DEF ListInv
  <1> QED BY <1>1, <1>4, <1>5, <1>6, <1>7 DEF DecodeInv, OnlyLongWarmupFails

\* A warm-up step writes behind the prompt.
LEMMA WarmUpKeeps == ASSUME IInv, WarmUp PROVE IInv'
  <1> USE DEF IInv
  <1>1. /\ phase = "warm" /\ left > 0 /\ left' = left - 1 /\ UNCHANGED <<job, phase>>
        /\ Plen' = Plen /\ Total' = Total /\ OnHost' = OnHost
    BY DEF WarmUp, Plen, Total, OnHost
  <1>2. Plen \in Nat /\ job.warmup \in Nat /\ Reading(cache, job.prompt, Plen)
    BY <1>1, JobFacts DEF TypeOK, PromptRead
  <1>3. \E at \in Nat : \E e : at >= Plen /\ cache' = [cache EXCEPT ![at] = e]
    <2>1. CASE OnHost
      <3>1. slot \in Nat /\ slot >= Plen BY <1>1, <1>2, <2>1 DEF TypeOK, WarmInv
      <3> QED BY <2>1, <3>1 DEF WarmUp, StepForward
    <2>2. CASE ~OnHost
      <3>1. pos \in Nat /\ pos >= Plen BY <1>1, <1>2, <2>2 DEF TypeOK, WarmInv
      <3> QED BY <2>2, <3>1 DEF WarmUp, DecodeStep
    <2> QED BY <2>1, <2>2
  <1>4. DOMAIN cache' = DOMAIN cache /\ \A i \in 0..(Plen - 1) : cache'[i] = cache[i]
    BY <1>2, <1>3
  <1>5. PromptRead' BY <1>1, <1>2, <1>4, ReadingKept DEF PromptRead
  <1>6. CASE OnHost
    <2>1. slot' = slot + 1 /\ pos' = pos /\ UNCHANGED <<step, out>>
      BY <1>6 DEF WarmUp, StepForward
    <2>2. TypeOK' BY <1>1, <1>4, <1>6, <2>1 DEF TypeOK
    <2>3. WarmInv' BY <1>1, <1>2, <1>6, <2>1 DEF WarmInv, TypeOK
    <2>4. ListInv' BY <1>1, <2>1 DEF ListInv
    <2> QED BY <1>1, <1>5, <2>2, <2>3, <2>4 DEF DecodeInv, OnlyLongWarmupFails
  <1>7. CASE ~OnHost
    <2>1. /\ pos' = pos + 1 /\ step' = step + 1 /\ UNCHANGED slot
          /\ \E nxt : out' = [out EXCEPT ![step + 1] = nxt]
      BY <1>7 DEF WarmUp, DecodeStep
    <2>2. DOMAIN out' = DOMAIN out BY <2>1
    <2>3. TypeOK' BY <1>1, <1>4, <1>7, <2>1, <2>2 DEF TypeOK
    <2>4. WarmInv' BY <1>1, <1>2, <1>7, <2>1 DEF WarmInv, TypeOK
    <2>5. ListInv' BY <1>1, <1>7 DEF ListInv
    <2> QED BY <1>1, <1>5, <2>3, <2>4, <2>5 DEF DecodeInv, OnlyLongWarmupFails
  <1> QED BY <1>6, <1>7

LEMMA CaptureKeeps == ASSUME IInv, Capture PROVE IInv'
  <1> USE DEF IInv
  <1>1. phase = "warm" /\ phase' = "rewind" /\ UNCHANGED <<job, left, tensors>>
    BY DEF Capture
  <1>2. TypeOK' BY <1>1 DEF TypeOK, tensors, Total, Plen, OnHost
  <1>3. PromptRead' BY <1>1 DEF PromptRead, tensors, Plen
  <1>4. ListInv' BY <1>1 DEF ListInv, tensors, OnHost
  <1> QED BY <1>1, <1>2, <1>3, <1>4 DEF WarmInv, DecodeInv, OnlyLongWarmupFails

\* After the warm-up is taken back the text is the token of the prompt's pass.
LEMMA RewindText == ASSUME IInv, Rewind PROVE Text' = <<first>>
  <1> USE DEF IInv
  <1>1. /\ phase = "rewind" /\ phase' = "decode" /\ left' = Rounds
        /\ UNCHANGED <<job, first, out>> /\ OnHost' = OnHost /\ Goal' = Goal
    BY DEF Rewind, OnHost, Goal
  <1>2. Goal - 1 - Rounds = 0 BY JobFacts DEF TypeOK
  <1>3. IsSeq(<<first>>) BY OneIs
  <1>4. <<first>> \o <<>> = <<first>> BY <1>3, ConcatEmptySeq DEF IsSeq
  <1>5. CASE OnHost
    <2>1. Text' = <<first>> \o <<>> BY <1>1, <1>5 DEF Text, ListInv
    <2> QED BY <1>4, <2>1
  <1>6. CASE ~OnHost
    <2>1. Text' = <<first>> \o SubSeq(out, 1, 0) BY <1>1, <1>2, <1>6 DEF Text
    <2>2. SubSeq(out, 1, 0) = <<>> BY SubSeqEmpty
    <2> QED BY <1>4, <2>1, <2>2
  <1> QED BY <1>5, <1>6

LEMMA RewindKeeps == ASSUME IInv, Rewind PROVE IInv'
  <1> USE DEF IInv
  <1>1. /\ phase = "rewind" /\ phase' = "decode" /\ left' = Rounds /\ Undo
        /\ UNCHANGED <<job, cache, first, out>>
        /\ Plen' = Plen /\ Rounds' = Rounds /\ Total' = Total /\ OnHost' = OnHost
    BY DEF Rewind, Plen, Rounds, Total, OnHost
  <1>2. IsSeq(job.prompt) /\ Plen = Len(job.prompt) /\ Plen \in Nat /\ Plen > 0 /\ Rounds \in Nat
    BY JobFacts DEF TypeOK, Plen
  <1>3. At' = Plen /\ Rounds' - left' = 0 BY <1>1, <1>2 DEF At
  <1>4. /\ All'[Plen + 1] = first /\ \A i \in 1..Plen : All'[i] = job.prompt[i]
    <2>1. All' = job.prompt \o <<first>> BY <1>1, RewindText DEF All
    <2>2. IsSeq(<<first>>) /\ Len(<<first>>) = 1 /\ <<first>>[1] = first BY OneIs
    <2>3. \A i \in 1..(Plen + 1) :
            (job.prompt \o <<first>>)[i] = IF i <= Plen THEN job.prompt[i] ELSE <<first>>[i - Plen]
      BY <1>2, <2>2, ConcatIs
    <2>4. Plen + 1 \in 1..(Plen + 1) /\ ~(Plen + 1 <= Plen) /\ (Plen + 1) - Plen = 1 BY <1>2
    <2>5. \A i \in 1..Plen : i \in 1..(Plen + 1) /\ i <= Plen BY <1>2
    <2> QED BY <2>1, <2>2, <2>3, <2>4, <2>5
  <1>5. Reading(cache', All', At')
    <2>1. Reading(cache, job.prompt, Plen) BY <1>1 DEF PromptRead
    <2>2. Reading(cache, All', Plen) BY <1>2, <1>4, <2>1, ReadingKept
    <2> QED BY <1>1, <1>3, <2>2
  <1>6. IF OnHost THEN slot' = Plen ELSE pos' = Plen /\ step' = 0 /\ tok_in' = first
    BY <1>1 DEF Undo
  <1>7. DecodeInv' BY <1>1, <1>2, <1>3, <1>4, <1>5, <1>6 DEF DecodeInv
  <1>8. slot' \in Nat /\ pos' \in Nat /\ step' \in Nat BY <1>1, <1>2 DEF Undo, TypeOK
  <1>9. TypeOK' BY <1>1, <1>2, <1>8 DEF TypeOK
  <1>10. ListInv' BY <1>1, <1>3, EmptyIs DEF ListInv
  <1> QED BY <1>1, <1>7, <1>9, <1>10 DEF PromptRead, WarmInv, OnlyLongWarmupFails

LEMMA ReturnKeeps == ASSUME IInv, Return PROVE IInv'
  <1> USE DEF IInv
  <1>1. phase = "decode" /\ phase' = "done" /\ UNCHANGED <<job, left, tensors>>
    BY DEF Return
  <1>2. TypeOK' BY <1>1 DEF TypeOK, tensors, Terminal, Total, Plen
  <1> QED BY <1>1, <1>2 DEF PromptRead, WarmInv, DecodeInv, ListInv, OnlyLongWarmupFails

\* Only the warm-up runs out of room.
LEMMA BreakIsWarm == ASSUME IInv, Break PROVE phase = "warm" /\ ~Fits(job)
  <1> USE DEF IInv
  <1>1. /\ Plen \in Nat /\ Rounds \in Nat /\ left \in Nat /\ Rounds <= job.n /\ job.n \in Nat
        /\ Total = Plen + job.n + Slack /\ Slack \in Nat /\ left > 0 /\ job.warmup \in Nat
        /\ step \in Nat
    BY JobFacts, DecodeAssumption DEF TypeOK, Break, Total
  <1>2. phase # "decode"
    <2> SUFFICES ASSUME phase = "decode" PROVE FALSE
      OBVIOUS
    <2>1. left <= Rounds /\ At < Plen + job.n /\ At < Total BY <1>1 DEF DecodeInv, At
    <2>2. CASE OnHost BY <1>1, <2>1, <2>2 DEF DecodeInv, Break, Fails, At
    <2>3. CASE ~OnHost BY <1>1, <2>1, <2>3 DEF DecodeInv, Break, Fails, At
    <2> QED BY <2>2, <2>3
  <1>3. phase = "warm" BY <1>2 DEF Break
  <1>4. CASE OnHost
    <2>1. slot >= Total /\ slot = Plen + (job.warmup - left) BY <1>3, <1>4 DEF Break, Fails, WarmInv
    <2>2. job.warmup > job.n + Slack BY <1>1, <2>1
    <2> QED BY <1>1, <1>3, <1>4, <2>2 DEF Fits, OnHost
  <1>5. CASE ~OnHost
    <2>1. (pos >= Total \/ step >= job.n) /\ pos = Plen + step /\ step + left = job.warmup
      BY <1>3, <1>5 DEF Break, Fails, WarmInv
    <2>2. job.warmup > job.n BY <1>1, <2>1
    <2> QED BY <1>1, <1>3, <1>5, <2>2 DEF Fits, OnHost
  <1> QED BY <1>4, <1>5

LEMMA BreakKeeps == ASSUME IInv, Break PROVE IInv'
  <1> USE DEF IInv
  <1>1. phase' = "failed" /\ UNCHANGED <<job, left, tensors>> BY DEF Break
  <1>2. phase = "warm" /\ ~Fits(job') BY <1>1, BreakIsWarm
  <1>3. TypeOK' BY <1>1, <1>2 DEF TypeOK, tensors, Terminal, Total, Plen
  <1> QED BY <1>1, <1>2, <1>3 DEF PromptRead, WarmInv, DecodeInv, ListInv, OnlyLongWarmupFails

LEMMA StutterKeeps == ASSUME IInv, UNCHANGED vars PROVE IInv'
  <1>1. /\ UNCHANGED <<job, phase, left, cache, first, tok_in, pos, step, slot, out>>
        /\ Plen' = Plen /\ Rounds' = Rounds /\ Total' = Total /\ OnHost' = OnHost
        /\ All' = All /\ At' = At
    BY DEF vars, Plen, Rounds, Total, OnHost, All, Text, At, Goal
  <1> QED BY <1>1 DEF IInv, TypeOK, PromptRead, WarmInv, DecodeInv, ListInv, OnlyLongWarmupFails

LEMMA InvStep == IInv /\ [Next]_vars => IInv'
  <1> SUFFICES ASSUME IInv, [Next]_vars PROVE IInv'
    OBVIOUS
  <1>1. CASE Launch BY <1>1, LaunchKeeps
  <1>2. CASE Throwaway BY <1>2, ThrowawayKeeps
  <1>3. CASE Prefill BY <1>3, PrefillKeeps
  <1>4. CASE WarmUp BY <1>4, WarmUpKeeps
  <1>5. CASE Capture BY <1>5, CaptureKeeps
  <1>6. CASE Rewind BY <1>6, RewindKeeps
  <1>7. CASE Decode
    <2>1. phase = "decode" /\ left > 0 BY <1>7 DEF Decode
    <2>2. PICK nxt : Advances(nxt) BY <1>7, DecodeAdvances
    <2> QED BY <2>1, <2>2, AdvanceKeeps
  <1>8. CASE Return BY <1>8, ReturnKeeps
  <1>9. CASE Break BY <1>9, BreakKeeps
  <1>10. CASE UNCHANGED vars BY <1>10, StutterKeeps
  <1> QED BY <1>1, <1>2, <1>3, <1>4, <1>5, <1>6, <1>7, <1>8, <1>9, <1>10 DEF Next

-----------------------------------------------------------------------------
(* The theorems *)

LEMMA Invariant == Spec => []IInv
  BY InvInit, InvStep, PTL DEF Spec

\* Whatever the job, the state keeps its shape.
THEOREM TypeCorrect == Spec => []TypeOK
  BY Invariant, PTL DEF IInv

\* Whatever the prompt, the warm-up, the number of tokens and the slack, the
\* measured loop never runs out of buffers: only a long warm-up does.
THEOREM LoopNeverFails == Spec => []OnlyLongWarmupFails
  BY Invariant, PTL DEF IInv

\* Whatever the warm-up left in the cache, no step attends to it.
THEOREM WarmupUnseen == Spec => []StaleUnseen
  <1>1. IInv => StaleUnseen
    <2> SUFFICES ASSUME IInv, phase = "decode" PROVE StaleUnseen
      BY DEF StaleUnseen
    <2> USE DEF IInv
    <2>1. Plen + Len(Text) - 1 = At
      <3>1. Len(Text) = (Rounds - left) + 1 /\ Rounds - left \in Nat BY TextIs
      <3>2. Plen \in Nat BY JobFacts DEF TypeOK
      <3> QED BY <3>1, <3>2 DEF At
    <2> QED BY <2>1 DEF StaleUnseen, DecodeInv, All
  <1> QED BY <1>1, Invariant, PTL

-----------------------------------------------------------------------------
(* The report of --verify *)

Counts == [n : Nat, fail : Nat, max_rel : Nat]

\* What a comparison must not find.
Beyond(pair, tol) ==
  \/ pair.kind = "reshaped"
  \/ pair.kind = "measured" /\ pair.rel > tol

\* Statistics of one operator: none yet, or one record.
Stats == {<<>>} \cup {<<st>> : st \in Counts}
Passing(seen) == seen = <<>> \/ seen[1].fail = 0

\* A pair keeps the count of failures at zero iff it is within the tolerance.
LEMMA FoldIs ==
  ASSUME NEW st \in Counts, NEW pair \in Pair, NEW tol \in Nat
  PROVE  /\ Fold(st, pair, tol) \in Counts
         /\ Fold(st, pair, tol).fail = 0 <=> st.fail = 0 /\ ~Beyond(pair, tol)
  <1>0. /\ st.n \in Nat /\ st.fail \in Nat /\ st.max_rel \in Nat /\ pair.rel \in Nat
        /\ st = [n |-> st.n, fail |-> st.fail, max_rel |-> st.max_rel]
    BY DEF Counts, Pair
  <1>1. CASE pair.kind \in {"integer", "empty", "nonfinite"}
    <2>1. Fold(st, pair, tol) = st BY <1>1 DEF Fold
    <2> QED BY <1>1, <2>1 DEF Beyond
  <1>2. CASE pair.kind = "reshaped"
    <2>1. Fold(st, pair, tol) = [n |-> st.n, fail |-> st.fail + 1, max_rel |-> st.max_rel]
      BY <1>0, <1>2 DEF Fold
    <2>2. Fold(st, pair, tol) \in Counts BY <1>0, <2>1 DEF Counts
    <2>3. Fold(st, pair, tol).fail # 0 BY <1>0, <2>1
    <2>4. Beyond(pair, tol) BY <1>2, Zenon DEF Beyond
    <2> QED BY <2>2, <2>3, <2>4
  <1>3. CASE pair.kind = "undefined"
    <2>1. Fold(st, pair, tol) = [st EXCEPT !.n = @ + 1] BY <1>3 DEF Fold
    <2> QED BY <1>3, <2>1 DEF Beyond, Counts
  <1>4. CASE pair.kind = "measured"
    <2> DEFINE most == IF pair.rel > st.max_rel THEN pair.rel ELSE st.max_rel
               fails == IF pair.rel > tol THEN st.fail + 1 ELSE st.fail
    <2>1. Fold(st, pair, tol) = [n |-> st.n + 1, fail |-> fails, max_rel |-> most]
      BY <1>0, <1>4 DEF Fold
    <2>2. most \in Nat /\ fails \in Nat /\ (fails = 0 <=> st.fail = 0 /\ ~(pair.rel > tol))
      BY <1>0
    <2> HIDE DEF most, fails
    <2>3. Fold(st, pair, tol) \in Counts BY <1>0, <2>1, <2>2 DEF Counts
    <2>4. Fold(st, pair, tol).fail = fails BY <2>1
    <2>5. Beyond(pair, tol) <=> pair.rel > tol BY <1>4 DEF Beyond
    <2> QED BY <2>2, <2>3, <2>4, <2>5
  <1> QED BY <1>1, <1>2, <1>3, <1>4 DEF Pair

\* The running statistics of a call, the equation Compare solves.
IsSum(c, old, pairs, tol, n) ==
  c = [i \in 0..n |-> IF i > 0 THEN Fold(c[i - 1], pairs[i], tol) ELSE old]

LEMMA SumExists ==
  ASSUME NEW old, NEW pairs, NEW tol
  PROVE  \A n \in Nat : \E c : IsSum(c, old, pairs, tol, n)
  <1> DEFINE Unsolved == {n \in Nat : ~\E c : IsSum(c, old, pairs, tol, n)}
  <1>0. SUFFICES ASSUME Unsolved # {} PROVE FALSE
    BY Zenon
  <1>1. PICK n \in Unsolved : \A m \in Unsolved : n <= m
    <2> Unsolved \subseteq Nat OBVIOUS
    <2> QED BY <1>0, LeastNumber
  <1>2. CASE n = 0
    <2> DEFINE c == [i \in 0..0 |-> old]
    <2>1. c = [i \in 0..0 |-> IF i > 0 THEN Fold(c[i - 1], pairs[i], tol) ELSE old] OBVIOUS
    <2>2. IsSum(c, old, pairs, tol, 0) BY <2>1 DEF IsSum
    <2> QED BY <1>1, <1>2, <2>2
  <1>3. CASE n # 0
    <2>1. n \in Nat /\ n - 1 \in Nat /\ n - 1 \notin Unsolved BY <1>1, <1>3
    <2>2. PICK c : IsSum(c, old, pairs, tol, n - 1) BY <2>1
    <2> DEFINE d == [i \in 0..n |-> IF i > 0 THEN Fold(c[i - 1], pairs[i], tol) ELSE old]
    <2>3. ASSUME NEW i \in 0..(n - 1) PROVE d[i] = c[i]
      <3>1. i \in 0..n BY <2>1
      <3> QED BY <2>2, <3>1 DEF IsSum
    <2>4. \A i \in 0..n : i > 0 => d[i - 1] = c[i - 1]
      <3> HIDE DEF d
      <3>1. \A i \in 0..n : i > 0 => i - 1 \in 0..(n - 1) BY <2>1
      <3> QED BY <2>3, <3>1
    <2>5. d = [i \in 0..n |-> IF i > 0 THEN Fold(d[i - 1], pairs[i], tol) ELSE old]
      BY <2>4
    <2> HIDE DEF d
    <2>6. IsSum(d, old, pairs, tol, n) BY <2>5 DEF IsSum
    <2> QED BY <1>1, <2>6
  <1> QED BY <1>2, <1>3

\* A sum has no failure iff it starts from none and meets none.
LEMMA SumIs ==
  ASSUME NEW old \in Counts, NEW pairs \in Seq(Pair), NEW tol \in Nat,
         NEW c, IsSum(c, old, pairs, tol, Len(pairs)), NEW n \in 0..Len(pairs)
  PROVE  /\ c[n] \in Counts
         /\ c[n].fail = 0 <=> old.fail = 0 /\ \A i \in 1..n : ~Beyond(pairs[i], tol)
  <1> DEFINE Right(m) == /\ c[m] \in Counts
                         /\ c[m].fail = 0 <=>
                              old.fail = 0 /\ \A i \in 1..m : ~Beyond(pairs[i], tol)
             Wrong == {m \in 0..Len(pairs) : ~Right(m)}
  <1>0. SUFFICES ASSUME Wrong # {} PROVE FALSE
    BY Zenon
  <1>1. Len(pairs) \in Nat /\ \A i \in 1..Len(pairs) : pairs[i] \in Pair BY LenProperties
  <1>2. PICK m \in Wrong : \A k \in Wrong : m <= k
    <2> Wrong \subseteq Nat BY <1>1
    <2> QED BY <1>0, LeastNumber
  <1>3. CASE m = 0
    <2>1. c[0] = old BY <1>1 DEF IsSum
    <2>2. Right(0) BY <2>1
    <2> QED BY <1>2, <1>3, <2>2
  <1>4. CASE m # 0
    <2>1. m \in Nat /\ m \in 1..Len(pairs) /\ m - 1 \in 0..Len(pairs) /\ m - 1 \notin Wrong
      BY <1>1, <1>2, <1>4
    <2>2. Right(m - 1) BY <2>1
    <2>3. c[m] = Fold(c[m - 1], pairs[m], tol) BY <1>1, <2>1 DEF IsSum
    <2>4. pairs[m] \in Pair BY <1>1, <2>1
    <2> DEFINE before == c[m - 1]
               pair == pairs[m]
    <2>5. /\ c[m] \in Counts
          /\ c[m].fail = 0 <=> before.fail = 0 /\ ~Beyond(pair, tol)
      <3>1. before \in Counts /\ pair \in Pair /\ c[m] = Fold(before, pair, tol)
        BY <2>2, <2>3, <2>4
      <3> HIDE DEF before, pair
      <3>2. /\ Fold(before, pair, tol) \in Counts
            /\ Fold(before, pair, tol).fail = 0 <=> before.fail = 0 /\ ~Beyond(pair, tol)
        BY <3>1, FoldIs
      <3> QED BY <3>1, <3>2
    <2>6. \A i : i \in 1..m <=> i \in 1..(m - 1) \/ i = m BY <2>1
    <2>7. (\A i \in 1..m : ~Beyond(pairs[i], tol)) <=>
            (\A i \in 1..(m - 1) : ~Beyond(pairs[i], tol)) /\ ~Beyond(pairs[m], tol)
      BY <2>6, Zenon
    <2>8. Right(m) BY <2>2, <2>5, <2>7
    <2> QED BY <1>2, <2>8
  <1> QED BY <1>3, <1>4

\* An operator still passes iff it passed and no pair of its call is beyond.
LEMMA CompareIs ==
  ASSUME NEW seen \in Stats, NEW pairs \in Seq(Pair), NEW tol \in Nat
  PROVE  /\ Compare(seen, pairs, tol) \in Stats
         /\ Passing(Compare(seen, pairs, tol)) <=>
              Passing(seen) /\ \A i \in 1..Len(pairs) : ~Beyond(pairs[i], tol)
  <1> DEFINE old == IF seen = <<>> THEN NoStats ELSE seen[1]
             n == Len(pairs)
  <1>1. n \in Nat BY LenProperties
  <1>2. old \in Counts /\ (old.fail = 0 <=> Passing(seen))
    BY DEF Stats, Passing, NoStats, Counts
  <1>3. CASE pairs = <<>>
    <2>1. Compare(seen, pairs, tol) = seen BY <1>3 DEF Compare
    <2>2. 1..Len(pairs) = {} BY <1>3
    <2> QED BY <2>1, <2>2
  <1>4. CASE pairs # <<>>
    <2> DEFINE c == CHOOSE f : IsSum(f, old, pairs, tol, n)
    <2>1. Compare(seen, pairs, tol) = <<c[n]>> BY <1>4, Zenon DEF Compare, IsSum
    <2>2. IsSum(c, old, pairs, tol, n) BY <1>1, SumExists
    <2> HIDE DEF c, old
    <2>3. /\ c[n] \in Counts
          /\ c[n].fail = 0 <=> old.fail = 0 /\ \A i \in 1..n : ~Beyond(pairs[i], tol)
      BY <1>1, <1>2, <2>2, SumIs
    <2>4. <<c[n]>> # <<>> /\ <<c[n]>>[1] = c[n] OBVIOUS
    <2>5. <<c[n]>> \in Stats BY <2>3 DEF Stats
    <2>6. Passing(<<c[n]>>) <=> c[n].fail = 0 BY <2>4 DEF Passing
    <2> QED BY <1>2, <2>1, <2>3, <2>5, <2>6
  <1> QED BY <1>3, <1>4

VerifyRecord == [enabled : BOOLEAN, tol : Nat, stats : [Ops -> Stats]]

\* While it is on, the switch is on in the measured loop and has the asked
\* tolerance; the statistics say whether a comparison went beyond it.
VerifyInv ==
  /\ V \in VerifyRecord
  /\ job.verify /\ phase \notin {"launch", "refused"} => job.kuiper
  /\ job.verify /\ phase \notin {"launch", "refused", "done"} => V.tol = job.tol
  /\ V.enabled => phase \in {"decode", "failed"} /\ job.verify
  /\ phase = "decode" /\ job.verify => V.enabled
  /\ Passes(V) <=> ~diverged
  /\ phase = "launch" => ~diverged

\* Whether a record passes depends on its statistics only.
LEMMA PassesIs ==
  ASSUME NEW v, v.stats \in [Ops -> Stats]
  PROVE  Passes(v) <=> \A o \in Ops : Passing(v.stats[o])
  BY DEF Passes, Passing

\* A switch leaves the statistics alone.
LEMMA SwitchIs ==
  ASSUME NEW v \in VerifyRecord, NEW on \in BOOLEAN, NEW tol \in Nat
  PROVE  /\ SetEnabled(v, on, tol) \in VerifyRecord
         /\ SetEnabled(v, on, tol).enabled = on
         /\ SetEnabled(v, on, tol).tol = tol
         /\ SetEnabled(v, on, tol).stats = v.stats
  BY DEF SetEnabled, VerifyRecord

\* New statistics leave the switch alone.
LEMMA StatsPut ==
  ASSUME NEW v \in VerifyRecord, NEW stats \in [Ops -> Stats]
  PROVE  LET w == [v EXCEPT !.stats = stats]
         IN  /\ w \in VerifyRecord
             /\ w.enabled = v.enabled /\ w.tol = v.tol /\ w.stats = stats
  BY DEF VerifyRecord

\* A step's comparisons.
LEMMA ComparedKeeps ==
  ASSUME VerifyInv, job \in Jobs, job.verify, job.kuiper, phase = "decode", Compared
  PROVE  /\ V' \in VerifyRecord /\ V'.enabled = V.enabled /\ V'.tol = V.tol
         /\ Passes(V') <=> ~diverged'
  <1>1. V.enabled /\ V.tol = job.tol /\ V.tol \in Nat /\ V.stats \in [Ops -> Stats]
        /\ V \in VerifyRecord
    BY DEF VerifyInv, VerifyRecord
  <1>2. PICK r \in [Ops -> Results] :
          /\ V' = [V EXCEPT !.stats = [o \in Ops |-> Compare(@[o], r[o], V.tol)]]
          /\ diverged' = (diverged \/ \E o \in Ops : \E i \in 1..Len(r[o]) :
                                 \/ r[o][i].kind = "reshaped"
                                 \/ r[o][i].kind = "measured" /\ r[o][i].rel > job.tol)
    BY <1>1 DEF Compared
  <1> DEFINE stats == [o \in Ops |-> Compare(V.stats[o], r[o], V.tol)]
             beyond(o) == \E i \in 1..Len(r[o]) : Beyond(r[o][i], V.tol)
  <1>3. V' = [V EXCEPT !.stats = stats]
    BY <1>2, Zenon
  <1>4. ASSUME NEW o \in Ops
        PROVE  stats[o] \in Stats /\ (Passing(stats[o]) <=> Passing(V.stats[o]) /\ ~beyond(o))
    <2>1. V.stats[o] \in Stats /\ r[o] \in Seq(Pair) BY <1>1, DecodeAssumption
    <2> DEFINE s == V.stats[o]
               pairs == r[o]
    <2>2. stats[o] = Compare(s, pairs, V.tol) OBVIOUS
    <2> HIDE DEF s, pairs, stats
    <2>3. /\ Compare(s, pairs, V.tol) \in Stats
          /\ Passing(Compare(s, pairs, V.tol)) <=>
              Passing(s) /\ \A i \in 1..Len(pairs) : ~Beyond(pairs[i], V.tol)
      BY <1>1, <2>1, CompareIs DEF s, pairs
    <2>4. ~beyond(o) <=> \A i \in 1..Len(pairs) : ~Beyond(pairs[i], V.tol)
      BY Zenon DEF pairs
    <2> QED BY <2>2, <2>3, <2>4 DEF s
  <1>5. diverged' <=> diverged \/ \E o \in Ops : beyond(o)
    <2>0. V.tol = job.tol BY <1>1
    <2>1. \A o \in Ops : beyond(o) <=> \E i \in 1..Len(r[o]) :
                                 \/ r[o][i].kind = "reshaped"
                                 \/ r[o][i].kind = "measured" /\ r[o][i].rel > job.tol
      BY ONLY <2>0, Zenon DEF Beyond
    <2> HIDE DEF beyond
    <2> QED BY <1>2, <2>1, Zenon
  <1>6. stats \in [Ops -> Stats] BY <1>4
  <1>7. Passes(V) <=> \A o \in Ops : Passing(V.stats[o]) BY <1>1, PassesIs
  <1> HIDE DEF stats
  <1>8. V' \in VerifyRecord /\ V'.stats = stats /\ V'.enabled = V.enabled /\ V'.tol = V.tol
    <2> DEFINE w == [V EXCEPT !.stats = stats]
    <2>1. w \in VerifyRecord /\ w.stats = stats /\ w.enabled = V.enabled /\ w.tol = V.tol
      BY <1>1, <1>6, StatsPut
    <2> HIDE DEF w
    <2>2. V' = w BY <1>3 DEF w
    <2> QED BY <2>1, <2>2
  <1> HIDE DEF beyond
  <1>9. Passes(V') <=> \A o \in Ops : Passing(stats[o]) BY <1>6, <1>8, PassesIs
  <1>10. Passes(V) <=> ~diverged BY DEF VerifyInv
  <1>11. (\A o \in Ops : Passing(stats[o])) <=>
           (\A o \in Ops : Passing(V.stats[o])) /\ ~\E o \in Ops : beyond(o)
    BY <1>4, Zenon
  <1>12. Passes(V') <=> ~diverged'
    BY <1>5, <1>7, <1>9, <1>10, <1>11, Zenon
  <1> QED BY <1>8, <1>12

\* Nothing compared, nothing switched.
LEMMA VerifyStutter ==
  ASSUME VerifyInv, UNCHANGED <<job, V, diverged>>,
         \/ phase' = phase
         \/ {phase, phase'} \cap ({"launch", "decode"} \cup Terminal) = {}
  PROVE  VerifyInv'
  BY DEF VerifyInv, Passes, Terminal

LEMMA VerifyInit == Init => VerifyInv
  <1> SUFFICES ASSUME Init PROVE VerifyInv
    OBVIOUS
  <1>1. V = [enabled |-> FALSE, tol |-> DefaultTol, stats |-> [o \in Ops |-> <<>>]]
    BY DEF Init, Fresh
  <1>2. V.stats \in [Ops -> Stats] /\ \A o \in Ops : Passing(V.stats[o])
    BY <1>1 DEF Stats, Passing
  <1>3. Passes(V) BY <1>2, PassesIs
  <1>4. diverged = FALSE /\ phase = "launch" BY DEF Init
  <1>5. V \in VerifyRecord /\ ~V.enabled BY <1>1, <1>2 DEF VerifyRecord, DefaultTol
  <1> QED BY <1>3, <1>4, <1>5 DEF VerifyInv

LEMMA VerifyStep ==
  ASSUME VerifyInv, job \in Jobs, [Next]_vars
  PROVE  VerifyInv'
  <1>0. /\ V \in VerifyRecord /\ V.tol \in Nat /\ V.stats \in [Ops -> Stats]
        /\ job.tol \in Nat /\ DefaultTol \in Nat
    <2>1. V \in VerifyRecord BY DEF VerifyInv
    <2>2. job.tol \in Nat BY DecodeAssumption DEF CommandLine
    <2> QED BY <2>1, <2>2 DEF VerifyRecord, DefaultTol
  <1>1. CASE Launch
    <2>1. CASE job.verify /\ ~job.kuiper
      <3>1. phase = "launch" /\ phase' = "refused" /\ UNCHANGED <<job, V, diverged>>
        BY <1>1, <2>1 DEF Launch
      <3> QED BY <3>1 DEF VerifyInv, Passes
    <2>2. CASE ~(job.verify /\ ~job.kuiper) /\ ~job.verify
      <3>1. phase = "launch" /\ phase' = "throwaway" /\ UNCHANGED <<job, V, diverged>>
        BY <1>1, <2>2 DEF Launch
      <3> QED BY <2>2, <3>1 DEF VerifyInv, Passes
    <2>3. CASE ~(job.verify /\ ~job.kuiper) /\ job.verify
      <3>1. phase = "launch" /\ phase' = "throwaway" /\ UNCHANGED <<job, diverged>>
            /\ V' = Reset(SetEnabled(V, FALSE, job.tol))
        BY <1>1, <2>3 DEF Launch
      <3> DEFINE stats == [o \in Ops |-> <<>>]
      <3> DEFINE off == SetEnabled(V, FALSE, job.tol)
      <3>2. off \in VerifyRecord /\ ~off.enabled /\ off.tol = job.tol /\ DOMAIN off.stats = Ops
        BY <1>0, SwitchIs
      <3>3. stats \in [Ops -> Stats] /\ \A o \in Ops : Passing(stats[o])
        BY DEF Stats, Passing
      <3> HIDE DEF off
      <3>4. V' = [off EXCEPT !.stats = stats]
        BY <3>1, <3>2, Zenon DEF Reset, off
      <3> HIDE DEF stats
      <3>5. V' \in VerifyRecord /\ V'.stats = stats /\ ~V'.enabled /\ V'.tol = job.tol
        BY <3>2, <3>3, <3>4, StatsPut
      <3>6. Passes(V') BY <3>3, <3>5, PassesIs
      <3>7. ~diverged' BY <3>1 DEF VerifyInv
      <3> QED BY <2>3, <3>1, <3>5, <3>6, <3>7 DEF VerifyInv
    <2> QED BY <2>1, <2>2, <2>3
  <1>2. CASE Throwaway \/ Prefill \/ Capture
    <2>1. UNCHANGED <<job, V, diverged>>
          /\ {phase, phase'} \cap ({"launch", "decode"} \cup Terminal) = {}
      BY <1>2 DEF Throwaway, Prefill, Capture, tensors, Terminal
    <2> QED BY <2>1, VerifyStutter
  <1>3. CASE WarmUp
    <2>1. phase = "warm" /\ UNCHANGED <<job, phase>> BY <1>3 DEF WarmUp
    <2>2. ~V.enabled BY <2>1 DEF VerifyInv
    <2>3. UNCHANGED <<V, diverged>> BY <1>3, <2>2 DEF WarmUp, DecodeStep, Compared
    <2> QED BY <2>1, <2>3, VerifyStutter
  <1>4. CASE Rewind
    <2>1. phase = "rewind" /\ phase' = "decode" /\ UNCHANGED <<job, diverged>>
          /\ V' = IF job.verify THEN SetEnabled(V, TRUE, V.tol) ELSE V
      BY <1>4 DEF Rewind, SwitchOn
    <2>2. CASE ~job.verify
      <3>1. V' = V BY <2>1, <2>2
      <3> QED BY <2>1, <2>2, <3>1 DEF VerifyInv, Passes
    <2>3. CASE job.verify
      <3>1. V' = SetEnabled(V, TRUE, V.tol) BY <2>1, <2>3
      <3>2. V' \in VerifyRecord /\ V'.enabled = TRUE /\ V'.tol = V.tol /\ V'.stats = V.stats
        BY <1>0, <3>1, SwitchIs
      <3>3. Passes(V') <=> Passes(V) BY <3>2 DEF Passes
      <3> QED BY <2>1, <2>3, <3>2, <3>3 DEF VerifyInv
    <2> QED BY <2>2, <2>3
  <1>5. CASE Decode
    <2>1. phase = "decode" /\ UNCHANGED <<job, phase>> BY <1>5 DEF Decode
    <2>2. CASE OnHost
      <3>1. UNCHANGED <<V, diverged>> BY <1>5, <2>2 DEF Decode, Replay
      <3> QED BY <2>1, <3>1, VerifyStutter
    <2>3. CASE ~OnHost
      <3>1. Compared BY <1>5, <2>3 DEF Decode, DecodeStep
      <3>2. CASE ~job.verify
        <4>1. ~V.enabled BY <3>2 DEF VerifyInv
        <4>2. UNCHANGED <<V, diverged>> BY <3>1, <4>1 DEF Compared
        <4> QED BY <2>1, <4>2, VerifyStutter
      <3>3. CASE job.verify
        <4>1. job.kuiper BY <2>1, <3>3 DEF VerifyInv
        <4>2. /\ V' \in VerifyRecord /\ V'.enabled = V.enabled /\ V'.tol = V.tol
              /\ Passes(V') <=> ~diverged'
          BY <2>1, <3>1, <3>3, <4>1, ComparedKeeps
        <4>3. V.tol = job.tol BY <2>1, <3>3 DEF VerifyInv
        <4>4. V.enabled BY <2>1, <3>3 DEF VerifyInv
        <4> QED BY <2>1, <3>3, <4>1, <4>2, <4>3, <4>4 DEF VerifyInv
      <3> QED BY <3>2, <3>3
    <2> QED BY <2>2, <2>3
  <1>6. CASE Return
    <2>1. phase = "decode" /\ phase' = "done" /\ UNCHANGED <<job, diverged>>
          /\ V' = IF job.verify THEN SetEnabled(V, FALSE, DefaultTol) ELSE V
      BY <1>6 DEF Return
    <2>2. CASE ~job.verify
      <3>1. V' = V BY <2>1, <2>2
      <3> QED BY <2>1, <2>2, <3>1 DEF VerifyInv, Passes
    <2>3. CASE job.verify
      <3>1. V' = SetEnabled(V, FALSE, DefaultTol) BY <2>1, <2>3
      <3>2. V' \in VerifyRecord /\ V'.enabled = FALSE /\ V'.tol = DefaultTol /\ V'.stats = V.stats
        BY <1>0, <3>1, SwitchIs
      <3>3. Passes(V') <=> Passes(V) BY <3>2 DEF Passes
      <3> QED BY <2>1, <2>3, <3>2, <3>3 DEF VerifyInv
    <2> QED BY <2>2, <2>3
  <1>7. CASE Break
    <2>1. UNCHANGED <<job, V, diverged>> /\ phase \in {"warm", "decode"} /\ phase' = "failed"
      BY <1>7 DEF Break
    <2> QED BY <2>1 DEF VerifyInv, Passes
  <1>8. CASE UNCHANGED vars
    <2>1. UNCHANGED <<job, V, diverged>> /\ phase' = phase BY <1>8 DEF vars
    <2> QED BY <2>1, VerifyStutter
  <1> QED BY <1>1, <1>2, <1>3, <1>4, <1>5, <1>6, <1>7, <1>8 DEF Next

\* The report of --verify passes iff no comparison of the measured loop went
\* beyond the tolerance asked for (set_enabled in generate, print_report).
THEOREM ReportFaithful == Spec => []VerdictFaithful
  <1>1. VerifyInv => VerdictFaithful BY DEF VerifyInv, VerdictFaithful
  <1>2. IInv => job \in Jobs BY DEF IInv, TypeOK
  <1>3. IInv /\ VerifyInv /\ [Next]_vars => VerifyInv' BY <1>2, VerifyStep
  <1> QED BY <1>1, <1>3, VerifyInit, Invariant, PTL DEF Spec

-----------------------------------------------------------------------------
(* The refinement *)

Status == CASE phase = "done" -> "returned"
            [] phase \in {"failed", "refused"} -> "failed"
            [] OTHER -> "running"

LEMMA SameReads == ASSUME NEW t PROVE Abstract!Reads(t) = Reads(t)
  BY DEF Abstract!Reads, Reads, Abstract!Entry, Entry

LEMMA SameTokens ==
  ASSUME NEW e, NEW g PROVE Abstract!NextTokens(e, g) = NextTokens(e, g)
  BY DEF Abstract!NextTokens, NextTokens, Abstract!Choose, Choose, Abstract!Word, Word

LEMMA InitRefines == Init => Abstract!Init
  <1> SUFFICES ASSUME Init PROVE Abstract!Init
    OBVIOUS
  <1>1. job \in Jobs /\ phase = "launch" BY DEF Init
  <1>2. job.prompt \in Prompts /\ job.n \in Lengths /\ job.greedy \in BOOLEAN BY <1>1, JobFacts
  <1>3. Text = <<>> BY <1>1 DEF Text
  <1> QED BY <1>1, <1>2, <1>3 DEF Abstract!Init

\* The mapped state, before and after a step that is not visible.
LEMMA Invisible ==
  ASSUME UNCHANGED job, Text' = Text, Status' = Status
  PROVE  UNCHANGED Abstract!vars
  BY DEF Abstract!vars, Status

LEMMA StepRefines == IInv /\ [Next]_vars => [Abstract!Next]_(Abstract!vars)
  <1> SUFFICES ASSUME IInv, [Next]_vars PROVE Abstract!Next \/ UNCHANGED Abstract!vars
    OBVIOUS
  <1> USE DEF IInv
  <1>1. CASE Launch
    <2>1. UNCHANGED job /\ Text = <<>> /\ Text' = <<>> /\ phase = "launch"
          /\ phase' \in {"refused", "throwaway"}
      BY <1>1 DEF Launch, Text
    <2>2. CASE phase' = "refused" BY <2>1, <2>2 DEF Abstract!Next, Abstract!GiveUp
    <2>3. CASE phase' = "throwaway" BY <2>1, <2>3, Invisible DEF Status
    <2> QED BY <2>1, <2>2, <2>3
  <1>2. CASE Throwaway
    <2>1. UNCHANGED job /\ Text = <<>> /\ Text' = <<>> /\ phase = "throwaway" /\ phase' = "prefill"
      BY <1>2 DEF Throwaway, Text
    <2> QED BY <2>1, Invisible DEF Status
  <1>3. CASE Prefill
    <2>1. UNCHANGED job /\ Text = <<>> /\ Text' = <<first'>> /\ phase = "prefill" /\ phase' = "warm"
          /\ first' = Choose(Prefilled[Plen - 1])
      BY <1>3 DEF Prefill, Text
    <2>2. Prefilled[Plen - 1] = Reads(job.prompt)[Plen - 1] BY <2>1, PrefillReads
    <2>3. job.prompt \o <<>> = job.prompt /\ Plen = Len(job.prompt) /\ Goal \in Nat /\ Goal > 0
      BY JobFacts, ConcatEmptySeq DEF TypeOK, IsSeq, Plen
    <2>4. Abstract!LastRead = Reads(job.prompt)[Plen - 1]
      BY <2>1, <2>3, SameReads DEF Abstract!LastRead
    <2>5. first' \in Abstract!NextTokens(Abstract!LastRead, job.greedy)
      BY <2>1, <2>2, <2>4, SameTokens DEF NextTokens
    <2>6. Text' = Append(Text, first') /\ Len(Text) = 0 BY <2>1, EmptyIs
    <2>7. Abstract!Goal = Goal BY DEF Abstract!Goal, Goal
    <2>8. Abstract!Emit BY <2>1, <2>3, <2>5, <2>6, <2>7 DEF Abstract!Emit
    <2> QED BY <2>8 DEF Abstract!Next
  <1>4. CASE WarmUp
    <2>1. UNCHANGED <<job, first>> /\ phase = "warm" /\ phase' = "warm"
      BY <1>4 DEF WarmUp, StepForward, DecodeStep
    <2> QED BY <2>1, Invisible DEF Status, Text
  <1>5. CASE Capture
    <2>1. UNCHANGED <<job, first>> /\ phase = "warm" /\ phase' = "rewind"
      BY <1>5 DEF Capture, tensors
    <2> QED BY <2>1, Invisible DEF Status, Text
  <1>6. CASE Rewind
    <2>1. UNCHANGED <<job, first>> /\ phase = "rewind" /\ phase' = "decode"
      BY <1>6 DEF Rewind
    <2>2. Text = <<first>> BY <2>1 DEF Text
    <2> QED BY <1>6, <2>1, <2>2, RewindText, Invisible DEF Status
  <1>7. CASE Decode
    <2>1. phase = "decode" /\ left > 0 BY <1>7 DEF Decode
    <2>2. PICK nxt : Advances(nxt) BY <1>7, DecodeAdvances
    <2>3. UNCHANGED job /\ phase' = "decode" BY <2>1, <2>2 DEF Advances
    <2>4. Text' = Append(Text, nxt) BY <2>1, <2>2, TextGrows
    <2>5. Abstract!LastRead = Reads(All)[Len(All) - 1] BY SameReads DEF Abstract!LastRead, All
    <2>6. nxt \in Abstract!NextTokens(Abstract!LastRead, job.greedy)
      BY <2>1, <2>2, <2>5, ChoiceIsReading, SameTokens
    <2>7. Len(Text) < Abstract!Goal
      <3>1. Len(Text) = (Rounds - left) + 1 BY <2>1, TextIs
      <3>2. Rounds \in Nat /\ left \in Nat /\ Goal = Rounds + 1 BY JobFacts DEF TypeOK
      <3>3. Abstract!Goal = Goal BY DEF Abstract!Goal, Goal
      <3> QED BY <2>1, <3>1, <3>2, <3>3
    <2>8. Abstract!Emit BY <2>1, <2>3, <2>4, <2>6, <2>7 DEF Abstract!Emit
    <2> QED BY <2>8 DEF Abstract!Next
  <1>8. CASE Return
    <2>1. UNCHANGED <<job, left, first, out>> /\ phase = "decode" /\ phase' = "done" /\ left = 0
      BY <1>8 DEF Return, tensors
    <2>2. Text' = Text BY <2>1 DEF Text, OnHost, Goal
    <2>3. Len(Text) = Abstract!Goal
      <3>1. Len(Text) = (Rounds - left) + 1 BY <2>1, TextIs
      <3>2. Rounds \in Nat /\ Goal = Rounds + 1 BY JobFacts DEF TypeOK
      <3>3. Abstract!Goal = Goal BY DEF Abstract!Goal, Goal
      <3> QED BY <2>1, <3>1, <3>2, <3>3
    <2>4. Abstract!Finish BY <2>1, <2>2, <2>3 DEF Abstract!Finish
    <2> QED BY <2>4 DEF Abstract!Next
  <1>9. CASE Break
    <2>1. UNCHANGED <<job, first>> /\ phase = "warm" /\ phase' = "failed"
      BY <1>9, BreakIsWarm DEF Break, tensors
    <2>2. Text' = Text BY <2>1 DEF Text
    <2>3. Abstract!GiveUp BY <2>1, <2>2 DEF Abstract!GiveUp
    <2> QED BY <2>3 DEF Abstract!Next
  <1>10. CASE UNCHANGED vars
    <2>1. UNCHANGED <<job, phase, left, first, out>> BY <1>10 DEF vars
    <2> QED BY <2>1, Invisible DEF Status, Text, OnHost, Goal
  <1> QED BY <1>1, <1>2, <1>3, <1>4, <1>5, <1>6, <1>7, <1>8, <1>9, <1>10 DEF Next

\* Every driver implements the abstract decoder, for any prompts, warm-ups,
\* lengths and slack: each token it settles on is chosen from a causal pass
\* over the prompt and the tokens before it.
THEOREM DriversDecode == Spec => Autoregressive
  <1>1. Spec => Abstract!Init /\ [][Abstract!Next]_(Abstract!vars)
    BY InitRefines, StepRefines, Invariant, PTL DEF Spec
  <1> QED BY <1>1 DEF Autoregressive, Abstract!Spec
=============================================================================
