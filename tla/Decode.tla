------------------------------- MODULE Decode -------------------------------
(***************************************************************************)
(* The four inference drivers.  Each one reads the prompt into a static KV *)
(* cache, warms its single-token step up, takes the warm-up back by        *)
(* resetting a few tensors, and decodes by running the same step again:    *)
(*   infer      infer.py                          torch.compile            *)
(*   compiled   etc/infer_golden_compiled.py      torch.compile            *)
(*   golden     etc/infer_golden.py               a captured CUDA graph    *)
(*   manual     etc/infer_golden_exp.py           a captured CUDA graph    *)
(* In the first three the step reads and advances its position on the      *)
(* device; in the last the host writes the position before each replay and *)
(* only the cache's write slot (cumulative_length) advances by itself.     *)
(* What the warm-up wrote into the cache and the output buffer stays       *)
(* there.  The cache is one map from slots to contents for all the layers  *)
(* and the batch, whose rows a scalar position serves alike.               *)
(***************************************************************************)
EXTENDS Transformer, Verify, FiniteSets

CONSTANTS Prompts,      \* sequences of tokens
          Lengths,      \* numbers of tokens a job may ask for
          Jobs,         \* the command lines considered
          Slack,        \* cache slots beyond prompt and answer (8 in the code)
          Ops,          \* operators of a step that run on kernels
          Results       \* what one of their calls may leave to compare:
                        \* a sequence of pairs, see Verify

Drivers == {"infer", "compiled", "golden", "manual"}

\* Only infer.py has --temperature, --no-kuiper and --verify.
CommandLine(j) ==
    /\ j \in [driver : Drivers, prompt : Prompts, n : Lengths, warmup : Nat,
              greedy : BOOLEAN, kuiper : BOOLEAN, verify : BOOLEAN, tol : Nat]
    /\ j.driver # "infer" => j.greedy /\ ~j.kuiper /\ ~j.verify

ASSUME DecodeAssumption ==
    /\ Slack \in Nat
    /\ Lengths \subseteq Nat
    /\ \A p \in Prompts : p \in Seq(Range(p)) /\ p # <<>>
    /\ \A j \in Jobs : CommandLine(j)
    /\ Results \subseteq Seq(Pair)

VARIABLES job,          \* what was asked for
          phase,
          left,         \* iterations left of the loop under way
          cache,        \* slot -> content
          first,        \* the token of the prompt's own pass
          tok_in, pos, step,   \* the step's input tensors
          slot,         \* cumulative_length: where the next key goes
          out,          \* out_buf, or the list gen without its first element
          V,            \* kuipy.verify
          diverged      \* history: a measured step compared a pair that the
                        \* asked tolerance does not allow

vars == <<job, phase, left, cache, first, tok_in, pos, step, slot, out, V, diverged>>
tensors == <<cache, first, tok_in, pos, step, slot, out>>

OnHost == job.driver = "manual"

Plen == Len(job.prompt)
Total == Plen + job.n + Slack
Goal == IF job.n = 0 THEN 1 ELSE job.n

Init == /\ job \in Jobs
        /\ phase = "launch"
        /\ left = 0
        /\ cache = <<>>
        /\ first = Word(0) /\ tok_in = Word(0)
        /\ pos = 0 /\ step = 0 /\ slot = 0
        /\ out = <<>>
        /\ V = Fresh(Ops)
        /\ diverged = FALSE

\* main: --verify needs the kernels; the tolerance is set with the switch off.
Launch ==
    /\ phase = "launch"
    /\ IF job.verify /\ ~job.kuiper
       THEN phase' = "refused" /\ UNCHANGED <<cache, V>>
       ELSE /\ phase' = "throwaway"
            /\ cache' = [s \in 0..(Total - 1) |-> Blank]
            /\ V' = IF job.verify THEN Reset(SetEnabled(V, FALSE, job.tol)) ELSE V
    /\ UNCHANGED <<job, left, first, tok_in, pos, step, slot, out, diverged>>

Prefilled == [s \in DOMAIN cache |->
                 IF s < Plen THEN Reads(job.prompt)[s] ELSE cache[s]]

\* The first prefill only loads kernels; "manual" runs it on another cache.
Throwaway ==
    /\ phase = "throwaway"
    /\ phase' = "prefill"
    /\ cache' = IF OnHost THEN cache ELSE Prefilled
    /\ UNCHANGED <<job, left, first, tok_in, pos, step, slot, out, V, diverged>>

Prefill ==
    /\ phase = "prefill"
    /\ phase' = "warm"
    /\ left' = job.warmup
    /\ cache' = Prefilled
    /\ first' = Choose(Prefilled[Plen - 1])
    /\ tok_in' = first'
    /\ pos' = Plen
    /\ step' = 0
    /\ slot' = Plen
    /\ out' = IF OnHost THEN <<>> ELSE [i \in 1..job.n |-> Word(0)]
    /\ UNCHANGED <<job, V, diverged>>

\* The pass of one token at position p whose key goes to slot s: the mask lets
\* it attend to the slots 0 .. p.
Visible(p, s) == (0..p) \ {s}
Pass(tok, p, s) == Entry(tok, p, [j \in Visible(p, s) |-> cache[j]])

\* The kernels' results of one step, compared when the switch is on.
Compared ==
    IF ~(job.kuiper /\ V.enabled) THEN UNCHANGED <<V, diverged>>
    ELSE \E r \in [Ops -> Results] :
            /\ V' = [V EXCEPT !.stats = [o \in Ops |-> Compare(@[o], r[o], V.tol)]]
            /\ diverged' = (diverged \/ \E o \in Ops : \E i \in 1..Len(r[o]) :
                                 \/ r[o][i].kind = "reshaped"
                                 \/ r[o][i].kind = "measured" /\ r[o][i].rel > job.tol)

\* decode_step of the first three drivers, everything on the device.  An index
\* beyond the tables, the cache or the output buffer is a device-side assert.
DecodeStep ==
    LET entry == Pass(tok_in, pos, pos)
    IN  /\ pos < Total /\ step < job.n
        /\ \E nxt \in NextTokens(entry, job.greedy) :
              /\ out' = [out EXCEPT ![step + 1] = nxt]
              /\ tok_in' = nxt
        /\ cache' = [cache EXCEPT ![pos] = entry]
        /\ pos' = pos + 1
        /\ step' = step + 1
        /\ Compared
        /\ UNCHANGED <<first, slot>>

\* step_forward of "manual": only the write slot moves.
StepForward(tok, p) ==
    /\ slot < Total
    /\ cache' = [cache EXCEPT ![slot] = Pass(tok, p, slot)]
    /\ slot' = slot + 1
    /\ tok_in' = tok
    /\ pos' = p

Fails == IF OnHost THEN slot >= Total ELSE pos >= Total \/ step >= job.n

Break == /\ phase \in {"warm", "decode"} /\ left > 0 /\ Fails
         /\ phase' = "failed"
         /\ UNCHANGED <<job, left, tensors, V, diverged>>

WarmUp ==
    /\ phase = "warm" /\ left > 0
    /\ left' = left - 1
    /\ IF OnHost
       THEN /\ StepForward(tok_in, pos)
            /\ UNCHANGED <<first, step, out, V, diverged>>
       ELSE DecodeStep
    /\ UNCHANGED <<job, phase>>

\* The loop is over.  "golden" and "manual" record their graph here, which runs
\* none of its kernels; torch.compile has recorded its own on the way.
Capture ==
    /\ phase = "warm" /\ left = 0
    /\ phase' = "rewind"
    /\ UNCHANGED <<job, left, tensors, V, diverged>>

\* The warm-up's advances are undone; its contents of the cache are not.
UndoButToken ==
    IF OnHost THEN slot' = Plen /\ UNCHANGED <<tok_in, pos, step>>
              ELSE pos' = Plen /\ step' = 0 /\ UNCHANGED <<tok_in, slot>>
UndoButStep ==
    IF OnHost THEN slot' = Plen /\ UNCHANGED <<tok_in, pos, step>>
              ELSE pos' = Plen /\ tok_in' = first /\ UNCHANGED <<step, slot>>
UndoButLength ==
    IF OnHost THEN UNCHANGED <<tok_in, pos, step, slot>>
              ELSE pos' = Plen /\ step' = 0 /\ tok_in' = first /\ UNCHANGED slot
Undo ==
    IF OnHost THEN slot' = Plen /\ UNCHANGED <<tok_in, pos, step>>
              ELSE pos' = Plen /\ step' = 0 /\ tok_in' = first /\ UNCHANGED slot

SwitchOnByDefault == V' = IF job.verify THEN SetEnabled(V, TRUE, DefaultTol) ELSE V
SwitchOn == V' = IF job.verify THEN SetEnabled(V, TRUE, V.tol) ELSE V

RoundsAll == job.n
Rounds == IF job.n = 0 THEN 0 ELSE job.n - 1

Rewind ==
    /\ phase = "rewind"
    /\ phase' = "decode"
    /\ left' = Rounds
    /\ Undo
    /\ SwitchOn
    /\ UNCHANGED <<job, cache, first, out, diverged>>

\* The measured loop.  "manual" writes the token and the position, replays and
\* reads the logits back.
Replay ==
    LET cur == IF out = <<>> THEN first ELSE out[Len(out)]
        p   == Plen + (Rounds - left)
    IN  /\ StepForward(cur, p)
        /\ out' = Append(out, Choose(cache'[slot]))
        /\ UNCHANGED <<first, step, V, diverged>>

Decode ==
    /\ phase = "decode" /\ left > 0
    /\ left' = left - 1
    /\ IF OnHost THEN Replay ELSE DecodeStep
    /\ UNCHANGED <<job, phase>>

Return ==
    /\ phase = "decode" /\ left = 0
    /\ phase' = "done"
    /\ V' = IF job.verify THEN SetEnabled(V, FALSE, DefaultTol) ELSE V
    /\ UNCHANGED <<job, left, tensors, diverged>>

Next == Launch \/ Throwaway \/ Prefill \/ WarmUp \/ Capture \/ Rewind
          \/ Decode \/ Return \/ Break

Spec == Init /\ [][Next]_vars /\ WF_vars(Next)

---------------------------------------------------------------------------
(* What the caller gets. *)

\* The tokens the driver has settled on.
Text == CASE phase \in {"launch", "throwaway", "prefill", "refused"} -> <<>>
          [] phase \in {"warm", "rewind", "failed"} -> <<first>>
          [] phase \in {"decode", "done"} /\ OnHost -> <<first>> \o out
          [] OTHER -> <<first>> \o SubSeq(out, 1, Goal - 1 - left)

\* A warm-up the buffers have room for: the device's step writes the output
\* buffer from the start, the other one the cache behind the prompt.
Fits(j) == j.warmup <= (IF j.driver = "manual" THEN j.n + Slack ELSE j.n)

Terminal == {"done", "failed", "refused"}

---------------------------------------------------------------------------
(* Properties. *)

\* The counters stay natural numbers, and the buffers as large as they were
\* allocated.
TypeOK ==
    /\ job \in Jobs
    /\ phase \in {"launch", "throwaway", "prefill", "warm", "rewind", "decode"} \cup Terminal
    /\ left \in Nat /\ step \in Nat /\ pos \in Nat /\ slot \in Nat
    /\ phase \notin {"launch", "refused"} => DOMAIN cache = 0..(Total - 1)
    /\ phase \in {"warm", "rewind", "decode"} /\ ~OnHost => DOMAIN out = 1..job.n

\* While decoding, every slot the next step attends to holds the content of
\* the text so far, whatever the warm-up left in the cache ("their KV writes
\* are at slots >= plen, which real replays overwrite before ever attending to
\* them", etc/infer_golden.py:216), and the next key goes right behind them.
StaleUnseen ==
    phase = "decode" =>
        LET next == Plen + Len(Text) - 1
        IN  /\ Reading(cache, job.prompt \o Text, next)
            /\ left > 0 => (IF OnHost THEN slot = next ELSE pos = next)

\* A run breaks off only when its warm-up is longer than the buffers: the
\* measured loop itself never runs out of cache, tables or output buffer.
OnlyLongWarmupFails == phase = "failed" => ~Fits(job)

\* Every run comes to an end: the tokens asked for if the warm-up fits, a
\* failure if it does not, a refusal of --verify without kernels.
Delivers ==
    <>(CASE job.verify /\ ~job.kuiper -> phase = "refused"
         [] Fits(job) -> phase = "done" /\ Len(Text) = Goal
         [] OTHER -> phase = "failed")

\* The report of --verify passes iff no comparison of the measured loop went
\* beyond the tolerance the user asked for: the switch is off in the warm-up,
\* and the tolerance survives turning it on.
VerdictFaithful == phase = "done" /\ job.verify => (Passes(V) <=> ~diverged)

\* Every driver implements the abstract decoder: no token depends on the
\* warm-up, on a slot of the future or on a masked one.
Abstract == INSTANCE Autoregression WITH
    prompt <- job.prompt, want <- job.n, greedy <- job.greedy, text <- Text,
    status <- CASE phase = "done" -> "returned"
                [] phase \in {"failed", "refused"} -> "failed"
                [] OTHER -> "running"
Autoregressive == Abstract!Spec
=============================================================================
