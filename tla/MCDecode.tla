------------------------------ MODULE MCDecode ------------------------------
(***************************************************************************)
(* Small jobs for Decode: prompts of one and two tokens, up to three       *)
(* tokens asked for, warm-ups that fit and that do not.                    *)
(***************************************************************************)
EXTENDS Decode

PromptSet == {<<Word(1)>>, <<Word(1), Word(2)>>}

Plain == {j \in [driver : Drivers, prompt : PromptSet, n : 0..3, warmup : 0..5,
                 greedy : BOOLEAN, kuiper : {FALSE}, verify : {FALSE}, tol : {DefaultTol}] :
             j.driver # "infer" => j.greedy}

\* --verify, with a stricter and a laxer tolerance than the default.
Verified == [driver : {"infer"}, prompt : {<<Word(1)>>}, n : {2, 3}, warmup : {0, 2, 4},
             greedy : {TRUE}, kuiper : BOOLEAN, verify : {TRUE}, tol : {1, 3}]

JobSet == Plain \cup Verified

\* The ways a comparison can go, one of them of two tensors, and a fallback.
ResultSet == {<<Measured(2)>>, <<Measured(4), Measured(1)>>, <<Special("integer")>>,
              <<Special("reshaped")>>, <<Special("undefined")>>, <<>>}
=============================================================================
