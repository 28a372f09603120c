----------------------------- MODULE MCDispatch -----------------------------
(* Instances of Dispatch for TLC. *)
EXTENDS Dispatch, TLC

CONSTANTS mm, mmTn, softmax, total,
          supergemm, tc2d, bt2d, rowsoftmax, reduce

\* These calls differ in shape or stride, so each has a key of its own.
OwnKeys == [m \in Meta |-> m]

\* mm has a backend that checks its pointers and two that do not; one product
\* has only the first.  A total copies element by element.
Backends == [m \in Meta |->
  CASE m = mm      -> <<supergemm, tc2d, bt2d>>
    [] m = mmTn    -> <<supergemm>>
    [] m = softmax -> <<rowsoftmax>>
    [] OTHER       -> <<reduce>>]

\* The tuner preferred tc2d for mm.
File == [m \in Meta |-> IF m = mm THEN tc2d ELSE None]

MatmulNodes == <<mm, mmTn>>
=============================================================================
