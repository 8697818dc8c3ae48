-------------------------------- MODULE Vec ---------------------------------
(***************************************************************************)
(* What the contracts do with a Rust Vec that the Sequences module offers  *)
(* only in a form no proof can unfold.                                     *)
(***************************************************************************)
EXTENDS Integers, Sequences

\* retain(|y| !gone.contains(y)): every element in gone goes, the others keep
\* their order.
RetainOutside(vec, gone) ==
    LET kept[n \in 0..Len(vec)] ==
            IF n = 0 THEN <<>>
            ELSE IF vec[n] \in gone THEN kept[n - 1]
            ELSE Append(kept[n - 1], vec[n])
    IN  kept[Len(vec)]

\* retain(|y| y != x): every occurrence of x goes.
Retain(vec, x) == RetainOutside(vec, {x})
=============================================================================
