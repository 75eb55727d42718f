-------------------------------- MODULE Loops --------------------------------
(***************************************************************************)
(* One step after the other.  TLC evaluates the argument of an operator    *)
(* where it is used: what a computation of many steps begins with would be *)
(* computed deep inside its last.  The elements of a set are computed      *)
(* before anything is said of them.                                        *)
(***************************************************************************)
EXTENDS Naturals, Sequences

\* Step(r), r computed first.
Then(r, Step(_)) == CHOOSE t \in {Step(computed) : computed \in {r}} : TRUE

(* What a loop leaves behind that begins with start and takes a turn for     *)
(* each element of s: FoldLeft of SequencesExt, the turns halved again and   *)
(* again, where a fold nests as deep as the sequence is long.                *)
Loop(Turn(_, _), start, s) ==
  LET RECURSIVE Turns(_, _, _)
      Turns(r, i, n) ==      \* n turns, the first for element i
        LET half    == n \div 2
            Rest(q) == Turns(q, i + half, n - half)
        IN CASE n = 0 -> r [] n = 1 -> Turn(r, s[i]) [] n > 1 -> Then(Turns(r, i, half), Rest)
  IN Turns(start, 1, Len(s))
=============================================================================
