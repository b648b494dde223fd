------------------------------- MODULE Arrays -------------------------------
(***************************************************************************)
(* What the Motoko library does with arrays that a sequence does not offer *)
(* by itself.                                                              *)
(***************************************************************************)
EXTENDS SequencesExt

(* The elements that are in a set, in their order: SelectSeq with a set in *)
(* place of a test, and as a recursive function, which can be proved about.*)
Kept(s, keep) ==
    LET kept[n \in 0 .. Len(s)] ==
            IF n = 0 THEN << >>
            ELSE IF s[n] \in keep THEN Append(kept[n - 1], s[n]) ELSE kept[n - 1]
    IN  kept[Len(s)]
=============================================================================
