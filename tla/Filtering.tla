----------------------------- MODULE Filtering -----------------------------
(* Vec::retain and Iterator::filter: what is left of a sequence when some   *)
(* elements are taken out.                                                  *)
EXTENDS Naturals, Sequences, SequencesExt

Without(s, gone) ==
  LET kept[i \in 0 .. Len(s)] ==
        IF i = 0 THEN <<>>
        ELSE IF s[i] \in gone THEN kept[i - 1] ELSE Append(kept[i - 1], s[i])
  IN  kept[Len(s)]
=============================================================================
