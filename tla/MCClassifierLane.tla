--------------------------- MODULE MCClassifierLane ---------------------------
(* ClassifierLane on small sets.  Loops, and the comments every guard      *)
(* treats alike, are interchangeable, so the safety runs use symmetry.     *)
EXTENDS ClassifierLane, TLC

Interchangeable ==
  Permutations(Loops) \cup Permutations(Permitted \cap Fresh)
=============================================================================
