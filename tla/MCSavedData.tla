----------------------------- MODULE MCSavedData -----------------------------
(* An instance of SavedData for TLC: two texts, three writes to the store,  *)
(* of which one creates it.                                                 *)
EXTENDS SavedData, TLC

CONSTANTS s, t
TwoTexts == {s, t}
TextSymmetry == Permutations(TwoTexts)
=============================================================================
