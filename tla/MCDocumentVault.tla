--------------------------- MODULE MCDocumentVault ---------------------------
(* Instances of DocumentVault for TLC. *)
EXTENDS DocumentVault, TLC
Alike == Permutations(Uploader) \cup Permutations(Scanner) \cup Permutations(Reader)
=============================================================================
