------------------------------ MODULE MCMirror ------------------------------
(* Captions of all three sorts: replayed and sent at every start, replayed  *)
(* only, and neither.                                                       *)
EXTENDS Mirror

MCMaxLines == [state |-> 3, reply |-> 1, hwscore |-> 1]
=============================================================================
