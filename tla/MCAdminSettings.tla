-------------------------- MODULE MCAdminSettings --------------------------
(* AdminSettings with two folders, two ports and two sizes.                *)
EXTENDS AdminSettings, TLC

CONSTANTS a1, a2, d1, d2

\* Which of the administrators is which does not matter.
Alike == Permutations(Admins)

FirstDefaults == [dir |-> d1, port |-> 1, parallel |-> 1, chunk |-> 1, max |-> 1]
=============================================================================
