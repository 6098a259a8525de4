--------------------------- MODULE MCAdminConsole ---------------------------
(* Small instance of AdminConsole: the owner, two users, one custom role    *)
(* with the permissions role create gives or with every named one, and one   *)
(* session at a time.                                                       *)
EXTENDS AdminConsole, TLC

MCCustomPermissions == {Basic, Named}
MCSymmetry == Permutations(Users \ {Owner})
===============================================================================
