------------------------------ MODULE MCGitWalk ------------------------------
(***************************************************************************)
(* Instances of GitWalk for TLC.  A history with a late merge:             *)
(*                                                                         *)
(*          1 <- 3 <- 4 (later rewritten away)                             *)
(*           \     \                                                       *)
(*            2 <-- 5 <- 6                                                 *)
(***************************************************************************)
EXTENDS GitWalk, TLC

History == [c \in 1..6 |-> CASE c = 1 -> {1} [] c = 2 -> {1, 2} [] c = 3 -> {1, 3}
                             [] c = 4 -> {1, 3, 4} [] c = 5 -> {1, 2, 3, 5}
                             [] OTHER -> {1, 2, 3, 5, 6}]

Start == [r \in {"bitcoin", "ldk"} |-> IF r = "bitcoin" THEN 4 ELSE 2]
=============================================================================
