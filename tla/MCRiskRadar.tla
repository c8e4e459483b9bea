------------------------------- MODULE MCRiskRadar -------------------------------
(***************************************************************************)
(* One bank account whose matching drafts entries, and the finding of a    *)
(* miscoded bill.  Pat prepares, Rae reviews, Ada is the admin.            *)
(***************************************************************************)
EXTENDS RiskRadar, TLC

RoleOf == [u \in Users |-> CASE u = "Pat" -> "preparer" [] u = "Rae" -> "reviewer"
                              [] OTHER -> "admin"]

(* The rows of the queue are interchangeable.                               *)
RowSymmetry == Permutations(Rows)

Pairs == [f \in Findings |-> "vendor on account"]
================================================================================
