-------------------------------- MODULE NoneValue --------------------------------
(***************************************************************************)
(* The absent value (a NULL column, a missing row), shared by the modules  *)
(* that one TLC run checks side by side.                                   *)
(***************************************************************************)
CONSTANT None
================================================================================
