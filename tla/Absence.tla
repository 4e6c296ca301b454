-------------------------------- MODULE Absence --------------------------------
(***************************************************************************)
(* What stands for the source's None, for NULL and for a missing file.     *)
(***************************************************************************)
CONSTANT None
===============================================================================
