-------------------------------- MODULE Absent --------------------------------
(***************************************************************************)
(* The value of an optional field that is not there, or of a text that is     *)
(* blank, shared by the modules of rules.                                    *)
(***************************************************************************)
CONSTANT None
=============================================================================
