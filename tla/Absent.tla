-------------------------------- MODULE Absent --------------------------------
(***************************************************************************)
(* The empty string, a missing key, a file that is not there.              *)
(***************************************************************************)
CONSTANT None
===============================================================================
