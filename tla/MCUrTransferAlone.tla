--------------------------- MODULE MCUrTransferAlone ---------------------------
(***************************************************************************)
(* The instance of UrTransfer with one sender in view and limits that have  *)
(* room.                                                                   *)
(***************************************************************************)
EXTENDS MCUrTransfer

ASSUME AloneAssumption == Alone
=============================================================================
