---------------------------- MODULE MCConnection ----------------------------
(***************************************************************************)
(* Keys are only compared with NoXOR, so one key is enough.                *)
(***************************************************************************)
EXTENDS Connection

=============================================================================
