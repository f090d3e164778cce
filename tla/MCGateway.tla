----------------------------- MODULE MCGateway -----------------------------
(***************************************************************************)
(* Small instances of Gateway: one receivable whose amount is no whole     *)
(* number of dongs, a little above one (rounded down) or a little below    *)
(* two (rounded up), or exact.                                             *)
(***************************************************************************)
EXTENDS Gateway

OneStudent  == <<1>>
FirstOnly   == {<<1>>}
=============================================================================
