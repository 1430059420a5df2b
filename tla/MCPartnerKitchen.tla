--------------------------- MODULE MCPartnerKitchen -------------------------
(***************************************************************************)
(* Small instances of PartnerKitchen for TLC.                              *)
(***************************************************************************)
EXTENDS PartnerKitchen

MCEvent == [order: OrderId, status: Statuses]

\* Every order's creation is announced, and the partner has a webhook URL while it is accepted.
MCHooked == [order: OrderId, status: {"created", "accepted"}]

OnlyCreated == [order: OrderId, status: {"created"}]
=============================================================================
