------------------------- MODULE MCWorkshopDelivery -------------------------
(* Small instances of WorkshopDelivery for TLC. *)
EXTENDS WorkshopDelivery, TLC
=============================================================================
