-------------------------- MODULE AbstractDelivery --------------------------
(***************************************************************************)
(* What AbstractTransfer promises, on a disk that learns of a new name     *)
(* some time after the call that made it: a loss of power returns the      *)
(* destination to the content that was known to be there, as a whole, and  *)
(* takes back no receipt.                                                  *)
(***************************************************************************)
EXTENDS AbstractTransfer

VARIABLE
    stable      \* content of the destination on stable storage, or None

\* The destination is written back.
Settle == stable' = place /\ UNCHANGED vars

\* Power is lost before it was.
LoseName == place' = stable /\ UNCHANGED <<offers, delivered, receipt, stable>>

DeliveryInit == Init /\ stable = None
DeliveryNext == (Next /\ UNCHANGED stable) \/ Settle \/ LoseName
DeliverySpec == DeliveryInit /\ [][DeliveryNext]_<<vars, stable>>
=============================================================================
