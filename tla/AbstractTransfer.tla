-------------------------- MODULE AbstractTransfer --------------------------
(***************************************************************************)
(* What a transfer promises, with no frames, files or checkpoints: senders *)
(* offer contents, an offered content appears at the destination in one    *)
(* step and in its entirety, an existing destination is replaced only when *)
(* overwriting is allowed, and a sender gets a receipt for a content only  *)
(* once that content has been delivered.                                   *)
(***************************************************************************)
CONSTANTS Clients, Overwrite, None

VARIABLES
    offers,     \* contents that senders have hashed and announced
    delivered,  \* contents that have been at the destination
    place,      \* content of the destination, or None
    receipt     \* receipt[c]: content c holds a receipt for, or None

vars == <<offers, delivered, place, receipt>>

Init == /\ offers = {} /\ delivered = {}
        /\ place = None
        /\ receipt = [c \in Clients |-> None]

Offer(d) == /\ offers' = offers \cup {d}
            /\ UNCHANGED <<delivered, place, receipt>>

Deliver(d) == /\ d \in offers
              /\ place = None \/ Overwrite
              /\ place' = d
              /\ delivered' = delivered \cup {d}
              /\ UNCHANGED <<offers, receipt>>

Confirm(c, d) == /\ d \in delivered
                 /\ receipt' = [receipt EXCEPT ![c] = d]
                 /\ UNCHANGED <<offers, delivered, place>>

\* The sender starts over with another content.
Renew(c) == /\ receipt' = [receipt EXCEPT ![c] = None]
            /\ UNCHANGED <<offers, delivered, place>>

\* Which content is offered is the sender's choice alone.
Next == \/ \E d \in offers' : Offer(d)
        \/ \E d \in offers : Deliver(d)
        \/ \E c \in Clients : Renew(c) \/ \E d \in delivered : Confirm(c, d)

Spec == Init /\ [][Next]_vars
=============================================================================
