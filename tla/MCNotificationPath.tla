------------------------- MODULE MCNotificationPath -------------------------
(* Small instances of NotificationPath for TLC.                            *)
EXTENDS NotificationPath, TLC

CONSTANTS b1, b2, n1, c1, s1

\* A batch of one notification, and one that cannot be decoded.
MCItems == (b1 :> {n1}) @@ (b2 :> {})

\* The batch that comes back for ever is put on its queue only where nothing
\* goes on to the delivery queue.
Apart == savePlace[b2] # "unsent" => place[n1] = "unsent"

MCSpec ==
    /\ PathInit /\ \A b \in Unreadable : signed[b]
    /\ [][PathNext /\ Apart']_pathVars
    /\ FairSave /\ FairDelivery
=============================================================================
