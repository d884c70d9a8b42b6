--------------------------- MODULE MCWhatsappStatus ---------------------------
EXTENDS WhatsappStatus

CONSTANTS b1, b2

\* Two batches that have a status in common; the second one brings a reply.
Batches == [b \in Bodies |-> IF b = b1 THEN <<"delivered">> ELSE <<Reply, "sent", "delivered">>]
=============================================================================
