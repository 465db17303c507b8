--------------------------- MODULE MCDeliveryStatus ---------------------------
(* One message, up to three reports and one or two status jobs at a time.    *)
EXTENDS DeliveryStatus

CONSTANTS t1, t2

WithFailure  == {"SENT", "DELIVERED", "READ", "FAILED"}
===============================================================================
