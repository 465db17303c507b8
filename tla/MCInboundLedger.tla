--------------------------- MODULE MCInboundLedger ---------------------------
(* Small instances of InboundLedger for TLC: two requests and two workers   *)
(* racing over a text, an opt-out and a status event.                       *)
EXTENDS InboundLedger

CONSTANTS text1, optOut1, status1, h1, h2, w1, w2

MCHandlers == {h1, h2}
MCWorkers  == {w1, w2}
==============================================================================
