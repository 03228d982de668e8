-------------------------------- MODULE MCCloud --------------------------------
(* Two clients that scan one code; one device's connection to the Mac; one  *)
(* device, and two ways to be notified.                                     *)
EXTENDS Cloud, TLC

CONSTANTS x, y, z

Off == [enabled |-> FALSE, subscribed |-> {"failure"}, criticalOnly |-> FALSE,
        quietHours |-> FALSE]
Calm == [enabled |-> TRUE, subscribed |-> {"result"}, criticalOnly |-> FALSE,
         quietHours |-> TRUE]
MCSettings == {Off, Calm}
MCSaid == <<2, 0>>
=============================================================================
