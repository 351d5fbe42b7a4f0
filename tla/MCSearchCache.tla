------------------------------ MODULE MCSearchCache ------------------------------
(* The instances of SearchCache that TLC checks.                                *)
EXTENDS SearchCache

NoFaults   == {}
EveryFault == {"error", "forget"}

===============================================================================
