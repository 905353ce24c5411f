-------------------------------- MODULE MCTimer --------------------------------
(* A counter of six to the second, three to a tick, and one too slow for the  *)
(* tick rate, over time enough for a sleep of one second.                     *)
EXTENDS Timer
================================================================================
