---------------------------- MODULE MCReadToEnd ----------------------------
(* A TLC instance of ReadToEnd: chunks of three bytes, a cap of four, and  *)
(* eight bytes on both sides of every sign boundary.                       *)
EXTENDS ReadToEnd

MCData == <<0, 255, 127, 128, 1, 254, 200, 65>>

=============================================================================
