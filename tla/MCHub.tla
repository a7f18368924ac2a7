-------------------------------- MODULE MCHub --------------------------------
(* Hub with three connections of one agent in turn, and one tick that sends  *)
(* or none.                                                                  *)
EXTENDS Hub

CONSTANT s1

OneSender == {s1}
\* So that no connection leaves the registry by a failed write.
NoSender  == {}
=============================================================================
