--------------------------- MODULE MCAudioServer ---------------------------
(***************************************************************************)
(* AudioServer for TLC: sockets are interchangeable.                       *)
(***************************************************************************)
EXTENDS AudioServer, TLC

SocketSymmetry == Permutations(Sockets)
=============================================================================
