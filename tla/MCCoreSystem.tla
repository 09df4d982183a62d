---------------------------- MODULE MCCoreSystem ----------------------------
(***************************************************************************)
(* CoreSystem for TLC.  A unit of time is half a minute; the five minutes  *)
(* of active are cut to what is longer than the other timeouts.            *)
(***************************************************************************)
EXTENDS CoreSystem

MCAllModes == Modes
=============================================================================
