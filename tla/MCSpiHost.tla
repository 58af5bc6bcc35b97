----------------------------- MODULE MCSpiHost -----------------------------
(***************************************************************************)
(* SpiHost for TLC: two network devices, and limits small enough for them  *)
(* to be stopped and woken.                                                *)
(***************************************************************************)
EXTENDS SpiHost

MCNetDev == {"ethsta0", "ethap0"}
=============================================================================
