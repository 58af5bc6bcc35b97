----------------------------- MODULE MCSdioLink -----------------------------
(***************************************************************************)
(* SdioLink for TLC: two writers, two buffers, and counters that wrap      *)
(* around after a few packets.  A counter begins as after a restart, or    *)
(* after use, where the other is as after a restart: the two directions of *)
(* the link share no counter.                                              *)
(***************************************************************************)
EXTENDS SdioLink

MCWriter == {"net", "serial"}
MCLengths == {1, 2}
MCInit == Init /\ <<token, len>> \in {<<2, 2>>, <<0, 0>>}
MCSpec == MCInit /\ [][Next]_vars /\ Fairness
=============================================================================
