---------------------------- MODULE MCNativeTurn ----------------------------
(***************************************************************************)
(* Model values for NativeTurn.                                            *)
(***************************************************************************)
EXTENDS NativeTurn

CONSTANTS s1, s2

MCOneSession == {s1}
MCTwoSessions == {s1, s2}
MCText == [turn : Turn, records : 0 .. MaxRecords, stopped : BOOLEAN]
MCImported == {}
=============================================================================
