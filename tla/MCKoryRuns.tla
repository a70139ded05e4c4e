----------------------------- MODULE MCKoryRuns -----------------------------
(***************************************************************************)
(* Model values for KoryRuns: two runs of one session.                     *)
(***************************************************************************)
EXTENDS KoryRuns

CONSTANTS r1, r2

MCRun == {r1, r2}
=============================================================================
