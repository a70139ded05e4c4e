--------------------------- MODULE MCSessionStore ---------------------------
(***************************************************************************)
(* Model values for SessionStore.                                          *)
(***************************************************************************)
EXTENDS SessionStore, TLC

CONSTANTS s1, s2, s3, hello

MCTwoSessions == {s1, s2}
MCThreeSessions == {s1, s2, s3}
MCOneText == {hello}

User(t) == [role |-> "user", text |-> t]
Answered(t) == [role |-> "assistant", text |-> t]

\* An imported data directory: nothing said yet, or one answered prompt.
MCImported == {<<>>, <<User(hello), Answered(hello)>>}

Symmetry == Permutations(SessionId)
=============================================================================
