---------------------------- MODULE Conversations ----------------------------
(***************************************************************************)
(* What the session store promises about the conversations on disk, with   *)
(* the in-memory list, the files and their order of writing left out:      *)
(* each conversation starts empty, changes only by one message at a time,  *)
(* loses only the answer of a trailing prompt/answer pair, disappears as a *)
(* whole, and never comes back.                                            *)
(***************************************************************************)
EXTENDS Integers, Sequences

CONSTANTS Id, Msg, Answer, Start

\* Messages are opaque here, apart from which of them are answers; Start is
\* the set of histories a conversation may be found with.

VARIABLES phase,  \* per conversation: "never", "live" or "gone"
          log     \* its messages, empty unless it is live

convVars == <<phase, log>>

ConvInit ==
    \/ /\ phase = [c \in Id |-> "never"]
       /\ log = [c \in Id |-> <<>>]
    \/ \E c \in Id, h \in Start :
          /\ phase = [x \in Id |-> IF x = c THEN "live" ELSE "never"]
          /\ log = [x \in Id |-> IF x = c THEN h ELSE <<>>]

Begin(c) == /\ phase[c] = "never"
            /\ phase' = [phase EXCEPT ![c] = "live"]
            /\ UNCHANGED log

Say(c, m) == /\ phase[c] = "live"
             /\ log' = [log EXCEPT ![c] = Append(@, m)]
             /\ UNCHANGED phase

Retract(c) == /\ phase[c] = "live"
              /\ Len(log[c]) >= 2
              /\ log[c][Len(log[c])] \in Answer
              /\ log[c][Len(log[c]) - 1] \notin Answer
              /\ log' = [log EXCEPT ![c] = SubSeq(@, 1, Len(@) - 1)]
              /\ UNCHANGED phase

\* A live conversation is removed, or one is given up before it began.
Remove(c) == /\ phase[c] # "gone"
             /\ phase' = [phase EXCEPT ![c] = "gone"]
             /\ log' = [log EXCEPT ![c] = <<>>]

ConvNext == \E c \in Id : \/ Begin(c)
                          \/ \E m \in Msg : Say(c, m)
                          \/ Retract(c)
                          \/ Remove(c)

ConvSpec == ConvInit /\ [][ConvNext]_convVars
=============================================================================
