--------------------------- MODULE MCKoryServices ---------------------------
(***************************************************************************)
(* Model values for the services of the TypeScript application that do not *)
(* call one another: a behaviour is one of the one that part names, and    *)
(* the others stay in an initial state of theirs.                          *)
(***************************************************************************)
EXTENDS ProcSupervisor, StreamCoalescer, LiveSocket, FeedLoading, RelaySession, Worktrees,
        AgentThreads

CONSTANTS p1, p2, p3, k1, k2, c1, c2, chat1, chat2, room1, room2, l1, l2,
          g1, h1, h2, t1, t2, a1, a2

MCProc == {p1, p2, p3}
MCKey == {k1, k2}
MCConn == {c1, c2}
MCChat == {chat1, chat2}
MCRoom == {room1, room2}
MCLoad == {l1, l2}
MCGuest == {g1}
MCLink == {h1, h2}
MCTask == {t1, t2}
MCLoop == {a1, a2}

\* Bound: messages in the list of an agent's thread.
MaxDialogue == 8

VARIABLE part

services == <<supVars, chanVars, sockVars, feedVars, relayVars, treeVars, threadVars>>

ServicesInit ==
    /\ part \in {"supervisor", "channel", "socket", "feed", "relay", "worktrees", "threads"}
    /\ SupInit /\ ChanInit /\ SockInit /\ FeedInit /\ RelayInit /\ TreeInit /\ ThreadInit
    /\ part # "relay" => joinMode = "auto"
    /\ part # "worktrees" => onMain
    /\ part # "socket" => refused = {}

ServicesNext ==
    /\ UNCHANGED part
    /\ \/ part = "supervisor" /\ SupNext
          /\ UNCHANGED <<chanVars, sockVars, feedVars, relayVars, treeVars, threadVars>>
       \/ part = "channel" /\ ChanNext
          /\ UNCHANGED <<supVars, sockVars, feedVars, relayVars, treeVars, threadVars>>
       \/ part = "socket" /\ SockNext
          /\ UNCHANGED <<supVars, chanVars, feedVars, relayVars, treeVars, threadVars>>
       \/ part = "feed" /\ FeedNext
          /\ UNCHANGED <<supVars, chanVars, sockVars, relayVars, treeVars, threadVars>>
       \/ part = "relay" /\ RelayNext
          /\ UNCHANGED <<supVars, chanVars, sockVars, feedVars, treeVars, threadVars>>
       \/ part = "worktrees" /\ TreeNext
          /\ UNCHANGED <<supVars, chanVars, sockVars, feedVars, relayVars, threadVars>>
       \/ part = "threads" /\ ThreadNext /\ Len(dialogue') <= MaxDialogue
          /\ UNCHANGED <<supVars, chanVars, sockVars, feedVars, relayVars, treeVars>>

\* In an initial state no action is enabled that must be taken.
ServicesSpec ==
    /\ ServicesInit /\ [][ServicesNext]_<<part, services>>
    /\ SupFairness /\ ChanFairness /\ SockFairness

\* The variables of every service have their types.
ServicesTypeOK ==
    /\ SupTypeOK /\ ChanTypeOK /\ SockTypeOK /\ FeedTypeOK /\ RelayTypeOK /\ TreeTypeOK
    /\ ThreadTypeOK
=============================================================================
