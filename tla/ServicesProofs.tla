--------------------------- MODULE ServicesProofs ---------------------------
(***************************************************************************)
(* Theorems about MCKoryServices, where one service of the TypeScript      *)
(* application is at work and the others rest: its behaviours are          *)
(* behaviours of every service, so that what is proved of each holds of    *)
(* what the run kory_services explores.  They hold for every value of the  *)
(* constants of the services, not only for the model values.               *)
(***************************************************************************)
EXTENDS MCKoryServices, WorkspaceProofs, PageProofs, RelaySessionProofs,
        AgentThreadsProofs

\* Every service starts in one of its initial states.
LEMMA ServicesBegin ==
    ServicesInit => /\ SupInit /\ ChanInit /\ SockInit /\ FeedInit /\ RelayInit /\ TreeInit
                    /\ ThreadInit
BY DEF ServicesInit

\* A step is one of the service at work, and every other service rests.
LEMMA ServicesStep ==
    [ServicesNext]_<<part, services>> =>
        /\ [SupNext]_supVars /\ [ChanNext]_chanVars /\ [SockNext]_sockVars
        /\ [FeedNext]_feedVars /\ [RelayNext]_relayVars /\ [TreeNext]_treeVars
        /\ [ThreadNext]_threadVars
<1> SUFFICES ASSUME [ServicesNext]_<<part, services>>
             PROVE  /\ [SupNext]_supVars /\ [ChanNext]_chanVars /\ [SockNext]_sockVars
                    /\ [FeedNext]_feedVars /\ [RelayNext]_relayVars /\ [TreeNext]_treeVars
                    /\ [ThreadNext]_threadVars
  OBVIOUS
<1>1. CASE ServicesNext
  BY <1>1, Zenon DEF ServicesNext
<1>2. CASE UNCHANGED <<part, services>>
  <2>1. UNCHANGED services
    BY <1>2
  <2>2. UNCHANGED <<supVars, chanVars, sockVars, feedVars, relayVars, treeVars, threadVars>>
    BY <2>1 DEF services
  <2>3. QED
    BY <2>2
<1>3. QED
  BY <1>1, <1>2

\* A behaviour of the services, one at work, is a behaviour of each: so the
\* instance is composed (ServicesNext lets the others rest), and what is proved
\* of a service alone holds of what the run kory_services explores.
LEMMA ServicesCompose ==
    ServicesSpec => /\ SupSpec /\ ChanSpec /\ SockSpec /\ FeedSpec /\ RelaySpec /\ TreeSpec
                    /\ ThreadSpec
BY ServicesBegin, ServicesStep, PTL
   DEF ServicesSpec, SupSpec, ChanSpec, SockSpec, FeedSpec, RelaySpec, TreeSpec, ThreadSpec

\* The variables of every service keep their types, for every set of
\* processes, keys, connections, chats, loads, guests, tasks and loops.
THEOREM ServicesTypeCorrect == ServicesSpec => []ServicesTypeOK
<1>1. /\ SupTypeOK /\ ChanTypeOK /\ SockTypeOK /\ FeedTypeOK /\ RelayTypeOK /\ TreeTypeOK
      /\ ThreadTypeOK
      => ServicesTypeOK
  BY DEF ServicesTypeOK
<1>2. QED
  BY <1>1, ServicesCompose, SupTypeCorrect, ChanTypeCorrect, SockTypeCorrect,
     FeedTypeCorrect, RelayTypeCorrect, TreeTypeCorrect, ThreadTypeCorrect, PTL
=============================================================================
