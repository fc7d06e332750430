----------------------------- MODULE MCThreads -----------------------------
(***************************************************************************)
(* The threads that share vNodes, the miner threads, those that share the  *)
(* database files, and the keys of the wallet with its file, for TLC: one  *)
(* of these runs in a behaviour.                                           *)
(***************************************************************************)
EXTENDS Peers, Miner, DbEnv, WalletKeys

VARIABLE active

MCLimits == {1, -1}

threadVars == <<active, peerVars, minerVars, dbVars, keyStoreVars>>

ThreadsInit ==
  /\ active \in {"peers", "miner", "files", "keys"}
  /\ PeerInit /\ MinerInit /\ DbEnvInit /\ WalletKeysInit

\* A bound: the chain while a thread mines without a key of the pool, and once the
\* pool was drained.
KeylessBest == 0

ShortWithoutKeys ==
  \/ best' <= KeylessBest
  \/ /\ ~drained'
     /\ \A t \in Threads : minerAt'[t] \in {"increment", "search"} => reserved'[t] # vchDefaultKey

RunsAlone(component) == active = component /\ UNCHANGED active

ThreadsNext ==
  \/ RunsAlone("peers") /\ PeerNext /\ UNCHANGED <<minerVars, dbVars, keyStoreVars>>
  \/ RunsAlone("miner") /\ MinerNext /\ ShortWithoutKeys /\ UNCHANGED <<peerVars, dbVars, keyStoreVars>>
  \/ RunsAlone("files") /\ DbEnvNext /\ UNCHANGED <<peerVars, minerVars, keyStoreVars>>
  \/ RunsAlone("keys") /\ WalletKeysNext /\ UNCHANGED <<peerVars, minerVars, dbVars>>

\* The fairness of each component, which owes nothing while it rests.
ThreadsSpec ==
  /\ ThreadsInit /\ [][ThreadsNext]_threadVars
  /\ WF_peerVars(active = "peers" /\ SocketThread)
  /\ WF_peerVars(active = "peers" /\ MessageThread)
  /\ \A o \in Openers : WF_peerVars(active = "peers" /\ OpenerThread(o))
  /\ WF_peerVars(active = "peers" /\ ReleaseTimePasses)
  /\ WF_peerVars(active = "peers" /\ StopNodeReturns)
  /\ \A t \in Threads : WF_minerVars(active = "miner" /\ MinerThread(t))

\* At shutdown every thread ends: those that share the nodes behind StopNode, which
\* leaves the message thread nothing to do, and the miners (StopNodeEnds and
\* QuietAfterStop of Peers, MinersEnd of Miner).
ThreadsEnd == StopNodeEnds /\ []QuietAfterStop /\ MinersEnd
=============================================================================
