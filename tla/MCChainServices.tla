-------------------------- MODULE MCChainServices --------------------------
(***************************************************************************)
(* The services of the other chains. They share nothing but the table of    *)
(* swaps and write different rows of it: a behaviour is one of one of them,  *)
(* `service`.                                                               *)
(***************************************************************************)
EXTENDS EvmWatcher, EvmExecutor, SolanaSwap

VARIABLE service

servicesVars == <<service, evmWatcherVars, exVars, solVars>>

ServicesInit ==
  /\ service \in {"evm-watcher", "evm-executor", "solana"}
  /\ EvmWatcherInit /\ ExecutorInit /\ SolanaInit

EvmWatcherOnly ==
  service = "evm-watcher" /\ UNCHANGED <<service, exVars, solVars>>
ExecutorOnly ==
  service = "evm-executor" /\ UNCHANGED <<service, evmWatcherVars, solVars>>
SolanaOnly ==
  service = "solana" /\ UNCHANGED <<service, evmWatcherVars, exVars>>

ServicesNext ==
  \/ EvmWatcherOnly /\ EvmWatcherNext
  \/ ExecutorOnly /\ ExecutorNext
  \/ SolanaOnly /\ SolanaNext

\* The fairness of each component in its scenario: the n-th actions of the
\* three are never possible together.
ServicesWeak(n) ==
  \/ n <= 2 /\ EvmWatcherOnly /\ EvmWatcherWeak(n)
  \/ n <= 2 /\ ExecutorOnly /\ ExecutorWeak(n)
  \/ n <= 5 /\ SolanaOnly /\ SolanaWeak(n)
  \/ n > 5 /\ ExecutorOnly /\ \E o \in ExOrder : ExRowCatchesUp(o)

CONSTANTS p, c  \* the order that is paid and the one that is claimed

ServicesStrong(n) ==
  \/ n <= 5 /\ EvmWatcherOnly /\ EvmWatcherStrong(n)
  \/ n <= 3 /\ ExecutorOnly /\ ExecutorStrong(n, p)
  \/ n > 3 /\ ExecutorOnly /\ ExecutorStrong(n - 3, c)
  \/ n <= 3 /\ SolanaOnly /\ SolanaStrong(n)

ServicesSpec ==
  /\ ServicesInit /\ [][ServicesNext]_servicesVars
  /\ \A n \in 1 .. 6 : /\ WF_servicesVars(ServicesWeak(n))
                        /\ SF_servicesVars(ServicesStrong(n))
=============================================================================
