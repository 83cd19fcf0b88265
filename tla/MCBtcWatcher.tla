---------------------------- MODULE MCBtcWatcher ----------------------------
(* One swap. In the first scenario its deposit, which has a screened rival, *)
(* is redeemed and the deadline is far; in the second it has no rival and is*)
(* refunded; in the third the deposits are never spent.                     *)
EXTENDS BtcWatcher

CONSTANTS d, e  \* the deposits

Deadline == "deadline"

VARIABLE never  \* bound: the transactions that are not sent, and Deadline if it does not pass

SingleOutput(t) == <<SwapAmount>>

MCWatcherInit ==
  /\ WatcherInit
  /\ never \in {Refunds \cup {Deadline}, Redeems \cup {e}, Redeems \cup Refunds}

MCWatcherNext ==
  /\ WatcherNext /\ UNCHANGED never
  /\ \A t \in never \cap BtcTx : place'[t] = Absent
  /\ Deadline \in never => ~expired'

MCWatcherSpec ==
  MCWatcherInit /\ [][MCWatcherNext]_<<watcherVars, never>> /\ WatcherFairness
=============================================================================
