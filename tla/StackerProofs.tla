--------------------------- MODULE StackerProofs ----------------------------
(***************************************************************************)
(* Proofs about the stacker, for any strategies, ticks, quotes and prices: a*)
(* strategy is not left executing, what is delegated is in the executions  *)
(* table, and the position that is as old as the last unbonding is covered.*)
(***************************************************************************)
EXTENDS StackerKeeper, StackerVault, SequenceTheorems, SumLemmas

-----------------------------------------------------------------------------
(* The keeper is never stuck. A row says `executing` from a tick's mark to  *)
(* the end of some tick's run of the strategy, and a run is not given up    *)
(* before its execution has an outcome.                                     *)

BeforeRun == {"grants", "expire", "balance", "create"}
InRun == {"mark"} \cup Working

TickRecord == [pc : {"idle", "next"} \cup BeforeRun \cup InRun, now : Nat,
               left : SUBSET Strategy, s : Strategy \cup {"none"}, amount : Nat,
               run : 0 .. Runs]
RunRecord == [strategy : Strategy \cup {"none"},
              status : {"none", "providing", "success", "failed"}, amount : Nat]
RowRecord == [status : {"grant_pending", "active", "executing", "expired", "paused"},
              next : Nat]
SentRecord == [run : 1 .. Runs, amount : Nat]
GrantRecord == [status : {"none", "pending", "active"}, expires : Nat]
RequestRecord == [op : {"none", "paused", "active", "confirm"},
                  s : Strategy \cup {"none"}, expires : Nat]

\* What a tick knows of its run.
TickFits(x, exec) ==
  /\ x \in TickRecord
  /\ x.pc \notin {"idle", "next"} => x.s # "none"
  /\ x.pc \in InRun => /\ x.run # 0 /\ exec[x.run].strategy = x.s
                       /\ exec[x.run].status # "none"
  /\ x.pc \in {"sync", "reopen"} => exec[x.run].status # "providing"
  /\ x.pc \notin InRun => x.run = 0

StackerTypes ==
  /\ stNow \in Nat /\ stBalance \in Nat
  /\ stRow \in [Strategy -> RowRecord]
  /\ stExec \in [1 .. Runs -> RunRecord]
  /\ stGrant \in GrantRecord
  /\ stApi \in RequestRecord
  /\ stSent \subseteq SentRecord
  /\ stApi.op # "none" => stApi.s # "none"

TicksFit ==
  /\ DOMAIN stTick = Tick
  /\ \A t \in Tick : TickFits(stTick[t], stExec)

KeeperInv == StackerTypes /\ TicksFit /\ KeeperNeverStuck

\* The bounds are natural numbers, and no strategy is called none.
LEMMA StackerNumbers ==
  /\ Runs \in Nat /\ Deposit \in Nat /\ MaxPerRun \in Nat
  /\ Cooldown \in Nat /\ GrantLife \in Nat /\ "none" \notin Strategy
BY StackerAssumption DEF StackerAssumption

\* A tick at rest is in the middle of no run.
LEMMA IdleTickFits == ASSUME NEW exec PROVE TickFits(NoTick, exec)
BY StackerNumbers DEF TickFits, NoTick, TickRecord, InRun, Working

\* The invariant holds before the first tick.
LEMMA KeeperInitInv == StackerInit => KeeperInv
<1> SUFFICES ASSUME StackerInit PROVE KeeperInv
    OBVIOUS
<1> USE StackerNumbers
<1>1. NoRun \in RunRecord
      BY DEF NoRun, RunRecord
<1>2. TicksFit
      BY IdleTickFits DEF StackerInit, TicksFit
<1>3. KeeperNeverStuck
      BY DEF StackerInit, KeeperNeverStuck, NoRun
<1>4. StackerTypes
  <2>1. stRow \in [Strategy -> RowRecord]
        BY DEF StackerInit, RowRecord
  <2>2. stExec \in [1 .. Runs -> RunRecord]
        BY <1>1 DEF StackerInit
  <2>3. stGrant \in GrantRecord
        BY DEF StackerInit, GrantRecord
  <2>4. stApi \in RequestRecord /\ (stApi.op # "none" => stApi.s # "none")
        BY DEF StackerInit, NoRequest, RequestRecord
  <2>5. stSent \subseteq SentRecord
        BY DEF StackerInit
  <2> QED BY <2>1, <2>2, <2>3, <2>4, <2>5 DEF StackerInit, StackerTypes
<1> QED BY <1>2, <1>3, <1>4 DEF KeeperInv

\* A step of one tick: the row of no other strategy starts to execute, no
\* other run starts, and what the tick was at work on is either still its
\* work, or done, or cut short.
LEMMA OneTickMoves ==
  ASSUME TicksFit, KeeperNeverStuck, NEW t \in Tick, NEW y,
         stTick' = [stTick EXCEPT ![t] = y],
         TickFits(y, stExec'),
         \A u \in Tick \ {t} : TickFits(stTick[u], stExec'),
         stCut \subseteq stCut',
         \A s \in Strategy \ stCut' : stRow'[s].status = "executing" =>
            stRow[s].status = "executing" \/ (y.s = s /\ y.pc \in Working),
         \/ stTick[t].pc \notin Working \/ stTick[t].s \in stCut'
         \/ y.s = stTick[t].s /\ y.pc \in Working
         \/ stRow'[stTick[t].s].status # "executing",
         \A r \in 1 .. Runs : stExec'[r].status = "providing" =>
            \/ stExec[r].status = "providing"
                /\ stExec[r].strategy = stExec'[r].strategy
            \/ y.run = r,
         \/ y.run = stTick[t].run \/ stTick[t].run = 0
         \/ stExec'[stTick[t].run].status # "providing"
         \/ stExec[stTick[t].run].strategy \in stCut'
  PROVE  TicksFit' /\ KeeperNeverStuck'
<1>1. /\ DOMAIN stTick' = Tick /\ stTick'[t] = y
      /\ \A u \in Tick \ {t} : stTick'[u] = stTick[u]
      BY DEF TicksFit
<1>2. TicksFit'
  <2>1. \A u \in Tick : TickFits(stTick'[u], stExec')
        BY <1>1
  <2> QED BY <1>1, <2>1 DEF TicksFit
<1>3. ASSUME NEW s \in Strategy \ stCut', stRow'[s].status = "executing"
      PROVE  \E u \in Tick : stTick'[u].s = s /\ stTick'[u].pc \in Working
  <2>1. CASE y.s = s /\ y.pc \in Working
        BY <2>1, <1>1
  <2>2. CASE stRow[s].status = "executing"
    <3>1. PICK u \in Tick : stTick[u].s = s /\ stTick[u].pc \in Working
          BY <2>2, <1>3 DEF KeeperNeverStuck
    <3>2. CASE u = t
          BY <3>1, <3>2, <1>1, <1>3
    <3>3. CASE u # t
          BY <3>1, <3>3, <1>1
    <3> QED BY <3>2, <3>3
  <2> QED BY <2>1, <2>2, <1>3
<1>4. ASSUME NEW s \in Strategy \ stCut', NEW r \in 1 .. Runs,
             stExec'[r].strategy = s, stExec'[r].status = "providing"
      PROVE  \E u \in Tick : stTick'[u].run = r
  <2>1. CASE y.run = r
        BY <2>1, <1>1
  <2>2. CASE stExec[r].status = "providing" /\ stExec[r].strategy = s
    <3>1. PICK u \in Tick : stTick[u].run = r
          BY <2>2, <1>4 DEF KeeperNeverStuck
    <3>2. CASE u = t
          BY <3>1, <3>2, <1>1, <1>4, <2>2
    <3>3. CASE u # t
          BY <3>1, <3>3, <1>1
    <3> QED BY <3>2, <3>3
  <2> QED BY <2>1, <2>2, <1>4
<1> QED BY <1>2, <1>3, <1>4 DEF KeeperNeverStuck

\* What a tick is when its loop goes on.
LEMMA LoopTick ==
  ASSUME NEW t \in Tick, TickFits(stTick[t], stExec), NEW done, NEW exec,
         LoopGoesOn(t, done)
  PROVE  \E y : /\ stTick' = [stTick EXCEPT ![t] = y]
                /\ TickFits(y, exec) /\ y.run = 0
<1> DEFINE rest == stTick[t].left \ done
           y == IF rest = {} THEN NoTick
                ELSE [NoTick EXCEPT !.pc = "next", !.now = stTick[t].now, !.left = rest]
<1>1. stTick' = [stTick EXCEPT ![t] = y]
      BY DEF LoopGoesOn
<1>2. stTick[t].now \in Nat /\ rest \subseteq Strategy
      BY DEF TickFits, TickRecord
<1>3. CASE rest = {}
  <2>1. y = NoTick
        BY <1>3
  <2>2. stTick' = [stTick EXCEPT ![t] = NoTick]
        BY <1>1, <2>1
  <2>3. TickFits(NoTick, exec) /\ NoTick.run = 0
        BY IdleTickFits DEF NoTick
  <2> QED BY <2>2, <2>3
<1>4. CASE rest # {}
  <2> DEFINE z == [pc |-> "next", now |-> stTick[t].now, left |-> rest, s |-> "none",
                   amount |-> 0, run |-> 0]
  <2>1. y = z
        BY <1>4 DEF NoTick
  <2>2. TickFits(z, exec) /\ z.run = 0
        BY <1>2, StackerNumbers DEF TickFits, TickRecord, InRun, Working
  <2>3. stTick' = [stTick EXCEPT ![t] = z]
        BY <1>1, <2>1
  <2> HIDE DEF z
  <2> QED BY <2>2, <2>3
<1> QED BY <1>3, <1>4

\* A tick goes on to its next statement.
WithPc(x, pc) == [pc |-> pc, now |-> x.now, left |-> x.left, s |-> x.s,
                  amount |-> x.amount, run |-> x.run]

\* The fields of a tick.
LEMMA TickShape ==
  ASSUME NEW x \in TickRecord
  PROVE  x = [pc |-> x.pc, now |-> x.now, left |-> x.left, s |-> x.s,
              amount |-> x.amount, run |-> x.run]
BY DEF TickRecord

\* A tick that goes on to another place.
LEMMA GoesRecord ==
  ASSUME NEW x \in TickRecord, NEW pc
  PROVE  [x EXCEPT !.pc = pc] = [pc |-> pc, now |-> x.now, left |-> x.left, s |-> x.s,
                                 amount |-> x.amount, run |-> x.run]
<1> SUFFICES ASSUME NEW v, v = [pc |-> v.pc, now |-> v.now, left |-> v.left,
                                s |-> v.s, amount |-> v.amount, run |-> v.run]
             PROVE  [v EXCEPT !.pc = pc]
                    = [pc |-> pc, now |-> v.now, left |-> v.left,
                       s |-> v.s, amount |-> v.amount, run |-> v.run]
    BY TickShape
<1> QED OBVIOUS

\* A record with two fields changed, one after the other.
LEMMA TwoChanges ==
  ASSUME NEW x \in TickRecord, NEW pc, NEW a
  PROVE  /\ [x EXCEPT !.pc = pc, !.s = a]
              = [pc |-> pc, now |-> x.now, left |-> x.left, s |-> a,
                 amount |-> x.amount, run |-> x.run]
         /\ [x EXCEPT !.pc = pc, !.amount = a]
              = [pc |-> pc, now |-> x.now, left |-> x.left, s |-> x.s,
                 amount |-> a, run |-> x.run]
<1> DEFINE w == [pc |-> pc, now |-> x.now, left |-> x.left, s |-> x.s,
                 amount |-> x.amount, run |-> x.run]
<1>1. [x EXCEPT !.pc = pc] = w
      BY GoesRecord
<1>2. [w EXCEPT !.s = a] = [pc |-> pc, now |-> x.now, left |-> x.left, s |-> a,
                            amount |-> x.amount, run |-> x.run]
      OBVIOUS
<1>3. [w EXCEPT !.amount = a] = [pc |-> pc, now |-> x.now, left |-> x.left, s |-> x.s,
                                 amount |-> a, run |-> x.run]
      OBVIOUS
<1> QED BY <1>1, <1>2, <1>3

\* A tick that has created its execution.
LEMMA MarkedTick ==
  ASSUME NEW x \in TickRecord, NEW a
  PROVE  [x EXCEPT !.pc = "mark", !.run = a]
         = [pc |-> "mark", now |-> x.now, left |-> x.left, s |-> x.s,
            amount |-> x.amount, run |-> a]
<1> DEFINE w == [pc |-> "mark", now |-> x.now, left |-> x.left, s |-> x.s,
                 amount |-> x.amount, run |-> x.run]
<1>1. [x EXCEPT !.pc = "mark"] = w
      BY GoesRecord
<1>2. [w EXCEPT !.run = a] = [pc |-> "mark", now |-> x.now, left |-> x.left, s |-> x.s,
                              amount |-> x.amount, run |-> a]
      OBVIOUS
<1> QED BY <1>1, <1>2

\* A tick that has started.
LEMMA NextTick ==
  ASSUME NEW n, NEW l
  PROVE  [NoTick EXCEPT !.pc = "next", !.now = n, !.left = l]
         = [pc |-> "next", now |-> n, left |-> l, s |-> "none", amount |-> 0, run |-> 0]
<1> DEFINE a == [pc |-> "next", now |-> 0, left |-> {}, s |-> "none", amount |-> 0, run |-> 0]
           b == [pc |-> "next", now |-> n, left |-> {}, s |-> "none", amount |-> 0, run |-> 0]
<1>1. [NoTick EXCEPT !.pc = "next"] = a
      BY DEF NoTick
<1>2. [a EXCEPT !.now = n] = b
      OBVIOUS
<1>3. [b EXCEPT !.left = l] = [pc |-> "next", now |-> n, left |-> l, s |-> "none",
                               amount |-> 0, run |-> 0]
      OBVIOUS
<1> QED BY <1>1, <1>2, <1>3

\* What a tick that goes on becomes.
LEMMA GoesTick ==
  ASSUME NEW t \in Tick, TickFits(stTick[t], stExec), NEW pc, Goes(t, pc)
  PROVE  stTick' = [stTick EXCEPT ![t] = WithPc(stTick[t], pc)]
<1>1. stTick[t] = [pc |-> stTick[t].pc, now |-> stTick[t].now, left |-> stTick[t].left,
                   s |-> stTick[t].s, amount |-> stTick[t].amount,
                   run |-> stTick[t].run]
      BY TickShape DEF TickFits
<1>2. [stTick[t] EXCEPT !.pc = pc] = WithPc(stTick[t], pc)
  <2> SUFFICES ASSUME NEW x, x = [pc |-> x.pc, now |-> x.now, left |-> x.left,
                                  s |-> x.s, amount |-> x.amount, run |-> x.run]
               PROVE  [x EXCEPT !.pc = pc] = WithPc(x, pc)
      BY <1>1
  <2> QED BY DEF WithPc
<1> QED BY <1>2 DEF Goes

\* What the steps leave alone.
LEMMA TypesKept ==
  ASSUME StackerTypes, UNCHANGED <<stNow, stBalance, stGrant, stApi>>,
         stSent' \subseteq SentRecord,
         stRow' \in [Strategy -> RowRecord], stExec' \in [1 .. Runs -> RunRecord]
  PROVE  StackerTypes'
BY DEF StackerTypes

\* A tick is done with a strategy: the row it leaves is not executing.
LEMMA LoopStep ==
  ASSUME KeeperInv, NEW t \in Tick, NEW done, LoopGoesOn(t, done),
         UNCHANGED <<stNow, stBalance, stGrant, stApi, stSent, stExec>>,
         stCut \subseteq stCut', stRow' \in [Strategy -> RowRecord],
         \A s \in Strategy : stRow'[s].status = "executing" =>
                                stRow[s].status = "executing",
         stTick[t].pc \in Working => stRow'[stTick[t].s].status # "executing",
         stTick[t].pc \in {"next", "sync", "reopen"} \cup BeforeRun
  PROVE  KeeperInv'
<1>1. TickFits(stTick[t], stExec)
      BY DEF KeeperInv, TicksFit
<1>2. PICK y : /\ stTick' = [stTick EXCEPT ![t] = y]
               /\ TickFits(y, stExec') /\ y.run = 0
      BY <1>1, LoopTick
<1>3. \A u \in Tick \ {t} : TickFits(stTick[u], stExec')
      BY DEF KeeperInv, TicksFit
<1>4. stTick[t].run = 0 \/ stExec'[stTick[t].run].status # "providing"
      BY <1>1 DEF TickFits, InRun, Working, BeforeRun
<1>5. TicksFit' /\ KeeperNeverStuck'
      BY <1>1, <1>2, <1>3, <1>4, OneTickMoves DEF KeeperInv
<1> QED BY <1>5, TypesKept DEF KeeperInv, StackerTypes

\* A tick goes on with its strategy: the row stays its own.
LEMMA GoesStep ==
  ASSUME KeeperInv, NEW t \in Tick, NEW pc, Goes(t, pc),
         UNCHANGED <<stNow, stBalance, stGrant, stApi, stCut>>,
         stSent' \subseteq SentRecord,
         TickFits(WithPc(stTick[t], pc), stExec'),
         stTick[t].pc \in Working => pc \in Working,
         stRow' \in [Strategy -> RowRecord],
         \A s \in Strategy : stRow'[s].status = "executing" =>
            stRow[s].status = "executing" \/ (stTick[t].s = s /\ pc \in Working),
         stExec' \in [1 .. Runs -> RunRecord],
         \A r \in 1 .. Runs :
            \/ stExec'[r] = stExec[r]
            \/ /\ stExec'[r].strategy = stExec[r].strategy
               /\ stExec'[r].status \notin {"none", "providing"}
  PROVE  KeeperInv'
<1> DEFINE y == WithPc(stTick[t], pc)
<1>1. TickFits(stTick[t], stExec)
      BY DEF KeeperInv, TicksFit
<1>2. stTick' = [stTick EXCEPT ![t] = y]
      BY <1>1, GoesTick
<1>3. y.s = stTick[t].s /\ y.pc = pc /\ y.run = stTick[t].run
      BY DEF WithPc
<1>4. ASSUME NEW u \in Tick \ {t} PROVE TickFits(stTick[u], stExec')
  <2>1. TickFits(stTick[u], stExec)
        BY DEF KeeperInv, TicksFit
  <2>2. stTick[u].pc \in InRun => stTick[u].run \in 1 .. Runs
        BY <2>1, StackerNumbers DEF TickFits, TickRecord
  <2> QED BY <2>1, <2>2 DEF TickFits, InRun, Working
<1> HIDE DEF y
<1>5. TicksFit' /\ KeeperNeverStuck'
      BY <1>1, <1>2, <1>3, <1>4, OneTickMoves DEF KeeperInv, y
<1> QED BY <1>5, TypesKept DEF KeeperInv

\* A tick that goes on stays in the run it was in.
LEMMA NewPcFits ==
  ASSUME NEW x, NEW exec, NEW exec2, TickFits(x, exec), NEW pc,
         pc \in BeforeRun \cup InRun, x.pc \notin {"idle", "next"},
         pc \in InRun <=> x.pc \in InRun,
         x.pc \in InRun => /\ exec2[x.run].strategy = exec[x.run].strategy
                           /\ exec2[x.run].status # "none",
         pc \in {"sync", "reopen"} => exec2[x.run].status # "providing"
  PROVE  TickFits(WithPc(x, pc), exec2)
BY DEF TickFits, WithPc, TickRecord

\* A tick starts with the strategies that are due.
LEMMA TickStartsKeeps ==
  ASSUME KeeperInv, NEW t \in Tick, TickStarts(t) PROVE KeeperInv'
<1> DEFINE y == [NoTick EXCEPT !.pc = "next", !.now = stNow, !.left = Runnable(stNow)]
           z == [pc |-> "next", now |-> stNow, left |-> Runnable(stNow), s |-> "none",
                 amount |-> 0, run |-> 0]
<1>1. stTick' = [stTick EXCEPT ![t] = z]
  <2>1. y = z
        BY NextTick
  <2> QED BY <2>1 DEF TickStarts
<1>2. TickFits(z, stExec')
  <2>1. Runnable(stNow) \subseteq Strategy /\ stNow \in Nat
        BY DEF Runnable, KeeperInv, StackerTypes
  <2> QED BY <2>1, StackerNumbers DEF TickFits, TickRecord, InRun, Working
<1>3. stTick[t].pc \notin Working /\ stTick[t].run = 0
      BY DEF TickStarts, KeeperInv, TicksFit, TickFits, InRun, Working
<1>4. UNCHANGED <<stRow, stExec, stCut, stNow, stBalance, stGrant, stApi, stSent>>
      BY DEF TickStarts, stKeeperOnly
<1>5. \A u \in Tick : TickFits(stTick[u], stExec')
      BY <1>4 DEF KeeperInv, TicksFit
<1> HIDE DEF z
<1>6. TicksFit' /\ KeeperNeverStuck'
      BY <1>1, <1>2, <1>3, <1>4, <1>5, OneTickMoves DEF KeeperInv
<1> QED BY <1>4, <1>6, TypesKept DEF KeeperInv, StackerTypes

\* A tick takes a strategy, or passes over one that is not active.
LEMMA TakesStrategyKeeps ==
  ASSUME KeeperInv, NEW t \in Tick, TakesStrategy(t) PROVE KeeperInv'
<1>1. UNCHANGED <<stRow, stExec, stCut, stNow, stBalance, stGrant, stApi, stSent>>
      BY DEF TakesStrategy, stKeeperOnly
<1>2. stTick[t].pc = "next" /\ TickFits(stTick[t], stExec)
      BY DEF TakesStrategy, KeeperInv, TicksFit
<1>3. PICK s \in stTick[t].left :
        \/ LoopGoesOn(t, {s})
        \/ stTick' = [stTick EXCEPT ![t].pc = "grants", ![t].s = s]
      BY DEF TakesStrategy
<1>4. CASE LoopGoesOn(t, {s})
      BY <1>1, <1>2, <1>4, LoopStep DEF KeeperInv, StackerTypes, Working
<1>5. CASE stTick' = [stTick EXCEPT ![t].pc = "grants", ![t].s = s]
  <2> DEFINE x == stTick[t]
             z == [pc |-> "grants", now |-> x.now, left |-> x.left, s |-> s,
                   amount |-> x.amount, run |-> x.run]
  <2>1. x \in TickRecord /\ s \in Strategy
        BY <1>2 DEF TickFits, TickRecord
  <2>2. stTick' = [stTick EXCEPT ![t] = z]
    <3>2. [x EXCEPT !.pc = "grants", !.s = s] = z
          BY <2>1, TwoChanges
    <3>3. stTick' = [stTick EXCEPT ![t] = [x EXCEPT !.pc = "grants", !.s = s]]
          BY <1>5
    <3> QED BY <3>2, <3>3
  <2>3. TickFits(z, stExec') /\ x.run = 0 /\ x.pc \notin Working /\ z.run = 0
        BY <1>2, <2>1, StackerNumbers DEF TickFits, TickRecord, InRun, Working, BeforeRun
  <2>4. \A u \in Tick : TickFits(stTick[u], stExec')
        BY <1>1 DEF KeeperInv, TicksFit
  <2> HIDE DEF z
  <2>5. TicksFit' /\ KeeperNeverStuck'
        BY <1>1, <2>2, <2>3, <2>4, OneTickMoves DEF KeeperInv
  <2> QED BY <1>1, <2>5, TypesKept DEF KeeperInv, StackerTypes
<1> QED BY <1>3, <1>4, <1>5

\* A tick asks for the grants.
LEMMA ChecksGrantsKeeps ==
  ASSUME KeeperInv, NEW t \in Tick, ChecksGrants(t) PROVE KeeperInv'
<1>1. UNCHANGED <<stRow, stExec, stCut, stNow, stBalance, stGrant, stApi, stSent>>
      BY DEF ChecksGrants, stKeeperOnly
<1>2. stTick[t].pc = "grants" /\ TickFits(stTick[t], stExec)
      BY DEF ChecksGrants, KeeperInv, TicksFit
<1>3. PICK pc \in {"balance", "expire"} : Goes(t, pc)
      BY DEF ChecksGrants
<1>4. TickFits(WithPc(stTick[t], pc), stExec')
      BY <1>1, <1>2, NewPcFits DEF BeforeRun, InRun, Working
<1>5. stTick[t].pc \notin Working
      BY <1>2 DEF Working
<1> QED BY <1>1, <1>3, <1>4, <1>5, GoesStep DEF KeeperInv, StackerTypes

\* A strategy without grants is marked.
LEMMA MarksExpiredKeeps ==
  ASSUME KeeperInv, NEW t \in Tick, MarksExpired(t) PROVE KeeperInv'
<1>1. UNCHANGED <<stExec, stCut, stNow, stBalance, stGrant, stApi, stSent>>
      BY DEF MarksExpired, stKeeperOnly
<1>2. stTick[t].pc = "expire" /\ LoopGoesOn(t, {stTick[t].s})
      BY DEF MarksExpired
<1>3. \A s \in Strategy : stRow'[s] = [stRow[s] EXCEPT !.status = "expired"]
                          \/ stRow'[s] = stRow[s]
      BY DEF MarksExpired, KeeperInv, StackerTypes
<1>4. stRow' \in [Strategy -> RowRecord]
      BY DEF MarksExpired, KeeperInv, StackerTypes, RowRecord
<1>5. \A s \in Strategy : stRow'[s].status = "executing" => stRow[s].status = "executing"
      BY <1>3 DEF KeeperInv, StackerTypes, RowRecord
<1>6. stTick[t].pc \notin Working /\ stTick[t].pc \in {"next", "sync", "reopen"} \cup BeforeRun
      BY <1>2 DEF Working, BeforeRun
<1> QED BY <1>1, <1>2, <1>4, <1>5, <1>6, LoopStep

\* A tick reads the balance of the owner.
LEMMA ReadsBalanceKeeps ==
  ASSUME KeeperInv, NEW t \in Tick, ReadsBalance(t) PROVE KeeperInv'
<1>1. UNCHANGED <<stRow, stExec, stCut, stNow, stBalance, stGrant, stApi, stSent>>
      BY DEF ReadsBalance, stKeeperOnly
<1>2. stTick[t].pc = "balance" /\ TickFits(stTick[t], stExec)
      BY DEF ReadsBalance, KeeperInv, TicksFit
<1>3. CASE LoopGoesOn(t, {stTick[t].s})
      BY <1>1, <1>2, <1>3, LoopStep DEF KeeperInv, StackerTypes, Working, BeforeRun
<1>4. CASE stTick' = [stTick EXCEPT ![t].pc = "create", ![t].amount = InputAmount]
  <2> DEFINE x == stTick[t]
             z == [pc |-> "create", now |-> x.now, left |-> x.left, s |-> x.s,
                   amount |-> InputAmount, run |-> x.run]
  <2>1. x \in TickRecord /\ InputAmount \in Nat
        BY <1>2, StackerNumbers DEF TickFits, InputAmount, KeeperInv, StackerTypes
  <2>2. stTick' = [stTick EXCEPT ![t] = z]
    <3>2. [x EXCEPT !.pc = "create", !.amount = InputAmount] = z
          BY <2>1, TwoChanges
    <3>3. stTick' = [stTick EXCEPT ![t] = [x EXCEPT !.pc = "create",
                                                    !.amount = InputAmount]]
          BY <1>4
    <3> QED BY <3>2, <3>3
  <2>3. TickFits(z, stExec') /\ x.run = 0 /\ x.pc \notin Working /\ z.run = 0
        BY <1>2, <2>1, StackerNumbers DEF TickFits, TickRecord, InRun, Working, BeforeRun
  <2>4. \A u \in Tick : TickFits(stTick[u], stExec')
        BY <1>1 DEF KeeperInv, TicksFit
  <2> HIDE DEF z
  <2>5. TicksFit' /\ KeeperNeverStuck'
        BY <1>1, <2>2, <2>3, <2>4, OneTickMoves DEF KeeperInv
  <2> QED BY <1>1, <2>5, TypesKept DEF KeeperInv, StackerTypes
<1> QED BY <1>3, <1>4 DEF ReadsBalance

\* A tick creates an execution.
LEMMA CreatesExecutionKeeps ==
  ASSUME KeeperInv, NEW t \in Tick, CreatesExecution(t) PROVE KeeperInv'
<1> DEFINE x == stTick[t]
           r == Min(FreeRuns)
           e == [strategy |-> x.s, status |-> "providing", amount |-> x.amount]
           z == [pc |-> "mark", now |-> x.now, left |-> x.left, s |-> x.s,
                 amount |-> x.amount, run |-> r]
<1>1. UNCHANGED <<stRow, stCut, stNow, stBalance, stGrant, stApi, stSent>>
      BY DEF CreatesExecution, stKeeperOnly
<1>2. x.pc = "create" /\ TickFits(x, stExec) /\ x \in TickRecord
      BY DEF CreatesExecution, KeeperInv, TicksFit, TickFits
<1>3. r \in 1 .. Runs /\ stExec[r].status = "none" /\ r # 0
  <2>1. FreeRuns \in SUBSET Nat /\ FreeRuns # {}
        BY DEF FreeRuns, CreatesExecution
  <2>2. r \in FreeRuns
        BY <2>1, MinIn
  <2> QED BY <2>2, StackerNumbers DEF FreeRuns, NoRun
<1>4. stExec' = [stExec EXCEPT ![r] = e]
      BY DEF CreatesExecution
<1>5. stTick' = [stTick EXCEPT ![t] = [x EXCEPT !.pc = "mark", !.run = r]]
      BY DEF CreatesExecution
<1>6. x.s \in Strategy /\ x.run = 0 /\ x.pc \notin Working
      BY <1>2 DEF TickFits, TickRecord, Working, InRun
<1> HIDE DEF r
<1>13. stTick' = [stTick EXCEPT ![t] = z]
  <2>1. x \in TickRecord
        BY <1>2
  <2>2. [x EXCEPT !.pc = "mark", !.run = r] = z
    <3>2. [x EXCEPT !.pc = "mark", !.run = r]
          = [pc |-> "mark", now |-> x.now, left |-> x.left, s |-> x.s,
               amount |-> x.amount, run |-> r]
          BY <2>1, MarkedTick
    <3> QED BY <3>2
  <2> QED BY <1>5, <2>2
<1>7. /\ stExec'[r] = e
      /\ \A q \in (1 .. Runs) \ {r} : stExec'[q] = stExec[q]
      BY <1>3, <1>4 DEF KeeperInv, StackerTypes
<1>8. stExec' \in [1 .. Runs -> RunRecord]
  <2>1. e \in RunRecord
        BY <1>2, <1>6 DEF RunRecord, TickRecord
  <2> QED BY <1>3, <1>4, <2>1 DEF KeeperInv, StackerTypes
<1>9. TickFits(z, stExec')
      BY <1>2, <1>3, <1>6, <1>7 DEF TickFits, TickRecord, InRun, Working
<1>10. ASSUME NEW u \in Tick \ {t} PROVE TickFits(stTick[u], stExec')
  <2>1. TickFits(stTick[u], stExec)
        BY DEF KeeperInv, TicksFit
  <2>2. stTick[u].pc \in InRun => stTick[u].run \in (1 .. Runs) \ {r}
        BY <1>3, <2>1, StackerNumbers DEF TickFits, TickRecord
  <2>3. {"sync", "reopen"} \subseteq InRun
        BY DEF InRun, Working
  <2> QED BY <1>7, <2>1, <2>2, <2>3 DEF TickFits
<1>11. z.run = r
      OBVIOUS
<1> HIDE DEF z, e
<1>12. TicksFit' /\ KeeperNeverStuck'
  <2>1. \A s \in Strategy \ stCut' : stRow'[s].status = "executing" =>
                                        stRow[s].status = "executing"
        BY <1>1
  <2>2. \A q \in 1 .. Runs : stExec'[q].status = "providing" =>
           \/ stExec[q].status = "providing" /\ stExec[q].strategy = stExec'[q].strategy
           \/ z.run = q
        BY <1>7, <1>11
  <2>3. stTick[t].pc \notin Working /\ stTick[t].run = 0 /\ stCut \subseteq stCut'
        BY <1>1, <1>6
  <2> QED BY <1>13, <1>9, <1>10, <2>1, <2>2, <2>3, OneTickMoves DEF KeeperInv
<1> QED BY <1>1, <1>8, <1>12, TypesKept DEF KeeperInv, StackerTypes

\* A tick marks its strategy.
LEMMA MarksExecutingKeeps ==
  ASSUME KeeperInv, NEW t \in Tick, MarksExecuting(t) PROVE KeeperInv'
<1>1. UNCHANGED <<stExec, stCut, stNow, stBalance, stGrant, stApi, stSent>>
      BY DEF MarksExecuting, stKeeperOnly
<1>2. stTick[t].pc = "mark" /\ TickFits(stTick[t], stExec) /\ Goes(t, "send")
      BY DEF MarksExecuting, KeeperInv, TicksFit
<1>3. TickFits(WithPc(stTick[t], "send"), stExec')
      BY <1>1, <1>2, NewPcFits DEF TickFits, BeforeRun, InRun, Working
<1>4. stRow' \in [Strategy -> RowRecord]
      BY DEF MarksExecuting, KeeperInv, StackerTypes, RowRecord
<1>5. \A s \in Strategy : s # stTick[t].s => stRow'[s] = stRow[s]
      BY DEF MarksExecuting, KeeperInv, StackerTypes
<1>6. "send" \in Working
      BY DEF Working
<1> QED BY <1>1, <1>2, <1>3, <1>4, <1>5, <1>6, GoesStep DEF KeeperInv, StackerTypes

\* A tick goes on in its run and writes no row.
LEMMA SameRunGoes ==
  ASSUME KeeperInv, NEW t \in Tick, NEW pc \in Working \ {"sync", "reopen"},
         stTick[t].pc \in Working, Goes(t, pc),
         UNCHANGED <<stRow, stExec, stCut, stNow, stBalance, stGrant, stApi>>,
         stSent' \subseteq SentRecord
  PROVE  KeeperInv'
<1>1. TickFits(stTick[t], stExec)
      BY DEF KeeperInv, TicksFit
<1>2. TickFits(WithPc(stTick[t], pc), stExec')
      BY <1>1, NewPcFits DEF TickFits, BeforeRun, InRun, Working
<1> QED BY <1>2, GoesStep DEF KeeperInv, StackerTypes

\* A tick sends, or fails to.
LEMMA SendsDelegationKeeps ==
  ASSUME KeeperInv, NEW t \in Tick, SendsDelegation(t) PROVE KeeperInv'
<1>1. UNCHANGED <<stRow, stExec, stCut, stNow, stBalance, stGrant, stApi>>
      BY DEF SendsDelegation, stKeeperOnly
<1>2. stTick[t].pc \in Working /\ (Goes(t, "record") \/ Goes(t, "failed"))
      BY DEF SendsDelegation, Working
<1>3. {"record", "failed"} \subseteq Working \ {"sync", "reopen"}
      BY DEF Working
<1>4. stSent' \subseteq SentRecord
  <2>1. /\ stTick[t].run \in 1 .. Runs /\ stTick[t].amount \in Nat
        /\ stSent \subseteq SentRecord
    <3>1. TickFits(stTick[t], stExec)
          BY DEF KeeperInv, TicksFit
    <3> QED BY <1>2, <3>1, StackerNumbers
            DEF TickFits, TickRecord, InRun, KeeperInv, StackerTypes
  <2>2. \/ stSent' = stSent \cup {[run |-> stTick[t].run, amount |-> stTick[t].amount]}
        \/ stSent' = stSent
        BY DEF SendsDelegation
  <2> QED BY <2>1, <2>2 DEF SentRecord
<1> QED BY <1>1, <1>2, <1>3, <1>4, SameRunGoes

\* A write that throws leaves the row executing, and the tick in the handler.
LEMMA RecordingThrowsKeeps ==
  ASSUME KeeperInv, NEW t \in Tick, RecordingThrows(t) PROVE KeeperInv'
<1>1. UNCHANGED <<stRow, stExec, stCut, stNow, stBalance, stGrant, stApi, stSent>>
      BY DEF RecordingThrows, stKeeperOnly
<1>2. stTick[t].pc \in Working /\ Goes(t, "failed")
      BY DEF RecordingThrows, Working
<1>3. "failed" \in Working \ {"sync", "reopen"}
      BY DEF Working
<1> QED BY <1>1, <1>2, <1>3, SameRunGoes DEF KeeperInv, StackerTypes

\* An outcome is recorded.
LEMMA OutcomeGoes ==
  ASSUME KeeperInv, NEW t \in Tick, NEW pc \in Working,
         NEW status \in {"success", "failed"},
         stTick[t].pc \in Working, Goes(t, pc),
         stExec' = [stExec EXCEPT ![stTick[t].run].status = status],
         UNCHANGED <<stRow, stCut, stNow, stBalance, stGrant, stApi, stSent>>
  PROVE  KeeperInv'
<1> DEFINE r == stTick[t].run
<1>1. TickFits(stTick[t], stExec)
      BY DEF KeeperInv, TicksFit
<1>2. r \in 1 .. Runs
      BY <1>1, StackerNumbers DEF TickFits, TickRecord, InRun
<1>3. /\ stExec'[r].status = status /\ stExec'[r].strategy = stExec[r].strategy
      /\ \A q \in (1 .. Runs) \ {r} : stExec'[q] = stExec[q]
      /\ stExec' \in [1 .. Runs -> RunRecord]
  <2> HIDE DEF r
  <2>1. stExec' = [stExec EXCEPT ![r].status = status]
        BY DEF r
  <2>2. stExec \in [1 .. Runs -> RunRecord] /\ stExec[r] \in RunRecord
        BY <1>2 DEF KeeperInv, StackerTypes
  <2>3. ASSUME NEW e \in RunRecord
        PROVE  /\ [e EXCEPT !.status = status] \in RunRecord
               /\ [e EXCEPT !.status = status].status = status
               /\ [e EXCEPT !.status = status].strategy = e.strategy
        BY <2>3 DEF RunRecord
  <2>4. stExec' = [stExec EXCEPT ![r] = [stExec[r] EXCEPT !.status = status]]
        BY <2>1
  <2> QED BY <1>2, <2>2, <2>3, <2>4
<1>4. TickFits(WithPc(stTick[t], pc), stExec')
  <2>1. Working \subseteq InRun /\ "idle" \notin InRun /\ "next" \notin InRun
        BY DEF Working, InRun
  <2>2. stExec'[r].strategy = stExec[r].strategy /\ stExec'[r].status \notin {"none", "providing"}
        BY <1>3
  <2>3. pc \in BeforeRun \cup InRun /\ stTick[t].pc \notin {"idle", "next"}
        BY <2>1
  <2>4. pc \in InRun /\ stTick[t].pc \in InRun
        BY <2>1
  <2>5. stExec[r].status # "none" /\ stExec'[r].status # "none"
        BY <1>1, <2>2, <2>4 DEF TickFits
  <2> QED BY <1>1, <2>2, <2>3, <2>4, <2>5, NewPcFits
<1>5. \A q \in 1 .. Runs :
        \/ stExec'[q] = stExec[q]
        \/ /\ stExec'[q].strategy = stExec[q].strategy
           /\ stExec'[q].status \notin {"none", "providing"}
      BY <1>3
<1> QED BY <1>3, <1>4, <1>5, GoesStep DEF KeeperInv, StackerTypes

\* The outcome of a delegation is recorded.
LEMMA RecordsOutcomeKeeps ==
  ASSUME KeeperInv, NEW t \in Tick, RecordsSuccess(t) \/ RecordsFailure(t)
  PROVE  KeeperInv'
<1>1. {"sync", "reopen"} \subseteq Working
      BY DEF Working
<1>2. CASE RecordsSuccess(t)
  <2>1. UNCHANGED <<stRow, stCut, stNow, stBalance, stGrant, stApi, stSent>>
        BY <1>2 DEF RecordsSuccess, stKeeperOnly
  <2>2. stTick[t].pc \in Working /\ Goes(t, "sync")
        BY <1>2 DEF RecordsSuccess, Working
  <2>3. stExec' = [stExec EXCEPT ![stTick[t].run].status = "success"]
        BY <1>2 DEF RecordsSuccess
  <2> QED BY <1>1, <2>1, <2>2, <2>3, OutcomeGoes
<1>3. CASE RecordsFailure(t)
  <2>1. UNCHANGED <<stRow, stCut, stNow, stBalance, stGrant, stApi, stSent>>
        BY <1>3 DEF RecordsFailure, stKeeperOnly
  <2>2. stTick[t].pc \in Working /\ Goes(t, "reopen")
        BY <1>3 DEF RecordsFailure, Working
  <2>3. stExec' = [stExec EXCEPT ![stTick[t].run].status = "failed"]
        BY <1>3 DEF RecordsFailure
  <2> QED BY <1>1, <2>1, <2>2, <2>3, OutcomeGoes
<1> QED BY <1>2, <1>3

\* A row is active again at the end of its run.
LEMMA ReopensKeeps ==
  ASSUME KeeperInv, NEW t \in Tick, SyncsAndSettles(t) \/ ReopensAfterFailure(t)
  PROVE  KeeperInv'
<1>1. UNCHANGED <<stExec, stCut, stNow, stBalance, stGrant, stApi, stSent>>
      BY DEF SyncsAndSettles, ReopensAfterFailure, stKeeperOnly
<1>2. /\ stTick[t].pc \in {"sync", "reopen"} /\ LoopGoesOn(t, {stTick[t].s})
      /\ stRow' = [stRow EXCEPT ![stTick[t].s] = Reopened(t)]
      BY DEF SyncsAndSettles, ReopensAfterFailure
<1>3. stTick[t].s \in Strategy /\ stTick[t].now + Cooldown \in Nat
  <2>1. TickFits(stTick[t], stExec)
        BY DEF KeeperInv, TicksFit
  <2> QED BY <1>2, <2>1, StackerNumbers DEF TickFits, TickRecord
<1>4. /\ stRow' \in [Strategy -> RowRecord]
      /\ stRow'[stTick[t].s].status = "active"
      /\ \A s \in Strategy : s # stTick[t].s => stRow'[s] = stRow[s]
      BY <1>2, <1>3 DEF KeeperInv, StackerTypes, Reopened, RowRecord
<1> QED BY <1>1, <1>2, <1>4, LoopStep

\* An error outside of a run ends the turn of a strategy.
LEMMA TickThrowsKeeps ==
  ASSUME KeeperInv, NEW t \in Tick, TickThrows(t) PROVE KeeperInv'
<1>1. UNCHANGED <<stRow, stExec, stNow, stBalance, stGrant, stApi, stSent>>
      BY DEF TickThrows, stKeeperOnly
<1>2. /\ stTick' = [stTick EXCEPT ![t] = NoTick]
      /\ stCut' = stCut \cup {stTick[t].s}
      BY DEF TickThrows
<1>3. \A u \in Tick : TickFits(stTick[u], stExec')
      BY <1>1 DEF KeeperInv, TicksFit
<1>4. stTick[t].run = 0 \/ stExec[stTick[t].run].strategy \in stCut'
      BY <1>1, <1>2, <1>3 DEF TickFits
<1>5. TicksFit' /\ KeeperNeverStuck'
      BY <1>1, <1>2, <1>3, <1>4, IdleTickFits, OneTickMoves DEF KeeperInv
<1> QED BY <1>1, <1>5, TypesKept DEF KeeperInv, StackerTypes

\* A restart cuts off what was under way.
LEMMA KeeperRestartsKeeps ==
  ASSUME KeeperInv, KeeperRestarts PROVE KeeperInv'
<1>1. UNCHANGED <<stRow, stExec, stNow, stBalance, stGrant, stApi, stSent>>
      BY DEF KeeperRestarts, stKeeperOnly
<1>2. /\ stTick' = [t \in Tick |-> NoTick]
      /\ stCut' = stCut \cup ({stTick[t].s : t \in Tick} \ {"none"})
      BY DEF KeeperRestarts
<1>3. TicksFit'
      BY <1>2, IdleTickFits DEF TicksFit
<1>4. ASSUME NEW s \in Strategy, NEW t \in Tick, stTick[t].s = s
      PROVE  s \in stCut'
      BY <1>2, <1>4, StackerNumbers
<1>5. ASSUME NEW s \in Strategy \ stCut', NEW r \in 1 .. Runs, NEW t \in Tick,
             stExec[r].strategy = s, stTick[t].run = r
      PROVE  FALSE
  <2>1. TickFits(stTick[t], stExec)
        BY DEF KeeperInv, TicksFit
  <2>2. stTick[t].s = s
        BY <1>5, <2>1, StackerNumbers DEF TickFits
  <2> QED BY <1>4, <2>2
<1>6. KeeperNeverStuck'
  <2>1. stCut \subseteq stCut'
        BY <1>2
  <2>2. KeeperNeverStuck
        BY DEF KeeperInv
  <2> QED BY <1>1, <1>4, <1>5, <2>1, <2>2 DEF KeeperNeverStuck
<1> QED BY <1>1, <1>3, <1>6, TypesKept DEF KeeperInv, StackerTypes

\* Every step of a tick keeps the invariant.
LEMMA KeeperStepKeeps ==
  ASSUME KeeperInv, NEW t \in Tick, KeeperStep(t) PROVE KeeperInv'
BY TickStartsKeeps, TakesStrategyKeeps, ChecksGrantsKeeps, MarksExpiredKeeps,
   ReadsBalanceKeeps, CreatesExecutionKeeps, MarksExecutingKeeps, SendsDelegationKeeps,
   RecordsOutcomeKeeps, ReopensKeeps, RecordingThrowsKeeps, TickThrowsKeeps
   DEF KeeperStep

\* The API, the owner, the chain and the clock: no row starts to execute.
LEMMA OutsideKeeps ==
  ASSUME KeeperInv, UNCHANGED <<stTick, stExec, stCut>>, stSent' \subseteq SentRecord,
         stNow' \in Nat, stBalance' \in Nat, stGrant' \in GrantRecord,
         stApi' \in RequestRecord, stApi'.op # "none" => stApi'.s # "none",
         stRow' \in [Strategy -> RowRecord],
         \A s \in Strategy : stRow'[s].status = "executing" =>
                                stRow[s].status = "executing"
  PROVE  KeeperInv'
<1>1. StackerTypes'
      BY DEF KeeperInv, StackerTypes
<1>2. TicksFit'
      BY DEF KeeperInv, TicksFit
<1>3. KeeperNeverStuck'
      BY DEF KeeperInv, KeeperNeverStuck
<1> QED BY <1>1, <1>2, <1>3 DEF KeeperInv

\* The steps of the API keep the invariant.
LEMMA ApiKeeps ==
  ASSUME KeeperInv,
         \/ PrepareGrants \/ ConfirmWrites \/ ChangeWritten
         \/ \E s \in Strategy :
              ConfirmRequested(s) \/ \E to \in {"paused", "active"} : ChangeRequested(s, to)
  PROVE  KeeperInv'
<1> USE DEF stApiOnly, stChain
<1>1. CASE PrepareGrants
  <2>1. stGrant' \in GrantRecord
        BY <1>1, StackerNumbers DEF PrepareGrants, KeeperInv, StackerTypes, GrantRecord
  <2>2. UNCHANGED <<stTick, stExec, stCut, stSent, stNow, stBalance, stRow, stApi>>
        BY <1>1 DEF PrepareGrants
  <2> QED BY <2>1, <2>2, OutsideKeeps DEF KeeperInv, StackerTypes
<1>2. CASE ConfirmWrites
  <2> DEFINE q == [op |-> "active", s |-> stApi.s, expires |-> 0]
  <2>1. stGrant' \in GrantRecord
        BY <1>2 DEF ConfirmWrites, KeeperInv, StackerTypes, GrantRecord, RequestRecord
  <2>2. UNCHANGED <<stTick, stExec, stCut, stSent, stNow, stBalance, stRow>>
        BY <1>2 DEF ConfirmWrites
  <2>3. stApi' = q
    <3>1. [NoRequest EXCEPT !.op = "active"] = [op |-> "active", s |-> "none", expires |-> 0]
          BY DEF NoRequest
    <3>2. [[op |-> "active", s |-> "none", expires |-> 0] EXCEPT !.s = stApi.s] = q
          OBVIOUS
    <3> QED BY <1>2, <3>1, <3>2 DEF ConfirmWrites
  <2>4. stApi' \in RequestRecord /\ (stApi'.op # "none" => stApi'.s # "none")
        BY <1>2, <2>3 DEF ConfirmWrites, KeeperInv, StackerTypes, RequestRecord
  <2> QED BY <2>1, <2>2, <2>4, OutsideKeeps DEF KeeperInv, StackerTypes
<1>3. CASE ChangeWritten
  <2>1. UNCHANGED <<stTick, stExec, stCut, stSent, stNow, stBalance, stGrant>>
        BY <1>3 DEF ChangeWritten
  <2>2. stApi' \in RequestRecord /\ (stApi'.op # "none" => stApi'.s # "none")
        BY <1>3 DEF ChangeWritten, NoRequest, RequestRecord
  <2>3. stRow' \in [Strategy -> RowRecord]
        BY <1>3 DEF ChangeWritten, KeeperInv, StackerTypes, RowRecord
  <2>4. ASSUME NEW s \in Strategy
        PROVE  stRow'[s].status = "executing" => stRow[s].status = "executing"
        BY <1>3 DEF ChangeWritten, KeeperInv, StackerTypes, RowRecord
  <2> QED BY <2>1, <2>2, <2>3, <2>4, OutsideKeeps DEF KeeperInv, StackerTypes
<1>4. CASE \E s \in Strategy : ConfirmRequested(s)
  <2>1. PICK s \in Strategy : ConfirmRequested(s)
        BY <1>4
  <2>2. UNCHANGED <<stTick, stExec, stCut, stSent, stNow, stBalance, stRow, stGrant>>
        BY <2>1 DEF ConfirmRequested
  <2>3. stApi' \in RequestRecord /\ (stApi'.op # "none" => stApi'.s # "none")
        BY <2>1, StackerNumbers DEF ConfirmRequested, KeeperInv, StackerTypes, RequestRecord,
                                    GrantRecord
  <2> QED BY <2>2, <2>3, OutsideKeeps DEF KeeperInv, StackerTypes
<1>5. CASE \E s \in Strategy : \E to \in {"paused", "active"} : ChangeRequested(s, to)
  <2>1. PICK s \in Strategy : \E to \in {"paused", "active"} : ChangeRequested(s, to)
        BY <1>5
  <2>2. PICK to \in {"paused", "active"} : ChangeRequested(s, to)
        BY <2>1
  <2>3. UNCHANGED <<stTick, stExec, stCut, stSent, stNow, stBalance, stRow, stGrant>>
        BY <2>2 DEF ChangeRequested
  <2>4. stApi' = [op |-> to, s |-> s, expires |-> 0]
    <3>1. [NoRequest EXCEPT !.op = to] = [op |-> to, s |-> "none", expires |-> 0]
          BY DEF NoRequest
    <3>2. [[op |-> to, s |-> "none", expires |-> 0] EXCEPT !.s = s]
            = [op |-> to, s |-> s, expires |-> 0]
          OBVIOUS
    <3> QED BY <2>2, <3>1, <3>2 DEF ChangeRequested
  <2>5. stApi' \in RequestRecord /\ (stApi'.op # "none" => stApi'.s # "none")
        BY <2>4, StackerNumbers DEF RequestRecord
  <2> QED BY <2>3, <2>5, OutsideKeeps DEF KeeperInv, StackerTypes
<1> QED BY <1>1, <1>2, <1>3, <1>4, <1>5

\* The owner, time and the chain keep the invariant.
LEMMA WorldKeeps ==
  ASSUME KeeperInv,
         \/ OwnerSignsGrants \/ StackerTimePasses
         \/ \E tx \in stSent : Delivered(tx)
  PROVE  KeeperInv'
<1> USE DEF stChain
<1>1. CASE OwnerSignsGrants
  <2>1. UNCHANGED <<stTick, stExec, stCut, stSent, stNow, stBalance, stRow, stGrant, stApi>>
        BY <1>1 DEF OwnerSignsGrants
  <2> QED BY <2>1, OutsideKeeps DEF KeeperInv, StackerTypes
<1>2. CASE StackerTimePasses
  <2>1. UNCHANGED <<stTick, stExec, stCut, stSent, stBalance, stRow, stGrant, stApi>>
        BY <1>2 DEF StackerTimePasses
  <2>2. stNow' \in Nat
        BY <1>2 DEF StackerTimePasses, KeeperInv, StackerTypes
  <2> QED BY <2>1, <2>2, OutsideKeeps DEF KeeperInv, StackerTypes
<1>3. CASE \E tx \in stSent : Delivered(tx)
  <2>1. PICK tx \in stSent : Delivered(tx)
        BY <1>3
  <2>2. UNCHANGED <<stTick, stExec, stCut, stNow, stRow, stGrant, stApi>>
        BY <2>1 DEF Delivered
  <2>3. tx.amount \in Nat /\ stSent' \subseteq SentRecord
        BY <2>1 DEF Delivered, KeeperInv, StackerTypes, SentRecord
  <2>4. stBalance' \in Nat
        BY <2>1, <2>3 DEF Delivered, KeeperInv, StackerTypes
  <2> QED BY <2>2, <2>3, <2>4, OutsideKeeps DEF KeeperInv, StackerTypes
<1> QED BY <1>1, <1>2, <1>3

\* Every step keeps the invariant.
LEMMA KeeperInvStep == KeeperInv /\ [StackerNext]_stackerVars => KeeperInv'
<1> SUFFICES ASSUME KeeperInv, [StackerNext]_stackerVars PROVE KeeperInv'
    OBVIOUS
<1>1. CASE StackerNext
      BY <1>1, KeeperStepKeeps, KeeperRestartsKeeps, ApiKeeps, WorldKeeps DEF StackerNext
<1>2. CASE UNCHANGED stackerVars
      BY <1>2, OutsideKeeps DEF stackerVars, KeeperInv, StackerTypes
<1> QED BY <1>1, <1>2

\* For any strategies, ticks and grants, and whatever overlaps: unless a restart or an error
\* outside the try has cut it off, a strategy that is executing has a tick at work on it, and
\* so has an execution that is providing (keeper-runner.ts: runTick, executeActiveStrategy).
THEOREM KeeperNeverStuckHolds == StackerSpec => []KeeperNeverStuck
<1>1. KeeperInv => KeeperNeverStuck
      BY DEF KeeperInv
<1> QED BY <1>1, KeeperInitInv, KeeperInvStep, PTL DEF StackerSpec

-----------------------------------------------------------------------------
(* Whatever is delegated is recorded. A row is written under its amount      *)
(* before the broadcast, and the rows whose broadcast is still to come are   *)
(* not spent: the others cover what was sent and what was delegated.         *)

Sending == {"mark", "send"}

\* The rows that a tick has written and not broadcast yet.
Unsent(tick) ==
  {r \in 1 .. Runs : \E t \in Tick : tick[t].run = r /\ tick[t].pc \in Sending}

SentSum(sent) == SumFunctionOnSet([tx \in sent |-> tx.amount], sent)
RowSum(exec, R) == SumFunctionOnSet([r \in 1 .. Runs |-> exec[r].amount], R)

SentFits(exec, sent) ==
  /\ IsFiniteSet(sent)
  /\ \A tx \in sent : exec[tx.run].amount = tx.amount /\ exec[tx.run].status # "none"

SendingFits(exec, tick) ==
  \A t \in Tick : tick[t].pc \in Sending =>
    /\ exec[tick[t].run].amount = tick[t].amount
    /\ \A u \in Tick : (tick[u].pc \in Sending /\ tick[u].run = tick[t].run) => u = t

SentInv ==
  /\ stBonded \in Nat
  /\ SentFits(stExec, stSent)
  /\ SendingFits(stExec, stTick)
  /\ stBonded + SentSum(stSent) <= RowSum(stExec, (1 .. Runs) \ Unsent(stTick))

\* The sums are naturals, and grow by one term at a time.
LEMMA SentSums ==
  ASSUME NEW S \in SUBSET SentRecord, IsFiniteSet(S), NEW tx \in SentRecord
  PROVE  /\ SentSum(S) \in Nat
         /\ IsFiniteSet(S \cup {tx}) /\ SentSum(S \cup {tx}) <= SentSum(S) + tx.amount
         /\ SentSum(S \cup {tx}) \in Nat
         /\ IsFiniteSet(S \ {tx}) /\ SentSum(S \ {tx}) \in Nat
         /\ tx \in S => SentSum(S) = tx.amount + SentSum(S \ {tx})
<1> DEFINE F(T) == [x \in T |-> x.amount]
<1>1. \A x \in SentRecord : x.amount \in Nat
      BY DEF SentRecord
<1>2. ASSUME NEW T \in SUBSET SentRecord, IsFiniteSet(T)
      PROVE  SentSum(T) \in Nat
  <2>1. \A x \in T : F(T)[x] \in Nat
        BY <1>1
  <2> HIDE DEF F
  <2>2. SumFunctionOnSet(F(T), T) \in Nat
        BY <1>2, <2>1, SumIsNat
  <2> QED BY <2>2 DEF SentSum, F
<1>3. ASSUME NEW T \in SUBSET SentRecord, IsFiniteSet(T), NEW y \in T
      PROVE  SentSum(T) = y.amount + SentSum(T \ {y})
  <2>1. \A x \in T : F(T)[x] \in Nat
        BY <1>1
  <2>2. IsFiniteSet(T \ {y}) /\ \A x \in T \ {y} : F(T)[x] = F(T \ {y})[x]
        BY <1>3, FS_Subset
  <2>3. F(T)[y] = y.amount
        OBVIOUS
  <2> HIDE DEF F
  <2>4. SumFunctionOnSet(F(T), T) = F(T)[y] + SumFunctionOnSet(F(T), T \ {y})
        BY <1>3, <2>1, SumWithout
  <2>5. SumFunctionOnSet(F(T), T \ {y}) = SumFunctionOnSet(F(T \ {y}), T \ {y})
        BY <2>2, SumAgrees
  <2> QED BY <2>3, <2>4, <2>5 DEF SentSum, F
<1> HIDE DEF F
<1>4. IsFiniteSet(S \ {tx}) /\ IsFiniteSet(S \cup {tx})
      BY FS_Subset, FS_AddElement
<1>5. SentSum(S) \in Nat /\ SentSum(S \ {tx}) \in Nat /\ SentSum(S \cup {tx}) \in Nat
      BY <1>2, <1>4
<1>6. SentSum(S \cup {tx}) <= SentSum(S) + tx.amount
  <2>1. CASE tx \in S
    <3>1. S \cup {tx} = S
          BY <2>1
    <3> QED BY <1>1, <1>5, <3>1
  <2>2. CASE tx \notin S
    <3>1. (S \cup {tx}) \ {tx} = S
          BY <2>2
    <3>2. SentSum(S \cup {tx}) = tx.amount + SentSum((S \cup {tx}) \ {tx})
          BY <1>3, <1>4
    <3> QED BY <1>1, <1>5, <3>1, <3>2
  <2> QED BY <2>1, <2>2
<1> QED BY <1>3, <1>4, <1>5, <1>6

\* What the amounts of a set of runs add up to.
LEMMA RowSums ==
  ASSUME NEW exec \in [1 .. Runs -> RunRecord], NEW R \in SUBSET (1 .. Runs)
  PROVE  /\ RowSum(exec, R) \in Nat
         /\ \A P \in SUBSET R : RowSum(exec, P) <= RowSum(exec, R)
         /\ \A r \in R : RowSum(exec, R) = exec[r].amount + RowSum(exec, R \ {r})
         /\ \A new \in [1 .. Runs -> RunRecord] :
              (\A r \in R : new[r].amount = exec[r].amount)
                => RowSum(new, R) = RowSum(exec, R)
<1> DEFINE F(e) == [r \in 1 .. Runs |-> e[r].amount]
<1>1. IsFiniteSet(R)
  <2>1. IsFiniteSet(1 .. Runs)
        BY StackerNumbers, FS_Interval
  <2> QED BY <2>1, FS_Subset
<1>2. \A r \in R : F(exec)[r] \in Nat /\ F(exec)[r] = exec[r].amount
      BY DEF RunRecord
<1>3. \A new : (\A r \in R : new[r].amount = exec[r].amount)
                 => \A r \in R : F(new)[r] = F(exec)[r]
      OBVIOUS
<1> HIDE DEF F
<1>4. \A e, T : RowSum(e, T) = SumFunctionOnSet(F(e), T)
      BY DEF RowSum, F
<1>5. SumFunctionOnSet(F(exec), R) \in Nat
      BY <1>1, <1>2, SumIsNat
<1>6. \A P \in SUBSET R : SumFunctionOnSet(F(exec), P) <= SumFunctionOnSet(F(exec), R)
      BY <1>1, <1>2, SumOfPart
<1>7. \A r \in R : SumFunctionOnSet(F(exec), R)
                     = F(exec)[r] + SumFunctionOnSet(F(exec), R \ {r})
      BY <1>1, <1>2, SumWithout
<1>8. ASSUME NEW new, \A r \in R : new[r].amount = exec[r].amount
      PROVE  SumFunctionOnSet(F(new), R) = SumFunctionOnSet(F(exec), R)
  <2>1. \A r \in R : F(new)[r] = F(exec)[r]
        BY <1>3, <1>8
  <2>2. ASSUME NEW f, NEW e, \A r \in R : f[r] = e[r]
        PROVE  SumFunctionOnSet(f, R) = SumFunctionOnSet(e, R)
        BY <1>1, <2>2, SumAgrees
  <2> QED BY <2>1, <2>2
<1> QED BY <1>2, <1>4, <1>5, <1>6, <1>7, <1>8

\* Nothing is sent at the start.
LEMMA SentInitInv == StackerInit => SentInv
<1> SUFFICES ASSUME StackerInit PROVE SentInv
    OBVIOUS
<1>1. stExec \in [1 .. Runs -> RunRecord]
      BY KeeperInitInv DEF KeeperInv, StackerTypes
<1>2. \A t \in Tick : stTick[t].pc \notin Sending
      BY DEF StackerInit, NoTick, Sending
<1>3. stSent = {} /\ stBonded = 0
      BY DEF StackerInit
<1>4. SentSum({}) = 0
      BY SumEmpty DEF SentSum
<1>5. RowSum(stExec, (1 .. Runs) \ Unsent(stTick)) \in Nat
      BY <1>1, RowSums
<1> QED BY <1>2, <1>3, <1>4, <1>5, FS_EmptySet DEF SentInv, SentFits, SendingFits

\* Steps that send nothing and deliver nothing: the amounts stand, and no tick
\* comes to a broadcast.
LEMMA NothingSent ==
  ASSUME KeeperInv, KeeperInv', SentInv, UNCHANGED <<stBonded, stSent>>,
         \A r \in 1 .. Runs : /\ stExec'[r].amount = stExec[r].amount
                              /\ stExec'[r].status = "none" => stExec[r].status = "none",
         \A t \in Tick : stTick'[t].pc \in Sending =>
            /\ stTick[t].pc \in Sending
            /\ stTick'[t].run = stTick[t].run /\ stTick'[t].amount = stTick[t].amount
  PROVE  SentInv'
<1>1. /\ stExec \in [1 .. Runs -> RunRecord] /\ stExec' \in [1 .. Runs -> RunRecord]
      /\ stSent \subseteq SentRecord
      BY DEF KeeperInv, StackerTypes
<1>2. \A t \in Tick : stTick[t].pc \in Sending => stTick[t].run \in 1 .. Runs
  <2>1. \A t \in Tick : TickFits(stTick[t], stExec)
        BY DEF KeeperInv, TicksFit
  <2>2. Sending \subseteq InRun
        BY DEF Sending, InRun, Working
  <2> QED BY <2>1, <2>2, StackerNumbers DEF TickFits, TickRecord
<1>3. Unsent(stTick') \subseteq Unsent(stTick)
      BY DEF Unsent
<1>4. SentFits(stExec', stSent')
      BY <1>1 DEF SentInv, SentFits, SentRecord
<1>5. SendingFits(stExec', stTick')
      BY <1>2 DEF SentInv, SendingFits
<1> DEFINE R == (1 .. Runs) \ Unsent(stTick)
           Q == (1 .. Runs) \ Unsent(stTick')
<1>6. RowSum(stExec', R) = RowSum(stExec, R)
      BY <1>1, RowSums
<1>7. RowSum(stExec', R) <= RowSum(stExec', Q)
  <2>1. Q \in SUBSET (1 .. Runs) /\ R \in SUBSET Q
        BY <1>3
  <2> HIDE DEF R, Q
  <2> QED BY <1>1, <2>1, RowSums
<1>8. /\ RowSum(stExec', R) \in Nat /\ RowSum(stExec', Q) \in Nat
      /\ RowSum(stExec, R) \in Nat
      BY <1>1, RowSums
<1>9. SentSum(stSent) \in Nat /\ stBonded \in Nat
      /\ stBonded + SentSum(stSent) <= RowSum(stExec, R)
  <2>1. IsFiniteSet(stSent)
        BY DEF SentInv, SentFits
  <2>2. [run |-> 1, amount |-> 0] \in SentRecord \/ stSent = {}
        BY <1>1, StackerNumbers DEF SentRecord
  <2>3. CASE stSent = {}
    <3>1. SentSum({}) = 0
          BY SumEmpty DEF SentSum
    <3> QED BY <2>3, <3>1 DEF SentInv
  <2>4. CASE stSent # {}
        BY <1>1, <2>1, <2>2, <2>4, SentSums DEF SentInv
  <2> QED BY <2>3, <2>4 DEF SentInv
<1> HIDE DEF R, Q
<1>10. stBonded' + SentSum(stSent') <= RowSum(stExec', Q)
      BY <1>6, <1>7, <1>8, <1>9
<1> QED BY <1>4, <1>5, <1>9, <1>10 DEF SentInv, Q

\* One tick moves, not to a broadcast it was not already before.
LEMMA QuietTick ==
  ASSUME KeeperInv, KeeperInv', SentInv, UNCHANGED <<stBonded, stSent>>,
         NEW t \in Tick, NEW y, stTick' = [stTick EXCEPT ![t] = y],
         y.pc \in Sending => /\ stTick[t].pc \in Sending
                             /\ y.run = stTick[t].run /\ y.amount = stTick[t].amount,
         \A r \in 1 .. Runs : /\ stExec'[r].amount = stExec[r].amount
                              /\ stExec'[r].status = "none" => stExec[r].status = "none"
  PROVE  SentInv'
<1>1. \A u \in Tick : stTick'[u] = IF u = t THEN y ELSE stTick[u]
      BY DEF KeeperInv, TicksFit
<1>2. \A u \in Tick : stTick'[u].pc \in Sending =>
        /\ stTick[u].pc \in Sending
        /\ stTick'[u].run = stTick[u].run /\ stTick'[u].amount = stTick[u].amount
      BY <1>1
<1> QED BY <1>2, NothingSent

\* A tick that is done with a strategy sends nothing.
LEMMA QuietLoop ==
  ASSUME KeeperInv, KeeperInv', SentInv, UNCHANGED <<stBonded, stSent, stExec>>,
         NEW t \in Tick, NEW done, LoopGoesOn(t, done)
  PROVE  SentInv'
<1>1. TickFits(stTick[t], stExec)
      BY DEF KeeperInv, TicksFit
<1>2. PICK y : /\ stTick' = [stTick EXCEPT ![t] = y]
               /\ TickFits(y, stExec) /\ y.run = 0
      BY <1>1, LoopTick
<1>3. y.pc \notin Sending
      BY <1>2 DEF TickFits, Sending, InRun, Working
<1> QED BY <1>2, <1>3, QuietTick

\* A tick that goes on without sending.
LEMMA QuietGoes ==
  ASSUME KeeperInv, KeeperInv', SentInv, UNCHANGED <<stBonded, stSent>>,
         NEW t \in Tick, NEW pc, Goes(t, pc),
         pc \in Sending => stTick[t].pc \in Sending,
         \A r \in 1 .. Runs : /\ stExec'[r].amount = stExec[r].amount
                              /\ stExec'[r].status = "none" => stExec[r].status = "none"
  PROVE  SentInv'
<1>1. TickFits(stTick[t], stExec)
      BY DEF KeeperInv, TicksFit
<1> DEFINE y == WithPc(stTick[t], pc)
<1>2. stTick' = [stTick EXCEPT ![t] = y]
      BY <1>1, GoesTick
<1>3. y.pc = pc /\ y.run = stTick[t].run /\ y.amount = stTick[t].amount
      BY DEF WithPc
<1> HIDE DEF y
<1> QED BY <1>2, <1>3, QuietTick

\* The place of a tick, when another field changes with it.
LEMMA PcChanges ==
  ASSUME NEW x \in TickRecord, NEW pc, NEW a
  PROVE  /\ [x EXCEPT !.pc = pc, !.s = a].pc = pc
         /\ [x EXCEPT !.pc = pc, !.amount = a].pc = pc
<1>1. [pc |-> pc, now |-> x.now, left |-> x.left, s |-> a, amount |-> x.amount,
       run |-> x.run].pc = pc
      OBVIOUS
<1>2. [pc |-> pc, now |-> x.now, left |-> x.left, s |-> x.s, amount |-> a,
       run |-> x.run].pc = pc
      OBVIOUS
<1> QED BY <1>1, <1>2, TwoChanges

\* Before the run: nothing is written of it.
LEMMA BeforeRunSends ==
  ASSUME KeeperInv, KeeperInv', SentInv, NEW t \in Tick,
         \/ TickStarts(t) \/ TakesStrategy(t) \/ ChecksGrants(t) \/ MarksExpired(t)
         \/ ReadsBalance(t)
  PROVE  SentInv'
<1>1. UNCHANGED <<stBonded, stSent, stExec>>
      BY DEF TickStarts, TakesStrategy, ChecksGrants, MarksExpired, ReadsBalance
<1>2. \A pc \in {"next", "grants", "balance", "expire", "create"} : pc \notin Sending
      BY DEF Sending
<1>8. stTick[t] \in TickRecord
      BY DEF KeeperInv, TicksFit, TickFits
<1>3. CASE TickStarts(t)
  <2>1. PICK y : stTick' = [stTick EXCEPT ![t] = y] /\ y.pc = "next"
    <3>1. [NoTick EXCEPT !.pc = "next", !.now = stNow, !.left = Runnable(stNow)].pc = "next"
          BY NextTick
    <3> QED BY <1>3, <3>1 DEF TickStarts
  <2> QED BY <1>1, <1>2, <2>1, QuietTick
<1>4. CASE TakesStrategy(t)
  <2>1. PICK s \in stTick[t].left :
          \/ LoopGoesOn(t, {s})
          \/ stTick' = [stTick EXCEPT ![t].pc = "grants", ![t].s = s]
        BY <1>4 DEF TakesStrategy
  <2>2. CASE stTick' = [stTick EXCEPT ![t].pc = "grants", ![t].s = s]
    <3>1. [stTick[t] EXCEPT !.pc = "grants", !.s = s].pc = "grants"
          BY <1>8, PcChanges
    <3>2. PICK y : stTick' = [stTick EXCEPT ![t] = y] /\ y.pc = "grants"
          BY <2>2, <3>1
    <3> QED BY <1>1, <1>2, <3>2, QuietTick
  <2> QED BY <1>1, <2>1, <2>2, QuietLoop
<1>5. CASE ChecksGrants(t)
  <2>1. PICK pc \in {"balance", "expire"} : Goes(t, pc)
        BY <1>5 DEF ChecksGrants
  <2> QED BY <1>1, <1>2, <2>1, QuietGoes
<1>6. CASE MarksExpired(t)
      BY <1>1, <1>6, QuietLoop DEF MarksExpired
<1>7. CASE ReadsBalance(t)
  <2>1. CASE stTick' = [stTick EXCEPT ![t].pc = "create", ![t].amount = InputAmount]
    <3>1. [stTick[t] EXCEPT !.pc = "create", !.amount = InputAmount].pc = "create"
          BY <1>8, PcChanges
    <3>2. PICK y : stTick' = [stTick EXCEPT ![t] = y] /\ y.pc = "create"
          BY <2>1, <3>1
    <3> QED BY <1>1, <1>2, <3>2, QuietTick
  <2> QED BY <1>1, <1>7, <2>1, QuietLoop DEF ReadsBalance
<1> QED BY <1>3, <1>4, <1>5, <1>6, <1>7

\* The run goes on, or ends: the rows keep their amounts.
LEMMA RunSends ==
  ASSUME KeeperInv, KeeperInv', SentInv, NEW t \in Tick,
         \/ MarksExecuting(t) \/ RecordsSuccess(t) \/ RecordsFailure(t)
         \/ SyncsAndSettles(t) \/ ReopensAfterFailure(t) \/ RecordingThrows(t)
         \/ TickThrows(t)
  PROVE  SentInv'
<1>1. UNCHANGED <<stBonded, stSent>>
      BY DEF MarksExecuting, RecordsSuccess, RecordsFailure, SyncsAndSettles,
             ReopensAfterFailure, RecordingThrows, TickThrows
<1>2. CASE MarksExecuting(t)
      BY <1>1, <1>2, QuietGoes DEF MarksExecuting, Sending
<1>3. CASE RecordsSuccess(t) \/ RecordsFailure(t)
  <2>1. PICK status \in {"success", "failed"} :
          stExec' = [stExec EXCEPT ![stTick[t].run].status = status]
        BY <1>3 DEF RecordsSuccess, RecordsFailure
  <2>2. PICK pc \in {"sync", "reopen"} : Goes(t, pc)
        BY <1>3 DEF RecordsSuccess, RecordsFailure
  <2>3. pc \notin Sending
        BY DEF Sending
  <2>4. \A r \in 1 .. Runs : /\ stExec'[r].amount = stExec[r].amount
                             /\ stExec'[r].status = "none" => stExec[r].status = "none"
        BY <2>1 DEF KeeperInv, StackerTypes, RunRecord
  <2> QED BY <1>1, <2>2, <2>3, <2>4, QuietGoes
<1>4. CASE SyncsAndSettles(t) \/ ReopensAfterFailure(t)
      BY <1>1, <1>4, QuietLoop DEF SyncsAndSettles, ReopensAfterFailure
<1>5. CASE RecordingThrows(t)
      BY <1>1, <1>5, QuietGoes DEF RecordingThrows, Sending
<1>6. CASE TickThrows(t)
  <2>1. NoTick.pc \notin Sending
        BY DEF NoTick, Sending
  <2> QED BY <1>1, <1>6, <2>1, QuietTick DEF TickThrows
<1> QED BY <1>2, <1>3, <1>4, <1>5, <1>6

\* Outside the ticks, but for the blocks.
LEMMA OutsideSends ==
  ASSUME KeeperInv, KeeperInv', SentInv,
         \/ KeeperRestarts \/ PrepareGrants \/ ConfirmWrites \/ ChangeWritten
         \/ \E s \in Strategy :
              ConfirmRequested(s) \/ \E to \in {"paused", "active"} : ChangeRequested(s, to)
         \/ OwnerSignsGrants \/ StackerTimePasses \/ UNCHANGED stackerVars
  PROVE  SentInv'
<1>1. UNCHANGED <<stBonded, stSent, stExec>>
      BY DEF KeeperRestarts, PrepareGrants, ConfirmWrites, ChangeWritten, ConfirmRequested,
             ChangeRequested, OwnerSignsGrants, StackerTimePasses, stackerVars, stApiOnly,
             stChain
<1>2. stTick' = stTick \/ stTick' = [t \in Tick |-> NoTick]
      BY DEF KeeperRestarts, PrepareGrants, ConfirmWrites, ChangeWritten, ConfirmRequested,
             ChangeRequested, OwnerSignsGrants, StackerTimePasses, stackerVars, stApiOnly
<1>3. NoTick.pc \notin Sending
      BY DEF NoTick, Sending
<1> QED BY <1>1, <1>2, <1>3, NothingSent

\* What the sums are of what is there.
LEMMA SumsHere ==
  ASSUME StackerTypes, SentInv
  PROVE  /\ SentSum(stSent) \in Nat /\ IsFiniteSet(stSent) /\ stBonded \in Nat
         /\ stSent \in SUBSET SentRecord /\ stExec \in [1 .. Runs -> RunRecord]
         /\ stBonded + SentSum(stSent) <= RowSum(stExec, (1 .. Runs) \ Unsent(stTick))
         /\ \A R \in SUBSET (1 .. Runs) : RowSum(stExec, R) \in Nat
<1>1. /\ stSent \in SUBSET SentRecord /\ IsFiniteSet(stSent) /\ stBonded \in Nat
      /\ stExec \in [1 .. Runs -> RunRecord]
      BY DEF StackerTypes, SentInv, SentFits
<1>2. SentSum(stSent) \in Nat
  <2>1. CASE stSent = {}
    <3>1. SentSum({}) = 0
          BY SumEmpty DEF SentSum
    <3> QED BY <2>1, <3>1
  <2>2. CASE stSent # {}
        BY <1>1, <2>2, SentSums
  <2> QED BY <2>1, <2>2
<1>3. \A R \in SUBSET (1 .. Runs) : RowSum(stExec, R) \in Nat
      BY <1>1, RowSums
<1> QED BY <1>1, <1>2, <1>3 DEF SentInv

\* A row is written before anything is sent: it is one of the unsent ones.
LEMMA CreatesExecutionSends ==
  ASSUME KeeperInv, SentInv, NEW t \in Tick, CreatesExecution(t) PROVE SentInv'
<1> DEFINE x == stTick[t]
<1>1. PICK r : r = Min(FreeRuns)
      OBVIOUS
<1>2. r \in 1 .. Runs /\ stExec[r].status = "none" /\ stExec[r].amount = 0
  <2>1. FreeRuns \in SUBSET Nat /\ FreeRuns # {}
        BY DEF FreeRuns, CreatesExecution
  <2>2. r \in FreeRuns
        BY <1>1, <2>1, MinIn
  <2> QED BY <2>2 DEF FreeRuns, NoRun
<1>3. x.pc = "create" /\ x \in TickRecord
      BY DEF CreatesExecution, KeeperInv, TicksFit, TickFits
<1> DEFINE e == [strategy |-> x.s, status |-> "providing", amount |-> x.amount]
           z == [pc |-> "mark", now |-> x.now, left |-> x.left, s |-> x.s,
                 amount |-> x.amount, run |-> r]
<1>4. stExec' = [stExec EXCEPT ![r] = e]
      BY <1>1 DEF CreatesExecution
<1>5. stTick' = [stTick EXCEPT ![t] = z]
  <2>1. stTick' = [stTick EXCEPT ![t] = [x EXCEPT !.pc = "mark", !.run = r]]
        BY <1>1 DEF CreatesExecution
  <2>2. [x EXCEPT !.pc = "mark", !.run = r] = z
    <3>1. [x EXCEPT !.pc = "mark", !.run = r]
            = [pc |-> "mark", now |-> x.now, left |-> x.left, s |-> x.s,
               amount |-> x.amount, run |-> r]
          BY <1>3, MarkedTick
    <3> QED BY <3>1
  <2> QED BY <2>1, <2>2
<1>6. UNCHANGED <<stSent, stBonded>>
      BY DEF CreatesExecution
<1>7. /\ z.pc = "mark" /\ z.run = r /\ z.amount = x.amount
      /\ e.amount = x.amount /\ e.status = "providing"
      OBVIOUS
<1> HIDE DEF z, e
<1>8. /\ stTick'[t] = z /\ \A u \in Tick \ {t} : stTick'[u] = stTick[u]
      /\ stExec'[r] = e /\ \A q \in (1 .. Runs) \ {r} : stExec'[q] = stExec[q]
      BY <1>2, <1>4, <1>5 DEF KeeperInv, TicksFit, StackerTypes
<1>9. \A u \in Tick : stTick[u].pc \in Sending => stTick[u].run \in (1 .. Runs) \ {r}
  <2>1. \A u \in Tick : TickFits(stTick[u], stExec)
        BY DEF KeeperInv, TicksFit
  <2>2. Sending \subseteq InRun
        BY DEF Sending, InRun, Working
  <2> QED BY <1>2, <2>1, <2>2, StackerNumbers DEF TickFits, TickRecord
<1>10. SendingFits(stExec', stTick')
  <2> SUFFICES ASSUME NEW v \in Tick, stTick'[v].pc \in Sending
               PROVE  /\ stExec'[stTick'[v].run].amount = stTick'[v].amount
                      /\ \A u \in Tick : (stTick'[u].pc \in Sending
                                           /\ stTick'[u].run = stTick'[v].run) => u = v
      BY DEF SendingFits
  <2>1. CASE v = t
        BY <1>7, <1>8, <1>9, <2>1
  <2>2. CASE v # t
    <3>1. /\ stExec[stTick[v].run].amount = stTick[v].amount
          /\ \A u \in Tick : (stTick[u].pc \in Sending /\ stTick[u].run = stTick[v].run)
                              => u = v
          BY <1>8, <2>2 DEF SentInv, SendingFits
    <3> QED BY <1>7, <1>8, <1>9, <2>2, <3>1
  <2> QED BY <2>1, <2>2
<1>11. SentFits(stExec', stSent')
  <2>1. \A tx \in stSent : tx.run \in (1 .. Runs) \ {r}
        BY <1>2 DEF KeeperInv, StackerTypes, SentRecord, SentInv, SentFits
  <2>2. \A tx \in stSent : stExec'[tx.run] = stExec[tx.run]
        BY <1>8, <2>1
  <2>3. SentFits(stExec, stSent)
        BY DEF SentInv
  <2> QED BY <1>6, <2>2, <2>3 DEF SentFits
<1> DEFINE R == (1 .. Runs) \ Unsent(stTick)
           Q == (1 .. Runs) \ Unsent(stTick')
<1>12. Q = R \ {r} /\ r \in R
  <2>1. Unsent(stTick') = Unsent(stTick) \cup {r}
    <3>1. Unsent(stTick') \subseteq Unsent(stTick) \cup {r}
          BY <1>7, <1>8 DEF Unsent
    <3>2. Unsent(stTick) \subseteq Unsent(stTick')
      <4> SUFFICES ASSUME NEW u \in Tick, stTick[u].pc \in Sending,
                          stTick[u].run \in 1 .. Runs
                   PROVE  stTick[u].run \in Unsent(stTick')
          BY DEF Unsent
      <4>1. u # t
            BY <1>3 DEF Sending
      <4> QED BY <1>8, <4>1 DEF Unsent
    <3>3. r \in Unsent(stTick')
      <4>1. stTick'[t].run = r /\ stTick'[t].pc \in Sending
            BY <1>7, <1>8 DEF Sending
      <4> QED BY <1>2, <4>1 DEF Unsent
    <3> QED BY <3>1, <3>2, <3>3
  <2>2. r \notin Unsent(stTick)
        BY <1>9 DEF Unsent
  <2> QED BY <1>2, <2>1, <2>2
<1>13. R \in SUBSET (1 .. Runs) /\ Q \in SUBSET (1 .. Runs)
      OBVIOUS
<1>14. SentSum(stSent) \in Nat /\ stBonded \in Nat
       /\ stBonded + SentSum(stSent) <= RowSum(stExec, R)
       /\ stExec \in [1 .. Runs -> RunRecord]
       /\ RowSum(stExec, R) \in Nat /\ RowSum(stExec, Q) \in Nat
      BY SumsHere DEF KeeperInv
<1> HIDE DEF R, Q
<1>15. RowSum(stExec, R) = RowSum(stExec, Q)
  <2>1. RowSum(stExec, R) = stExec[r].amount + RowSum(stExec, R \ {r})
        BY <1>12, <1>13, <1>14, RowSums
  <2> QED BY <1>2, <1>12, <1>14, <2>1
<1>16. RowSum(stExec', Q) = RowSum(stExec, Q)
  <2>1. stExec' \in [1 .. Runs -> RunRecord]
        BY CreatesExecutionKeeps DEF KeeperInv, StackerTypes
  <2>2. \A q \in Q : stExec'[q].amount = stExec[q].amount
        BY <1>8, <1>12, <1>13
  <2> QED BY <1>13, <1>14, <2>1, <2>2, RowSums
<1>17. stBonded' + SentSum(stSent') <= RowSum(stExec', Q)
      BY <1>6, <1>14, <1>15, <1>16
<1> QED BY <1>6, <1>10, <1>11, <1>14, <1>17 DEF SentInv, Q

\* The broadcast: the row that covers it is not an unsent one any more.
LEMMA SendsDelegationSends ==
  ASSUME KeeperInv, KeeperInv', SentInv, NEW t \in Tick, SendsDelegation(t)
  PROVE  SentInv'
<1>1. PICK tx : tx = [run |-> stTick[t].run, amount |-> stTick[t].amount]
      OBVIOUS
<1>2. PICK pc \in {"record", "failed"} : Goes(t, pc)
      BY DEF SendsDelegation
<1>3. CASE stSent' = stSent
  <2>1. UNCHANGED <<stBonded, stExec>> /\ pc \notin Sending
        BY DEF SendsDelegation, Sending
  <2> QED BY <1>2, <1>3, <2>1, QuietGoes
<1>4. CASE stSent' = stSent \cup {tx}
  <2> DEFINE r == stTick[t].run
             y == WithPc(stTick[t], pc)
  <2>1. /\ TickFits(stTick[t], stExec) /\ stTick[t].pc \in Sending
        /\ UNCHANGED <<stBonded, stExec>>
        BY DEF SendsDelegation, KeeperInv, TicksFit, Sending
  <2>2. r \in 1 .. Runs /\ tx \in SentRecord /\ tx.run = r /\ tx.amount = stTick[t].amount
        BY <1>1, <2>1, StackerNumbers
           DEF TickFits, TickRecord, SentRecord, InRun, Working, Sending
  <2>3. stExec[r].amount = tx.amount /\ stExec[r].status # "none"
        BY <2>1, <2>2 DEF SentInv, SendingFits, TickFits, InRun, Working, Sending
  <2>4. /\ stTick'[t].pc \notin Sending
        /\ \A u \in Tick \ {t} : stTick'[u] = stTick[u]
    <3>1. stTick' = [stTick EXCEPT ![t] = y]
          BY <1>2, <2>1, GoesTick
    <3>2. y.pc = pc /\ pc \notin Sending
          BY DEF WithPc, Sending
    <3> HIDE DEF y
    <3> QED BY <3>1, <3>2 DEF KeeperInv, TicksFit
  <2> HIDE DEF y
  <2>5. SendingFits(stExec', stTick')
        BY <2>1, <2>4 DEF SentInv, SendingFits
  <2> DEFINE R == (1 .. Runs) \ Unsent(stTick)
             Q == (1 .. Runs) \ Unsent(stTick')
  <2>6. r \in Q /\ r \notin R /\ R \subseteq Q
    <3>1. r \in Unsent(stTick)
          BY <2>1, <2>2 DEF Unsent
    <3>2. r \notin Unsent(stTick')
      <4>1. \A u \in Tick \ {t} : stTick[u].pc \in Sending => stTick[u].run # r
            BY <2>1 DEF SentInv, SendingFits
      <4> QED BY <2>4, <4>1 DEF Unsent
    <3>3. Unsent(stTick') \subseteq Unsent(stTick)
          BY <2>4 DEF Unsent
    <3> QED BY <2>2, <3>1, <3>2, <3>3
  <2>7. R \in SUBSET (1 .. Runs) /\ Q \in SUBSET (1 .. Runs)
        OBVIOUS
  <2>8. SentSum(stSent) \in Nat /\ stBonded \in Nat /\ IsFiniteSet(stSent)
        /\ stSent \in SUBSET SentRecord
        /\ stBonded + SentSum(stSent) <= RowSum(stExec, R)
        /\ stExec \in [1 .. Runs -> RunRecord]
        /\ RowSum(stExec, R) \in Nat /\ RowSum(stExec, Q) \in Nat
        BY SumsHere DEF KeeperInv
  <2> HIDE DEF R, Q
  <2>9. RowSum(stExec, R) + tx.amount <= RowSum(stExec, Q)
    <3>1. RowSum(stExec, Q) = stExec[r].amount + RowSum(stExec, Q \ {r})
          BY <2>6, <2>7, <2>8, RowSums
    <3>2. Q \ {r} \in SUBSET (1 .. Runs) /\ R \in SUBSET (Q \ {r})
          BY <2>6, <2>7
    <3>3. RowSum(stExec, R) <= RowSum(stExec, Q \ {r}) /\ RowSum(stExec, Q \ {r}) \in Nat
          BY <2>8, <3>2, RowSums
    <3> QED BY <2>2, <2>3, <2>8, <3>1, <3>3 DEF SentRecord
  <2>10. /\ SentSum(stSent') <= SentSum(stSent) + tx.amount
         /\ SentSum(stSent') \in Nat /\ IsFiniteSet(stSent')
        BY <1>4, <2>2, <2>8, SentSums
  <2>11. tx.amount \in Nat
        BY <2>2 DEF SentRecord
  <2>12. stBonded' + SentSum(stSent') <= RowSum(stExec', Q)
        BY <2>1, <2>8, <2>9, <2>10, <2>11
  <2>13. SentFits(stExec', stSent')
    <3>1. stExec[tx.run].amount = tx.amount /\ stExec[tx.run].status # "none"
          BY <2>2, <2>3
    <3> HIDE DEF r
    <3> QED BY <1>4, <2>1, <2>10, <3>1 DEF SentInv, SentFits
  <2> QED BY <2>1, <2>5, <2>8, <2>12, <2>13 DEF SentInv, Q
<1> QED BY <1>1, <1>3, <1>4 DEF SendsDelegation

\* A block: what it delegates was sent.
LEMMA DeliveredSends ==
  ASSUME KeeperInv, KeeperInv', SentInv, NEW tx \in stSent, Delivered(tx)
  PROVE  SentInv'
<1>1. /\ UNCHANGED <<stExec, stTick>> /\ stSent' = stSent \ {tx}
      /\ stBonded' = stBonded + tx.amount \/ stBonded' = stBonded
      BY DEF Delivered
<1> DEFINE R == (1 .. Runs) \ Unsent(stTick)
<1>2. SentSum(stSent) \in Nat /\ stBonded \in Nat /\ IsFiniteSet(stSent)
      /\ stSent \in SUBSET SentRecord
      /\ stBonded + SentSum(stSent) <= RowSum(stExec, R)
      /\ RowSum(stExec, R) \in Nat
      BY SumsHere DEF KeeperInv
<1> HIDE DEF R
<1>3. tx \in SentRecord /\ tx.amount \in Nat
      BY <1>2 DEF SentRecord
<1>4. /\ SentSum(stSent) = tx.amount + SentSum(stSent')
      /\ SentSum(stSent') \in Nat /\ IsFiniteSet(stSent')
      BY <1>1, <1>2, <1>3, SentSums
<1>5. stBonded' \in Nat /\ stBonded' + SentSum(stSent') <= RowSum(stExec, R)
      BY <1>1, <1>2, <1>3, <1>4
<1>6. SentFits(stExec', stSent') /\ SendingFits(stExec', stTick')
      BY <1>1, <1>4 DEF SentInv, SentFits, SendingFits
<1> QED BY <1>1, <1>5, <1>6 DEF SentInv, R

\* Every step keeps both invariants.
LEMMA SentInvStep ==
  KeeperInv /\ SentInv /\ [StackerNext]_stackerVars => KeeperInv' /\ SentInv'
<1> SUFFICES ASSUME KeeperInv, SentInv, [StackerNext]_stackerVars
             PROVE  KeeperInv' /\ SentInv'
    OBVIOUS
<1>1. KeeperInv'
      BY KeeperInvStep
<1>2. CASE \E t \in Tick : KeeperStep(t)
      BY <1>1, <1>2, BeforeRunSends, CreatesExecutionSends, SendsDelegationSends, RunSends
         DEF KeeperStep
<1>3. CASE \E tx \in stSent : Delivered(tx)
      BY <1>1, <1>3, DeliveredSends
<1> QED BY <1>1, <1>2, <1>3, OutsideSends DEF StackerNext

\* For any strategies, ticks and amounts: a transaction under way has the amount of its row,
\* and the rows account for at least what is delegated and under way, through every restart
\* (keeper-runner.ts: executeActiveStrategy).
THEOREM DelegatedIsRecordedHolds == StackerSpec => []DelegatedIsRecorded
<1>1. KeeperInv /\ SentInv => DelegatedIsRecorded
  <2> SUFFICES ASSUME KeeperInv, SentInv PROVE DelegatedIsRecorded
      OBVIOUS
  <2> DEFINE R == (1 .. Runs) \ Unsent(stTick)
  <2>1. /\ SentSum(stSent) \in Nat /\ stBonded \in Nat
        /\ stBonded + SentSum(stSent) <= RowSum(stExec, R)
        /\ stExec \in [1 .. Runs -> RunRecord]
        /\ RowSum(stExec, R) \in Nat /\ RowSum(stExec, 1 .. Runs) \in Nat
        BY SumsHere DEF KeeperInv
  <2>2. R \in SUBSET (1 .. Runs) /\ (1 .. Runs) \in SUBSET (1 .. Runs)
        OBVIOUS
  <2> HIDE DEF R
  <2>3. RowSum(stExec, R) <= RowSum(stExec, 1 .. Runs)
        BY <2>1, <2>2, RowSums
  <2>4. stBonded + SentSum(stSent) <= RowSum(stExec, 1 .. Runs)
        BY <2>1, <2>3
  <2>5. /\ SentSum(stSent) = SumFunction([tx \in stSent |-> tx.amount])
        /\ RowSum(stExec, 1 .. Runs) = SumFunction([r \in 1 .. Runs |-> stExec[r].amount])
        BY DEF SentSum, RowSum, SumFunction
  <2> QED BY <2>4, <2>5 DEF DelegatedIsRecorded, SentInv, SentFits
<1> QED BY <1>1, KeeperInitInv, SentInitInv, SentInvStep, PTL DEF StackerSpec

-----------------------------------------------------------------------------
(* The position of the owner and the vault behind it.                      *)

Txs == [status : {"sent", "included", "failed"}, lp : Nat \ {0}, epoch : Nat]

Included(n) == vtTx[n].status = "included"

\* What a deposit bonded is there until somebody unbonds.
TxOK ==
  /\ vtTx \in Seq(Txs)
  /\ \A n \in 1 .. Len(vtTx) :
       Included(n) =>
         vtTx[n].epoch <= vtEpoch /\ (vtTx[n].epoch = vtEpoch => vtTx[n].lp <= vtBonded)

\* A snapshot is what a transaction of the run bonded, and the share that was read is
\* still the one in the position: nobody else writes it.
RunOK(s) ==
  /\ DOMAIN vtRun[s] = {"pc", "tx", "snapshot", "old", "read"}
  /\ vtRun[s].pc \in {"idle", "sent", "sync", "write"}
  /\ vtRun[s].snapshot \in Nat /\ vtRun[s].old \in Nat /\ vtRun[s].read \in Nat
  /\ vtRun[s].pc # "idle" => vtRun[s].tx \in 1 .. Len(vtTx)
  /\ vtRun[s].pc \in {"sync", "write"} /\ vtRun[s].snapshot # Untold =>
       Included(vtRun[s].tx) /\ vtTx[vtRun[s].tx].lp = vtRun[s].snapshot
  /\ vtRun[s].pc = "write" => vtRun[s].old = vtPosition[s].locked

PositionOK(s) ==
  /\ vtPosition[s].locked \in Nat /\ vtPosition[s].delegated \in Nat
  /\ vtSeen[s] \in Int /\ vtSeen[s] <= vtEpoch
  /\ vtSeen[s] # -1 => vtPosition[s].locked # 0
  /\ vtSeen[s] = vtEpoch => vtPosition[s].locked <= vtBonded

VaultInv ==
  /\ vtBonded \in Nat /\ vtEpoch \in Nat /\ TxOK
  /\ DOMAIN vtRun = VaultStrategy /\ DOMAIN vtPosition = VaultStrategy
  /\ DOMAIN vtSeen = VaultStrategy
  /\ \A s \in VaultStrategy : RunOK(s) /\ PositionOK(s)
  /\ \A u \in vtPrepared : u.lp \in Int

\* The invariant holds with nothing bonded.
LEMMA VaultInitInv == VaultInit => VaultInv
BY DEF VaultInit, VaultInv, TxOK, RunOK, PositionOK, NoVaultRun, NoPosition, Untold

\* The invariant contains the property.
LEMMA CoveredByInv == VaultInv => UnbondCovered
BY DEF VaultInv, PositionOK, UnbondCovered, Tracked

TxsGrow ==
  /\ Len(vtTx') >= Len(vtTx)
  /\ \A n \in 1 .. Len(vtTx) : Included(n) => vtTx'[n] = vtTx[n]

\* Runs of other strategies do not notice.
LEMMA RunStays ==
  ASSUME VaultInv, TxOK', TxsGrow, NEW s \in VaultStrategy,
         vtRun'[s] = vtRun[s], vtPosition'[s] = vtPosition[s]
  PROVE  RunOK(s)'
<1>1. RunOK(s) /\ Len(vtTx) \in Nat /\ Len(vtTx') \in Nat
      BY DEF VaultInv, TxOK
<1> QED BY <1>1 DEF RunOK, TxsGrow, Included

\* Positions stay covered while only deposits happen.
LEMMA PositionStays ==
  ASSUME VaultInv, NEW s \in VaultStrategy, vtBonded' \in Nat, vtBonded' >= vtBonded,
         vtEpoch' = vtEpoch, vtSeen'[s] = vtSeen[s], vtPosition'[s] = vtPosition[s]
  PROVE  PositionOK(s)'
BY DEF VaultInv, PositionOK

\* A new transaction, and a run that has it.
LEMMA DepositKeepsInv ==
  ASSUME VaultInv, NEW s \in VaultStrategy, BroadcastsDeposit(s) \/ DryRunDeposits(s)
  PROVE  VaultInv'
<1> USE VaultAssumption DEF VaultInv
<1>1. PICK lp \in LpQuotes, status \in {"sent", "included"} :
        /\ vtTx' = Append(vtTx, [status |-> status, lp |-> lp,
                                 epoch |-> IF status = "sent" THEN 0 ELSE vtEpoch])
        /\ vtBonded' = IF status = "sent" THEN vtBonded ELSE vtBonded + lp
        /\ vtRun' = [vtRun EXCEPT ![s] =
             IF status = "sent"
             THEN [[NoVaultRun EXCEPT !.pc = "sent"] EXCEPT !.tx = Len(vtTx) + 1]
             ELSE [[NoVaultRun EXCEPT !.pc = "sync", !.snapshot = lp] EXCEPT !.tx = Len(vtTx) + 1]]
      BY DEF BroadcastsDeposit, DryRunDeposits, VaultRunStarts
<1>2. UNCHANGED <<vtMode, vtPrepared, vtEpoch, vtPosition, vtSeen>>
      BY DEF BroadcastsDeposit, DryRunDeposits, vtApiOnly
<1> DEFINE tx == [status |-> status, lp |-> lp, epoch |-> IF status = "sent" THEN 0 ELSE vtEpoch]
<1>3. tx \in Txs /\ lp \in Nat \ {0} /\ vtBonded' \in Nat /\ vtBonded' >= vtBonded
      BY <1>1 DEF Txs
<1>4. /\ vtTx' \in Seq(Txs) /\ Len(vtTx') = Len(vtTx) + 1 /\ Len(vtTx) \in Nat
      /\ \A n \in 1 .. Len(vtTx) : vtTx'[n] = vtTx[n]
      /\ vtTx'[Len(vtTx) + 1] = tx
      BY <1>1, <1>3, AppendProperties DEF TxOK
<1>5. TxOK'
  <2> SUFFICES ASSUME NEW n \in 1 .. Len(vtTx'), Included(n)'
               PROVE  /\ vtTx'[n].epoch <= vtEpoch
                      /\ vtTx'[n].epoch = vtEpoch => vtTx'[n].lp <= vtBonded'
      BY <1>2, <1>4 DEF TxOK
  <2>1. CASE n \in 1 .. Len(vtTx)
    <3>1. Included(n) /\ vtTx'[n] = vtTx[n] /\ vtTx[n] \in Txs
          BY <2>1, <1>4 DEF Included, TxOK
    <3> QED BY <3>1, <2>1, <1>3 DEF TxOK, Txs
  <2>2. CASE n = Len(vtTx) + 1
    <3>1. vtTx'[n] = tx /\ status = "included"
          BY <2>2, <1>4 DEF Included
    <3> QED BY <3>1, <1>1, <1>3
  <2> QED BY <2>1, <2>2, <1>4
<1>6. TxsGrow
      BY <1>4 DEF TxsGrow
<1>7. RunOK(s)'
      BY <1>1, <1>4 DEF RunOK, NoVaultRun, Included, Untold
<1>8. \A t \in VaultStrategy : PositionOK(t)'
      BY <1>2, <1>3, PositionStays
<1>9. \A t \in VaultStrategy \ {s} : RunOK(t)'
      BY <1>1, <1>2, <1>5, <1>6, RunStays
<1> QED BY <1>1, <1>2, <1>3, <1>5, <1>7, <1>8, <1>9

\* A block that takes a transaction adds to what is bonded, and changes no transaction
\* that was in one.
LEMMA InclusionKeepsInv ==
  ASSUME VaultInv, NEW n \in DOMAIN vtTx, DepositIncluded(n)
  PROVE  VaultInv'
<1> USE VaultAssumption DEF VaultInv
<1>1. n \in 1 .. Len(vtTx) /\ Len(vtTx) \in Nat /\ vtTx[n] \in Txs /\ ~Included(n)
      BY DEF TxOK, DepositIncluded, Included
<1>2. UNCHANGED <<vtPrepared, vtEpoch, vtPosition, vtRun, vtSeen>>
      BY DEF DepositIncluded, vtApiOnly
<1>3. PICK tx \in Txs :
        /\ vtTx' = [vtTx EXCEPT ![n] = tx]
        /\ vtBonded' \in Nat /\ vtBonded' >= vtBonded
        /\ tx.status = "included" => tx.epoch = vtEpoch /\ tx.lp <= vtBonded'
  <2>1. ASSUME NEW lp \in Max({1, vtTx[n].lp - SlipLp}) .. vtTx[n].lp,
               vtBonded' = vtBonded + lp,
               vtTx' = [vtTx EXCEPT ![n] = [status |-> "included", lp |-> lp, epoch |-> vtEpoch]]
        PROVE  \E tx \in Txs :
                 /\ vtTx' = [vtTx EXCEPT ![n] = tx]
                 /\ vtBonded' \in Nat /\ vtBonded' >= vtBonded
                 /\ tx.status = "included" => tx.epoch = vtEpoch /\ tx.lp <= vtBonded'
    <3> DEFINE floor == Max({1, vtTx[n].lp - SlipLp})
    <3>1. vtTx[n].lp - SlipLp \in Int /\ vtTx[n].lp \in Nat
          BY <1>1 DEF Txs
    <3>2. floor \in Int /\ floor >= 1
          BY <3>1 DEF Max
    <3> HIDE DEF floor
    <3>3. lp \in Nat \ {0}
          BY <2>1, <3>1, <3>2 DEF floor
    <3>4. [status |-> "included", lp |-> lp, epoch |-> vtEpoch] \in Txs
          BY <3>3 DEF Txs
    <3> DEFINE new == [status |-> "included", lp |-> lp, epoch |-> vtEpoch]
    <3>5. /\ vtTx' = [vtTx EXCEPT ![n] = new]
          /\ vtBonded' \in Nat /\ vtBonded' >= vtBonded
          /\ new.epoch = vtEpoch /\ new.lp <= vtBonded'
          BY <2>1, <3>3
    <3> HIDE DEF new
    <3> QED BY <3>4, <3>5 DEF new
  <2>2. ASSUME vtTx' = [vtTx EXCEPT ![n].status = "failed"], vtBonded' = vtBonded
        PROVE  \E tx \in Txs :
                 /\ vtTx' = [vtTx EXCEPT ![n] = tx]
                 /\ vtBonded' \in Nat /\ vtBonded' >= vtBonded
                 /\ tx.status = "included" => tx.epoch = vtEpoch /\ tx.lp <= vtBonded'
    <3>1. [vtTx[n] EXCEPT !.status = "failed"] \in Txs
          BY <1>1 DEF Txs
    <3>2. [vtTx[n] EXCEPT !.status = "failed"].status = "failed"
          BY <1>1 DEF Txs
    <3> DEFINE new == [vtTx[n] EXCEPT !.status = "failed"]
    <3>3. vtTx' = [vtTx EXCEPT ![n] = new]
          BY <2>2
    <3> HIDE DEF new
    <3>4. new \in Txs /\ new.status # "included"
          BY <3>1, <3>2 DEF new
    <3>5. vtBonded' \in Nat /\ vtBonded' >= vtBonded
          BY <2>2
    <3> QED BY <3>3, <3>4, <3>5, Zenon
  <2> QED BY <2>1, <2>2 DEF DepositIncluded
<1>4. /\ vtTx' \in Seq(Txs) /\ Len(vtTx') = Len(vtTx)
      /\ \A k \in 1 .. Len(vtTx) : vtTx'[k] = IF k = n THEN tx ELSE vtTx[k]
      BY <1>1, <1>3, ExceptSeq DEF TxOK
<1>5. TxOK'
  <2> SUFFICES ASSUME NEW k \in 1 .. Len(vtTx), Included(k)'
               PROVE  /\ vtTx'[k].epoch <= vtEpoch
                      /\ vtTx'[k].epoch = vtEpoch => vtTx'[k].lp <= vtBonded'
      BY <1>2, <1>4 DEF TxOK
  <2>1. CASE k = n
        BY <2>1, <1>3, <1>4 DEF Included
  <2>2. CASE k # n
    <3>1. vtTx'[k] = vtTx[k] /\ Included(k) /\ vtTx[k] \in Txs
          BY <2>2, <1>4 DEF Included, TxOK
    <3>2. vtTx[k].epoch <= vtEpoch /\ (vtTx[k].epoch = vtEpoch => vtTx[k].lp <= vtBonded)
          BY <3>1 DEF TxOK
    <3>3. vtTx[k].lp \in Nat
          BY <3>1 DEF Txs
    <3>4. vtBonded' >= vtBonded /\ vtBonded' \in Nat /\ vtBonded \in Nat
          BY <1>3 DEF VaultInv
    <3> QED BY <3>1, <3>2, <3>3, <3>4
  <2> QED BY <2>1, <2>2
<1>6. TxsGrow
      BY <1>1, <1>4 DEF TxsGrow, Included
<1>7. \A t \in VaultStrategy : PositionOK(t)'
      BY <1>2, <1>3, PositionStays
<1>8. \A t \in VaultStrategy : RunOK(t)'
      BY <1>2, <1>5, <1>6, RunStays
<1> QED BY <1>2, <1>3, <1>5, <1>7, <1>8

\* The steps of a run after its broadcast: the snapshot comes from its own transaction,
\* and what it writes is its own position.
LEMMA RunKeepsInv ==
  ASSUME VaultInv, NEW s \in VaultStrategy,
         ReadsSnapshot(s) \/ ReadsPosition(s) \/ WritesPosition(s)
  PROVE  VaultInv'
<1> USE DEF VaultInv
<1>1. UNCHANGED <<vtTx, vtBonded, vtEpoch, vtPrepared>>
      BY DEF ReadsSnapshot, ReadsPosition, WritesPosition, vtApiOnly
<1>2. TxOK' /\ TxsGrow
      BY <1>1 DEF TxOK, Included, TxsGrow
<1>3. \A t \in VaultStrategy \ {s} :
        vtRun'[t] = vtRun[t] /\ vtPosition'[t] = vtPosition[t] /\ vtSeen'[t] = vtSeen[t]
      BY DEF ReadsSnapshot, ReadsPosition, WritesPosition
<1>4. \A t \in VaultStrategy \ {s} : RunOK(t)' /\ PositionOK(t)'
      BY <1>1, <1>2, <1>3, RunStays, PositionStays
<1>5. /\ DOMAIN vtRun' = VaultStrategy /\ DOMAIN vtPosition' = VaultStrategy
      /\ DOMAIN vtSeen' = VaultStrategy
      BY DEF ReadsSnapshot, ReadsPosition, WritesPosition
<1>6. RunOK(s) /\ PositionOK(s)
      OBVIOUS
<1>7. CASE ReadsSnapshot(s)
  <2>1. PICK found \in Nat :
                     /\ vtRun' = [vtRun EXCEPT ![s].pc = "sync", ![s].snapshot = found]
                     /\ found # Untold => Included(vtRun[s].tx) /\ vtTx[vtRun[s].tx].lp = found
    <3>1. vtTx[vtRun[s].tx] \in Txs
      <4>1. vtRun[s].tx \in 1 .. Len(vtTx) /\ vtTx \in Seq(Txs)
            BY <1>6, <1>7 DEF ReadsSnapshot, RunOK, TxOK
      <4> QED BY <4>1
    <3>2. vtTx[vtRun[s].tx].lp \in Nat
          BY <3>1 DEF Txs
    <3> QED BY <1>7, <3>2 DEF ReadsSnapshot, Included, Untold
  <2>2. vtPosition' = vtPosition /\ vtSeen' = vtSeen /\ vtRun[s].pc = "sent"
        BY <1>7 DEF ReadsSnapshot
  <2>3. /\ DOMAIN vtRun'[s] = DOMAIN vtRun[s] /\ vtRun'[s].pc = "sync"
        /\ vtRun'[s].snapshot = found /\ vtRun'[s].tx = vtRun[s].tx
        /\ vtRun'[s].old = vtRun[s].old /\ vtRun'[s].read = vtRun[s].read
        BY <2>1, <1>6 DEF RunOK
  <2>4. RunOK(s)' /\ PositionOK(s)'
        BY <1>1, <1>6, <2>1, <2>2, <2>3 DEF RunOK, PositionOK, Included
  <2> QED BY <1>1, <1>2, <1>4, <1>5, <2>4
<1>8. CASE ReadsPosition(s)
  <2>1. vtPosition' = vtPosition /\ vtSeen' = vtSeen /\ vtRun[s].pc = "sync"
        BY <1>8 DEF ReadsPosition
  <2>2. CASE vtRun' = [vtRun EXCEPT ![s] = NoVaultRun]
    <3>1. RunOK(s)' /\ PositionOK(s)'
          BY <1>1, <1>6, <2>1, <2>2 DEF RunOK, PositionOK, NoVaultRun, Untold
    <3> QED BY <1>1, <1>2, <1>4, <1>5, <3>1
  <2>3. CASE vtRun' = [vtRun EXCEPT ![s].pc = "write", ![s].old = vtPosition[s].locked,
                                    ![s].read = vtBonded]
    <3>1. /\ DOMAIN vtRun'[s] = DOMAIN vtRun[s] /\ vtRun'[s].pc = "write"
          /\ vtRun'[s].old = vtPosition[s].locked /\ vtRun'[s].read = vtBonded
          /\ vtRun'[s].snapshot = vtRun[s].snapshot /\ vtRun'[s].tx = vtRun[s].tx
          BY <2>3, <1>6 DEF RunOK
    <3>2. RunOK(s)' /\ PositionOK(s)'
          BY <1>1, <1>6, <2>1, <3>1 DEF RunOK, PositionOK, Included
    <3> QED BY <1>1, <1>2, <1>4, <1>5, <3>2
  <2> QED BY <1>8, <2>2, <2>3 DEF ReadsPosition
<1>9. CASE WritesPosition(s)
  <2> DEFINE run == vtRun[s]
  <2>1. /\ run.pc = "write" /\ vtRun'[s] = NoVaultRun
        /\ vtPosition'[s].locked = LockedShare(run) /\ vtPosition'[s].delegated = run.read
        /\ vtSeen'[s] = IF run.snapshot = Untold THEN vtSeen[s] ELSE vtTx[run.tx].epoch
        BY <1>9 DEF WritesPosition
  <2>2. RunOK(s)'
        BY <2>1 DEF RunOK, NoVaultRun, Untold
  <2>3. PositionOK(s)'
    <3>1. CASE run.snapshot = Untold
          BY <1>1, <1>6, <2>1, <3>1 DEF RunOK, PositionOK, LockedShare
    <3>2. CASE run.snapshot # Untold
      <4>1. /\ run.tx \in 1 .. Len(vtTx) /\ Included(run.tx) /\ vtTx[run.tx].lp = run.snapshot
            BY <1>6, <2>1, <3>2 DEF RunOK
      <4>2. vtTx[run.tx] \in Txs
            BY <4>1 DEF TxOK
      <4>3. /\ vtTx[run.tx].epoch \in Nat /\ vtTx[run.tx].epoch <= vtEpoch
            /\ run.snapshot \in Nat \ {0}
            /\ vtTx[run.tx].epoch = vtEpoch => run.snapshot <= vtBonded
            BY <4>1, <4>2 DEF TxOK, Txs
      <4> QED BY <1>1, <1>6, <2>1, <3>2, <4>3 DEF PositionOK, RunOK, LockedShare
    <3> QED BY <3>1, <3>2
  <2> QED BY <1>1, <1>2, <1>4, <1>5, <2>2, <2>3
<1> QED BY <1>7, <1>8, <1>9

\* An estimate of LP tokens is a number.
LEMMA LpIsInt ==
  ASSUME NEW input \in Nat, NEW coin \in Nat, NEW share \in Nat
  PROVE  ComputeLpFromInput(input, coin, share) \in Int
<1>1. coin # 0 => coin * WeightReciprocal \in Nat \ {0}
      BY VaultAssumption
<1>2. \A a \in Nat, b \in Nat \ {0} : a \div b \in Int
      OBVIOUS
<1> QED BY <1>1, <1>2 DEF ComputeLpFromInput

\* Once somebody has unbonded, no position is as old as the last unbonding.
LEMMA ApiKeepsInv ==
  ASSUME VaultInv, SignsUnbond \/ \E s \in VaultStrategy : CreateUnbond(s)
  PROVE  VaultInv'
<1> USE DEF VaultInv
<1>1. ASSUME NEW s \in VaultStrategy, CreateUnbond(s) PROVE VaultInv'
  <2>1. UNCHANGED <<vtBonded, vtEpoch, vtPosition, vtRun, vtTx, vtSeen>>
        BY <1>1 DEF CreateUnbond
  <2>2. Tracked(s) \in Int
        BY DEF Tracked, PositionOK
  <2>3. ASSUME NEW input \in UnbondInputs PROVE Estimates(input) \subseteq Int
    <3> HIDE DEF VaultInv
    <3>1. input \in Nat
          BY VaultAssumption
    <3>2. ASSUME NEW coin \in PoolCoins, NEW share \in PoolShares
          PROVE  ComputeLpFromInput(input, coin, share) \in Int
          BY <3>1, LpIsInt, VaultAssumption
    <3> QED BY <3>1, <3>2 DEF Estimates
  <2>4. \A u \in vtPrepared' : u.lp \in Int
    <3> HIDE DEF VaultInv
    <3>1. PICK lp \in IF Tracked(s) > 0 THEN {Tracked(s)}
                      ELSE UNION {Estimates(input) : input \in UnbondInputs} :
            vtPrepared' = {[strategy |-> s, lp |-> lp, tracked |-> Tracked(s) > 0]}
          BY <1>1, Zenon DEF CreateUnbond
    <3>2. UNION {Estimates(input) : input \in UnbondInputs} \subseteq Int
          BY <2>3
    <3>3. lp \in Int
          BY <2>2, <3>1, <3>2
    <3> QED BY <3>1, <3>3
  <2> QED BY <2>1, <2>4 DEF TxOK, RunOK, PositionOK, Included
<1>2. ASSUME SignsUnbond PROVE VaultInv'
  <2>1. UNCHANGED <<vtPosition, vtRun, vtTx, vtSeen>> /\ vtPrepared' = {}
        BY <1>2 DEF SignsUnbond
  <2>2. CASE UNCHANGED <<vtBonded, vtEpoch>>
        BY <2>1, <2>2 DEF TxOK, RunOK, PositionOK, Included
  <2>3. CASE /\ vtEpoch' = vtEpoch + 1
             /\ \E u \in vtPrepared : u.lp <= vtBonded /\ vtBonded' = vtBonded - u.lp
    <3>1. vtBonded' \in Nat
          BY <2>3
    <3>2. TxOK'
      <4> SUFFICES ASSUME NEW n \in 1 .. Len(vtTx), Included(n)
                   PROVE  /\ vtTx[n].epoch <= vtEpoch'
                          /\ vtTx[n].epoch = vtEpoch' => vtTx[n].lp <= vtBonded'
          BY <2>1 DEF TxOK, Included
      <4>1. vtTx[n].epoch \in Nat /\ vtTx[n].epoch <= vtEpoch
        <5>1. vtTx[n] \in Txs /\ vtTx[n].epoch <= vtEpoch
              BY DEF TxOK
        <5> QED BY <5>1 DEF Txs
      <4> QED BY <2>3, <4>1
    <3>3. \A s \in VaultStrategy : RunOK(s)' /\ PositionOK(s)'
          BY <2>1, <2>3 DEF RunOK, PositionOK, Included
    <3> QED BY <2>1, <2>3, <3>1, <3>2, <3>3
  <2> QED BY <1>2, <2>2, <2>3 DEF SignsUnbond
<1> QED BY <1>1, <1>2

\* The invariant does not change when nothing does.
LEMMA VaultStutters == VaultInv /\ UNCHANGED vaultVars => VaultInv'
BY DEF VaultInv, TxOK, RunOK, PositionOK, Included, vaultVars

\* The unbonding prepared from a position is covered by what is bonded, for every number
\* of strategies and every figure a simulation may quote, until somebody unbonds
\* (createUnbond, syncPosition).
THEOREM UnbondCoveredHolds == VaultSpec => []UnbondCovered
<1>1. VaultInv /\ [VaultNext]_vaultVars => VaultInv'
      BY DepositKeepsInv, InclusionKeepsInv, RunKeepsInv, ApiKeepsInv, VaultStutters
      DEF VaultNext
<1> QED BY VaultInitInv, CoveredByInv, <1>1, PTL DEF VaultSpec
=============================================================================
