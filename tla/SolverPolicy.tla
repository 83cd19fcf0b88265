---------------------------- MODULE SolverPolicy ----------------------------
(***************************************************************************)
(* The policy crate: which routes a solver serves, and on which terms, from *)
(* rules over patterns of assets. A behaviour is of one service with one     *)
(* configuration: either one that refreshes it from the aggregator, or the    *)
(* orderbook, which builds strategies from the policy of its own settings.    *)
(*                                                                         *)
(* A chain and a token are numbers, 0 stands for "*"; their order is the      *)
(* order of their names ("*" comes before every name).                        *)
(***************************************************************************)
EXTENDS Integers, Sequences, SequencesExt, FiniteSets

CONSTANTS
  PolicyChain, PolicyToken,  \* 1 .. n
  PolicyFees,                \* fees an override may set
  DefaultFee,                \* default_fee
  PolicyRules                \* bound: rules of one kind in a configuration

ASSUME PolicyAssumption ==
  /\ PolicyChain \subseteq Nat \ {0} /\ PolicyToken \subseteq Nat \ {0}
  /\ PolicyRules \in Nat

VARIABLES
  poServed,     \* the configuration: the aggregator's, or that of the settings
  poPolicy,     \* the SolverPolicy in force
  poStrategies  \* the routes the orderbook service offers

policyVars == <<poServed, poPolicy, poStrategies>>

(***************************************************************************)
(* Patterns                                                                *)
(***************************************************************************)
AssetId == [chain : PolicyChain, token : PolicyToken]
Pattern == [chain : PolicyChain \cup {0}, token : PolicyToken \cup {0}]
AssetPair == [source : Pattern, both : BOOLEAN, dest : Pattern]

FieldMatch(a, b) == a = 0 \/ b = 0 \/ a = b
AssetMatch(a, b) == FieldMatch(a.chain, b.chain) /\ FieldMatch(a.token, b.token)

(* A `<->` rule is read in both directions, once as it stands and once turned. *)
PairMatch(s, d, pair) ==
  \/ AssetMatch(s, pair.source) /\ AssetMatch(d, pair.dest)
  \/ pair.both /\ AssetMatch(d, pair.source) /\ AssetMatch(s, pair.dest)

Specificity(a) == Cardinality({f \in {"chain", "token"} : a[f] # 0})

NameBefore(a, b) == a.chain < b.chain \/ (a.chain = b.chain /\ a.token < b.token)

AssetBefore(a, b) ==
  \/ Specificity(a) > Specificity(b)
  \/ Specificity(a) = Specificity(b) /\ NameBefore(a, b)

(***************************************************************************)
(* PolicyMap: the most specific rule first, the source deciding before the   *)
(* destination                                                               *)
(***************************************************************************)
PairBefore(a, b) ==
  \/ Specificity(a.source) > Specificity(b.source)
  \/ /\ Specificity(a.source) = Specificity(b.source)
     /\ \/ Specificity(a.dest) > Specificity(b.dest)
        \/ /\ Specificity(a.dest) = Specificity(b.dest)
           /\ NameBefore(a.source, b.source)
              \/ (a.source = b.source /\ NameBefore(a.dest, b.dest))

(* A second rule for the same pair is dropped. *)
Inserted(rules, rule) ==
  IF \E i \in DOMAIN rules : rules[i].pair = rule.pair THEN rules
  ELSE InsertAt(rules,
         Cardinality({i \in DOMAIN rules : PairBefore(rules[i].pair, rule.pair)}) + 1, rule)

PolicyMapOf(list) == FoldLeft(Inserted, <<>>, list)

NoFee == -1

(* find_map: the first rule of the route that sets a fee *)
FeeOf(policy, s, d) ==
  LET set == SelectSeq(policy.overrides, LAMBDA r : r.fee # NoFee /\ PairMatch(s, d, r.pair))
  IN  IF set = <<>> THEN DefaultFee ELSE set[1].fee

PolicyHas(pairs, s, d) == \E p \in pairs : PairMatch(s, d, p)

(***************************************************************************)
(* Isolation groups                                                        *)
(***************************************************************************)
TurnedPair(pair) == [pair EXCEPT !.source = pair.dest, !.dest = pair.source]

(* Each group restricts its source, and its destination too, both ways if `<->`. *)
Directed(groups) == groups \cup {TurnedPair(p) : p \in {g \in groups : g.both}}

Outgoing(groups) ==
  [a \in {p.source : p \in Directed(groups)} |->
    {p.dest : p \in {q \in Directed(groups) : q.source = a}}]

(* `<->` groups that are entered once into the incoming rules *)
IncomingOneWay(groups) ==
  [a \in {p.dest : p \in groups} |-> {p.source : p \in {q \in groups : q.dest = a}}]

Incoming(groups) ==
  [a \in {p.dest : p \in Directed(groups)} |->
    {p.source : p \in {q \in Directed(groups) : q.dest = a}}]

(* The pattern that decides for an asset: the most specific one only *)
Deciding(rules, a) ==
  {p \in DOMAIN rules :
    /\ AssetMatch(a, p)
    /\ \A q \in DOMAIN rules : AssetMatch(a, q) => q = p \/ AssetBefore(p, q)}

RuleAdmits(rules, p, other) == \E r \in rules[p] : AssetMatch(r, other)

(* The rules of the source decide alone when there are any. *)
NotIsolated(policy, s, d) ==
  LET out == Deciding(policy.outgoing, s)
      into == Deciding(policy.incoming, d)
  IN  IF out # {} THEN \A p \in out : RuleAdmits(policy.outgoing, p, d)
      ELSE \A p \in into : RuleAdmits(policy.incoming, p, s)

NotBlacklisted(policy, s, d) ==
  PolicyHas(policy.blacklist, s, d) => PolicyHas(policy.whitelist, s, d)

ValidPair(policy, s, d) ==
  /\ s # d
  /\ s \in policy.assets /\ d \in policy.assets
  /\ NotIsolated(policy, s, d)
  /\ NotBlacklisted(policy, s, d)

(***************************************************************************)
(* Configurations                                                          *)
(***************************************************************************)
Config == [groups : SUBSET AssetPair, blacklist : SUBSET AssetPair,
           whitelist : SUBSET AssetPair, overrides : Seq([pair : AssetPair, fee : Int]),
           assets : SUBSET AssetId]

OpenConfig ==
  [groups |-> {}, blacklist |-> {}, whitelist |-> {}, overrides |-> <<>>, assets |-> AssetId]

NoPolicy == [loaded |-> FALSE]

(* SolverPolicy::new *)
Built(config) ==
  [loaded |-> TRUE, assets |-> config.assets,
   outgoing |-> Outgoing(config.groups), incoming |-> Incoming(config.groups),
   blacklist |-> config.blacklist, whitelist |-> config.whitelist,
   overrides |-> PolicyMapOf(config.overrides)]

(* build_strategy_configs: every allowed route between two chains *)
Routes(policy) ==
  {r \in [source : AssetId, dest : AssetId] :
    r.source.chain # r.dest.chain /\ ValidPair(policy, r.source, r.dest)}

Strategies(policy) ==
  {[source |-> r.source, dest |-> r.dest, fee |-> FeeOf(policy, r.source, r.dest)] :
    r \in Routes(policy)}

PolicyInit == poServed = OpenConfig /\ poPolicy = NoPolicy /\ poStrategies = {}

(* What is served or set: one kind of rule at a time *)
GroupsServed ==
  /\ poServed = OpenConfig /\ poPolicy = NoPolicy
  /\ \E p, q \in AssetPair : poServed' = [poServed EXCEPT !.groups = {p, q}]
  /\ UNCHANGED <<poPolicy, poStrategies>>

ListsServed ==
  /\ poServed = OpenConfig /\ poPolicy = NoPolicy
  /\ \E p, q \in AssetPair :
       poServed' = [poServed EXCEPT !.blacklist = {p}, !.whitelist = {q}]
  /\ UNCHANGED <<poPolicy, poStrategies>>

OverrideServed ==
  /\ poServed.groups = {} /\ poServed.blacklist = {} /\ poPolicy = NoPolicy
  /\ Len(poServed.overrides) < PolicyRules
  /\ \E p \in AssetPair, fee \in PolicyFees \cup {NoFee} :
       poServed' = [poServed EXCEPT !.overrides = Append(@, [pair |-> p, fee |-> fee])]
  /\ UNCHANGED <<poPolicy, poStrategies>>

(* The whole policy is replaced at once; when the fetch fails what was there stays  *)
(* (a step that changes nothing).                                                 *)
PolicyRefreshes ==
  /\ poPolicy' = Built(poServed)
  /\ UNCHANGED <<poServed, poStrategies>>

(* The orderbook builds a policy of its own, and its strategies, when it starts. *)
StrategiesBuilt ==
  /\ ~poPolicy.loaded
  /\ poPolicy' = Built(poServed)
  /\ poStrategies' = Strategies(poPolicy')
  /\ UNCHANGED poServed

PolicyNext ==
  \/ GroupsServed \/ ListsServed \/ OverrideServed
  \/ PolicyRefreshes \/ StrategiesBuilt

PolicySpec == PolicyInit /\ [][PolicyNext]_policyVars

(***************************************************************************)
(* Properties                                                              *)
(***************************************************************************)
(* With groups that name their assets, an offered route respects the groups of    *)
(* both its ends, although is_not_isolated looks at those of the destination only  *)
(* when the source has none.                                                      *)
ExactGroupsTwoSided ==
  (\A p \in poServed.groups : p.source \in AssetId /\ p.dest \in AssetId) =>
    \A t \in poStrategies :
      LET within == {p \in Directed(poServed.groups) : p.source = t.source /\ p.dest = t.dest}
      IN  \/ within # {}
          \/ /\ t.source \notin {p.source : p \in Directed(poServed.groups)}
             /\ t.dest \notin {p.dest : p \in Directed(poServed.groups)}
=============================================================================
