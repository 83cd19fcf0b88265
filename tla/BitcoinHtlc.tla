----------------------------- MODULE BitcoinHtlc -----------------------------
(***************************************************************************)
(* The Bitcoin crate: an HTLC is a taproot output with three leaves, and       *)
(* three callers spend outputs like it. The batcher redeems several at once,   *)
(* the library's refund waits for the timelock, and an instant refund (SACP)   *)
(* is signed by both parties, built and validated at different times, each     *)
(* from a listing of its own.                                                 *)
(*                                                                         *)
(* A behaviour is one call, while others deposit and spend. A signature is who *)
(* signed what: SINGLE|ANYONECANPAY commits to one input and the output beside *)
(* it, ALL to everything. Witness sizes are the same for all leaves.           *)
(***************************************************************************)
EXTENDS Integers, Sequences, SequencesExt, FiniteSets, FiniteSetsExt

CONSTANTS
  HtlcOutput,    \* outputs on the chain, numbered in the order of txid and vout
  OutputValues,
  Timelock,
  HtlcDust,      \* DUST_LIMIT
  BaseVsize, InputVsize, OutputVsize,
  Rates,         \* fee rates
  InstantFees    \* fees two parties may agree on, 0 for none

ASSUME HtlcAssumption ==
  /\ HtlcOutput \subseteq Nat \ {0} /\ IsFiniteSet(HtlcOutput)
  /\ OutputValues \subseteq Nat \ {0} /\ Timelock \in Nat \ {0} /\ HtlcDust \in Nat
  /\ {BaseVsize, InputVsize, OutputVsize} \subseteq Nat
  /\ Rates \subseteq Nat /\ InstantFees \subseteq Nat

VARIABLES
  bhOut,         \* the chain: whether an output is there, its value and depth
  bhFlow,        \* which call this is
  bhPc,
  bhRequests,    \* spend requests, or the listing of a refund
  bhCheck,       \* validate_spend_requests: its list, utxo_set and outspends_cache
  bhSigned,      \* what was signed for an instant refund, and what it was validated against
  bhTx

htlcVars == <<bhOut, bhFlow, bhPc, bhRequests, bhCheck, bhSigned, bhTx>>

\* Transactions pay two HTLCs at a time; the first and third output are of one HTLC.
TxidOf(u) == (u + 1) \div 2
HtlcOf(u) == 2 - (u % 2)
Txid == {TxidOf(u) : u \in HtlcOutput}

MaxSequence == -1      \* Sequence::MAX turns relative timelocks off
NoHtlcTx == [ins |-> <<>>, outs |-> <<>>]
Unsigned == [utxos |-> {}, fee |-> 0, hashes |-> <<>>, against |-> [utxos |-> {}, txid |-> 0]]

HtlcInit ==
  /\ bhOut \in [HtlcOutput -> [at : {"absent"}, value : OutputValues, age : {0}]]
  /\ bhFlow \in {"batch", "refund", "instant"}
  /\ bhPc = "start" /\ bhRequests = <<>> /\ bhTx = NoHtlcTx /\ bhSigned = Unsigned
  /\ bhCheck = [valid |-> <<>>, seen |-> {}, outspends |-> <<>>]

(***************************************************************************)
(* Transactions, signatures and what the node accepts                       *)
(***************************************************************************)
Unspent(u) == bhOut[u].at = "unspent"
ValueAt(u) == bhOut[u].value
TotalOut(s) == SumFunction([i \in DOMAIN s |-> s[i].value])
Worth(utxos) == SumFunction([i \in DOMAIN utxos |-> ValueAt(utxos[i])])
Spent(tx) == [i \in DOMAIN tx.ins |-> tx.ins[i].utxo]

Inputs(utxos, leaf, sequence) ==
  [i \in DOMAIN utxos |-> [utxo |-> utxos[i], leaf |-> leaf, seq |-> sequence, sigs |-> {}]]

SigHash(tx, i, type) ==
  IF type = "single"
  THEN [type |-> type, utxo |-> tx.ins[i].utxo, seq |-> tx.ins[i].seq,
        leaf |-> tx.ins[i].leaf, out |-> tx.outs[i]]
  ELSE [type |-> type, utxos |-> [j \in DOMAIN tx.ins |-> <<tx.ins[j].utxo, tx.ins[j].seq>>],
        at |-> i, leaf |-> tx.ins[i].leaf, outs |-> tx.outs]

\* Keys a leaf wants signatures of: the redeem leaf also wants the secret, which the
\* one who holds that key has.
Signers(leaf) == CASE leaf = "redeem" -> {"redeemer"}
                   [] leaf = "refund" -> {"initiator"}
                   [] OTHER -> {"initiator", "redeemer"}

Signature(by, hash) == [by |-> by, hash |-> hash]

Sign(tx, by, type) ==
  [tx EXCEPT !.ins = [i \in DOMAIN tx.ins |->
     [tx.ins[i] EXCEPT !.sigs = @ \cup {Signature(by, SigHash(tx, i, type))}]]]

ScriptVerifies(tx, i) ==
  /\ \A party \in Signers(tx.ins[i].leaf), type \in {"single", "all"} :
       (tx.ins[i].leaf = "refund" <=> type = "all") =>
         Signature(party, SigHash(tx, i, type)) \in tx.ins[i].sigs
  /\ tx.ins[i].leaf = "refund" => tx.ins[i].seq >= Timelock

NodeAccepts(tx) ==
  /\ \A i, j \in DOMAIN tx.ins : tx.ins[i].utxo = tx.ins[j].utxo => i = j
  /\ \A i \in DOMAIN tx.ins :
       /\ Unspent(tx.ins[i].utxo) /\ ScriptVerifies(tx, i)
       /\ bhOut[tx.ins[i].utxo].age >= tx.ins[i].seq
  /\ \A i \in DOMAIN tx.outs : tx.outs[i].value >= HtlcDust
  /\ TotalOut(tx.outs) <= Worth(Spent(tx))

(***************************************************************************)
(* Outputs and fees                                                        *)
(***************************************************************************)
EstimateFee(ins, outs, rate) ==
  rate * (BaseVsize + InputVsize * Len(ins) + OutputVsize * Len(outs))

\* max_by_key takes the last of the greatest
LargestIndex(values) ==
  Max({i \in DOMAIN values : \A j \in DOMAIN values : values[j] <= values[i]})

\* create_outputs: the largest pays the fee; an empty list has no largest
OutputValuesLess(values, fee) ==
  [i \in DOMAIN values |-> IF i = LargestIndex(values) THEN values[i] - fee ELSE values[i]]

CanCreateOutputs(values, fee) ==
  values # <<>> /\ \A i \in DOMAIN values : OutputValuesLess(values, fee)[i] >= HtlcDust

CreateOutputs(values, to, fee) ==
  [i \in DOMAIN values |-> [to |-> to, value |-> OutputValuesLess(values, fee)[i]]]

\* get_output_values: one output per input, or one for all
OutputValuesFor(utxos, type) ==
  IF type = "single" THEN [i \in DOMAIN utxos |-> ValueAt(utxos[i])]
  ELSE <<Worth(utxos)>>

\* adjust_outputs_for_fee
Deduction(outs, fee, i) ==
  fee \div Len(outs)
    + IF i = LargestIndex([j \in DOMAIN outs |-> outs[j].value]) THEN fee % Len(outs) ELSE 0

CanAdjust(outs, fee) ==
  outs # <<>> /\ \A i \in DOMAIN outs : outs[i].value >= Deduction(outs, fee, i) + HtlcDust

AdjustOutputs(outs, fee) ==
  [i \in DOMAIN outs |-> [outs[i] EXCEPT !.value = @ - Deduction(outs, fee, i)]]

(***************************************************************************)
(* The batcher                                                             *)
(***************************************************************************)
\* A request lists outputs of one HTLC, or is thought to: all of the first one's.
Requests ==
  [utxos : {s \in UNION {SetToSeqs(S) : S \in SUBSET HtlcOutput} : Len(s) <= 2},
   witness : BOOLEAN]

RequestHtlc(r) == IF r.utxos = <<>> THEN 1 ELSE HtlcOf(r.utxos[1])

StartBatch ==
  /\ bhFlow = "batch" /\ bhPc = "start"
  /\ \E first, second \in Requests :
       /\ Len(first.utxos) + Len(second.utxos) <= 3 /\ second.witness
       /\ \A u \in Range(first.utxos) \cup Range(second.utxos) : bhOut[u].at # "absent"
       /\ bhRequests' = <<first, second>>
  /\ bhPc' = "checking"
  /\ UNCHANGED <<bhOut, bhFlow, bhCheck, bhSigned, bhTx>>

Cached(u) == TxidOf(u) \in DOMAIN bhCheck.outspends
KnownSpent(u) ==
  IF Cached(u) THEN u \in bhCheck.outspends[TxidOf(u)] ELSE bhOut[u].at = "spent"

\* Mutant of Unreadable: outputs may be listed twice.
UnreadableNotUnique(r, i, lost) ==
  LET u == r.utxos[i]
  IN \/ ValueAt(u) <= HtlcDust
     \/ i = lost \/ (bhOut[u].at = "absent" /\ ~Cached(u))
     \/ HtlcOf(u) # RequestHtlc(r)

\* The tests of one output up to its outspends; `lost` is one the indexer does not answer for.
\* (A request states values and vouts as they are; one that does not is refused.)
Unreadable(r, i, lost) ==
  LET u == r.utxos[i]
  IN \/ u \in bhCheck.seen \cup {r.utxos[j] : j \in 1..(i - 1)}
     \/ ValueAt(u) <= HtlcDust
     \/ i = lost \/ (bhOut[u].at = "absent" /\ ~Cached(u))
     \/ HtlcOf(u) # RequestHtlc(r)

UtxoValid(r, i, lost) == ~Unreadable(r, i, lost) /\ ~KnownSpent(r.utxos[i])

\* One round of validate_spend_requests: the indexer's answers for one request are of one
\* moment. Whatever a refused request had listed so far stays in utxo_set.
ValidateRequest ==
  /\ bhPc = "checking"
  /\ LET r == Head(bhRequests)
     IN \E lost \in 0..Len(r.utxos) :
          LET reached == {i \in DOMAIN r.utxos :
                            r.witness /\ \A j \in 1..(i - 1) : UtxoValid(r, j, lost)}
              read == {TxidOf(r.utxos[i]) : i \in {k \in reached : ~Unreadable(r, k, lost)}}
          IN bhCheck' =
               [valid |-> IF r.witness /\ \A i \in DOMAIN r.utxos : UtxoValid(r, i, lost)
                          THEN Append(bhCheck.valid, r) ELSE bhCheck.valid,
                seen |-> bhCheck.seen \cup {r.utxos[i] : i \in reached},
                outspends |-> [t \in DOMAIN bhCheck.outspends \cup read |->
                                 IF t \in DOMAIN bhCheck.outspends THEN bhCheck.outspends[t]
                                 ELSE {u \in HtlcOutput : TxidOf(u) = t
                                                          /\ bhOut[u].at = "spent"}]]
  /\ bhRequests' = Tail(bhRequests)
  /\ bhPc' = IF Len(bhRequests) = 1 THEN "validated" ELSE "checking"
  /\ UNCHANGED <<bhOut, bhFlow, bhSigned, bhTx>>

BatchTx(requests) ==
  [ins |-> FlattenSeq([k \in DOMAIN requests |->
             Inputs(requests[k].utxos, "redeem", MaxSequence)]),
   outs |-> FlattenSeq([k \in DOMAIN requests |->
             CreateOutputs(OutputValuesFor(requests[k].utxos, "single"),
                           RequestHtlc(requests[k]), 0)])]

CanBatch(requests) ==
  \A k \in DOMAIN requests :
    CanCreateOutputs(OutputValuesFor(requests[k].utxos, "single"), 0)

\* handle_spend_requests up to the submission: one request that cannot be built fails all.
BuildBatch ==
  /\ bhPc = "validated"
  /\ \E rate \in Rates :
       LET tx == BatchTx(bhCheck.valid)
           fee == EstimateFee(tx.ins, tx.outs, rate)
       IN IF CanBatch(bhCheck.valid) /\ CanAdjust(tx.outs, fee)
          THEN /\ bhTx' = Sign([tx EXCEPT !.outs = AdjustOutputs(@, fee)], "redeemer", "single")
               /\ bhPc' = "batched"
          ELSE bhPc' = "failed" /\ UNCHANGED bhTx
  /\ UNCHANGED <<bhOut, bhFlow, bhRequests, bhCheck, bhSigned>>

(***************************************************************************)
(* The library's refund                                                     *)
(***************************************************************************)
\* get_utxos of an HTLC's address, in whatever order the indexer has them
Listings == SetToSeqs({u \in HtlcOutput : HtlcOf(u) = 1 /\ Unspent(u)})

ListRefund ==
  /\ bhFlow = "refund" /\ bhPc = "start"
  /\ \E listing \in Listings : listing # <<>> /\ bhRequests' = listing
  /\ bhPc' = "listed"
  /\ UNCHANGED <<bhOut, bhFlow, bhCheck, bhSigned, bhTx>>

BuildRefund ==
  /\ bhPc = "listed"
  /\ \E rate \in Rates :
       LET ins == Inputs(bhRequests, "refund", Timelock)
           outs == CreateOutputs(OutputValuesFor(bhRequests, "all"), 1, 0)
           fee == EstimateFee(ins, outs, rate)
       IN IF CanCreateOutputs(OutputValuesFor(bhRequests, "all"), 0) /\ CanAdjust(outs, fee)
          THEN /\ bhTx' = Sign([ins |-> ins, outs |-> AdjustOutputs(outs, fee)],
                               "initiator", "all")
               /\ bhPc' = "refunding"
          ELSE bhPc' = "failed" /\ UNCHANGED bhTx
  /\ UNCHANGED <<bhOut, bhFlow, bhRequests, bhCheck, bhSigned>>

(***************************************************************************)
(* The instant refund                                                       *)
(***************************************************************************)
SortUtxos(utxos) ==
  CHOOSE s \in SetToSeqs(Range(utxos)) : \A i, j \in DOMAIN s : i < j => s[i] < s[j]

CanBuildTx(utxos, fee) == CanCreateOutputs(OutputValuesFor(utxos, "single"), fee)

BuildTx(utxos, fee) ==
  [ins |-> Inputs(utxos, "instant", MaxSequence),
   outs |-> CreateOutputs(OutputValuesFor(utxos, "single"), 1, fee)]

\* generate_instant_refund_hash
InstantRefundHashes(utxos, fee) ==
  LET tx == BuildTx(SortUtxos(utxos), fee)
  IN [i \in DOMAIN tx.ins |-> SigHash(tx, i, "single")]

SignInstantRefund ==
  /\ bhFlow = "instant" /\ bhPc = "start"
  /\ \E listing \in Listings, fee \in InstantFees :
       /\ CanBuildTx(SortUtxos(listing), fee)
       /\ bhSigned' = [utxos |-> Range(listing), fee |-> fee,
                       hashes |-> InstantRefundHashes(listing, fee), against |-> bhSigned.against]
  /\ bhPc' = "signed"
  /\ UNCHANGED <<bhOut, bhFlow, bhRequests, bhCheck, bhTx>>

BuildInstantRefundSacp ==
  /\ bhPc = "signed"
  /\ \E listing \in Listings, fee \in InstantFees :
       /\ Len(listing) = Len(bhSigned.hashes) /\ CanBuildTx(SortUtxos(listing), fee)
       /\ LET tx == BuildTx(SortUtxos(listing), fee)
          IN bhTx' = [tx EXCEPT !.ins = [i \in DOMAIN tx.ins |-> [tx.ins[i] EXCEPT !.sigs =
                        {Signature(by, bhSigned.hashes[i]) : by \in {"initiator", "redeemer"}}]]]
  /\ bhPc' = "built"
  /\ UNCHANGED <<bhOut, bhFlow, bhRequests, bhCheck, bhSigned>>

\* Mutant of SignatureValid: any signature of the initiator's will do.
SignatureOfInitiator(input, hash) ==
  \E s \in input.sigs : s.by = "initiator" /\ s.hash.utxo = hash.utxo

\* validate_schnorr_signature of the initiator's signature
SignatureValid(input, hash) == Signature("initiator", hash) \in input.sigs

\* Mutant of ValidSacp: the hashes of the listing as it came.
ValidSacpAsListed(tx, initiate, listing) ==
  LET fee == Worth(listing) - TotalOut(tx.outs)
      expected == BuildTx(listing, fee)
  IN /\ fee >= 0 /\ CanBuildTx(listing, fee)
     /\ Len(tx.ins) = Len(listing)
     /\ \A i \in DOMAIN listing : SignatureValid(tx.ins[i], SigHash(expected, i, "single"))
     /\ \E i \in DOMAIN tx.ins : TxidOf(tx.ins[i].utxo) = initiate

\* Neither the outputs nor the redeemer's signatures are looked at: what the initiator
\* signed is what the listing asks for.
ValidSacp(tx, initiate, listing) ==
  LET fee == Worth(listing) - TotalOut(tx.outs)
      hashes == InstantRefundHashes(listing, fee)
  IN /\ fee >= 0 /\ CanBuildTx(SortUtxos(listing), fee)
     /\ Len(tx.ins) = Len(hashes)
     /\ \A i \in DOMAIN hashes : SignatureValid(tx.ins[i], hashes[i])
     /\ \E i \in DOMAIN tx.ins : TxidOf(tx.ins[i].utxo) = initiate

ValidateSacp ==
  /\ bhPc = "built"
  /\ \E listing \in Listings, initiate \in Txid :
       /\ bhSigned' = [bhSigned EXCEPT !.against = [utxos |-> Range(listing), txid |-> initiate]]
       /\ bhPc' = IF ValidSacp(bhTx, initiate, listing) THEN "accepted" ELSE "refused"
  /\ UNCHANGED <<bhOut, bhFlow, bhRequests, bhCheck, bhTx>>

(***************************************************************************)
(* Submission, and the chain                                                *)
(***************************************************************************)
SubmitTx ==
  /\ bhPc \in {"batched", "refunding", "accepted"}
  /\ IF NodeAccepts(bhTx)
     THEN /\ bhOut' = [u \in HtlcOutput |->
                         IF \E i \in DOMAIN bhTx.ins : bhTx.ins[i].utxo = u
                         THEN [bhOut[u] EXCEPT !.at = "spent"] ELSE bhOut[u]]
          /\ bhPc' = "submitted"
     ELSE bhPc' = "rejected" /\ UNCHANGED bhOut
  /\ UNCHANGED <<bhFlow, bhRequests, bhCheck, bhSigned, bhTx>>

\* A transaction with deposits reaches the mempool, or is evicted from it.
Appear(txid, from, to) ==
  /\ \A u \in HtlcOutput : TxidOf(u) = txid => bhOut[u].at = from /\ bhOut[u].age = 0
  /\ bhOut' = [u \in HtlcOutput |->
                 IF TxidOf(u) = txid THEN [bhOut[u] EXCEPT !.at = to] ELSE bhOut[u]]

DepositTx == \E txid \in Txid : Appear(txid, "absent", "unspent")
EvictDeposit == \E txid \in Txid : Appear(txid, "unspent", "absent")

SpendElsewhere ==
  \E u \in HtlcOutput : Unspent(u) /\ bhOut' = [bhOut EXCEPT ![u].at = "spent"]

NewBlock ==
  bhOut' = [u \in HtlcOutput |->
              IF bhOut[u].at # "absent" /\ bhOut[u].age < Timelock
              THEN [bhOut[u] EXCEPT !.age = @ + 1] ELSE bhOut[u]]

\* A behaviour ends with the call.
Over == bhPc \in {"submitted", "rejected", "failed", "refused"}

ChainMoves ==
  /\ ~Over
  /\ DepositTx \/ EvictDeposit \/ SpendElsewhere \/ NewBlock
  /\ UNCHANGED <<bhFlow, bhPc, bhRequests, bhCheck, bhSigned, bhTx>>

HtlcNext ==
  \/ StartBatch \/ ValidateRequest \/ BuildBatch
  \/ ListRefund \/ BuildRefund
  \/ SignInstantRefund \/ BuildInstantRefundSacp \/ ValidateSacp
  \/ SubmitTx \/ ChainMoves

HtlcSpec == HtlcInit /\ [][HtlcNext]_htlcVars

(***************************************************************************)
(* Properties                                                              *)
(***************************************************************************)
InputsThere == \A i \in DOMAIN bhTx.ins : Unspent(bhTx.ins[i].utxo)
InputValue == Worth(Spent(bhTx))

\* A batch the batcher signed is one the node accepts as long as nobody spends an input
\* first: requests that overlap, lie about their HTLC or were spent already leave no trace
\* in it. It pays exactly the fee its size asks for, and nobody pays for a neighbour: the
\* output beside an input is that input's value less an even share of the fee, give or
\* take the remainder.
BatchVerifies ==
  bhPc = "batched" =>
    /\ InputsThere => NodeAccepts(bhTx)
    /\ \E rate \in Rates :
         InputValue - TotalOut(bhTx.outs) = EstimateFee(bhTx.ins, bhTx.outs, rate)
    /\ \A i \in DOMAIN bhTx.ins :
         LET paid == ValueAt(bhTx.ins[i].utxo) - bhTx.outs[i].value
             share == (InputValue - TotalOut(bhTx.outs)) \div Len(bhTx.outs)
         IN paid \in share..(share + Len(bhTx.outs) - 1)

\* A refund by the timelock is refused for nothing but a listed output that is gone or
\* too young: every input has the leaf's sequence and signature. An instant refund that
\* was built from one listing and validated against another holds on chain: when its
\* inputs are the validated ones and still there, the node takes it.
RefundsHonoured ==
  /\ bhPc \in {"refunding", "accepted"} /\ InputsThere
  /\ bhPc = "refunding" =>
       \A i \in DOMAIN bhTx.ins : bhOut[bhTx.ins[i].utxo].age >= Timelock
  /\ bhPc = "accepted" =>
       {bhTx.ins[i].utxo : i \in DOMAIN bhTx.ins} = bhSigned.against.utxos
  => NodeAccepts(bhTx)

\* Signing, building and validating may see the outputs in three different orders: when
\* they see the same ones and agree on the fee, the refund is accepted.
SacpRoundTrip ==
  ~ /\ bhPc = "refused"
    /\ bhSigned.against.utxos = bhSigned.utxos
    /\ bhSigned.against.utxos = {bhTx.ins[i].utxo : i \in DOMAIN bhTx.ins}
    /\ InputValue - TotalOut(bhTx.outs) = bhSigned.fee
    /\ bhSigned.against.txid \in {TxidOf(u) : u \in bhSigned.utxos}
=============================================================================
