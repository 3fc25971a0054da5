--------------------------- MODULE BundleProposer ---------------------------
(***************************************************************************)
(* crates/builder/src/proposer.rs: make_bundle takes the best operations   *)
(* of the pool, drops those that do not pay the current fees, and has the  *)
(* EntryPoint simulate the rest; an operation the simulation blames leaves *)
(* the bundle and the rest is simulated again, max_retries times at most.  *)
(* Between two awaits anything may happen to the pool and to the chain: a  *)
(* snapshot of the pool and the answers of the provider are inputs.        *)
(***************************************************************************)
EXTENDS Integers, Sequences, FiniteSets, SequencesExt, ProviderErrors

CONSTANTS
  Entry,          \* pool entries, no two of the same sequence
  BaseFee,        \* base fees the oracle may report
  Reply,          \* external: replies of the node to a simulation
  MinPriority,    \* ChainSpec::min_max_priority_fee_per_gas
  MaxBundleSize,  \* ChainSpec::max_bundle_size
  MaxRetries,     \* BundleProposerImpl::max_retries
  PerOpGas,       \* ChainSpec::per_user_op_v0_7_gas
  IntrinsicGas,   \* ChainSpec::transaction_intrinsic_gas
  GasModulus      \* 2^64, scaled: gas arithmetic wraps here

ASSUME ProposerConstants ==
  /\ IsFiniteSet(Entry)
  /\ \A e \in Entry : {e.submit_gas_price, e.sequence, e.max_fee_per_gas,
                       e.max_priority_fee_per_gas, e.total_gas_limit}
                        \subseteq Nat
  /\ \A e, f \in Entry : e.sequence = f.sequence => e = f
  /\ BaseFee \subseteq Nat
  /\ {MinPriority, MaxBundleSize, MaxRetries, PerOpGas, IntrinsicGas}
       \subseteq Nat
  /\ GasModulus \in Nat \ {0}
  /\ \A reply \in Reply : HandleOpsOut(reply).index \in Nat

VARIABLES
  pc,        \* "idle", or what make_bundle awaits
  ops,       \* ops_with_hashes
  rejected,  \* rejected_ops
  attempt,
  result,    \* what the last call returned
  picked,    \* history: ops as first selected
  blamed,    \* history: operations simulations of this call named
  verdict    \* history: the last simulation of this call, its list and answer

locals == <<ops, rejected, attempt>>
trace  == <<picked, blamed, verdict>>
vars   == <<pc, ops, rejected, attempt, result, picked, blamed, verdict>>

Err == [ok |-> FALSE, ops |-> <<>>, rejected |-> <<>>, gas_estimate |-> 0]

Verdict(answer)  == [list |-> ops, answer |-> answer]
NotSimulated == [list |-> <<>>, answer |-> "none"]

Init ==
  /\ pc = "idle"
  /\ ops = <<>> /\ rejected = <<>> /\ attempt = 0
  /\ result = Err
  /\ picked = <<>> /\ blamed = <<>> /\ verdict = NotSimulated

\* OrderEntry::cmp: highest price first, then FIFO
Before(e, f) ==
  \/ e.submit_gas_price > f.submit_gas_price
  \/ e.submit_gas_price = f.submit_gas_price /\ e.sequence < f.sequence

\* The place of e in the ordered index of S, from 0
Rank(e, S) == Cardinality({f \in S : Before(f, e)})

\* The order the index is read in
InOrder(S) ==
  [n \in 1..Cardinality(S) |-> CHOOSE e \in S : Rank(e, S) = n - 1]

\* The first n of the index
BestOperations(pool, n) == {e \in pool : Rank(e, pool) < n}

\* GasFees::covers
Covers(e, base_fee) ==
  /\ e.max_fee_per_gas >= base_fee + MinPriority
  /\ e.max_priority_fee_per_gas >= MinPriority

\* The gas limits of the operations of s, and as much more for each of them
GasLimits(s, more) ==
  LET sum[n \in 0..Len(s)] ==
        IF n = 0 THEN 0 ELSE sum[n - 1] + s[n].total_gas_limit + more
  IN  sum[Len(s)]

\* Mutant of EstimateGas: the overhead of the operations is left out.
EstimateGas_NoOverhead(s) == (IntrinsicGas + GasLimits(s, 0)) % GasModulus

\* u64 sum of limits truncated to u64, in wrapping arithmetic
EstimateGas(s) ==
  (IntrinsicGas + GasLimits(s, 0) + PerOpGas * Len(s)) % GasModulus

Bundle(s) ==
  LET gas == EstimateGas(s)
  IN  [ok |-> TRUE, ops |-> s, rejected |-> rejected,
       gas_estimate |-> (gas + gas \div 20) % GasModulus]

Return(r) == pc' = "idle" /\ result' = r

-----------------------------------------------------------------------------

MakeBundle ==
  /\ pc = "idle"
  /\ pc' = "current_fees"
  /\ ops' = <<>> /\ rejected' = <<>> /\ attempt' = 0
  /\ picked' = <<>> /\ blamed' = <<>> /\ verdict' = NotSimulated
  /\ UNCHANGED result

FeesFetched ==
  /\ pc = "current_fees"
  /\ pc' = "base_fee"
  /\ UNCHANGED <<locals, result, trace>>

\* A query of the oracle or of the provider fails: `?` returns its error.
ProviderFails ==
  /\ pc # "idle"
  /\ Return(Err)
  /\ UNCHANGED <<locals, trace>>

\* filter keeps the order of the candidates.
Selection(pool, base_fee) ==
  InOrder({e \in BestOperations(pool, MaxBundleSize) : Covers(e, base_fee)})

\* The base fee arrives, and the candidates are chosen without an await.
Select ==
  /\ pc = "base_fee"
  /\ \E pool \in SUBSET Entry, base_fee \in BaseFee :
       /\ ops' = Selection(pool, base_fee)
       /\ picked' = ops'
  /\ IF ops' = <<>> THEN Return(Err) ELSE pc' = "simulate" /\ UNCHANGED result
  /\ UNCHANGED <<rejected, attempt, blamed, verdict>>

SimulationSucceeds ==
  /\ pc = "simulate"
  /\ verdict' = Verdict("success")
  /\ Return(Bundle(ops))
  /\ UNCHANGED <<locals, picked, blamed>>

\* Mutant of FailedOp: the index is taken for one of a 1-based list.
FailedOp_Index(idx) ==
  /\ pc = "simulate"
  /\ attempt < MaxRetries
  /\ idx < Len(ops)
  /\ LET i == IF idx = 0 THEN 1 ELSE idx
     IN  /\ ops' = RemoveAt(ops, i)
         /\ rejected' = Append(rejected, ops[i])
  /\ blamed' = Append(blamed, ops[idx + 1])
  /\ attempt' = attempt + 1
  /\ IF ops' = <<>> THEN Return(Err) ELSE UNCHANGED <<pc, result>>
  /\ verdict' = Verdict("failed")
  /\ UNCHANGED picked

\* Mutant of FailedOp: a bundle left empty is simulated.
FailedOp_EmptyGoesOn(idx) ==
  /\ pc = "simulate"
  /\ attempt < MaxRetries
  /\ idx < Len(ops)
  /\ ops' = RemoveAt(ops, idx + 1)
  /\ rejected' = Append(rejected, ops[idx + 1])
  /\ blamed' = Append(blamed, ops[idx + 1])
  /\ attempt' = attempt + 1
  /\ verdict' = Verdict("failed")
  /\ UNCHANGED <<pc, result, picked>>

\* Mutant of FailedOp: what is left is not simulated again.
FailedOp_NoSecondLook(idx) ==
  /\ pc = "simulate"
  /\ attempt < MaxRetries
  /\ idx < Len(ops)
  /\ ops' = RemoveAt(ops, idx + 1)
  /\ rejected' = Append(rejected, ops[idx + 1])
  /\ blamed' = Append(blamed, ops[idx + 1])
  /\ attempt' = attempt + 1
  /\ Return(IF ops' = <<>> THEN Err ELSE Bundle(ops'))
  /\ verdict' = Verdict("failed")
  /\ UNCHANGED picked

\* FailedOp(idx), 0-based: the next pass is without the operation, unless
\* nothing is left.
FailedOp(idx) ==
  /\ pc = "simulate"
  /\ attempt < MaxRetries
  /\ idx < Len(ops)
  /\ ops' = RemoveAt(ops, idx + 1)
  /\ rejected' = Append(rejected, ops[idx + 1])
  /\ blamed' = Append(blamed, ops[idx + 1])
  /\ attempt' = attempt + 1
  /\ IF ops' = <<>> THEN Return(Err) ELSE UNCHANGED <<pc, result>>
  /\ verdict' = Verdict("failed")
  /\ UNCHANGED picked

\* The last pass failed too, or the index is not of this list: break, and
\* the bundle is returned as it stands.
GiveUp(idx) ==
  /\ pc = "simulate"
  /\ attempt >= MaxRetries \/ idx >= Len(ops)
  /\ blamed' = IF idx < Len(ops) THEN Append(blamed, ops[idx + 1]) ELSE blamed
  /\ verdict' = Verdict(IF idx < Len(ops) THEN "failed" ELSE "stray")
  /\ Return(Bundle(ops))
  /\ UNCHANGED <<locals, picked>>

\* SignatureValidationFailed or Revert
SimulationReverts ==
  /\ pc = "simulate"
  /\ Return(Err)
  /\ UNCHANGED <<locals, trace>>

\* call_handle_ops returns, with what it could read from the reply.
SimulationAnswers ==
  \E reply \in Reply :
    LET out == HandleOpsOut(reply)
    IN  \/ out.kind = "success" /\ SimulationSucceeds
        \/ out.kind = "failed_op" /\ (FailedOp(out.index) \/ GiveUp(out.index))
        \/ out.kind = "revert" /\ SimulationReverts
        \/ out.kind = "error" /\ pc = "simulate" /\ ProviderFails

Next ==
  \/ MakeBundle \/ FeesFetched \/ Select
  \/ pc # "simulate" /\ ProviderFails
  \/ SimulationAnswers

Spec == Init /\ [][Next]_vars

-----------------------------------------------------------------------------
(* Properties                                                              *)

Results ==
  [ok : BOOLEAN, ops : Seq(Entry), rejected : Seq(Entry),
   gas_estimate : 0..GasModulus-1]

\* The locals of make_bundle keep their types, and the loop runs its body
\* max_retries + 1 times at most.
TypeOK ==
  /\ pc \in {"idle", "current_fees", "base_fee", "simulate"}
  /\ ops \in Seq(Entry) /\ rejected \in Seq(Entry)
  /\ attempt \in 0..MaxRetries
  /\ result \in Results
  /\ picked \in Seq(Entry) /\ blamed \in Seq(Entry)
  /\ verdict \in [list : Seq(Entry),
                 answer : {"none", "success", "failed", "stray"}]
  /\ pc = "simulate" => ops # <<>>

\* A bundle and its rejected_ops divide what was selected: make_bundle
\* rejects exactly operations a simulation named, in that order, and loses
\* none (task.rs then removes the rejected ones from the pool for good).
\* However many a simulation removes, the bundle keeps the order of
\* OrderEntry::cmp: best price first, then FIFO.
BundlePartition ==
  pc = "idle" /\ result.ok =>
    /\ ToSet(result.ops) = ToSet(picked) \ ToSet(result.rejected)
    /\ Len(result.ops) + Len(result.rejected) = Len(picked)
    /\ result.rejected = SubSeq(blamed, 1, Len(result.rejected))
    /\ \A i, j \in DOMAIN result.ops :
         i < j => Before(result.ops[i], result.ops[j])

\* A bundle is the very list the last simulation saw, and that simulation
\* accepted it, unless max_retries operations had been removed already or
\* the EntryPoint named an index that is not of the list.
OkPassedSimulation ==
  pc = "idle" /\ result.ok =>
    /\ verdict.list = result.ops
    /\ \/ verdict.answer = "success"
       \/ verdict.answer = "failed" /\ Len(result.rejected) = MaxRetries
       \/ verdict.answer = "stray"

\* Gas limits, the overhead per operation and the intrinsic gas, as
\* ChainSpec documents them
GasNeeded(s) == IntrinsicGas + GasLimits(s, PerOpGas)

\* The gas estimate a bundle carries is that of the operations left in it:
\* it covers them with a twentieth to spare, if the sum fits a u64.
GasCoversOps ==
  result.ok /\ GasNeeded(result.ops) + GasNeeded(result.ops) \div 20 < GasModulus =>
    result.gas_estimate =
      GasNeeded(result.ops) + GasNeeded(result.ops) \div 20

=============================================================================
