----------------------------- MODULE BundleFees -----------------------------
(***************************************************************************)
(* The fees of a bundle, from the oracle to the last replacement of its    *)
(* transaction.  crates/provider/src/gas_oracle.rs caches the base fee and *)
(* a window of priority fees per block; make_bundle (proposer.rs) asks it  *)
(* twice; crates/builder/src/tracker.rs raises the fees of a transaction   *)
(* that stays pending.  Every query of the node is an await of its own,    *)
(* may fail, and answers for the chain as it is by then.                   *)
(***************************************************************************)
EXTENDS Integers, Sequences, FiniteSets, SequencesExt

CONSTANTS
  Market,       \* fees a block may have: records of base and priority
  MaxBlocks,    \* bound: height of the chain
  MaxReorgs,    \* bound: times the newest block is replaced
  HistorySize,  \* ProviderGasOracle::history_size
  MaxAttempts,  \* EscalationConfig::max_attempts
  BumpBps,      \* EscalationConfig::fee_bump_bps
  PremiumBps    \* EscalationConfig::network_premium_bps

ASSUME FeesConstants ==
  /\ Market \subseteq [base : Nat, priority : Nat] /\ Market # {}
  /\ {MaxBlocks, MaxReorgs, MaxAttempts, BumpBps, PremiumBps} \subseteq Nat
  /\ HistorySize \in Nat \ {0}

VARIABLES
  chain,          \* external: the fees of every block, newest last
  reorgs,         \* external: blocks replaced so far
  strategy,       \* EscalationConfig::strategy
  at,             \* what the bundler awaits
  asked,          \* the oracle's method that refreshes
  current_block,  \* local of refresh_if_needed
  base_fee,       \* local of refresh_if_needed and escalated_fees_network
  last_block, last_base_fee, fee_history,  \* ProviderGasOracle
  gas_fees,       \* fees of the bundle
  pending,        \* fees and escalation_count of the pending transaction
  from            \* history: the block each base fee is of, and the head
                  \* when make_bundle began

cache  == <<last_block, last_base_fee, fee_history>>
world  == <<chain, reorgs, strategy>>
fees_vars == <<chain, reorgs, strategy, at, asked, current_block, base_fee,
               last_block, last_base_fee, fee_history, gas_fees, pending, from>>

Fees == [max_fee : Nat, priority : Nat]
NoFees == [max_fee |-> 0, priority |-> 0]
Untracked == [max_fee |-> 0, priority |-> 0, count |-> 0]
Larger(a, b) == IF a >= b THEN a ELSE b

Latest == chain[Len(chain)]

FeesInit ==
  /\ chain \in {<<m>> : m \in Market} /\ reorgs = 0
  /\ strategy \in {"linear", "network"}
  /\ at = "idle" /\ asked = "current_fees"
  /\ current_block = 0 /\ base_fee = 0
  /\ last_block = 0 /\ last_base_fee = 0 /\ fee_history = <<>>
  /\ gas_fees = NoFees /\ pending = Untracked
  /\ from = [begun |-> 0, local |-> 0, cache |-> 0, fees |-> 0, base |-> 0]

-----------------------------------------------------------------------------
(* The oracle                                                              *)

\* Entries of the window before entry i when its priority fees are sorted
Cheaper(history, i) ==
  {j \in DOMAIN history :
     \/ history[j].priority < history[i].priority
     \/ history[j].priority = history[i].priority /\ j < i}

\* median_priority_fee: the upper median, half of the window is before it
Median(history) ==
  LET middle == CHOOSE i \in DOMAIN history :
                  Cardinality(Cheaper(history, i)) = Len(history) \div 2
  IN  history[middle].priority

\* current_fees, once refreshed
OracleFees(base, history) ==
  LET priority == IF history = <<>> THEN base \div 10 ELSE Median(history)
  IN  [max_fee |-> base + priority, priority |-> priority]

MakeBundle ==
  /\ at = "idle"
  /\ at' = "number" /\ asked' = "current_fees"
  /\ from' = [from EXCEPT !.begun = Len(chain)]
  /\ UNCHANGED <<world, current_block, base_fee, cache, gas_fees, pending>>

\* refresh_if_needed is done and the oracle answers: current_fees with the
\* fees of the bundle, whereupon make_bundle asks for base_fee, which
\* refreshes once more and answers unless there is no base fee in the cache.
Answer(base, history, block) ==
  IF asked = "current_fees"
    THEN /\ gas_fees' = OracleFees(base, history)
         /\ at' = "number" /\ asked' = "base_fee"
         /\ from' = [from EXCEPT !.cache = block, !.fees = block]
    ELSE /\ at' = IF base > 0 THEN "built" ELSE "latest"
         /\ from' = [from EXCEPT !.cache = block, !.base = block]
         /\ UNCHANGED <<asked, gas_fees>>

\* Mutant of NumberArrives: the block is marked as cached before its fees
\* are there.
NumberArrives_MarksEarly ==
  /\ at = "number"
  /\ current_block' = Len(chain)
  /\ IF Len(chain) <= last_block
       THEN Answer(last_base_fee, fee_history, from.cache) /\ UNCHANGED last_block
       ELSE at' = "base" /\ last_block' = Len(chain) /\ UNCHANGED <<asked, gas_fees, from>>
  /\ UNCHANGED <<world, base_fee, last_base_fee, fee_history, pending>>

\* Mutant of NumberArrives: a block that is cached is fetched again.
NumberArrives_Again ==
  /\ at = "number"
  /\ current_block' = Len(chain)
  /\ IF Len(chain) < last_block
       THEN Answer(last_base_fee, fee_history, from.cache)
       ELSE at' = "base" /\ UNCHANGED <<asked, gas_fees, from>>
  /\ UNCHANGED <<world, base_fee, cache, pending>>

NumberArrives ==
  /\ at = "number"
  /\ current_block' = Len(chain)
  /\ IF Len(chain) <= last_block
       THEN Answer(last_base_fee, fee_history, from.cache)
       ELSE at' = "base" /\ UNCHANGED <<asked, gas_fees, from>>
  /\ UNCHANGED <<world, base_fee, cache, pending>>

BaseArrives ==
  /\ at = "base"
  /\ at' = "priority"
  /\ base_fee' = Latest.base
  /\ from' = [from EXCEPT !.local = Len(chain)]
  /\ UNCHANGED <<world, asked, current_block, cache, gas_fees, pending>>

\* The window keeps the newest history_size blocks.
Pushed(priority) ==
  LET grown == Append(fee_history, [number |-> current_block,
                                    base |-> base_fee, priority |-> priority])
  IN  IF Len(grown) > HistorySize THEN Tail(grown) ELSE grown

PriorityArrives ==
  /\ at = "priority"
  /\ last_block' = current_block
  /\ last_base_fee' = base_fee
  /\ fee_history' = Pushed(Latest.priority)
  /\ Answer(base_fee, fee_history', from.local)
  /\ UNCHANGED <<world, current_block, base_fee, pending>>

\* base_fee's own query, when the cached one is zero
LatestArrives ==
  /\ at = "latest"
  /\ at' = "built"
  /\ from' = [from EXCEPT !.base = Len(chain)]
  /\ UNCHANGED <<world, asked, current_block, base_fee, cache, gas_fees, pending>>

\* `?` returns the error of a query: nothing is stored, and no bundle made.
OracleFails ==
  /\ at \in {"number", "base", "priority", "latest"}
  /\ at' = "idle"
  /\ UNCHANGED <<world, asked, current_block, base_fee, cache, gas_fees,
                 pending, from>>

-----------------------------------------------------------------------------
(* The transaction                                                         *)

\* The bundle is submitted with the fees current_fees gave, or dropped.
Submit ==
  /\ at = "built"
  /\ at' = "pending"
  /\ pending' = [max_fee |-> gas_fees.max_fee, priority |-> gas_fees.priority,
                 count |-> 0]
  /\ UNCHANGED <<world, asked, current_block, base_fee, cache, gas_fees, from>>

Drop ==
  /\ at \in {"built", "pending"}
  /\ at' = "idle" /\ pending' = Untracked
  /\ UNCHANGED <<world, asked, current_block, base_fee, cache, gas_fees, from>>

\* GasFees::increase_by_percent, and the same expression in tracker.rs
IncreaseByPercent(fee, bps) == (fee * (10000 + bps)) \div 10000

Linear ==
  [max_fee  |-> IncreaseByPercent(pending.max_fee, BumpBps),
   priority |-> IncreaseByPercent(pending.priority, BumpBps)]

\* Mutant of AboveMarket: the market's fees are taken as they are.
AboveMarket_MarketOnly(base, priority) ==
  [max_fee  |-> IncreaseByPercent(base + priority, PremiumBps),
   priority |-> IncreaseByPercent(priority, PremiumBps)]

\* escalated_fees_network: a premium on the market, and the bump at least
AboveMarket(base, priority) ==
  [max_fee  |-> Larger(IncreaseByPercent(base + priority, PremiumBps),
                       IncreaseByPercent(pending.max_fee, BumpBps)),
   priority |-> Larger(IncreaseByPercent(priority, PremiumBps),
                       IncreaseByPercent(pending.priority, BumpBps))]

\* The replacement is sent with these fees; record_escalation keeps them
\* unless the submission fails.
Escalated(fees) ==
  /\ at' = "pending"
  /\ \/ pending' = [max_fee |-> fees.max_fee, priority |-> fees.priority,
                    count |-> pending.count + 1]
     \/ UNCHANGED pending

EscalateLinear ==
  /\ at = "pending" /\ strategy = "linear"
  /\ pending.count < MaxAttempts
  /\ Escalated(Linear)
  /\ UNCHANGED <<world, asked, current_block, base_fee, cache, gas_fees, from>>

AskMarket ==
  /\ at = "pending" /\ strategy = "network"
  /\ pending.count < MaxAttempts
  /\ at' = "market_base"
  /\ UNCHANGED <<world, asked, current_block, base_fee, cache, gas_fees,
                 pending, from>>

MarketBaseArrives ==
  /\ at = "market_base"
  /\ at' = "market_priority"
  /\ base_fee' = Latest.base
  /\ UNCHANGED <<world, asked, current_block, cache, gas_fees, pending, from>>

EscalateAboveMarket ==
  /\ at = "market_priority"
  /\ Escalated(AboveMarket(base_fee, Latest.priority))
  /\ UNCHANGED <<world, asked, current_block, base_fee, cache, gas_fees, from>>

\* A query fails: None, which the task takes for the last attempt.
MarketFails ==
  /\ at \in {"market_base", "market_priority"}
  /\ at' = "idle" /\ pending' = Untracked
  /\ UNCHANGED <<world, asked, current_block, base_fee, cache, gas_fees, from>>

-----------------------------------------------------------------------------
(* The chain                                                               *)

bundler == <<strategy, at, asked, current_block, base_fee, cache, gas_fees,
             pending, from>>

NewBlock ==
  /\ Len(chain) < MaxBlocks
  /\ \E m \in Market : chain' = Append(chain, m)
  /\ UNCHANGED <<reorgs, bundler>>

Reorg ==
  /\ reorgs < MaxReorgs
  /\ reorgs' = reorgs + 1
  /\ \E m \in Market : chain' = [chain EXCEPT ![Len(chain)] = m]
  /\ UNCHANGED bundler

FeesNext ==
  \/ MakeBundle \/ NumberArrives \/ BaseArrives \/ PriorityArrives
  \/ LatestArrives \/ OracleFails
  \/ Submit \/ Drop \/ EscalateLinear \/ AskMarket \/ MarketBaseArrives
  \/ EscalateAboveMarket \/ MarketFails
  \/ NewBlock \/ Reorg

FeesSpec == FeesInit /\ [][FeesNext]_fees_vars

-----------------------------------------------------------------------------
(* Properties                                                              *)

Locations ==
  {"idle", "number", "base", "priority", "latest", "built", "pending",
   "market_base", "market_priority"}

\* Every variable of the oracle, the proposer and the tracker keeps its
\* type, and the window its size.
FeesTypeOK ==
  /\ chain \in Seq(Market) /\ chain # <<>> /\ reorgs \in Nat
  /\ strategy \in {"linear", "network"}
  /\ at \in Locations /\ asked \in {"current_fees", "base_fee"}
  /\ current_block \in Nat /\ base_fee \in Nat
  /\ last_block \in Nat /\ last_base_fee \in Nat
  /\ fee_history \in Seq([number : Nat, base : Nat, priority : Nat])
  /\ Len(fee_history) <= HistorySize
  /\ gas_fees \in Fees
  /\ pending \in [max_fee : Nat, priority : Nat, count : 0..MaxAttempts]
  /\ from \in [begun : Nat, local : Nat, cache : Nat, fees : Nat, base : Nat]

\* refresh_if_needed stores each block once and in order, whatever fails
\* and whatever is reorganised between its queries: the window never counts
\* a block twice, and its newest entry is the block the cache is marked with.
WindowInOrder ==
  /\ \A i, j \in DOMAIN fee_history :
       i < j => fee_history[i].number < fee_history[j].number
  /\ IF fee_history = <<>> THEN last_block = 0
     ELSE /\ fee_history[Len(fee_history)].number = last_block
          /\ fee_history[Len(fee_history)].base = last_base_fee

\* make_bundle's fees and base fee come from two refreshes, each of them of
\* a few queries.  While the chain only grows neither is older than the
\* head when make_bundle began, and the base fee operations are filtered by
\* is of the same or of a later block than the fees the bundle pays: a stale
\* cache is never used, and a block in between only makes the filter newer.
FeesNotStale ==
  reorgs = 0 /\ at = "built" =>
    /\ from.begun <= from.fees
    /\ from.fees <= from.base

\* A node takes a replacement whose priority fee is within its maximum fee
\* and that outbids by a tenth.  tracker.rs: "Ensure at least the minimum
\* required bump for nonce replacement (Ethereum requires ~10% bump)": each
\* recorded escalation does, over any number of them, though maxima and
\* roundings are taken on each fee alone and the market may have fallen, for
\* every fee of at least 40 wei (below that a twelfth and a half rounds to
\* less than a tenth).
ReplacementOutbids ==
  [][/\ pending'.priority <= pending'.max_fee
     /\ pending'.count = pending.count + 1 =>
          /\ pending.max_fee >= 40 => 10 * pending'.max_fee >= 11 * pending.max_fee
          /\ pending.priority >= 40 =>
               10 * pending'.priority >= 11 * pending.priority]_fees_vars

=============================================================================
