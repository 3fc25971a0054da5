-------------------------- MODULE BundleFeesProofs --------------------------
(***************************************************************************)
(* Proofs about crates/provider/src/gas_oracle.rs as make_bundle uses it,  *)
(* for any chain, window and number of escalations: the window stays in    *)
(* order, the fees and the base fee of a bundle are never stale, and with  *)
(* the bump that is the default every offer outbids the one before it.     *)
(***************************************************************************)
EXTENDS BundleFees, FiniteSetTheorems, FunctionTheorems, TLAPS

Seen == [number : Nat, base : Nat, priority : Nat]
Moments == [begun : Nat, local : Nat, cache : Nat, fees : Nat, base : Nat]

\* The types the argument needs; the amounts offered are not among them.
FeesTypes ==
  /\ chain \in Seq(Market) /\ chain # <<>>
  /\ at \in Locations /\ asked \in {"current_fees", "base_fee"}
  /\ current_block \in Nat /\ base_fee \in Nat
  /\ last_block \in Nat /\ last_base_fee \in Nat
  /\ fee_history \in Seq(Seen)
  /\ from \in Moments

\* Invariant: a block is being fetched only if the cache is older, and
\* everything that was fetched is of a block that is there.
FetchesNewer ==
  /\ last_block <= from.cache /\ from.cache <= Len(chain)
  /\ at \in {"base", "priority"} => last_block < current_block /\ current_block <= Len(chain)
  /\ at = "priority" => current_block <= from.local /\ from.local <= Len(chain)

\* Invariant: each answer is of a block no older than the one before it.
AnswersInOrder ==
  /\ at \in {"number", "base", "priority"} /\ asked = "current_fees" =>
       from.begun <= Len(chain)
  /\ at = "priority" /\ asked = "current_fees" => from.begun <= from.local
  /\ at \in {"number", "base", "priority", "latest"} /\ asked = "base_fee" =>
       from.begun <= from.fees /\ from.fees <= Len(chain)
  /\ at = "priority" /\ asked = "base_fee" => from.fees <= from.local
  /\ at = "latest" => asked = "base_fee"
  /\ at = "built" => from.begun <= from.fees /\ from.fees <= from.base

FeesInv == FeesTypes /\ WindowInOrder /\ FetchesNewer /\ AnswersInOrder

-----------------------------------------------------------------------------
(* The window                                                              *)

\* A fee of the market is a natural number.
LEMMA LatestFees ==
  ASSUME FeesTypes
  PROVE  Latest.base \in Nat /\ Latest.priority \in Nat /\ Len(chain) \in Nat
<1>1. Len(chain) \in 1..Len(chain) /\ Len(chain) \in Nat
  BY DEF FeesTypes
<1>2. chain[Len(chain)] \in Market
  BY <1>1 DEF FeesTypes
<1> QED
  BY <1>1, <1>2, FeesConstants DEF Latest

LEMMA NextPlaces ==
  ASSUME NEW n \in Nat, NEW i \in 1..n, NEW j \in 1..n, i < j
  PROVE  i + 1 \in 1..(n + 1) /\ j + 1 \in 1..(n + 1) /\ i + 1 < j + 1
OBVIOUS

\* A newer block is pushed behind the window, and perhaps the oldest out.
LEMMA PushedInOrder ==
  ASSUME FeesTypes, WindowInOrder, NEW priority \in Nat, last_block < current_block
  PROVE  /\ Pushed(priority) \in Seq(Seen) /\ Pushed(priority) # <<>>
         /\ \A i, j \in DOMAIN Pushed(priority) :
              i < j => Pushed(priority)[i].number < Pushed(priority)[j].number
         /\ Pushed(priority)[Len(Pushed(priority))].number = current_block
         /\ Pushed(priority)[Len(Pushed(priority))].base = base_fee
<1> DEFINE new == [number |-> current_block, base |-> base_fee, priority |-> priority]
           grown == Append(fee_history, new)
           n == Len(fee_history)
<1>1. new \in Seen /\ n \in Nat /\ fee_history \in Seq(Seen)
  BY DEF FeesTypes, Seen
<1>2. /\ new.number = current_block /\ new.base = base_fee
      /\ current_block \in Nat /\ last_block \in Nat
  BY DEF FeesTypes
<1> HIDE DEF new
<1>3. /\ grown \in Seq(Seen) /\ Len(grown) = n + 1 /\ grown[n + 1] = new
      /\ \A i \in 1..n : grown[i] = fee_history[i] /\ fee_history[i] \in Seen
  BY <1>1
<1>4. \A i \in 1..n : fee_history[i].number \in Nat /\ fee_history[i].number <= last_block
  <2> SUFFICES ASSUME NEW i \in 1..n
               PROVE  fee_history[i].number \in Nat /\ fee_history[i].number <= last_block
    OBVIOUS
  <2>1. fee_history # <<>> /\ n \in 1..n /\ DOMAIN fee_history = 1..n
    BY <1>1
  <2>2. fee_history[n].number = last_block /\ fee_history[i].number \in Nat
    BY <1>3, <2>1 DEF WindowInOrder, Seen
  <2>3. i < n => fee_history[i].number < fee_history[n].number
    BY <2>1 DEF WindowInOrder
  <2> QED
    BY <1>2, <2>2, <2>3
<1>5. \A i, j \in 1..(n + 1) : i < j => grown[i].number < grown[j].number
  <2> SUFFICES ASSUME NEW i \in 1..(n + 1), NEW j \in 1..(n + 1), i < j
               PROVE  grown[i].number < grown[j].number
    OBVIOUS
  <2>1. i \in 1..n
    BY <1>1
  <2>2. CASE j = n + 1
    BY <1>2, <1>3, <1>4, <2>1, <2>2
  <2>3. CASE j \in 1..n
    <3>1. DOMAIN fee_history = 1..n
      BY <1>1
    <3> QED
      BY <1>3, <2>1, <2>3, <3>1 DEF WindowInOrder
  <2> QED
    BY <1>1, <2>2, <2>3
<1>6. Pushed(priority) = IF Len(grown) > HistorySize THEN Tail(grown) ELSE grown
  BY DEF Pushed, new
<1> HIDE DEF grown
<1>7. CASE ~(Len(grown) > HistorySize)
  BY <1>1, <1>2, <1>3, <1>5, <1>6, <1>7
<1>8. CASE Len(grown) > HistorySize
  <2>1. n >= 1
    BY <1>1, <1>3, <1>8, FeesConstants
  <2>2. /\ Tail(grown) \in Seq(Seen) /\ Len(Tail(grown)) = n
        /\ DOMAIN Tail(grown) = 1..n
        /\ \A i \in 1..n : Tail(grown)[i] = grown[i + 1]
    BY <1>1, <1>3, <2>1
  <2>3. Tail(grown) # <<>> /\ Tail(grown)[n] = new
    BY <1>1, <1>3, <2>1, <2>2
  <2>4. ASSUME NEW i \in 1..n, NEW j \in 1..n, i < j
        PROVE  Tail(grown)[i].number < Tail(grown)[j].number
    <3>1. i + 1 \in 1..(n + 1) /\ j + 1 \in 1..(n + 1) /\ i + 1 < j + 1
      BY <1>1, <2>4, NextPlaces, Zenon
    <3>2. grown[i + 1].number < grown[j + 1].number
      BY <1>5, <3>1, Zenon
    <3> QED
      BY <2>2, <3>2, Zenon
  <2> QED
    BY <1>2, <1>6, <1>8, <2>2, <2>3, <2>4
<1> QED
  BY <1>7, <1>8

\* A fee of the window has half of the others before it, so the median is
\* one of them: the places of the fees are different numbers, and thereby
\* all the numbers there are.
LEMMA MedianIsFee ==
  ASSUME NEW history \in Seq(Seen), history # <<>>
  PROVE  Median(history) \in Nat
<1> DEFINE n == Len(history)
           fee(i) == history[i].priority
           rank(i) == Cardinality(Cheaper(history, i))
           place == [i \in 1..n |-> rank(i) + 1]
<1>1. /\ n \in Nat \ {0} /\ DOMAIN history = 1..n
      /\ \A i \in 1..n : fee(i) \in Nat
  <2>1. n \in Nat \ {0} /\ DOMAIN history = 1..n
    OBVIOUS
  <2>2. ASSUME NEW i \in 1..n PROVE fee(i) \in Nat
    <3>1. history[i] \in Seen
      BY <2>1
    <3> QED
      BY <3>1 DEF Seen
  <2> QED
    BY <2>1, <2>2
<1>2. IsFiniteSet(1..n) /\ Cardinality(1..n) = n
  BY <1>1, FS_Interval
<1>3. ASSUME NEW i \in 1..n
      PROVE  /\ Cheaper(history, i) \subseteq (1..n) \ {i}
             /\ IsFiniteSet(Cheaper(history, i))
             /\ rank(i) \in Nat /\ place[i] \in 1..n
  <2>1. Cheaper(history, i) \subseteq (1..n) \ {i}
    BY <1>1 DEF Cheaper
  <2>2. IsFiniteSet((1..n) \ {i}) /\ Cardinality((1..n) \ {i}) = n - 1
    BY <1>2, FS_RemoveElement
  <2>3. IsFiniteSet(Cheaper(history, i)) /\ rank(i) \in Nat /\ rank(i) <= n - 1
    BY <2>1, <2>2, FS_Subset, FS_CardinalityType
  <2> QED
    BY <1>1, <2>1, <2>3
<1>4. ASSUME NEW i \in 1..n, NEW j \in 1..n,
             fee(i) < fee(j) \/ (fee(i) = fee(j) /\ i < j)
      PROVE  rank(i) < rank(j)
  <2>1. /\ Cheaper(history, i) \subseteq Cheaper(history, j)
        /\ i \in Cheaper(history, j) /\ i \notin Cheaper(history, i)
    BY <1>1, <1>4 DEF Cheaper
  <2>2. rank(i) <= rank(j) /\ rank(i) # rank(j)
    BY <1>3, <2>1, FS_Subset
  <2> QED
    BY <1>3, <2>2
<1>5. \A i, j \in 1..n : rank(i) = rank(j) => i = j
  <2> SUFFICES ASSUME NEW i \in 1..n, NEW j \in 1..n, rank(i) = rank(j), i # j
               PROVE  FALSE
    OBVIOUS
  <2>0. i # j /\ i \in Nat /\ j \in Nat
    BY <1>1
  <2>1. \/ fee(i) < fee(j) \/ (fee(i) = fee(j) /\ i < j)
        \/ fee(j) < fee(i) \/ (fee(j) = fee(i) /\ j < i)
    <3>1. fee(i) \in Nat /\ fee(j) \in Nat
      BY <1>1
    <3> HIDE DEF fee
    <3> QED
      BY <2>0, <3>1
  <2>2. rank(i) \in Nat /\ rank(j) \in Nat
    BY <1>3
  <2> QED
    BY <1>4, <2>1, <2>2
<1>6. place \in Injection(1..n, 1..n)
  <2>1. place \in [1..n -> 1..n]
    BY <1>3
  <2>2. ASSUME NEW i \in 1..n, NEW j \in 1..n, place[i] = place[j] PROVE i = j
    BY <1>3, <1>5, <2>2
  <2> HIDE DEF place
  <2> QED
    BY <2>1, <2>2 DEF Injection, IsInjective
<1>7. \E i \in 1..n : place[i] = n \div 2 + 1
  <2>1. n \div 2 + 1 \in 1..n
    BY <1>1
  <2> HIDE DEF place
  <2>2. place \in Surjection(1..n, 1..n)
    BY <1>2, <1>6, FS_Injection
  <2> QED
    BY <2>1, <2>2 DEF Surjection
<1>8. PICK i \in 1..n : rank(i) = n \div 2
  <2>1. PICK i \in 1..n : place[i] = n \div 2 + 1
    BY <1>7
  <2>2. rank(i) \in Nat /\ rank(i) + 1 = n \div 2 + 1 /\ n \div 2 \in Nat
    BY <1>1, <1>3, <2>1
  <2> QED
    BY <2>2
<1>9. (CHOOSE j \in DOMAIN history : rank(j) = n \div 2) \in 1..n
  BY <1>1, <1>8
<1> QED
  BY <1>1, <1>9 DEF Median

-----------------------------------------------------------------------------
(* The invariant                                                           *)

\* An empty cache, with nothing asked
LEMMA InitFeesInv == FeesInit => FeesInv
<1> SUFFICES ASSUME FeesInit PROVE FeesInv
  OBVIOUS
<1>1. PICK m \in Market : chain = <<m>>
  BY DEF FeesInit
<1>2. chain \in Seq(Market) /\ chain # <<>> /\ Len(chain) = 1
  BY <1>1
<1>3. fee_history = <<>> /\ fee_history \in Seq(Seen) /\ DOMAIN fee_history = {}
  BY DEF FeesInit
<1>4. FeesTypes
  BY <1>2, <1>3 DEF FeesInit, FeesTypes, Locations, Moments
<1>5. WindowInOrder
  BY <1>3 DEF FeesInit, WindowInOrder
<1>6. FetchesNewer /\ AnswersInOrder
  BY <1>2 DEF FeesInit, FetchesNewer, AnswersInOrder
<1> QED
  BY <1>4, <1>5, <1>6 DEF FeesInv

\* The fields of the history of moments
LEMMA FromFields ==
  ASSUME FeesTypes
  PROVE  /\ from.begun \in Nat /\ from.local \in Nat /\ from.cache \in Nat
         /\ from.fees \in Nat /\ from.base \in Nat
  BY DEF FeesTypes, Moments

\* The head is read: the cache answers, or the block is fetched.
LEMMA NumberPreserves ==
  ASSUME FeesInv, NumberArrives
  PROVE  FeesInv'
<1> USE DEF FeesInv
<1>1. /\ at = "number" /\ current_block' = Len(chain) /\ Len(chain) \in Nat
      /\ UNCHANGED <<chain, base_fee, last_block, last_base_fee, fee_history>>
  BY LatestFees DEF NumberArrives, world, cache
<1>2. /\ last_block \in Nat /\ from \in Moments /\ asked \in {"current_fees", "base_fee"}
      /\ last_block <= from.cache /\ from.cache <= Len(chain)
  BY DEF FeesTypes, FetchesNewer
<1>3. WindowInOrder'
  BY <1>1 DEF WindowInOrder
<1>4. CASE ~(Len(chain) <= last_block)
  <2>1. at' = "base" /\ UNCHANGED <<asked, from>>
    BY <1>4 DEF NumberArrives
  <2>2. FeesTypes'
    BY <1>1, <2>1 DEF FeesTypes, Locations
  <2>3. FetchesNewer'
    BY <1>1, <1>2, <1>4, <2>1 DEF FetchesNewer
  <2>4. AnswersInOrder'
    BY <1>1, <2>1 DEF AnswersInOrder
  <2> QED
    BY <1>3, <2>2, <2>3, <2>4
<1>5. CASE Len(chain) <= last_block /\ asked = "current_fees"
  <2>1. /\ at' = "number" /\ asked' = "base_fee"
        /\ from' = [from EXCEPT !.cache = from.cache, !.fees = from.cache]
    BY <1>5 DEF NumberArrives, Answer
  <2>2. /\ from' \in Moments /\ from'.cache = from.cache /\ from'.fees = from.cache
        /\ from'.begun = from.begun /\ from.begun \in Nat /\ from.cache \in Nat
    BY <1>2, <2>1 DEF Moments
  <2>3. FeesTypes'
    BY <1>1, <2>1, <2>2 DEF FeesTypes, Locations
  <2>4. FetchesNewer'
    BY <1>1, <1>2, <2>1, <2>2 DEF FetchesNewer
  <2>5. AnswersInOrder'
    BY <1>1, <1>2, <1>5, <2>1, <2>2 DEF AnswersInOrder
  <2> QED
    BY <1>3, <2>3, <2>4, <2>5
<1>6. CASE Len(chain) <= last_block /\ asked = "base_fee"
  <2>1. /\ at' \in {"built", "latest"} /\ asked' = asked
        /\ from' = [from EXCEPT !.cache = from.cache, !.base = from.cache]
    BY <1>6 DEF NumberArrives, Answer
  <2>2. /\ from' \in Moments /\ from'.cache = from.cache /\ from'.base = from.cache
        /\ from'.begun = from.begun /\ from'.fees = from.fees
        /\ from.begun \in Nat /\ from.cache \in Nat /\ from.fees \in Nat
    BY <1>2, <2>1 DEF Moments
  <2>3. FeesTypes'
    BY <1>1, <2>1, <2>2 DEF FeesTypes, Locations
  <2>4. FetchesNewer'
    BY <1>1, <1>2, <2>1, <2>2 DEF FetchesNewer
  <2>5. AnswersInOrder'
    BY <1>1, <1>2, <1>6, <2>1, <2>2 DEF AnswersInOrder
  <2> QED
    BY <1>3, <2>3, <2>4, <2>5
<1> QED
  BY <1>2, <1>4, <1>5, <1>6

\* The fetched block enters the cache, and the oracle answers.
LEMMA PriorityPreserves ==
  ASSUME FeesInv, PriorityArrives
  PROVE  FeesInv'
<1> USE DEF FeesInv
<1>1. /\ at = "priority" /\ Len(chain) \in Nat /\ Latest.priority \in Nat
      /\ UNCHANGED <<chain, base_fee, current_block>>
      /\ last_block' = current_block /\ last_base_fee' = base_fee
      /\ fee_history' = Pushed(Latest.priority)
  BY LatestFees DEF PriorityArrives, world
<1>2. /\ last_block \in Nat /\ current_block \in Nat /\ base_fee \in Nat
      /\ from \in Moments /\ from.local \in Nat
      /\ last_block < current_block /\ current_block <= from.local
      /\ from.local <= Len(chain) /\ asked \in {"current_fees", "base_fee"}
  BY <1>1, FromFields DEF FeesTypes, FetchesNewer
<1>3. WindowInOrder' /\ fee_history' \in Seq(Seen)
  BY <1>1, <1>2, PushedInOrder DEF WindowInOrder
<1>4. CASE asked = "current_fees"
  <2>1. /\ at' = "number" /\ asked' = "base_fee"
        /\ from' = [from EXCEPT !.cache = from.local, !.fees = from.local]
    BY <1>4 DEF PriorityArrives, Answer
  <2>2. /\ from' \in Moments /\ from'.cache = from.local /\ from'.fees = from.local
        /\ from'.begun = from.begun /\ from.begun \in Nat
    BY <1>2, <2>1 DEF Moments
  <2>3. FeesTypes'
    BY <1>1, <1>2, <1>3, <2>1, <2>2 DEF FeesTypes, Locations
  <2>4. FetchesNewer'
    BY <1>1, <1>2, <2>1, <2>2 DEF FetchesNewer
  <2>5. AnswersInOrder'
    BY <1>1, <1>2, <1>4, <2>1, <2>2 DEF AnswersInOrder
  <2> QED
    BY <1>3, <2>3, <2>4, <2>5
<1>5. CASE asked = "base_fee"
  <2>1. /\ at' \in {"built", "latest"} /\ asked' = asked
        /\ from' = [from EXCEPT !.cache = from.local, !.base = from.local]
    BY <1>5 DEF PriorityArrives, Answer
  <2>2. /\ from' \in Moments /\ from'.cache = from.local /\ from'.base = from.local
        /\ from'.begun = from.begun /\ from'.fees = from.fees
        /\ from.begun \in Nat /\ from.fees \in Nat
    BY <1>2, <2>1 DEF Moments
  <2>3. FeesTypes'
    BY <1>1, <1>2, <1>3, <2>1, <2>2 DEF FeesTypes, Locations
  <2>4. FetchesNewer'
    BY <1>1, <1>2, <2>1, <2>2 DEF FetchesNewer
  <2>5. AnswersInOrder'
    BY <1>1, <1>2, <1>5, <2>1, <2>2 DEF AnswersInOrder
  <2> QED
    BY <1>3, <2>3, <2>4, <2>5
<1> QED
  BY <1>2, <1>4, <1>5

\* One step per action of the oracle, the bundler and the chain
LEMMA NextFeesInv == FeesInv /\ [FeesNext]_fees_vars => FeesInv'
<1> SUFFICES ASSUME FeesInv, [FeesNext]_fees_vars PROVE FeesInv'
  OBVIOUS
<1> USE DEF FeesInv
<1>1. CASE MakeBundle
  <2>1. /\ at' = "number" /\ asked' = "current_fees" /\ Len(chain) \in Nat
        /\ from' = [from EXCEPT !.begun = Len(chain)]
        /\ UNCHANGED <<chain, current_block, base_fee, last_block,
                       last_base_fee, fee_history>>
    BY <1>1, LatestFees DEF MakeBundle, world, cache
  <2>2. /\ from' \in Moments /\ from'.begun = Len(chain) /\ from'.cache = from.cache
    BY <2>1 DEF FeesTypes, Moments
  <2> QED
    BY <2>1, <2>2
    DEF FeesTypes, Locations, WindowInOrder, FetchesNewer, AnswersInOrder
<1>2. CASE NumberArrives
  BY <1>2, NumberPreserves
<1>3. CASE BaseArrives
  <2>1. /\ at = "base" /\ at' = "priority" /\ base_fee' \in Nat /\ Len(chain) \in Nat
        /\ from' = [from EXCEPT !.local = Len(chain)]
        /\ UNCHANGED <<chain, asked, current_block, last_block, last_base_fee,
                       fee_history>>
    BY <1>3, LatestFees DEF BaseArrives, world, cache
  <2>2. /\ from' \in Moments /\ from'.local = Len(chain) /\ from'.cache = from.cache
        /\ from'.begun = from.begun /\ from'.fees = from.fees
    BY <2>1 DEF FeesTypes, Moments
  <2> QED
    BY <2>1, <2>2
    DEF FeesTypes, Locations, WindowInOrder, FetchesNewer, AnswersInOrder
<1>4. CASE PriorityArrives
  BY <1>4, PriorityPreserves
<1>5. CASE LatestArrives
  <2>1. /\ at = "latest" /\ at' = "built" /\ Len(chain) \in Nat
        /\ from' = [from EXCEPT !.base = Len(chain)]
        /\ UNCHANGED <<chain, asked, current_block, base_fee, last_block,
                       last_base_fee, fee_history>>
    BY <1>5, LatestFees DEF LatestArrives, world, cache
  <2>2. /\ from' \in Moments /\ from'.base = Len(chain) /\ from'.cache = from.cache
        /\ from'.begun = from.begun /\ from'.fees = from.fees
    BY <2>1 DEF FeesTypes, Moments
  <2> QED
    BY <2>1, <2>2
    DEF FeesTypes, Locations, WindowInOrder, FetchesNewer, AnswersInOrder
<1>6. CASE OracleFails \/ Submit \/ Drop \/ EscalateLinear \/ AskMarket
             \/ EscalateAboveMarket \/ MarketFails
  <2>1. /\ at' \in {"idle", "pending", "market_base"}
        /\ UNCHANGED <<chain, asked, current_block, base_fee, last_block,
                       last_base_fee, fee_history, from>>
    BY <1>6 DEF OracleFails, Submit, Drop, EscalateLinear, AskMarket,
       EscalateAboveMarket, MarketFails, Escalated, world, cache
  <2> QED
    BY <2>1 DEF FeesTypes, Locations, WindowInOrder, FetchesNewer,
      AnswersInOrder
<1>7. CASE MarketBaseArrives
  <2>1. /\ at' = "market_priority" /\ base_fee' \in Nat
        /\ UNCHANGED <<chain, asked, current_block, last_block, last_base_fee,
                       fee_history, from>>
    BY <1>7, LatestFees DEF MarketBaseArrives, world, cache
  <2> QED
    BY <2>1 DEF FeesTypes, Locations, WindowInOrder, FetchesNewer,
      AnswersInOrder
<1>8. CASE NewBlock \/ Reorg
  <2>1. /\ chain' \in Seq(Market) /\ chain' # <<>>
        /\ Len(chain) \in Nat /\ Len(chain') \in Nat /\ Len(chain) <= Len(chain')
    <3>1. CASE NewBlock
      BY <3>1, LatestFees DEF NewBlock, FeesTypes
    <3>2. CASE Reorg
      BY <3>2, LatestFees DEF Reorg, FeesTypes
    <3> QED
      BY <1>8, <3>1, <3>2
  <2>2. UNCHANGED <<at, asked, current_block, base_fee, last_block, last_base_fee,
                    fee_history, from>>
    BY <1>8 DEF NewBlock, Reorg, bundler, cache
  <2>3. FeesTypes'
    BY <2>1, <2>2 DEF FeesTypes
  <2>4. WindowInOrder'
    BY <2>2 DEF WindowInOrder
  <2>5. /\ current_block \in Nat /\ from.local \in Nat /\ from.cache \in Nat
        /\ from.begun \in Nat /\ from.fees \in Nat
    BY FromFields DEF FeesTypes
  <2>6. FetchesNewer'
    BY <2>1, <2>2, <2>5 DEF FetchesNewer
  <2>7. AnswersInOrder'
    BY <2>1, <2>2, <2>5 DEF AnswersInOrder
  <2> QED
    BY <2>3, <2>4, <2>6, <2>7
<1>9. CASE UNCHANGED fees_vars
  BY <1>9 DEF fees_vars, FeesTypes, WindowInOrder, FetchesNewer, AnswersInOrder
<1> QED
  BY <1>1, <1>2, <1>3, <1>4, <1>5, <1>6, <1>7, <1>8, <1>9 DEF FeesNext

-----------------------------------------------------------------------------
(* The amounts                                                             *)

\* An increase keeps the order of two fees.
LEMMA IncreaseKeepsOrder ==
  ASSUME NEW a \in Nat, NEW b \in Nat, a <= b, NEW bps \in Nat
  PROVE  /\ IncreaseByPercent(a, bps) \in Nat
         /\ IncreaseByPercent(a, bps) <= IncreaseByPercent(b, bps)
<1> DEFINE x == a * (10000 + bps)  y == b * (10000 + bps)
<1>1. /\ x = a * 10000 + a * bps /\ y = b * 10000 + b * bps
      /\ a * bps \in Nat /\ b * bps \in Nat
  OBVIOUS
<1>2. a * bps <= b * bps
  <2>1. PICK d \in Nat : b = a + d
    <3>1. b - a \in Nat /\ b = a + (b - a)
      OBVIOUS
    <3> QED
      BY <3>1
  <2>2. b * bps = a * bps + d * bps /\ d * bps \in Nat
    BY <2>1
  <2> QED
    BY <1>1, <2>2
<1>3. x \in Nat /\ y \in Nat /\ x <= y
  BY <1>1, <1>2
<1> HIDE DEF x, y
<1>4. x \div 10000 \in Nat /\ x \div 10000 <= y \div 10000
  BY <1>3
<1> QED
  BY <1>4 DEF IncreaseByPercent, x, y

\* A bump of an eighth is one of a tenth at least once it is rounded, for
\* every fee of 40 wei or more.
LEMMA BumpIsTenth ==
  ASSUME NEW fee \in Nat, fee >= 40, NEW bps \in Nat, bps >= 1250
  PROVE  10 * IncreaseByPercent(fee, bps) >= 11 * fee
<1> DEFINE x == fee * (10000 + bps)
<1>1. x = fee * 11250 + fee * (bps - 1250) /\ bps - 1250 \in Nat
  OBVIOUS
<1>2. fee * (bps - 1250) \in Nat
  BY <1>1
<1>3. x \in Nat /\ x >= 11250 * fee
  BY <1>1, <1>2
<1> HIDE DEF x
<1>4. 10 * (x \div 10000) >= 11 * fee
  BY <1>3
<1> QED
  BY <1>4 DEF IncreaseByPercent, x

LEMMA IncreaseIsNat ==
  ASSUME NEW a \in Nat, NEW bps \in Nat
  PROVE  IncreaseByPercent(a, bps) \in Nat
<1>1. a <= a
  OBVIOUS
<1> QED
  BY <1>1, IncreaseKeepsOrder

\* Invariant: the priority fee is within the maximum fee, for the fees of
\* the oracle and for those of every replacement, and an escalation is begun
\* only while attempts are left.
OffersInv ==
  /\ reorgs \in Nat /\ strategy \in {"linear", "network"}
  /\ Len(fee_history) <= HistorySize
  /\ gas_fees \in Fees /\ gas_fees.priority <= gas_fees.max_fee
  /\ pending \in [max_fee : Nat, priority : Nat, count : 0..MaxAttempts]
  /\ pending.priority <= pending.max_fee
  /\ at \in {"market_base", "market_priority"} => pending.count < MaxAttempts

LEMMA InitOffersInv == FeesInit => OffersInv
BY FeesConstants DEF FeesInit, OffersInv, Fees, NoFees, Untracked

\* The oracle's fees are the base fee and a tip.
LEMMA OracleFeesCover ==
  ASSUME NEW base \in Nat, NEW history \in Seq(Seen)
  PROVE  /\ OracleFees(base, history) \in Fees
         /\ OracleFees(base, history).priority <= OracleFees(base, history).max_fee
<1> DEFINE priority == IF history = <<>> THEN base \div 10 ELSE Median(history)
<1>1. priority \in Nat
  BY MedianIsFee
<1> HIDE DEF priority
<1>2. OracleFees(base, history) = [max_fee |-> base + priority, priority |-> priority]
  BY DEF OracleFees, priority
<1> QED
  BY <1>1, <1>2 DEF Fees

\* A replacement's fees keep the order, and raise both by the bump at least.
LEMMA EscalationRaises ==
  ASSUME OffersInv, NEW fees,
         fees = Linear \/ \E base, priority \in Nat : fees = AboveMarket(base, priority)
  PROVE  /\ fees.max_fee \in Nat /\ fees.priority \in Nat
         /\ fees.priority <= fees.max_fee
         /\ fees.max_fee >= IncreaseByPercent(pending.max_fee, BumpBps)
         /\ fees.priority >= IncreaseByPercent(pending.priority, BumpBps)
<1>1. /\ pending.max_fee \in Nat /\ pending.priority \in Nat
      /\ pending.priority <= pending.max_fee
      /\ BumpBps \in Nat /\ PremiumBps \in Nat
  BY FeesConstants DEF OffersInv
<1>2. /\ IncreaseByPercent(pending.max_fee, BumpBps) \in Nat
      /\ IncreaseByPercent(pending.priority, BumpBps) \in Nat
      /\ IncreaseByPercent(pending.priority, BumpBps)
           <= IncreaseByPercent(pending.max_fee, BumpBps)
  <2>1. /\ IncreaseByPercent(pending.max_fee, BumpBps) \in Nat
        /\ IncreaseByPercent(pending.priority, BumpBps) \in Nat
    BY <1>1, IncreaseIsNat, ZenonT(30)
  <2>2. IncreaseByPercent(pending.priority, BumpBps)
          <= IncreaseByPercent(pending.max_fee, BumpBps)
    BY <1>1, IncreaseKeepsOrder, ZenonT(30)
  <2> QED
    BY <2>1, <2>2
<1>3. CASE fees = Linear
  BY <1>2, <1>3 DEF Linear
<1>4. ASSUME NEW base \in Nat, NEW priority \in Nat,
             fees = AboveMarket(base, priority)
      PROVE  /\ fees.max_fee \in Nat /\ fees.priority \in Nat
             /\ fees.priority <= fees.max_fee
             /\ fees.max_fee >= IncreaseByPercent(pending.max_fee, BumpBps)
             /\ fees.priority >= IncreaseByPercent(pending.priority, BumpBps)
  <2>1. base + priority \in Nat /\ priority <= base + priority
    OBVIOUS
  <2>2. /\ IncreaseByPercent(base + priority, PremiumBps) \in Nat
        /\ IncreaseByPercent(priority, PremiumBps) \in Nat
        /\ IncreaseByPercent(priority, PremiumBps)
             <= IncreaseByPercent(base + priority, PremiumBps)
    <3>1. /\ IncreaseByPercent(base + priority, PremiumBps) \in Nat
          /\ IncreaseByPercent(priority, PremiumBps) \in Nat
      BY <1>1, <2>1, IncreaseIsNat, ZenonT(30)
    <3>2. IncreaseByPercent(priority, PremiumBps)
            <= IncreaseByPercent(base + priority, PremiumBps)
      BY <1>1, <2>1, IncreaseKeepsOrder, ZenonT(30)
    <3> QED
      BY <3>1, <3>2
  <2>3. /\ fees.max_fee = Larger(IncreaseByPercent(base + priority, PremiumBps),
                                 IncreaseByPercent(pending.max_fee, BumpBps))
        /\ fees.priority = Larger(IncreaseByPercent(priority, PremiumBps),
                                  IncreaseByPercent(pending.priority, BumpBps))
    BY <1>4 DEF AboveMarket
  <2> QED
    BY <1>2, <2>2, <2>3 DEF Larger
<1> QED
  BY <1>3, <1>4

\* What a step that escalates does
Raised ==
  /\ pending.count < MaxAttempts
  /\ pending'.count = pending.count + 1
  /\ pending'.priority <= pending'.max_fee
  /\ pending' \in [max_fee : Nat, priority : Nat, count : 0..MaxAttempts]
  /\ pending'.max_fee >= IncreaseByPercent(pending.max_fee, BumpBps)
  /\ pending'.priority >= IncreaseByPercent(pending.priority, BumpBps)

\* A step raises the fees of the pending transaction, or keeps them, or
\* begins another one.
LEMMA StepRaisesOrKeeps ==
  ASSUME FeesInv, OffersInv, FeesNext
  PROVE  \/ UNCHANGED pending
         \/ Raised
         \/ /\ at = "built" /\ pending'.count = 0
            /\ pending' = [max_fee |-> gas_fees.max_fee,
                           priority |-> gas_fees.priority, count |-> 0]
         \/ pending' = Untracked
<1>1. ASSUME NEW fees, pending.count < MaxAttempts,
             fees = Linear \/ \E base, priority \in Nat : fees = AboveMarket(base, priority),
             Escalated(fees)
      PROVE  UNCHANGED pending \/ Raised
  <2>1. /\ fees.max_fee \in Nat /\ fees.priority \in Nat
        /\ fees.priority <= fees.max_fee
        /\ fees.max_fee >= IncreaseByPercent(pending.max_fee, BumpBps)
        /\ fees.priority >= IncreaseByPercent(pending.priority, BumpBps)
    BY <1>1, EscalationRaises
  <2>2. pending.count \in 0..MaxAttempts /\ MaxAttempts \in Nat
    BY FeesConstants DEF OffersInv
  <2>3. CASE pending' = [max_fee |-> fees.max_fee, priority |-> fees.priority,
                         count |-> pending.count + 1]
    BY <1>1, <2>1, <2>2, <2>3 DEF Raised
  <2> QED
    BY <1>1, <2>3 DEF Escalated
<1>2. CASE EscalateLinear
  BY <1>1, <1>2 DEF EscalateLinear
<1>3. CASE EscalateAboveMarket
  <2>1. base_fee \in Nat /\ Latest.priority \in Nat
    BY LatestFees DEF FeesInv, FeesTypes
  <2>2. pending.count < MaxAttempts
    BY <1>3 DEF EscalateAboveMarket, OffersInv
  <2> QED
    BY <1>1, <1>3, <2>1, <2>2 DEF EscalateAboveMarket
<1>4. CASE Submit
  BY <1>4 DEF Submit
<1>5. CASE Drop \/ MarketFails
  BY <1>5 DEF Drop, MarketFails
<1>6. CASE \/ MakeBundle \/ NumberArrives \/ BaseArrives \/ PriorityArrives
           \/ LatestArrives \/ OracleFails \/ AskMarket \/ MarketBaseArrives
           \/ NewBlock \/ Reorg
  BY <1>6 DEF MakeBundle, NumberArrives, BaseArrives, PriorityArrives,
    LatestArrives, OracleFails, AskMarket, MarketBaseArrives, NewBlock, Reorg,
    bundler
<1> QED
  BY <1>2, <1>3, <1>4, <1>5, <1>6 DEF FeesNext

LEMMA NextOffersInv ==
  FeesInv /\ OffersInv /\ [FeesNext]_fees_vars => OffersInv'
<1> SUFFICES ASSUME FeesInv, OffersInv, [FeesNext]_fees_vars PROVE OffersInv'
  OBVIOUS
<1>1. CASE UNCHANGED fees_vars
  BY <1>1 DEF fees_vars, OffersInv
<1>2. CASE FeesNext
  <2>1. reorgs' \in Nat /\ strategy' = strategy
    BY <1>2 DEF OffersInv, FeesNext, MakeBundle, NumberArrives, BaseArrives,
       PriorityArrives, LatestArrives, OracleFails, Submit, Drop,
       EscalateLinear, AskMarket, MarketBaseArrives, EscalateAboveMarket,
       MarketFails,
       NewBlock, Reorg, world, bundler
  <2>2. Len(fee_history') <= HistorySize
    <3>1. CASE PriorityArrives
      <4> DEFINE grown == Append(fee_history,
                            [number |-> current_block, base |-> base_fee,
                             priority |-> Latest.priority])
      <4>1. Len(fee_history) \in Nat /\ HistorySize \in Nat
        BY FeesConstants DEF FeesInv, FeesTypes
      <4>2. /\ Len(grown) = Len(fee_history) + 1
            /\ Len(Tail(grown)) = Len(fee_history)
        <5> DEFINE new == [number |-> current_block, base |-> base_fee,
                           priority |-> Latest.priority]
        <5>1. new \in Seen /\ fee_history \in Seq(Seen)
          BY LatestFees DEF FeesInv, FeesTypes, Seen
        <5> HIDE DEF new
        <5>2. /\ Len(Append(fee_history, new)) = Len(fee_history) + 1
              /\ Len(Tail(Append(fee_history, new))) = Len(fee_history)
          BY <5>1
        <5> QED
          BY <5>2 DEF new
      <4>3. fee_history' = IF Len(grown) > HistorySize THEN Tail(grown) ELSE grown
        BY <3>1 DEF PriorityArrives, Pushed
      <4> QED
        BY <4>1, <4>2, <4>3 DEF OffersInv
    <3>2. CASE ~PriorityArrives
      <4>1. fee_history' = fee_history
        BY <1>2, <3>2 DEF FeesNext, MakeBundle, NumberArrives, BaseArrives,
           LatestArrives, OracleFails, Submit, Drop, EscalateLinear, AskMarket,
           MarketBaseArrives, EscalateAboveMarket, MarketFails, NewBlock,
           Reorg, cache, bundler
      <4> QED
        BY <4>1 DEF OffersInv
    <3> QED
      BY <3>1, <3>2
  <2>3. gas_fees' \in Fees /\ gas_fees'.priority <= gas_fees'.max_fee
    <3>1. CASE NumberArrives
      <4>1. gas_fees' = gas_fees \/ gas_fees' = OracleFees(last_base_fee, fee_history)
        BY <3>1 DEF NumberArrives, Answer
      <4> QED
        BY <4>1, OracleFeesCover DEF OffersInv, FeesInv, FeesTypes
    <3>2. CASE PriorityArrives
      <4>1. gas_fees' = gas_fees \/ gas_fees' = OracleFees(base_fee, fee_history')
        BY <3>2 DEF PriorityArrives, Answer
      <4>2. fee_history' \in Seq(Seen) /\ base_fee \in Nat
        BY <1>2, NextFeesInv DEF FeesInv, FeesTypes
      <4> QED
        BY <4>1, <4>2, OracleFeesCover DEF OffersInv
    <3>3. CASE ~NumberArrives /\ ~PriorityArrives
      <4>1. gas_fees' = gas_fees
        BY <1>2, <3>3 DEF FeesNext, MakeBundle, BaseArrives,
           LatestArrives, OracleFails, Submit, Drop, EscalateLinear, AskMarket,
           MarketBaseArrives, EscalateAboveMarket, MarketFails, NewBlock,
           Reorg, bundler
      <4> QED
        BY <4>1 DEF OffersInv
    <3> QED
      BY <3>1, <3>2, <3>3
  <2>4. /\ pending' \in [max_fee : Nat, priority : Nat, count : 0..MaxAttempts]
        /\ pending'.priority <= pending'.max_fee
    <3>1. CASE UNCHANGED pending
      BY <3>1 DEF OffersInv
    <3>2. CASE Raised
      BY <3>2 DEF Raised
    <3>3. CASE pending' = [max_fee |-> gas_fees.max_fee,
                           priority |-> gas_fees.priority, count |-> 0]
      BY <3>3, FeesConstants DEF OffersInv, Fees
    <3>4. CASE pending' = Untracked
      BY <3>4, FeesConstants DEF Untracked
    <3> QED
      BY <1>2, <3>1, <3>2, <3>3, <3>4, StepRaisesOrKeeps
  <2>5. at' \in {"market_base", "market_priority"} => pending'.count < MaxAttempts
    BY <1>2 DEF OffersInv, FeesNext, MakeBundle, NumberArrives, BaseArrives,
       PriorityArrives, Answer, LatestArrives, OracleFails, Submit, Drop,
       EscalateLinear, Escalated, AskMarket, MarketBaseArrives,
       EscalateAboveMarket, MarketFails, NewBlock, Reorg, bundler
  <2> QED
    BY <2>1, <2>2, <2>3, <2>4, <2>5 DEF OffersInv
<1> QED
  BY <1>1, <1>2

-----------------------------------------------------------------------------
(* Theorems                                                                *)

\* refresh_if_needed keeps the window in order, whatever fails between its
\* queries.
THEOREM WindowOrdered == FeesSpec => []WindowInOrder
<1>1. FeesInv => WindowInOrder
  BY DEF FeesInv
<1> QED
  BY <1>1, InitFeesInv, NextFeesInv, PTL DEF FeesSpec

\* make_bundle never pays, or filters by, fees that were stale when it began.
THEOREM FeesAreFresh == FeesSpec => []FeesNotStale
<1>1. FeesInv => FeesNotStale
  BY DEF FeesInv, AnswersInOrder, FeesNotStale
<1> QED
  BY <1>1, InitFeesInv, NextFeesInv, PTL DEF FeesSpec

LEMMA FeesInvariant == FeesSpec => [](FeesInv /\ OffersInv)
<1>1. FeesInit => FeesInv /\ OffersInv
  BY InitFeesInv, InitOffersInv
<1>2. FeesInv /\ OffersInv /\ [FeesNext]_fees_vars => (FeesInv /\ OffersInv)'
  BY NextFeesInv, NextOffersInv
<1> QED
  BY <1>1, <1>2, PTL DEF FeesSpec

\* The oracle, the proposer and the tracker keep their types, the window its
\* size, and no transaction is escalated more often than max_attempts.
THEOREM FeesTypeCorrect == FeesSpec => []FeesTypeOK
<1>1. FeesInv /\ OffersInv => FeesTypeOK
  BY DEF FeesInv, OffersInv, FeesTypes, FeesTypeOK, Seen, Moments
<1> QED
  BY <1>1, FeesInvariant, PTL

\* With the default bump of an eighth, or more, each replacement outbids the
\* transaction it replaces by the tenth a node asks for, whatever the market
\* does and however often it is escalated.
THEOREM ReplacementsOutbid ==
  ASSUME BumpBps >= 1250
  PROVE  FeesSpec => ReplacementOutbids
<1> DEFINE Outbids ==
      /\ pending'.priority <= pending'.max_fee
      /\ pending'.count = pending.count + 1 =>
           /\ pending.max_fee >= 40 => 10 * pending'.max_fee >= 11 * pending.max_fee
           /\ pending.priority >= 40 =>
                10 * pending'.priority >= 11 * pending.priority
<1>1. ASSUME FeesInv, OffersInv, OffersInv', [FeesNext]_fees_vars
      PROVE  [Outbids]_fees_vars
  <2>1. SUFFICES ASSUME FeesNext, pending'.count = pending.count + 1
                 PROVE  /\ pending.max_fee >= 40 =>
                             10 * pending'.max_fee >= 11 * pending.max_fee
                        /\ pending.priority >= 40 =>
                             10 * pending'.priority >= 11 * pending.priority
    BY <1>1 DEF OffersInv
  <2>2. pending.count \in Nat /\ BumpBps \in Nat
    BY <1>1, FeesConstants DEF OffersInv
  <2>3. Raised
    BY <1>1, <2>1, <2>2, StepRaisesOrKeeps DEF Untracked
  <2>4. /\ pending.max_fee \in Nat /\ pending.priority \in Nat
        /\ pending'.max_fee \in Nat /\ pending'.priority \in Nat
    BY <1>1 DEF OffersInv
  <2>5. /\ IncreaseByPercent(pending.max_fee, BumpBps) \in Nat
        /\ IncreaseByPercent(pending.priority, BumpBps) \in Nat
    <3>1. IncreaseByPercent(pending.max_fee, BumpBps) \in Nat
      BY <2>2, <2>4, IncreaseIsNat, ZenonT(60)
    <3>2. IncreaseByPercent(pending.priority, BumpBps) \in Nat
      BY <2>2, <2>4, IncreaseIsNat, ZenonT(60)
    <3> QED
      BY <3>1, <3>2
  <2>6. ASSUME pending.max_fee >= 40
        PROVE  10 * pending'.max_fee >= 11 * pending.max_fee
    <3>1. 10 * IncreaseByPercent(pending.max_fee, BumpBps) >= 11 * pending.max_fee
      BY <2>2, <2>4, <2>6, BumpIsTenth
    <3> QED
      BY <2>3, <2>4, <2>5, <3>1 DEF Raised
  <2>7. ASSUME pending.priority >= 40
        PROVE  10 * pending'.priority >= 11 * pending.priority
    <3>1. 10 * IncreaseByPercent(pending.priority, BumpBps) >= 11 * pending.priority
      BY <2>2, <2>4, <2>7, BumpIsTenth
    <3> QED
      BY <2>3, <2>4, <2>5, <3>1 DEF Raised
  <2> QED
    BY <2>6, <2>7
<1> QED
  BY <1>1, FeesInvariant, PTL DEF FeesSpec, ReplacementOutbids

=============================================================================
