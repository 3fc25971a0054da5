------------------------ MODULE ChainWatcherProofs -------------------------
(***************************************************************************)
(* The safety properties of ChainWatcher, proved for chains of any length, *)
(* any number of reorgs and operations and any size of the history.        *)
(*                                                                         *)
(* NoHeightSkipped is not inductive: a poll ends by setting last_block to  *)
(* the head it began with, and handle_reorg moves it to the number of an   *)
(* entry of the history.  ScanInv therefore says the same of the heights   *)
(* below the one at hand and of every entry.  CreditedOnce needs the       *)
(* operations that are in the pool to be counted as credited already       *)
(* (CreditInv), and NoFalseReorg that the chain, the history and the       *)
(* header at hand are all of the first fork (FirstFork).                   *)
(***************************************************************************)
EXTENDS ChainWatcher, SequenceTheorems, WellFoundedInduction, TLAPS

USE WatcherConstants

\* All heights after the start up to n have been scanned.
ScannedTo(n) == \A k \in start+1..n : k \in scanned

ScanInv ==
  /\ ScannedTo(last_block)
  /\ at # "wait" => ScannedTo(block_num - 1)
  /\ \A i \in 1..Len(block_history) : ScannedTo(block_history[i].number)

\* A block's hash carries its height.
Numbered ==
  /\ \A n \in 1..Len(chain) : chain[n].hash[1] = n
  /\ at = "logs" => block.hash[1] = block_num

CreditInv ==
  \A o \in Op : included[o] + (IF o \in pool THEN 1 ELSE 0) <= submitted[o]

FirstFork ==
  forks = 0 =>
    /\ \A n \in 1..Len(chain) :
         chain[n].hash = <<n, 0>> /\ chain[n].parent = <<n - 1, 0>>
    /\ at = "logs" => block.hash = <<block_num, 0>>
    /\ \A i \in 1..Len(block_history) :
         block_history[i].hash = <<block_history[i].number, 0>>

WatcherInv == TypeOK /\ ScanInv /\ Numbered /\ CreditInv /\ FirstFork

-----------------------------------------------------------------------------
(* The operators                                                           *)

\* Every nonempty set of naturals has a least element.
LEMMA LeastNat ==
  ASSUME NEW S, S \subseteq Nat, S # {}
  PROVE  \E i \in S : \A j \in S : i <= j
<1>1. PICK i \in S : \A j \in S : ~ (<<j, i>> \in OpToRel(<, Nat))
  BY NatLessThanWellFounded, WFMin
<1>2. \A j \in S : ~ (j < i)
  BY <1>1 DEF OpToRel
<1> QED
  BY <1>2

\* handle_reorg keeps a prefix of the history.
LEMMA DepthInHistory ==
  ASSUME NEW parent, Len(block_history) \in Nat
  PROVE  DetectReorgDepth(parent) \in 0..Len(block_history)
<1> DEFINE n == Len(block_history)
           found == {i \in 0..n-1 : block_history[n - i].hash = parent}
<1>1. CASE found = {}
  BY <1>1 DEF DetectReorgDepth
<1>2. CASE found # {}
  <2>1. found \subseteq Nat
    OBVIOUS
  <2> HIDE DEF found
  <2>2. \E i \in found : \A j \in found : i <= j
    BY <1>2, <2>1, LeastNat
  <2>3. (CHOOSE i \in found : \A j \in found : i <= j) \in found
    BY <2>2
  <2> USE DEF found
  <2>4. (CHOOSE i \in found : \A j \in found : i <= j) \in 0..n
    BY <2>3
  <2> QED
    BY <1>2, <2>4 DEF DetectReorgDepth
<1> QED
  BY <1>1, <1>2

\* The first m elements of a sequence.
LEMMA FrontProperties ==
  ASSUME NEW S, NEW s \in Seq(S), NEW m \in 0..Len(s)
  PROVE  /\ Front(s, m) \in Seq(S) /\ Len(Front(s, m)) = m
         /\ \A i \in 1..m : Front(s, m)[i] = s[i]
<1>1. \A i \in 1..m : s[i] \in S
  OBVIOUS
<1>2. /\ SubSeq(s, 1, m) \in Seq(S)
      /\ Len(SubSeq(s, 1, m)) = IF 1 <= m THEN m-1+1 ELSE 0
      /\ \A i \in 1 .. m-1+1 : SubSeq(s, 1, m)[i] = s[1+i-1]
  BY <1>1, SubSeqProperties
<1> QED
  BY <1>2 DEF Front

\* A trimmed history fits and has no new entries.
LEMMA TrimmedProperties ==
  ASSUME NEW s \in Seq(BlockEntry)
  PROVE  /\ Trimmed(s) \in Seq(BlockEntry) /\ Len(Trimmed(s)) <= HistorySize
         /\ \A i \in 1..Len(Trimmed(s)) : \E j \in 1..Len(s) : Trimmed(s)[i] = s[j]
<1>1. CASE ~ (Len(s) > HistorySize)
  BY <1>1 DEF Trimmed
<1>2. CASE Len(s) > HistorySize
  <2> DEFINE m == Len(s) - HistorySize + 1
             n == Len(s)
             u == SubSeq(s, m, n)
  <2>1. m \in Int /\ n \in Int /\ \A i \in m..n : s[i] \in BlockEntry
    BY <1>2
  <2>2. /\ u \in Seq(BlockEntry)
        /\ Len(u) = IF m <= n THEN n - m + 1 ELSE 0
        /\ \A i \in 1 .. n-m+1 : u[i] = s[m+i-1]
    <3> HIDE DEF m, n
    <3> QED
      BY <2>1, SubSeqProperties
  <2>3. Len(u) = HistorySize
    <3> HIDE DEF u
    <3> QED
      BY <2>2, <1>2
  <2>4. \A i \in 1..HistorySize : u[i] = s[m+i-1] /\ m+i-1 \in 1..Len(s)
    <3> HIDE DEF u
    <3> QED
      BY <2>2, <1>2
  <2>5. Trimmed(s) = u
    BY <1>2 DEF Trimmed
  <2>6. m + 1 - 1 = m
    OBVIOUS
  <2> HIDE DEF u, m
  <2>7. u \in Seq(BlockEntry) /\ Len(u) <= HistorySize
    BY <2>2, <2>3
  <2>8. \A i \in 1..Len(u) : \E j \in 1..Len(s) : u[i] = s[j]
    BY <2>3, <2>4
  <2> QED
    BY <2>5, <2>7, <2>8
<1> QED
  BY <1>1, <1>2

\* The operations of a chain are operations.
LEMMA LogsAreOps ==
  ASSUME NEW c \in Seq(Block)
  PROVE  UNION {c[n].logs : n \in 1..Len(c)} \subseteq Op
<1>1. \A n \in 1..Len(c) : c[n] \in Block
  OBVIOUS
<1>2. \A n \in 1..Len(c) : c[n].logs \subseteq Op
  BY <1>1 DEF Block
<1> QED
  BY <1>2

\* Every block of c carries its height.
HeightsIn(c) == \A k \in 1..Len(c) : c[k].hash[1] = k

\* e is c with n more blocks of fork f, each the child of the one below it.
IsExtension(e, c, f, n) ==
  /\ e \in Seq(Block) /\ Len(e) = Len(c) + n
  /\ HeightsIn(e)
  /\ \A k \in 1..Len(c) : e[k] = c[k]
  /\ \A k \in Len(c)+1..Len(c) + n :
       /\ e[k].hash = <<k, f>>
       /\ e[k].parent = IF k = Len(c) + 1 THEN HeadHash(c) ELSE <<k - 1, f>>

LEMMA ExtendExtends ==
  ASSUME NEW c \in Seq(Block), NEW f \in 0..MaxForks, NEW ops \in SUBSET Op,
         NEW n \in Nat, Len(c) + n <= MaxHeight, HeightsIn(c)
  PROVE  IsExtension(Extend(c, f, ops, n), c, f, n)
<1> DEFINE B(k) == [hash   |-> <<Len(c) + k, f>>,
                    parent |-> IF k = 1 THEN HeadHash(c) ELSE <<Len(c) + k - 1, f>>,
                    logs   |-> IF k = 1 THEN ops ELSE {}]
           d == [k \in 1..n |-> B(k)]
<1>1. Len(c) \in Nat /\ HeadHash(c) \in BlockHash
  <2>1. CASE c = <<>>
    BY <2>1 DEF HeadHash, Genesis, BlockHash
  <2>2. CASE c # <<>>
    <3>1. Len(c) \in 1..Len(c)
      BY <2>2
    <3>2. c[Len(c)] \in Block
      BY <3>1
    <3> QED
      BY <2>2, <3>2 DEF HeadHash, Block
  <2> QED
    BY <2>1, <2>2
<1>2. ASSUME NEW k \in 1..n  PROVE B(k) \in Block
  <2>1. <<Len(c) + k, f>> \in BlockHash /\ <<Len(c) + k - 1, f>> \in BlockHash
    BY <1>1 DEF BlockHash
  <2> QED
    BY <1>1, <2>1 DEF Block
<1>3. d \in Seq(Block) /\ Len(d) = n
  <2> HIDE DEF B
  <2>1. \A k \in 1..n : B(k) \in Block
    BY <1>2
  <2> QED
    BY <2>1
<1>4. Extend(c, f, ops, n) = c \o d
  BY DEF Extend
<1> DEFINE e == c \o d
<1>5. /\ e \in Seq(Block) /\ Len(e) = Len(c) + n
      /\ \A k \in 1..Len(c) + n : e[k] = IF k <= Len(c) THEN c[k] ELSE d[k - Len(c)]
  <2> HIDE DEF d
  <2> QED
    BY <1>3, ConcatProperties
<1>d. \A k \in 1..n : d[k] = B(k)
  OBVIOUS
<1> HIDE DEF e, d
<1>6. ASSUME NEW k \in Len(c)+1..Len(c) + n
      PROVE  e[k].hash = <<k, f>>
             /\ e[k].parent = IF k = Len(c) + 1 THEN HeadHash(c) ELSE <<k - 1, f>>
  <2>1. k - Len(c) \in 1..n /\ Len(c) + (k - Len(c)) = k /\ ~ (k <= Len(c))
    BY <1>1
  <2>2. e[k] = B(k - Len(c))
    <3> HIDE DEF B
    <3>1. e[k] = d[k - Len(c)]
      BY <1>5, <1>1, <2>1
    <3> QED
      BY <3>1, <1>d, <2>1
  <2>3. (k - Len(c) = 1) = (k = Len(c) + 1) /\ Len(c) + (k - Len(c)) - 1 = k - 1
    BY <1>1
  <2> QED
    BY <2>1, <2>2, <2>3
<1>7. ASSUME NEW k \in 1..Len(c) + n  PROVE e[k].hash[1] = k
  <2>1. CASE k <= Len(c)
    BY <2>1, <1>1, <1>5 DEF HeightsIn
  <2>2. CASE ~ (k <= Len(c))
    <3>1. k \in Len(c)+1..Len(c) + n
      BY <2>2, <1>1
    <3>2. e[k].hash = <<k, f>>
      BY <3>1, <1>6
    <3> QED
      BY <3>2
  <2> QED
    BY <2>1, <2>2
<1>8. \A k \in 1..Len(c) : e[k] = c[k]
  BY <1>1, <1>5
<1>9. IsExtension(e, c, f, n)
  BY <1>5, <1>6, <1>7, <1>8 DEF IsExtension, HeightsIn
<1> QED
  BY <1>4, <1>9 DEF e

-----------------------------------------------------------------------------
(* The invariant                                                           *)

LEMMA InvInitially == Init => WatcherInv
<1> SUFFICES ASSUME Init PROVE WatcherInv
  OBVIOUS
<1> DEFINE b == [hash |-> <<1, 0>>, parent |-> Genesis, logs |-> {}]
<1>1. b \in Block /\ <<b>> \in Seq(Block) /\ <<>> \in Seq(Block)
  BY DEF Block, BlockHash, Genesis
<1>2. chain \in Seq(Block) /\ Len(chain) \in 0..1 /\ Len(chain) <= MaxHeight
  <2>1. CASE chain = <<>>
    BY <2>1
  <2>2. CASE chain = <<b>>
    <3> HIDE DEF b
    <3> QED
      BY <2>2, <1>1
  <2> QED
    BY <2>1, <2>2 DEF Init
<1>3. \A n \in 1..Len(chain) : chain[n].hash = <<n, 0>> /\ chain[n].parent = <<n - 1, 0>>
  BY DEF Init, Genesis
<1>4. TypeOK
  BY <1>2 DEF Init, TypeOK
<1>5. ScanInv
  BY <1>2 DEF Init, ScanInv, ScannedTo
<1>6. Numbered
  BY <1>3 DEF Init, Numbered
<1>7. CreditInv
  BY DEF Init, CreditInv
<1>8. FirstFork
  BY <1>3 DEF Init, FirstFork
<1> QED
  BY <1>4, <1>5, <1>6, <1>7, <1>8 DEF WatcherInv

LEMMA PollPreserves == WatcherInv /\ Poll => WatcherInv'
<1> SUFFICES ASSUME WatcherInv, Poll PROVE WatcherInv'
  OBVIOUS
<1> USE DEF WatcherInv, Poll, world
<1>1. TypeOK'
  BY DEF TypeOK
<1>2. ScanInv'
  BY DEF TypeOK, ScanInv, ScannedTo
<1>3. Numbered'
  BY DEF Numbered
<1>4. CreditInv'
  BY DEF CreditInv
<1>5. FirstFork'
  BY DEF FirstFork
<1> QED
  BY <1>1, <1>2, <1>3, <1>4, <1>5

LEMMA FetchHeaderPreserves == WatcherInv /\ FetchHeader => WatcherInv'
<1> SUFFICES ASSUME WatcherInv, FetchHeader PROVE WatcherInv'
  OBVIOUS
<1> DEFINE kept == Len(block_history) - DetectReorgDepth(block'.parent)
<1>1. /\ at = "header" /\ at' = "logs" /\ block' = chain[block_num]
      /\ block_num \in 1..Len(chain)
      /\ UNCHANGED <<block_num, current_block, pool, included, chain, forks,
                     submitted, start, scanned>>
  BY DEF FetchHeader, WatcherInv, TypeOK, world
<1>2. block' \in Block
  BY <1>1 DEF WatcherInv, TypeOK
<1>3. /\ block_history \in Seq(BlockEntry) /\ Len(block_history) \in Nat
      /\ Len(block_history) <= HistorySize
      /\ \A i \in 1..Len(block_history) : block_history[i].number \in 1..MaxHeight
  <2>1. block_history \in Seq(BlockEntry) /\ Len(block_history) <= HistorySize
    BY DEF WatcherInv, TypeOK
  <2>2. \A i \in 1..Len(block_history) : block_history[i] \in BlockEntry
    BY <2>1
  <2> QED
    BY <2>1, <2>2 DEF BlockEntry
<1>4. kept \in 0..Len(block_history)
  <2>1. DetectReorgDepth(block'.parent) \in 0..Len(block_history)
    BY <1>3, DepthInHistory
  <2> QED
    BY <1>3, <2>1
<1>5. \/ UNCHANGED <<block_history, last_block>>
      \/ /\ block_history' = Front(block_history, kept)
         /\ last_block' = IF kept > 0 THEN block_history[kept].number ELSE last_block
  BY DEF FetchHeader
<1> HIDE DEF kept
<1>6. /\ block_history' \in Seq(BlockEntry) /\ Len(block_history') <= HistorySize
      /\ \A i \in 1..Len(block_history') :
           i \in 1..Len(block_history) /\ block_history'[i] = block_history[i]
  <2>1. CASE UNCHANGED <<block_history, last_block>>
    BY <2>1, <1>3
  <2>2. CASE block_history' = Front(block_history, kept)
    <3>1. /\ Front(block_history, kept) \in Seq(BlockEntry)
          /\ Len(Front(block_history, kept)) = kept
          /\ \A i \in 1..kept : Front(block_history, kept)[i] = block_history[i]
      BY <1>3, <1>4, FrontProperties
    <3> QED
      BY <2>2, <3>1, <1>3, <1>4
  <2> QED
    BY <1>5, <2>1, <2>2
<1>7. \/ last_block' = last_block
      \/ kept \in 1..Len(block_history) /\ last_block' = block_history[kept].number
  BY <1>4, <1>5
<1>8. TypeOK'
  <2>1. last_block' \in 0..MaxHeight
    BY <1>3, <1>7 DEF WatcherInv, TypeOK
  <2> QED
    BY <1>1, <1>2, <1>6, <2>1 DEF WatcherInv, TypeOK
<1>9. ScanInv'
  <2>1. ScannedTo(last_block)'
    BY <1>1, <1>7 DEF WatcherInv, ScanInv, ScannedTo
  <2>2. ScannedTo(block_num - 1)'
    BY <1>1 DEF WatcherInv, ScanInv, ScannedTo
  <2>3. \A i \in 1..Len(block_history') : ScannedTo(block_history[i].number)'
    BY <1>1, <1>6 DEF WatcherInv, ScanInv, ScannedTo
  <2> QED
    BY <2>1, <2>2, <2>3 DEF ScanInv
<1>10. Numbered'
  BY <1>1 DEF WatcherInv, Numbered
<1>11. CreditInv'
  BY <1>1 DEF WatcherInv, CreditInv
<1>12. FirstFork'
  BY <1>1, <1>6 DEF WatcherInv, FirstFork
<1> QED
  BY <1>8, <1>9, <1>10, <1>11, <1>12 DEF WatcherInv

LEMMA ScanLogsPreserves == WatcherInv /\ ScanLogs => WatcherInv'
<1> SUFFICES ASSUME WatcherInv, ScanLogs PROVE WatcherInv'
  OBVIOUS
<1> DEFINE appended == Append(block_history, Entry(block))
<1>1. /\ at = "logs" /\ block_num \in 1..current_block /\ block_num \in 1..MaxHeight
      /\ current_block \in 1..MaxHeight
      /\ block \in Block /\ block.hash[1] = block_num
      /\ block_history' = Trimmed(appended)
      /\ block_history \in Seq(BlockEntry) /\ scanned' = scanned \cup {block_num}
      /\ block' = None /\ UNCHANGED <<chain, forks, submitted, start>>
  BY DEF ScanLogs, WatcherInv, TypeOK, Numbered, world
<1>2. \/ /\ at' = "header" /\ block_num' = block_num + 1
         /\ block_num < current_block /\ UNCHANGED <<current_block, last_block>>
      \/ /\ at' = "wait" /\ block_num' = 0 /\ current_block' = 0
         /\ block_num = current_block /\ last_block' = current_block
  BY <1>1 DEF ScanLogs
<1>3. /\ Entry(block) \in BlockEntry /\ Entry(block).number = block_num
      /\ Entry(block).hash = block.hash
  BY <1>1 DEF Entry, Block, BlockEntry
<1>4. /\ appended \in Seq(BlockEntry) /\ Len(appended) = Len(block_history) + 1
      /\ \A i \in 1..Len(block_history) : appended[i] = block_history[i]
      /\ appended[Len(block_history) + 1] = Entry(block)
  BY <1>1, <1>3, AppendProperties
<1>5. Len(block_history) \in Nat
  BY <1>1
<1> HIDE DEF appended
<1>6. /\ block_history' \in Seq(BlockEntry) /\ Len(block_history') <= HistorySize
      /\ \A i \in 1..Len(block_history') :
           \E j \in 1..Len(appended) : block_history'[i] = appended[j]
  BY <1>1, <1>4, TrimmedProperties
<1>7. ASSUME NEW i \in 1..Len(block_history')
      PROVE  \/ block_history'[i] = Entry(block)
             \/ \E j \in 1..Len(block_history) : block_history'[i] = block_history[j]
  BY <1>4, <1>5, <1>6
<1>8. TypeOK'
  <2>1. pool' \subseteq Op /\ included' \in [Op -> Nat]
    BY DEF ScanLogs, WatcherInv, TypeOK
  <2> QED
    BY <1>1, <1>2, <1>6, <2>1 DEF WatcherInv, TypeOK
<1>9. ScanInv'
  <2>1. \A k \in start+1..block_num : k \in scanned'
    BY <1>1 DEF WatcherInv, ScanInv, ScannedTo, TypeOK
  <2>2. ScannedTo(last_block)' /\ (at' # "wait" => ScannedTo(block_num - 1)')
    BY <1>1, <1>2, <2>1 DEF WatcherInv, ScanInv, ScannedTo, TypeOK
  <2>3. ASSUME NEW i \in 1..Len(block_history')
        PROVE  ScannedTo(block_history[i].number)'
    <3>1. CASE block_history'[i] = Entry(block)
      BY <3>1, <1>1, <1>3, <2>1 DEF ScannedTo
    <3>2. ASSUME NEW j \in 1..Len(block_history),
                 block_history'[i] = block_history[j]
          PROVE  ScannedTo(block_history[i].number)'
      BY <3>2, <1>1 DEF WatcherInv, ScanInv, ScannedTo
    <3> QED
      BY <1>7, <3>1, <3>2
  <2> QED
    BY <2>2, <2>3 DEF ScanInv
<1>10. Numbered'
  BY <1>1, <1>2 DEF WatcherInv, Numbered
<1>11. CreditInv'
  BY <1>1 DEF ScanLogs, Credited, WatcherInv, CreditInv, TypeOK
<1>12. FirstFork'
  <2> SUFFICES ASSUME forks' = 0 PROVE FirstFork'
    BY DEF FirstFork
  <2>1. block.hash = <<block_num, 0>>
    BY <1>1 DEF WatcherInv, FirstFork
  <2>2. ASSUME NEW i \in 1..Len(block_history')
        PROVE  block_history'[i].hash = <<block_history'[i].number, 0>>
    <3>1. CASE block_history'[i] = Entry(block)
      BY <3>1, <1>3, <2>1
    <3>2. ASSUME NEW j \in 1..Len(block_history),
                 block_history'[i] = block_history[j]
          PROVE  block_history'[i].hash = <<block_history'[i].number, 0>>
      BY <3>2, <1>1 DEF WatcherInv, FirstFork
    <3> QED
      BY <1>7, <3>1, <3>2
  <2> QED
    BY <1>1, <1>2, <2>2 DEF WatcherInv, FirstFork
<1> QED
  BY <1>8, <1>9, <1>10, <1>11, <1>12 DEF WatcherInv

LEMMA ProviderErrorPreserves == WatcherInv /\ ProviderError => WatcherInv'
<1> SUFFICES ASSUME WatcherInv, ProviderError PROVE WatcherInv'
  OBVIOUS
<1> USE DEF WatcherInv, ProviderError, world
<1>1. TypeOK'
  BY DEF TypeOK
<1>2. ScanInv'
  BY DEF ScanInv, ScannedTo
<1>3. Numbered'
  BY DEF Numbered
<1>4. CreditInv'
  BY DEF CreditInv
<1>5. FirstFork'
  BY DEF FirstFork
<1> QED
  BY <1>1, <1>2, <1>3, <1>4, <1>5

LEMMA SubmitPreserves == WatcherInv /\ (\E o \in Op : Submit(o)) => WatcherInv'
<1> SUFFICES ASSUME WatcherInv, NEW o \in Op, Submit(o) PROVE WatcherInv'
  OBVIOUS
<1> USE DEF WatcherInv, Submit, poll
<1>1. TypeOK'
  BY DEF TypeOK
<1>2. ScanInv'
  BY DEF ScanInv, ScannedTo
<1>3. Numbered'
  BY DEF Numbered
<1>4. CreditInv'
  BY DEF CreditInv, TypeOK
<1>5. FirstFork'
  BY DEF FirstFork
<1> QED
  BY <1>1, <1>2, <1>3, <1>4, <1>5

\* A new branch of the chain leaves everything but the chain and the number
\* of forks as it was.
LEMMA BranchPreserves ==
  ASSUME WatcherInv, NEW base \in Seq(Block), NEW ops \in SUBSET Op, NEW n \in Nat,
         NEW f \in 0..MaxForks, forks' = f, Len(base) + n <= MaxHeight,
         \A k \in 1..Len(base) : k \in 1..Len(chain) /\ base[k] = chain[k],
         chain' = Extend(base, f, ops, n),
         forks' = forks \/ forks' # 0,
         UNCHANGED <<poll, last_block, block_history, pool, included,
                     submitted, start, scanned>>
  PROVE  WatcherInv'
<1>1. HeightsIn(base)
  BY DEF WatcherInv, Numbered, HeightsIn
<1>2. IsExtension(chain', base, f, n)
  BY <1>1, ExtendExtends
<1> USE <1>2 DEF IsExtension, HeightsIn
<1>3. TypeOK'
  BY <1>2 DEF WatcherInv, TypeOK, poll
<1>4. ScanInv'
  BY DEF WatcherInv, ScanInv, ScannedTo, poll
<1>5. Numbered'
  BY <1>2 DEF WatcherInv, Numbered, poll
<1>6. CreditInv'
  BY DEF WatcherInv, CreditInv
<1>7. FirstFork'
  <2> SUFFICES ASSUME forks' = 0 PROVE FirstFork'
    BY DEF FirstFork
  <2>1. forks = 0
    OBVIOUS
  <2>2. \A k \in 1..Len(base) :
          base[k].hash = <<k, 0>> /\ base[k].parent = <<k - 1, 0>>
    BY <2>1 DEF WatcherInv, FirstFork
  <2>3. HeadHash(base) = <<Len(base), 0>>
    <3>1. CASE base = <<>>
      BY <3>1 DEF HeadHash, Genesis
    <3>2. CASE base # <<>>
      BY <3>2, <2>2 DEF HeadHash
    <3> QED
      BY <3>1, <3>2
  <2>4. ASSUME NEW k \in 1..Len(chain')
        PROVE  chain'[k].hash = <<k, 0>> /\ chain'[k].parent = <<k - 1, 0>>
    <3>1. CASE k <= Len(base)
      BY <3>1, <1>2, <2>2
    <3>2. CASE ~ (k <= Len(base))
      <4>1. k \in Len(base)+1..Len(base) + n
        BY <3>2, <1>2
      <4>2. k = Len(base) + 1 => k - 1 = Len(base)
        OBVIOUS
      <4> QED
        BY <4>1, <4>2, <1>2, <2>3
    <3> QED
      BY <3>1, <3>2
  <2> QED
    BY <2>1, <2>4 DEF WatcherInv, FirstFork, poll
<1> QED
  BY <1>3, <1>4, <1>5, <1>6, <1>7 DEF WatcherInv

LEMMA NewBlockPreserves == WatcherInv /\ NewBlock => WatcherInv'
<1> SUFFICES ASSUME WatcherInv, NewBlock PROVE WatcherInv'
  OBVIOUS
<1>1. PICK ops \in SUBSET (Op \ Logged) : chain' = Extend(chain, forks, ops, 1)
  BY DEF NewBlock
<1>2. /\ chain \in Seq(Block) /\ Len(chain) \in Nat /\ Len(chain) + 1 <= MaxHeight
      /\ forks \in 0..MaxForks /\ forks' = forks
  BY DEF WatcherInv, TypeOK, NewBlock
<1>3. ops \in SUBSET Op
  OBVIOUS
<1>4. UNCHANGED <<poll, last_block, block_history, pool, included, submitted,
                  start, scanned>>
  BY DEF NewBlock
<1> QED
  BY <1>1, <1>2, <1>3, <1>4, BranchPreserves

LEMMA ReorgPreserves == WatcherInv /\ (\E n \in 1..MaxHeight : Reorg(n)) => WatcherInv'
<1> SUFFICES ASSUME WatcherInv, NEW n \in 1..MaxHeight, Reorg(n) PROVE WatcherInv'
  OBVIOUS
<1> DEFINE base == Front(chain, Len(chain) - n)
<1>1. PICK ops \in SUBSET Logged : chain' = Extend(base, forks', ops, n + 1)
  BY DEF Reorg
<1>2. /\ chain \in Seq(Block) /\ Len(chain) \in Nat /\ n <= Len(chain)
      /\ Len(chain) + 1 <= MaxHeight
      /\ forks' \in 0..MaxForks /\ forks' # 0
  BY DEF WatcherInv, TypeOK, Reorg
<1>3. ops \in SUBSET Op
  BY <1>2, LogsAreOps DEF Logged
<1>4. /\ base \in Seq(Block) /\ Len(base) = Len(chain) - n
      /\ \A k \in 1..Len(chain) - n : base[k] = chain[k]
  <2>1. Len(chain) - n \in 0..Len(chain)
    BY <1>2
  <2> QED
    BY <1>2, <2>1, FrontProperties
<1>5. UNCHANGED <<poll, last_block, block_history, pool, included, submitted,
                  start, scanned>>
  BY DEF Reorg
<1> HIDE DEF base
<1>6. /\ Len(base) + (n + 1) <= MaxHeight /\ n + 1 \in Nat
      /\ \A k \in 1..Len(base) : k \in 1..Len(chain) /\ base[k] = chain[k]
  BY <1>2, <1>4
<1> QED
  BY <1>1, <1>2, <1>3, <1>4, <1>5, <1>6, BranchPreserves

LEMMA InvPreserved == WatcherInv /\ [Next]_vars => WatcherInv'
<1>1. WatcherInv /\ UNCHANGED vars => WatcherInv'
  BY DEF vars, WatcherInv, TypeOK, ScanInv, ScannedTo, Numbered, CreditInv,
    FirstFork
<1> QED
  BY <1>1, PollPreserves, FetchHeaderPreserves, ScanLogsPreserves,
     ProviderErrorPreserves, SubmitPreserves, NewBlockPreserves, ReorgPreserves
     DEF Next, Watcher, World

LEMMA InvHolds == Spec => []WatcherInv
  BY InvInitially, InvPreserved, PTL DEF Spec

-----------------------------------------------------------------------------
(* What follows                                                            *)

\* chain.rs keeps its types, and its history within chain_history_size
\* blocks, for any chain and any reorgs.
THEOREM WatcherTypeCorrect == Spec => []TypeOK
<1>1. WatcherInv => TypeOK
  BY DEF WatcherInv
<1> QED
  BY <1>1, InvHolds, PTL

\* No height is skipped (chain.rs: pool, process_block, handle_reorg): every
\* block number up to last_block was scanned, whatever queries fail and
\* wherever reorgs strike.
THEOREM HeightsAreScanned == Spec => []NoHeightSkipped
<1>1. WatcherInv => NoHeightSkipped
  BY DEF WatcherInv, ScanInv, ScannedTo, NoHeightSkipped
<1> QED
  BY <1>1, InvHolds, PTL

\* scan_user_op_events credits an operation at most once for each time it
\* was in the pool, however often its block is scanned again.
THEOREM CreditIsDeserved == Spec => []CreditedOnce
<1>1. WatcherInv => CreditedOnce
  <2> SUFFICES ASSUME WatcherInv, NEW o \in Op PROVE included[o] <= submitted[o]
    BY DEF CreditedOnce
  <2>1. included[o] \in Nat /\ submitted[o] \in 0..MaxSubmit /\ MaxSubmit \in Nat
    BY WatcherConstants DEF WatcherInv, TypeOK
  <2>2. included[o] + (IF o \in pool THEN 1 ELSE 0) <= submitted[o]
    BY Zenon DEF WatcherInv, CreditInv
  <2>3. CASE o \in pool
    <3>1. included[o] + 1 <= submitted[o]
      BY <2>2, <2>3, Zenon
    <3> QED
      BY <2>1, <3>1
  <2>4. CASE o \notin pool
    <3>1. included[o] + 0 <= submitted[o]
      BY <2>2, <2>4, Zenon
    <3> QED
      BY <2>1, <3>1
  <2> QED
    BY <2>3, <2>4
<1> QED
  BY <1>1, InvHolds, PTL

\* While the chain only grows process_block never takes a retried range for
\* a reorg: an entry one below the header at hand is its parent.
THEOREM NoReorgWithoutFork == Spec => NoFalseReorg
<1> DEFINE Keeps == forks = 0 /\ at = "header" => block_history' = block_history
<1>1. WatcherInv /\ [Next]_vars => [Keeps]_vars
  <2> SUFFICES ASSUME WatcherInv, Next, forks = 0, at = "header"
               PROVE  block_history' = block_history
    BY DEF vars
  <2>1. CASE FetchHeader
    <3>1. /\ block' = chain[block_num] /\ block_num \in 1..Len(chain)
          /\ ~ ReorgSeen(block') => block_history' = block_history
      BY <2>1 DEF FetchHeader, WatcherInv, TypeOK
    <3>2. block'.parent = <<block_num - 1, 0>>
      BY <3>1 DEF WatcherInv, FirstFork
    <3>3. ASSUME block_history # <<>>, block_num = Last(block_history).number + 1
          PROVE  block'.parent = Last(block_history).hash
      <4>1. Len(block_history) \in 1..Len(block_history)
        BY <3>3 DEF WatcherInv, TypeOK
      <4>2. Last(block_history) \in BlockEntry
        BY <4>1 DEF WatcherInv, TypeOK, Last
      <4>3. Last(block_history).hash = <<Last(block_history).number, 0>>
        BY <4>1 DEF WatcherInv, FirstFork, Last
      <4>4. block_num - 1 = Last(block_history).number
        BY <3>3, <4>2 DEF BlockEntry
      <4> QED
        BY <3>2, <4>3, <4>4
    <3> QED
      BY <3>1, <3>3 DEF ReorgSeen
  <2>2. CASE Poll \/ ScanLogs
    BY <2>2 DEF Poll, ScanLogs
  <2>3. CASE ProviderError
    BY <2>3 DEF ProviderError
  <2>4. CASE World
    BY <2>4 DEF World, Submit, NewBlock, Reorg
  <2> QED
    BY <2>1, <2>2, <2>3, <2>4 DEF Next, Watcher
<1> QED
  BY <1>1, InvHolds, PTL DEF Spec, NoFalseReorg

=============================================================================
