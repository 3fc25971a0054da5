---------------------------- MODULE ChainWatcher ----------------------------
(***************************************************************************)
(* crates/pool/src/chain.rs: the watcher that follows the chain, takes     *)
(* mined operations out of the pool, credits their entities and looks for  *)
(* reorgs.  A poll walks over the new blocks; each block costs two calls   *)
(* of the provider (the header, then the logs), either of which may fail   *)
(* and end the poll, and between which the chain may change.               *)
(***************************************************************************)
EXTENDS Integers, Sequences, FiniteSets

CONSTANTS
  Op,            \* hashes of user operations
  MaxHeight,     \* bound: length of the chain
  MaxForks,      \* bound: number of reorgs
  MaxSubmit,     \* bound: times an operation is (re)submitted
  HistorySize,   \* ChainSpec::chain_history_size
  None

ASSUME WatcherConstants ==
  /\ IsFiniteSet(Op)
  /\ MaxHeight \in Nat \ {0} /\ MaxForks \in Nat /\ MaxSubmit \in Nat
  /\ HistorySize \in Nat

\* A block is identified by its height and the fork it was made on; its
\* hash is the pair.  logs are the UserOperationEvents in it.
BlockHash == (0..MaxHeight) \X (0..MaxForks)
Block == [hash : BlockHash, parent : BlockHash, logs : SUBSET Op]
BlockEntry == [number : 1..MaxHeight, hash : BlockHash]

VARIABLES
  at,             \* "wait" between polls, else the awaited call
  block_num,      \* process_block's argument
  current_block,  \* the head when the poll began
  block,          \* header fetched by process_block, or None
  last_block,     \* ChainWatcher::last_block
  block_history,  \* VecDeque<BlockEntry>, newest last
  pool,           \* hashes in the pool
  included,       \* record_included calls per operation
  chain,          \* external: the canonical chain, from height 1
  forks,          \* external: reorgs so far
  submitted,      \* external: times each operation entered the pool
  start,          \* history: last_block after initialization
  scanned         \* history: heights whose logs were processed

poll   == <<at, block_num, current_block, block>>
world  == <<chain, forks, submitted>>
vars   == <<at, block_num, current_block, block, last_block, block_history,
            pool, included, chain, forks, submitted, start, scanned>>

Genesis == <<0, 0>>
HeadHash(c) == IF c = <<>> THEN Genesis ELSE c[Len(c)].hash

Entry(b) == [number |-> b.hash[1], hash |-> b.hash]
Last(s)  == s[Len(s)]
Front(s, n) == SubSeq(s, 1, n)

\* run: last_block is the head, or 0 when the first query fails.
Init ==
  /\ chain \in {<<>>, <<[hash |-> <<1, 0>>, parent |-> Genesis,
                         logs |-> {}]>>}
  /\ last_block \in {0, Len(chain)}
  /\ start = last_block
  /\ at = "wait" /\ block_num = 0 /\ current_block = 0 /\ block = None
  /\ block_history = <<>>
  /\ pool = {} /\ included = [o \in Op |-> 0]
  /\ forks = 0 /\ submitted = [o \in Op |-> 0]
  /\ scanned = {}

-----------------------------------------------------------------------------
(* The watcher                                                             *)

\* Mutant of Poll: a poll looks at the head only.
Poll_HeadOnly ==
  /\ at = "wait"
  /\ Len(chain) > last_block
  /\ at' = "header"
  /\ block_num' = Len(chain)
  /\ current_block' = Len(chain)
  /\ UNCHANGED <<block, last_block, block_history, pool, included, world,
                 start, scanned>>

Poll ==
  /\ at = "wait"
  /\ Len(chain) > last_block
  /\ at' = "header"
  /\ block_num' = last_block + 1
  /\ current_block' = Len(chain)
  /\ UNCHANGED <<block, last_block, block_history, pool, included, world,
                 start, scanned>>

\* Distance to the entry with that hash, or the whole history.
DetectReorgDepth(parent) ==
  LET n == Len(block_history)
      found == {i \in 0..n-1 : block_history[n - i].hash = parent}
  IN  IF found = {} THEN n
      ELSE CHOOSE i \in found : \A j \in found : i <= j

\* Mutant of ReorgSeen: the block numbers are not compared.
ReorgSeen_AnyNumber(b) ==
  /\ block_history # <<>>
  /\ b.parent # Last(block_history).hash

ReorgSeen(b) ==
  /\ block_history # <<>>
  /\ b.parent # Last(block_history).hash
  /\ block_num = Last(block_history).number + 1

\* handle_reorg: forget that many entries and step back to what is left.
FetchHeader ==
  /\ at = "header"
  /\ block_num <= Len(chain)
  /\ block' = chain[block_num]
  /\ LET kept == Len(block_history) - DetectReorgDepth(block'.parent) IN
       IF ReorgSeen(block')
         THEN /\ block_history' = Front(block_history, kept)
              /\ last_block' = IF kept > 0 THEN block_history[kept].number
                                           ELSE last_block
         ELSE UNCHANGED <<block_history, last_block>>
  /\ at' = "logs"
  /\ UNCHANGED <<block_num, current_block, pool, included, world, start,
                 scanned>>

\* Mutant of Trimmed: the history is not trimmed.
Trimmed_Never(history) == history

Trimmed(history) ==
  IF Len(history) > HistorySize
    THEN SubSeq(history, Len(history) - HistorySize + 1, Len(history))
    ELSE history

LogsAt(n) == IF n <= Len(chain) THEN chain[n].logs ELSE {}

\* Mutant of Credited: the result of remove_by_hash is ignored.
Credited_Always == LogsAt(block_num)

\* scan_user_op_events: only an operation remove_by_hash finds is credited.
Credited == LogsAt(block_num) \cap pool

\* The logs are those of the block that now has this number; the history
\* gets the header fetched before.  After the last block the poll is done,
\* and last_block is the head it began with.
ScanLogs ==
  /\ at = "logs"
  /\ pool' = pool \ LogsAt(block_num)
  /\ included' = [o \in Op |-> IF o \in Credited THEN included[o] + 1
                                                 ELSE included[o]]
  /\ block_history' = Trimmed(Append(block_history, Entry(block)))
  /\ scanned' = scanned \cup {block_num}
  /\ block' = None
  /\ IF block_num < current_block
       THEN /\ at' = "header" /\ block_num' = block_num + 1
            /\ UNCHANGED <<current_block, last_block>>
       ELSE /\ at' = "wait" /\ block_num' = 0 /\ current_block' = 0
            /\ last_block' = current_block
  /\ UNCHANGED <<world, start>>

\* Mutant of ProviderError: the poll advances last_block all the same.
ProviderError_Advances ==
  /\ at # "wait"
  /\ at' = "wait" /\ block_num' = 0 /\ current_block' = 0 /\ block' = None
  /\ last_block' = current_block
  /\ UNCHANGED <<block_history, pool, included, world, start, scanned>>

\* A call fails, or the block is gone: the poll ends and last_block stays.
ProviderError ==
  /\ at # "wait"
  /\ at' = "wait" /\ block_num' = 0 /\ current_block' = 0 /\ block' = None
  /\ UNCHANGED <<last_block, block_history, pool, included, world, start,
                 scanned>>


-----------------------------------------------------------------------------
(* The clients and the chain                                               *)

Logged == UNION {chain[n].logs : n \in 1..Len(chain)}

Submit(o) ==
  /\ o \notin pool /\ o \notin Logged
  /\ submitted[o] < MaxSubmit
  /\ pool' = pool \cup {o}
  /\ submitted' = [submitted EXCEPT ![o] = @ + 1]
  /\ UNCHANGED <<poll, last_block, block_history, included, chain, forks,
                 start, scanned>>

\* n blocks on top of c, made on fork f, the first of them with ops.
Extend(c, f, ops, n) ==
  c \o [k \in 1..n |->
         [hash   |-> <<Len(c) + k, f>>,
          parent |-> IF k = 1 THEN HeadHash(c) ELSE <<Len(c) + k - 1, f>>,
          logs   |-> IF k = 1 THEN ops ELSE {}]]

NewBlock ==
  /\ Len(chain) < MaxHeight
  /\ \E ops \in SUBSET (Op \ Logged) : chain' = Extend(chain, forks, ops, 1)
  /\ UNCHANGED <<poll, last_block, block_history, pool, included, forks,
                 submitted, start, scanned>>

\* The newest n blocks are replaced by a longer branch: as many blocks (one
\* of them carrying some of what was undone) and one more.
Reorg(n) ==
  /\ forks < MaxForks
  /\ n <= Len(chain) /\ Len(chain) < MaxHeight
  /\ forks' = forks + 1
  /\ LET base == Front(chain, Len(chain) - n)
         kept == UNION {base[i].logs : i \in 1..Len(base)}
     IN  \E ops \in SUBSET (Logged \ kept) :
           chain' = Extend(base, forks', ops, n + 1)
  /\ UNCHANGED <<poll, last_block, block_history, pool, included,
                 submitted, start, scanned>>

-----------------------------------------------------------------------------

Watcher == Poll \/ FetchHeader \/ ScanLogs \/ ProviderError

World ==
  \/ \E o \in Op : Submit(o)
  \/ NewBlock
  \/ \E n \in 1..MaxHeight : Reorg(n)

Next == Watcher \/ World

Spec == Init /\ [][Next]_vars

\* The interval keeps ticking, and a query that is retried again and again
\* is answered in the end.
FairSpec ==
  /\ Spec
  /\ WF_vars(Poll)
  /\ WF_vars(FetchHeader \/ ScanLogs \/ ProviderError)
  /\ \A n \in 1..MaxHeight :
       /\ SF_vars(block_num = n /\ FetchHeader)
       /\ SF_vars(block_num = n /\ ScanLogs)

-----------------------------------------------------------------------------
(* Properties                                                              *)

\* Every variable of the watcher keeps its type.
TypeOK ==
  /\ at \in {"wait", "header", "logs"}
  /\ block_num \in 0..MaxHeight /\ current_block \in 0..MaxHeight
  /\ at # "wait" => block_num \in 1..current_block
  /\ IF at = "logs" THEN block \in Block ELSE block = None
  /\ last_block \in 0..MaxHeight /\ start \in 0..MaxHeight
  /\ block_history \in Seq(BlockEntry) /\ Len(block_history) <= HistorySize
  /\ pool \subseteq Op
  /\ included \in [Op -> Nat] /\ submitted \in [Op -> 0..MaxSubmit]
  /\ chain \in Seq(Block) /\ Len(chain) <= MaxHeight
  /\ forks \in 0..MaxForks

\* No height is skipped, whatever fails and whatever is undone: when a poll
\* is over, each block number up to last_block was scanned at least once,
\* also after an error half way through a range and after handle_reorg has
\* stepped last_block back.
NoHeightSkipped ==
  \A n \in start+1..last_block : n \in scanned

\* An operation is credited to its entities at most once for each time it
\* was in the pool, although a failed poll scans its blocks again.
CreditedOnce == \A o \in Op : included[o] <= submitted[o]

\* While the chain only grows, no header makes the watcher forget history:
\* a parent that differs from the newest entry is then always the trace of a
\* poll that is retried after an error, and never taken for a reorg.
NoFalseReorg ==
  [][forks = 0 /\ at = "header" => block_history' = block_history]_vars

\* While the chain only grows, a mined operation leaves the pool.
MinedOpLeavesPool ==
  \A o \in Op :
    (o \in pool /\ \E n \in start+1..Len(chain) : o \in chain[n].logs)
      ~> (o \notin pool \/ forks > 0)

=============================================================================
