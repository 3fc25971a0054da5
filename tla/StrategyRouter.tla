--------------------------- MODULE StrategyRouter ---------------------------
(***************************************************************************)
(* crates/builder/src/strategy/router.rs over strategies like direct.rs:   *)
(* overlapping submissions and cancellations of rival transactions for one *)
(* nonce.  The router awaits each strategy's node; the answer may be lost  *)
(* after the node has taken the transaction.                               *)
(***************************************************************************)
EXTENDS Integers, Sequences, FiniteSets, SequencesExt

CONSTANTS
  Caller,      \* tasks that share the router
  Strategies,  \* StrategyRouter::strategies.len()
  MaxBid       \* bound: rival transactions, each a higher bid than the last

ASSUME RouterConstants == Strategies \in Nat \ {0} /\ MaxBid \in Nat \ {0}

VARIABLES
  primary,   \* StrategyRouter::primary
  call,      \* the call of each caller, or what its last one returned; as
             \* history, the strategies it has tried
  accepted,  \* history: strategies that answered Ok
  known,     \* external: the bid for the nonce in each node's pool, 0 if none
  mined      \* external: the bid that was mined, 0 if none

router_vars == <<primary, call, accepted, known, mined>>
network == <<known, mined>>

Indices == 0 .. Strategies - 1
Bids == 1 .. MaxBid
NoBid == 0

Errors == {"nonce too low", "already known", "replacement underpriced"}
Results == {"ok", "retryable", "terminal", "exhausted",
            "cancelled", "already_mined", "failed"}
Calls == [at : {"idle", "asking", "answering"}, does : {"submit", "cancel"},
          tx : 0..MaxBid, start : Indices, offset : Indices,
          answer : {"ok", "none"} \cup Errors, result : Results \cup {"none"},
          tried : Seq(Indices)]

Done(does, tx, result, tried) ==
  [at |-> "idle", does |-> does, tx |-> tx, start |-> 0, offset |-> 0,
   answer |-> "none", result |-> result, tried |-> tried]

Attempt(does, tx, start, offset, tried) ==
  [at |-> "asking", does |-> does, tx |-> tx, start |-> start, offset |-> offset,
   answer |-> "none", result |-> "none", tried |-> tried]

RouterInit ==
  /\ primary = 0
  /\ call = [c \in Caller |-> Done("submit", NoBid, "none", <<>>)]
  /\ accepted = {}
  /\ known = [s \in Indices |-> NoBid] /\ mined = NoBid

-----------------------------------------------------------------------------
(* The calls                                                               *)

\* submit and cancel read the primary once, when they begin.
BeginCall(c, does, tx) ==
  /\ call[c].at = "idle"
  /\ call' = [call EXCEPT ![c] = Attempt(does, tx, primary, 0, <<>>)]
  /\ UNCHANGED <<primary, accepted, network>>

BeginSubmit(c) == \E tx \in Bids : BeginCall(c, "submit", tx)
BeginCancel(c) == \E tx \in Bids : BeginCall(c, "cancel", tx)

\* cancel without a transaction
CancelWithout(c) ==
  /\ call[c].at = "idle"
  /\ call' = [call EXCEPT ![c] = Done("cancel", NoBid, "failed", <<>>)]
  /\ UNCHANGED <<primary, accepted, network>>

\* Mutant of Target: the primary is read again for every attempt.
Target_Reread(c) == (primary + call[c].offset) % Strategies

Target(c) == (call[c].start + call[c].offset) % Strategies

\* external: what a node says to send_raw_transaction
NodeAnswer(s, tx) ==
  IF mined # NoBid THEN "nonce too low"
  ELSE IF tx = known[s] THEN "already known"
  ELSE IF tx < known[s] THEN "replacement underpriced" ELSE "ok"

NodeTakes(c) ==
  LET s == Target(c)
      answer == NodeAnswer(s, call[c].tx)
  IN  /\ call[c].at = "asking"
      /\ call' = [call EXCEPT ![c] =
           [at |-> "answering", does |-> @.does, tx |-> @.tx, start |-> @.start,
            offset |-> @.offset, answer |-> answer, result |-> "none",
            tried |-> Append(@.tried, s)]]
      /\ known' = [known EXCEPT ![s] = IF answer = "ok" THEN call[c].tx ELSE @]
      /\ UNCHANGED <<primary, accepted, mined>>

Tried(c) ==
  IF call[c].at = "asking" THEN Append(call[c].tried, Target(c)) ELSE call[c].tried

Return(c, result) ==
  call' = [call EXCEPT ![c] =
    Done(@.does, @.tx, result, IF result = "exhausted" THEN Tried(c) ELSE <<>>)]

\* Mutant of Succeeds: the primary moves whenever a strategy answers.
Succeeds_Early(c) ==
  /\ primary' = (call[c].start + 1) % Strategies
  /\ accepted' = accepted \cup {Target(c)}
  /\ Return(c, "ok")

\* Ok: the strategy that answered is the primary from now on.
Succeeds(c) ==
  /\ primary' = IF call[c].offset > 0 THEN Target(c) ELSE primary
  /\ accepted' = accepted \cup {Target(c)}
  /\ Return(c, "ok")

\* StrategyFailed: the next strategy, or "all strategies exhausted"
StrategyFails(c) ==
  /\ IF call[c].offset + 1 < Strategies
       THEN call' = [call EXCEPT ![c] =
              Attempt(@.does, @.tx, @.start, @.offset + 1, Tried(c))]
       ELSE Return(c, "exhausted")
  /\ UNCHANGED <<primary, accepted>>

\* The node's answer arrives: DirectSubmissionStrategy reads its message.
SubmitAnswered(c) ==
  /\ call[c].at = "answering" /\ call[c].does = "submit"
  /\ \/ call[c].answer = "ok" /\ Succeeds(c)
     \/ /\ call[c].answer \in Errors
        /\ Return(c, "retryable") /\ UNCHANGED <<primary, accepted>>
  /\ UNCHANGED network

CancelAnswered(c) ==
  /\ call[c].at = "answering" /\ call[c].does = "cancel"
  /\ Return(c, CASE call[c].answer = "ok" -> "cancelled"
                 [] call[c].answer \in {"nonce too low", "already known"} -> "already_mined"
                 [] OTHER -> "exhausted")
  /\ UNCHANGED <<primary, accepted, network>>

\* Mutant of Unreachable: a lost connection is worth another try.
Unreachable_Retryable(c) ==
  /\ call[c].at \in {"asking", "answering"}
  /\ Return(c, "retryable") /\ UNCHANGED <<primary, accepted>>
  /\ UNCHANGED network

\* Any other error, before or after the node has taken the transaction:
\* StrategyFailed, which a cancellation returns at once
Unreachable(c) ==
  /\ call[c].at \in {"asking", "answering"}
  /\ IF call[c].does = "submit" THEN StrategyFails(c)
     ELSE Return(c, "exhausted") /\ UNCHANGED <<primary, accepted>>
  /\ UNCHANGED network

\* Terminal stops all attempts; of the strategies at hand none says so.
Refused(c) ==
  /\ call[c].at = "asking" /\ call[c].does = "submit"
  /\ Return(c, "terminal")
  /\ UNCHANGED <<primary, accepted, network>>

ResetPrimary ==
  /\ primary' = 0
  /\ UNCHANGED <<call, accepted, network>>

-----------------------------------------------------------------------------
(* The network                                                             *)

Gossip ==
  /\ \E s, t \in Indices :
       /\ known[s] > known[t]
       /\ known' = [known EXCEPT ![t] = known[s]]
  /\ UNCHANGED <<primary, call, accepted, mined>>

Mine ==
  /\ mined = NoBid
  /\ \E s \in Indices : known[s] # NoBid /\ mined' = known[s]
  /\ known' = [s \in Indices |-> NoBid]
  /\ UNCHANGED <<primary, call, accepted>>

RouterNext ==
  \/ \E c \in Caller :
       \/ BeginSubmit(c) \/ BeginCancel(c) \/ CancelWithout(c)
       \/ NodeTakes(c) \/ SubmitAnswered(c) \/ CancelAnswered(c)
       \/ Unreachable(c) \/ Refused(c)
  \/ ResetPrimary \/ Gossip \/ Mine

RouterSpec == RouterInit /\ [][RouterNext]_router_vars

-----------------------------------------------------------------------------
(* Properties                                                              *)

\* The router's cell and the locals of each call keep their types.
RouterTypeOK ==
  /\ primary \in Indices /\ accepted \subseteq Indices
  /\ call \in [Caller -> Calls]
  /\ known \in [Indices -> 0..MaxBid] /\ mined \in 0..MaxBid

\* submit asks no strategy twice, and "all strategies exhausted" is true:
\* it has tried every one, although other calls and reset_primary move the
\* primary while it waits.
AsksEachOnce ==
  \A c \in Caller :
    /\ IsInjective(call[c].tried)
    /\ call[c].does = "submit" /\ call[c].result = "exhausted" =>
         ToSet(call[c].tried) = Indices

\* What the caller is told can be relied on.  Ok: the transaction, or a
\* higher bid, is still before the network.  Retryable, and AlreadyMined of a
\* cancellation: some bid for the nonce is, so sending it again cannot help,
\* even when it was this very call that brought it there, by a strategy
\* whose answer was lost.
AnswersHold ==
  LET Standing(bid) == mined # NoBid \/ \E s \in Indices : known[s] >= bid
  IN  \A c \in Caller :
        /\ call[c].result \in {"ok", "cancelled"} => Standing(call[c].tx)
        /\ call[c].result \in {"retryable", "already_mined"} => Standing(1)

\* Whatever calls overlap, the primary is the first strategy or one that has
\* accepted a transaction: a strategy that only ever failed never becomes it.
PrimaryHasAccepted == primary \in accepted \cup {0}

=============================================================================
