--------------------------- MODULE SubmissionProofs ---------------------------
(***************************************************************************)
(* Proofs about how a bundle is signed and sent.  router.rs and direct.rs: *)
(* for any number of callers, strategies and rival bids, what a caller is  *)
(* told holds, and the walk over the strategies is complete.  manager.rs:  *)
(* for any number of signers and any width of the counter, the leases of   *)
(* two signers differ by one at most, and by one more for every wrap.      *)
(***************************************************************************)
EXTENDS StrategyRouter, SignerManager, TLAPS

\* A bid at least as high is before the network, or the nonce is used up.
Standing(bid) == mined # NoBid \/ \E s \in Indices : known[s] >= bid

\* An answer on its way holds already, and so does one that was given.
Reliable(r) ==
  /\ r.at # "idle" => r.tx >= 1 /\ r.result = "none"
  /\ r.at = "answering" /\ r.answer = "ok" => Standing(r.tx)
  /\ r.at = "answering" /\ r.answer \in Errors => Standing(1)
  /\ r.result \in {"ok", "cancelled"} => Standing(r.tx)
  /\ r.result \in {"retryable", "already_mined"} => Standing(1)

\* The strategies from the b-th on, in the order of the walk
InTurn(tried, b) == \A i \in DOMAIN tried : tried[i] = (b + (i - 1)) % Strategies

\* The walk asks one strategy after the other, from the primary it began
\* with, and is over after a lap.
Walks(r) ==
  /\ Len(r.tried) <= Strategies
  /\ \E b \in Indices : InTurn(r.tried, b)
  /\ r.at # "idle" => InTurn(r.tried, r.start)
  /\ r.at = "asking" => Len(r.tried) = r.offset
  /\ r.at = "answering" => Len(r.tried) = r.offset + 1
  /\ r.at = "idle" /\ r.does = "submit" /\ r.result = "exhausted" =>
       Len(r.tried) = Strategies

\* Invariant: every call is reliable, and walks.
CallsInv == \A c \in Caller : Reliable(call[c]) /\ Walks(call[c])

RouterInv == RouterTypeOK /\ CallsInv /\ PrimaryHasAccepted

-----------------------------------------------------------------------------
(* Turns                                                                   *)

\* One lap is enough for the sum of two indices.
LEMMA ModIsOneLap ==
  ASSUME NEW x \in Nat, x < 2 * Strategies
  PROVE  x % Strategies = IF x < Strategies THEN x ELSE x - Strategies
<1> DEFINE n == Strategies
           q == x \div n
<1>1. n \in Nat /\ n > 0
  BY RouterConstants
<1>2. x % n \in 0..n-1 /\ q \in Int /\ x = (n * q) + (x % n)
  BY <1>1
<1>3. CASE q <= -1
  <2>1. n * q <= -n
    BY <1>1, <1>2, <1>3
  <2> QED
    BY <1>1, <1>2, <2>1
<1>4. CASE q = 0
  BY <1>1, <1>2, <1>4
<1>5. CASE q = 1
  BY <1>1, <1>2, <1>5
<1>6. CASE q >= 2
  <2>1. n * q >= 2 * n
    BY <1>1, <1>2, <1>6
  <2> QED
    BY <1>1, <1>2, <2>1
<1> QED
  BY <1>2, <1>3, <1>4, <1>5, <1>6

\* A turn is the index of a strategy.
LEMMA TurnIsIndex ==
  ASSUME NEW b \in Indices, NEW i \in 0..Strategies-1
  PROVE  (b + i) % Strategies \in Indices
<1>1. (b + i) % Strategies = IF b + i < Strategies THEN b + i ELSE b + i - Strategies
  BY ModIsOneLap, RouterConstants DEF Indices
<1> QED
  BY <1>1, RouterConstants DEF Indices

\* Within a lap no index comes back.
LEMMA OneLapOnce ==
  ASSUME NEW n \in Nat, NEW b \in 0..n-1, NEW i \in 1..n, NEW j \in 1..n,
         (IF b + (i - 1) < n THEN b + (i - 1) ELSE b + (i - 1) - n)
           = IF b + (j - 1) < n THEN b + (j - 1) ELSE b + (j - 1) - n
  PROVE  i = j
<1>1. CASE b + (i - 1) < n /\ b + (j - 1) < n
  BY <1>1
<1>2. CASE b + (i - 1) < n /\ ~(b + (j - 1) < n)
  BY <1>2
<1>3. CASE ~(b + (i - 1) < n) /\ b + (j - 1) < n
  BY <1>3
<1>4. CASE ~(b + (i - 1) < n) /\ ~(b + (j - 1) < n)
  BY <1>4
<1> QED
  BY <1>1, <1>2, <1>3, <1>4

\* Within a lap no strategy has two turns.
LEMMA TurnsDiffer ==
  ASSUME NEW b \in Indices, NEW tried \in Seq(Indices),
         Len(tried) <= Strategies, InTurn(tried, b)
  PROVE  IsInjective(tried)
<1> SUFFICES ASSUME NEW i \in DOMAIN tried, NEW j \in DOMAIN tried, tried[i] = tried[j]
             PROVE  i = j
  BY DEF IsInjective
<1>1. i \in 1..Len(tried) /\ j \in 1..Len(tried) /\ Len(tried) \in Nat
  OBVIOUS
<1>2. \A k \in 1..Len(tried) :
        tried[k] = IF b + (k - 1) < Strategies THEN b + (k - 1)
                   ELSE b + (k - 1) - Strategies
  <2> SUFFICES ASSUME NEW k \in 1..Len(tried)
               PROVE  tried[k] = IF b + (k - 1) < Strategies THEN b + (k - 1)
                                 ELSE b + (k - 1) - Strategies
    OBVIOUS
  <2> DEFINE x == b + (k - 1)
  <2>1. x \in Nat /\ x < 2 * Strategies
    BY <1>1, RouterConstants DEF Indices
  <2>2. tried[k] = x % Strategies
    BY DEF InTurn
  <2> HIDE DEF x
  <2>3. tried[k] = IF x < Strategies THEN x ELSE x - Strategies
    BY <2>1, <2>2, ModIsOneLap
  <2> QED
    BY <2>1, <2>3, RouterConstants DEF x, Indices
<1>3. Strategies \in Nat /\ b \in 0..Strategies-1 /\ i \in 1..Strategies /\ j \in 1..Strategies
  BY <1>1, RouterConstants DEF Indices
<1>4. (IF b + (i - 1) < Strategies THEN b + (i - 1) ELSE b + (i - 1) - Strategies)
        = IF b + (j - 1) < Strategies THEN b + (j - 1) ELSE b + (j - 1) - Strategies
  BY <1>1, <1>2, Zenon
<1> QED
  BY <1>3, <1>4, OneLapOnce

\* A full lap leaves no strategy out.
LEMMA LapIsComplete ==
  ASSUME NEW b \in Indices, NEW tried \in Seq(Indices),
         Len(tried) = Strategies, InTurn(tried, b)
  PROVE  ToSet(tried) = Indices
<1>1. ToSet(tried) \subseteq Indices
  BY DEF ToSet
<1> SUFFICES ASSUME NEW k \in Indices PROVE k \in ToSet(tried)
  BY <1>1
<1> DEFINE i == IF k >= b THEN k - b + 1 ELSE k - b + Strategies + 1
<1>2. i \in 1..Strategies /\ DOMAIN tried = 1..Strategies
  BY RouterConstants DEF Indices
<1>3. (b + (i - 1)) % Strategies = k
  <2> DEFINE x == b + (i - 1)
  <2>1. x \in Nat /\ x < 2 * Strategies /\ k = IF x < Strategies THEN x ELSE x - Strategies
    BY RouterConstants DEF Indices
  <2> HIDE DEF x
  <2>2. x % Strategies = k
    BY <2>1, ModIsOneLap
  <2> QED
    BY <2>2 DEF x
<1>4. tried[i] = k
  BY <1>2, <1>3 DEF InTurn
<1> QED
  BY <1>2, <1>4 DEF ToSet

-----------------------------------------------------------------------------
(* One call                                                                *)

\* What the network only adds to, no answer is taken back by.
LEMMA StandingKept ==
  ASSUME RouterTypeOK,
         \/ UNCHANGED network
         \/ mined' # NoBid
         \/ /\ UNCHANGED mined
            /\ \A s \in Indices : known'[s] >= known[s] /\ known'[s] \in Nat,
         NEW bid \in 0..MaxBid, Standing(bid)
  PROVE  Standing(bid)'
<1>1. \A s \in Indices : known[s] \in Nat
  BY DEF RouterTypeOK
<1>2. CASE UNCHANGED network
  BY <1>2 DEF Standing, network
<1>3. CASE mined' # NoBid
  BY <1>3 DEF Standing
<1>4. CASE /\ UNCHANGED mined
           /\ \A s \in Indices : known'[s] >= known[s] /\ known'[s] \in Nat
  BY <1>1, <1>4 DEF Standing
<1> QED
  BY <1>2, <1>3, <1>4

\* The other calls are not touched by the step of one.
LEMMA OthersKept ==
  ASSUME RouterInv, NEW c \in Caller,
         \A bid \in 0..MaxBid : Standing(bid) => Standing(bid)',
         \A d \in Caller : d # c => call'[d] = call[d],
         Reliable(call[c])', Walks(call[c])'
  PROVE  CallsInv'
<1>1. MaxBid \in Nat \ {0}
  BY RouterConstants
<1>2. ASSUME NEW d \in Caller, d # c PROVE Reliable(call[d])' /\ Walks(call[d])'
  <2>1. call[d].tx \in 0..MaxBid /\ Reliable(call[d]) /\ Walks(call[d])
    BY DEF RouterInv, RouterTypeOK, Calls, CallsInv
  <2>2. call'[d] = call[d]
    BY <1>2
  <2>3. Reliable(call[d])'
    BY <1>1, <2>1, <2>2 DEF Reliable
  <2>4. Walks(call[d])'
    BY <2>1, <2>2 DEF Walks, InTurn
  <2> QED
    BY <2>3, <2>4
<1> QED
  BY <1>2 DEF CallsInv

\* What a call has tried when its attempt is over, answered or not
LEMMA TriedIsOneMore ==
  ASSUME RouterInv, NEW c \in Caller, call[c].at # "idle"
  PROVE  /\ Tried(c) \in Seq(Indices)
         /\ Len(Tried(c)) = call[c].offset + 1
         /\ InTurn(Tried(c), call[c].start)
<1> DEFINE r == call[c]
<1>1. r \in Calls /\ Walks(r)
  BY DEF RouterInv, RouterTypeOK, CallsInv
<1>2. r.tried \in Seq(Indices) /\ r.start \in Indices /\ r.offset \in Indices
  BY <1>1 DEF Calls
<1>3. CASE r.at = "asking"
  <2>1. /\ Tried(c) = Append(r.tried, Target(c))
        /\ Target(c) = (r.start + r.offset) % Strategies
        /\ Len(r.tried) = r.offset /\ InTurn(r.tried, r.start)
    BY <1>1, <1>3 DEF Tried, Target, Walks
  <2>2. Target(c) \in Indices
    BY <1>2, <2>1, TurnIsIndex DEF Indices
  <2>3. r.offset \in Nat /\ (r.offset + 1) - 1 = r.offset
    BY <1>2, RouterConstants DEF Indices
  <2>4. /\ Tried(c) \in Seq(Indices) /\ Len(Tried(c)) = r.offset + 1
        /\ DOMAIN Tried(c) = 1..(r.offset + 1) /\ DOMAIN r.tried = 1..r.offset
        /\ Tried(c)[r.offset + 1] = Target(c)
        /\ \A i \in 1..r.offset : Tried(c)[i] = r.tried[i]
    BY <1>2, <2>1, <2>2
  <2>5. InTurn(Tried(c), r.start)
    <3> SUFFICES ASSUME NEW i \in 1..(r.offset + 1)
                 PROVE  Tried(c)[i] = (r.start + (i - 1)) % Strategies
      BY <2>4 DEF InTurn
    <3>1. CASE i = r.offset + 1
      BY <2>1, <2>3, <2>4, <3>1
    <3>2. CASE i \in 1..r.offset
      BY <2>1, <2>4, <3>2 DEF InTurn
    <3> QED
      BY <2>3, <3>1, <3>2
  <2> QED
    BY <2>4, <2>5
<1>4. CASE r.at = "answering"
  BY <1>1, <1>2, <1>4 DEF Tried, Walks
<1> QED
  BY <1>1, <1>3, <1>4 DEF Calls

\* A call returns: what it says must hold, and "exhausted" needs a full lap.
LEMMA ReturnIsReliable ==
  ASSUME RouterInv, NEW c \in Caller, NEW result \in Results,
         Return(c, result), UNCHANGED network, call[c].at # "idle",
         result \in {"ok", "cancelled"} => Standing(call[c].tx),
         result \in {"retryable", "already_mined"} => Standing(1),
         result = "exhausted" /\ call[c].does = "submit" =>
           call[c].offset + 1 = Strategies
  PROVE  call' \in [Caller -> Calls] /\ CallsInv'
<1> DEFINE r == call[c]
           new == Done(r.does, r.tx, result,
                       IF result = "exhausted" THEN Tried(c) ELSE <<>>)
<1>1. r \in Calls /\ call \in [Caller -> Calls]
  BY DEF RouterInv, RouterTypeOK
<1>2. call' = [call EXCEPT ![c] = new]
  BY DEF Return
<1>3. /\ Tried(c) \in Seq(Indices) /\ Len(Tried(c)) = r.offset + 1
      /\ InTurn(Tried(c), r.start)
  BY TriedIsOneMore
<1>4. /\ new.at = "idle" /\ new.does = r.does /\ new.tx = r.tx /\ new.result = result
      /\ new.tried = IF result = "exhausted" THEN Tried(c) ELSE <<>>
  BY DEF Done
<1>5. new \in Calls
  <2>1. 0 \in Indices
    BY RouterConstants DEF Indices
  <2>2. r.does \in {"submit", "cancel"} /\ r.tx \in 0..MaxBid
    BY <1>1 DEF Calls
  <2>3. new.tried \in Seq(Indices)
    BY <1>3, <<>> \in Seq(Indices) DEF Done
  <2> QED
    BY <2>1, <2>2, <2>3 DEF Calls, Done
<1>6. call' \in [Caller -> Calls] /\ call'[c] = new
  BY <1>1, <1>2, <1>5
<1>7. \A bid \in 0..MaxBid : Standing(bid) => Standing(bid)'
  BY StandingKept DEF RouterInv
<1>8. Reliable(call[c])'
  <2>1. r.tx \in 0..MaxBid /\ 1 \in 0..MaxBid
    BY <1>1, RouterConstants DEF Calls
  <2>2. \A bid \in 0..MaxBid :
          bid = r.tx /\ result \in {"ok", "cancelled"} => Standing(bid)'
    BY <1>7
  <2>3. result \in {"retryable", "already_mined"} => Standing(1)'
    BY <1>7, <2>1
  <2> HIDE DEF new
  <2>4. call[c].tx' = r.tx /\ call[c].at' = "idle" /\ call[c].result' = result
    BY <1>4, <1>6
  <2> QED
    BY <2>1, <2>2, <2>3, <2>4 DEF Reliable, Standing
<1>9. Walks(call[c])'
  <2>1. r.start \in Indices /\ r.offset \in 0..Strategies-1 /\ 0 \in Indices
    BY <1>1, RouterConstants DEF Calls, Indices
  <2> HIDE DEF new
  <2>2. /\ call'[c].at = "idle" /\ call'[c].does = r.does /\ call'[c].result = result
        /\ call'[c].tried = IF result = "exhausted" THEN Tried(c) ELSE <<>>
    BY <1>4, <1>6
  <2>3. CASE result = "exhausted"
    <3> DEFINE t == Tried(c)
    <3>1. /\ t \in Seq(Indices) /\ Len(t) = r.offset + 1 /\ InTurn(t, r.start)
          /\ call'[c].tried = t
      BY <1>3, <2>2, <2>3
    <3> HIDE DEF t, r
    <3>2. Len(t) <= Strategies
      BY <2>1, <3>1, RouterConstants
    <3>3. r.does = "submit" => Len(t) = Strategies
      BY <2>3, <3>1, RouterConstants DEF r
    <3>4. InTurn(t, r.start) <=> InTurn(call'[c].tried, r.start)
      BY <3>1, Zenon
    <3> QED
      BY <2>1, <2>2, <3>1, <3>2, <3>3 DEF Walks, InTurn
  <2>4. CASE result # "exhausted"
    <3>1. call'[c].tried = <<>> /\ Len(<<>>) = 0 /\ InTurn(<<>>, 0)
      BY <2>2, <2>4 DEF InTurn
    <3> QED
      BY <2>1, <2>2, <2>4, <3>1, RouterConstants DEF Walks, InTurn
  <2> QED
    BY <2>3, <2>4
<1> QED
  BY <1>2, <1>6, <1>7, <1>8, <1>9, OthersKept

-----------------------------------------------------------------------------
(* The invariant                                                           *)

\* Before the first call
LEMMA InitRouterInv == RouterInit => RouterInv
<1> SUFFICES ASSUME RouterInit PROVE RouterInv
  OBVIOUS
<1>1. 0 \in Indices /\ 0 \in 0..MaxBid
  BY RouterConstants DEF Indices
<1>2. <<>> \in Seq(Indices) /\ Len(<<>>) = 0 /\ DOMAIN <<>> = {}
  OBVIOUS
<1>3. RouterTypeOK
  BY <1>1, <1>2 DEF RouterInit, RouterTypeOK, Calls, NoBid, Done
<1>4. ASSUME NEW c \in Caller PROVE Reliable(call[c]) /\ Walks(call[c])
  BY <1>1, <1>2, RouterConstants DEF RouterInit, Reliable, Walks, InTurn, Done
<1>5. PrimaryHasAccepted
  BY DEF RouterInit, PrimaryHasAccepted
<1> QED
  BY <1>3, <1>4, <1>5 DEF RouterInv, CallsInv

\* A call begins with the primary of the moment.
LEMMA BeginPreserves ==
  ASSUME RouterInv, NEW c \in Caller, NEW tx \in Bids,
         NEW does \in {"submit", "cancel"}, BeginCall(c, does, tx)
  PROVE  RouterInv'
<1> DEFINE new == Attempt(does, tx, primary, 0, <<>>)
<1>1. /\ call \in [Caller -> Calls] /\ primary \in Indices
      /\ 0 \in Indices /\ tx \in 0..MaxBid /\ tx >= 1
  BY RouterConstants DEF RouterInv, RouterTypeOK, Indices, Bids
<1>2. <<>> \in Seq(Indices) /\ Len(<<>>) = 0 /\ DOMAIN <<>> = {}
  OBVIOUS
<1>3. call' = [call EXCEPT ![c] = new] /\ UNCHANGED <<primary, accepted, network>>
  BY DEF BeginCall
<1>4. new \in Calls
  BY <1>1, <1>2 DEF Calls, Attempt
<1>5. call' \in [Caller -> Calls] /\ call'[c] = new
  BY <1>1, <1>3, <1>4
<1>6. Reliable(call[c])'
  BY <1>1, <1>5 DEF Reliable, Attempt
<1>7. Walks(call[c])'
  BY <1>1, <1>2, <1>5, RouterConstants DEF Walks, InTurn, Attempt
<1>8. CallsInv'
  <2>1. \A bid \in 0..MaxBid : Standing(bid) => Standing(bid)'
    BY <1>3, StandingKept DEF RouterInv
  <2>2. \A d \in Caller : d # c => call'[d] = call[d]
    BY <1>1, <1>3
  <2> QED
    BY <1>6, <1>7, <2>1, <2>2, OthersKept
<1> QED
  BY <1>3, <1>5, <1>8 DEF RouterInv, RouterTypeOK, PrimaryHasAccepted, network

\* cancel without a transaction says "failed", which promises nothing.
LEMMA CancelWithoutPreserves ==
  ASSUME RouterInv, NEW c \in Caller, CancelWithout(c)
  PROVE  RouterInv'
<1> DEFINE new == Done("cancel", NoBid, "failed", <<>>)
<1>1. call \in [Caller -> Calls] /\ call[c] \in Calls /\ call[c].at = "idle"
  BY DEF RouterInv, RouterTypeOK, CancelWithout
<1>2. call' = [call EXCEPT ![c] = new] /\ UNCHANGED <<primary, accepted, network>>
  BY DEF CancelWithout
<1>3. <<>> \in Seq(Indices) /\ Len(<<>>) = 0 /\ DOMAIN <<>> = {}
  OBVIOUS
<1>4. new \in Calls /\ new.at = "idle" /\ new.result = "failed" /\ new.tried = <<>>
  <2>1. 0 \in Indices /\ NoBid \in 0..MaxBid
    BY RouterConstants DEF Indices, NoBid
  <2> QED
    BY <1>3, <2>1 DEF Calls, Results, Done
<1> HIDE DEF new
<1>5. call' \in [Caller -> Calls] /\ call'[c] = new
  BY <1>1, <1>2, <1>4
<1>6. Reliable(call[c])' /\ Walks(call[c])'
  BY <1>3, <1>4, <1>5, RouterConstants DEF Reliable, Walks, InTurn, Indices
<1>7. CallsInv'
  <2>1. \A bid \in 0..MaxBid : Standing(bid) => Standing(bid)'
    BY <1>2, StandingKept DEF RouterInv
  <2>2. \A d \in Caller : d # c => call'[d] = call[d]
    BY <1>1, <1>2
  <2> QED
    BY <1>6, <2>1, <2>2, OthersKept
<1> QED
  BY <1>2, <1>5, <1>7 DEF RouterInv, RouterTypeOK, PrimaryHasAccepted, network

\* What a node answers is true of what it knows by then, and it forgets
\* nothing: the bid it takes is higher than the one it had.
LEMMA NodeTakesPreserves ==
  ASSUME RouterInv, NEW c \in Caller, NodeTakes(c)
  PROVE  RouterInv'
<1> DEFINE r == call[c]
           s == Target(c)
           answer == NodeAnswer(s, r.tx)
           new == [at |-> "answering", does |-> r.does, tx |-> r.tx,
           start |-> r.start,
                   offset |-> r.offset, answer |-> answer, result |-> "none",
                   tried |-> Append(r.tried, s)]
<1>1. /\ call \in [Caller -> Calls] /\ r \in Calls /\ r.at = "asking"
      /\ Reliable(r) /\ Walks(r) /\ r.result = "none"
      /\ known \in [Indices -> 0..MaxBid]
  BY DEF RouterInv, RouterTypeOK, CallsInv, NodeTakes, Reliable
<1>2. /\ r.start \in Indices /\ r.offset \in Indices /\ r.tx \in 0..MaxBid /\ r.tx >= 1
      /\ MaxBid \in Nat
  BY <1>1, RouterConstants DEF Calls, Reliable
<1>3. /\ Append(r.tried, s) \in Seq(Indices)
      /\ Len(Append(r.tried, s)) = r.offset + 1
      /\ InTurn(Append(r.tried, s), r.start)
  BY <1>1, TriedIsOneMore DEF Tried
<1>4. s \in Indices
  BY <1>2, TurnIsIndex DEF Target, Indices
<1>5. /\ call' = [call EXCEPT ![c] = new]
      /\ known' = [known EXCEPT ![s] = IF answer = "ok" THEN r.tx ELSE @]
      /\ UNCHANGED <<primary, accepted, mined>>
  BY DEF NodeTakes
<1>6. answer \in {"ok"} \cup Errors
  BY DEF NodeAnswer, Errors
<1>7. new \in Calls
  BY <1>1, <1>2, <1>3, <1>6 DEF Calls
<1>8. call' \in [Caller -> Calls] /\ call'[c] = new
  BY <1>1, <1>5, <1>7
<1>9. known' \in [Indices -> 0..MaxBid]
  BY <1>1, <1>2, <1>4, <1>5
<1>10. answer = "ok" => r.tx > known[s]
  BY <1>1, <1>2, <1>4 DEF NodeAnswer
<1>11. \A bid \in 0..MaxBid : Standing(bid) => Standing(bid)'
  <2>1. \A t \in Indices : known'[t] >= known[t] /\ known'[t] \in Nat
    BY <1>1, <1>2, <1>4, <1>5, <1>9, <1>10
  <2> QED
    BY <1>5, <2>1, StandingKept DEF RouterInv
<1>12. Reliable(call[c])'
  <2>1. answer = "ok" => known'[s] = r.tx
    BY <1>1, <1>4, <1>5
  <2>2. answer \in Errors => mined' # NoBid \/ known'[s] >= 1
    <3>1. known[s] \in 0..MaxBid
      BY <1>1, <1>4
    <3>2. answer \in Errors => mined # NoBid \/ known[s] >= r.tx
      BY <1>2, <3>1 DEF NodeAnswer, Errors
    <3>3. answer \in Errors => known'[s] = known[s]
      BY <1>1, <1>4, <1>5 DEF Errors
    <3> QED
      BY <1>2, <1>5, <3>1, <3>2, <3>3
  <2>3. /\ call'[c].at = "answering" /\ call'[c].tx = r.tx /\ call'[c].answer = answer
        /\ call'[c].result = "none"
    BY <1>8
  <2> HIDE DEF answer, new, s
  <2> QED
    BY <1>2, <1>4, <2>1, <2>2, <2>3 DEF Reliable, Standing
<1>13. Walks(call[c])'
  <2>1. /\ call'[c].at = "answering" /\ call'[c].start = r.start
        /\ call'[c].offset = r.offset /\ call'[c].tried = Append(r.tried, s)
    BY <1>8
  <2>2. r.offset + 1 <= Strategies
    BY <1>2, RouterConstants DEF Indices
  <2> HIDE DEF answer, new, s
  <2> QED
    BY <1>2, <1>3, <2>1, <2>2 DEF Walks, InTurn
<1>14. CallsInv'
  <2>1. \A d \in Caller : d # c => call'[d] = call[d]
    BY <1>1, <1>5
  <2> QED
    BY <1>11, <1>12, <1>13, <2>1, OthersKept
<1> QED
  BY <1>5, <1>8, <1>9, <1>14 DEF RouterInv, RouterTypeOK, PrimaryHasAccepted

\* A call that returns leaves the network, and unless it succeeds the
\* primary, as they are.
LEMMA ReturnPreserves ==
  ASSUME RouterInv, NEW c \in Caller, NEW result \in Results,
         Return(c, result), UNCHANGED <<primary, accepted, network>>,
         call[c].at # "idle",
         result \in {"ok", "cancelled"} => Standing(call[c].tx),
         result \in {"retryable", "already_mined"} => Standing(1),
         result = "exhausted" /\ call[c].does = "submit" =>
           call[c].offset + 1 = Strategies
  PROVE  RouterInv'
<1>1. call' \in [Caller -> Calls] /\ CallsInv'
  BY ReturnIsReliable
<1> QED
  BY <1>1 DEF RouterInv, RouterTypeOK, PrimaryHasAccepted, network

\* A strategy fails: the next one is asked, or the lap is full.
LEMMA FailsPreserves ==
  ASSUME RouterInv, NEW c \in Caller, StrategyFails(c), UNCHANGED network,
         call[c].at # "idle"
  PROVE  RouterInv'
<1> DEFINE r == call[c]
           new == Attempt(r.does, r.tx, r.start, r.offset + 1, Tried(c))
<1>1. /\ call \in [Caller -> Calls] /\ r \in Calls /\ Reliable(r)
      /\ UNCHANGED <<primary, accepted, network>>
  BY DEF RouterInv, RouterTypeOK, CallsInv, StrategyFails
<1>2. /\ r.start \in Indices /\ r.offset \in Indices /\ r.tx \in 0..MaxBid /\ r.tx >= 1
      /\ r.does \in {"submit", "cancel"}
  BY <1>1 DEF Calls, Reliable
<1>3. /\ Tried(c) \in Seq(Indices) /\ Len(Tried(c)) = r.offset + 1
      /\ InTurn(Tried(c), r.start)
  BY TriedIsOneMore
<1>4. CASE r.offset + 1 < Strategies
  <2>1. call' = [call EXCEPT ![c] = new]
    BY <1>4 DEF StrategyFails
  <2>2. r.offset + 1 \in Indices
    BY <1>2, <1>4, RouterConstants DEF Indices
  <2>3. new \in Calls
    BY <1>2, <1>3, <2>2 DEF Calls, Attempt
  <2>4. call' \in [Caller -> Calls] /\ call'[c] = new
    BY <1>1, <2>1, <2>3
  <2>5. Reliable(call[c])'
    BY <1>2, <2>4 DEF Reliable, Attempt
  <2>6. Walks(call[c])'
    <3>1. /\ call'[c].at = "asking" /\ call'[c].start = r.start
          /\ call'[c].offset = r.offset + 1 /\ call'[c].tried = Tried(c)
      BY <2>4 DEF Attempt
    <3> HIDE DEF new
    <3>2. r.offset + 1 <= Strategies
      BY <1>2, <1>4, RouterConstants DEF Indices
    <3> QED
      BY <1>2, <1>3, <3>1, <3>2 DEF Walks, InTurn
  <2>7. CallsInv'
    <3>1. \A bid \in 0..MaxBid : Standing(bid) => Standing(bid)'
      BY <1>1, StandingKept DEF RouterInv
    <3>2. \A d \in Caller : d # c => call'[d] = call[d]
      BY <1>1, <2>1
    <3> QED
      BY <2>5, <2>6, <3>1, <3>2, OthersKept
  <2> QED
    BY <1>1, <2>4, <2>7 DEF RouterInv, RouterTypeOK, PrimaryHasAccepted,
      network
<1>5. CASE ~(r.offset + 1 < Strategies)
  <2>1. r.offset + 1 = Strategies
    BY <1>2, <1>5, RouterConstants DEF Indices
  <2>2. Return(c, "exhausted") /\ "exhausted" \in Results
    BY <1>5 DEF StrategyFails, Results
  <2> QED
    BY <1>1, <2>1, <2>2, ReturnPreserves
<1> QED
  BY <1>4, <1>5

\* A strategy accepts: it becomes the primary, as one that has accepted.
LEMMA SucceedsPreserves ==
  ASSUME RouterInv, NEW c \in Caller, Succeeds(c), UNCHANGED network,
         call[c].at = "answering", call[c].answer = "ok"
  PROVE  RouterInv'
<1>1. call[c] \in Calls /\ Reliable(call[c])
  BY DEF RouterInv, RouterTypeOK, CallsInv
<1>2. Standing(call[c].tx) /\ "ok" \in Results
  BY <1>1 DEF Reliable, Results
<1>3. call' \in [Caller -> Calls] /\ CallsInv'
  BY <1>2, ReturnIsReliable DEF Succeeds
<1>4. Target(c) \in Indices
  BY <1>1, TurnIsIndex DEF Target, Calls, Indices
<1>5. /\ primary' \in {primary, Target(c)}
      /\ accepted' = accepted \cup {Target(c)}
  BY DEF Succeeds
<1>6. RouterTypeOK'
  BY <1>3, <1>4, <1>5 DEF RouterInv, RouterTypeOK, network
<1>7. PrimaryHasAccepted'
  BY <1>5 DEF RouterInv, PrimaryHasAccepted
<1> QED
  BY <1>3, <1>6, <1>7 DEF RouterInv

\* One step per action of the router, the strategies and the network
LEMMA NextRouterInv == RouterInv /\ [RouterNext]_router_vars => RouterInv'
<1> SUFFICES ASSUME RouterInv, [RouterNext]_router_vars PROVE RouterInv'
  OBVIOUS
<1>1. ASSUME NEW c \in Caller, BeginSubmit(c) \/ BeginCancel(c) PROVE RouterInv'
  BY <1>1, BeginPreserves DEF BeginSubmit, BeginCancel
<1>2. ASSUME NEW c \in Caller, CancelWithout(c) PROVE RouterInv'
  BY <1>2, CancelWithoutPreserves
<1>3. ASSUME NEW c \in Caller, NodeTakes(c) PROVE RouterInv'
  BY <1>3, NodeTakesPreserves
<1>4. ASSUME NEW c \in Caller, SubmitAnswered(c) PROVE RouterInv'
  <2>1. /\ call[c].at = "answering" /\ call[c].at # "idle" /\ UNCHANGED network
        /\ Reliable(call[c])
    BY <1>4 DEF SubmitAnswered, RouterInv, CallsInv
  <2>2. CASE call[c].answer = "ok" /\ Succeeds(c)
    BY <2>1, <2>2, SucceedsPreserves
  <2>3. CASE /\ call[c].answer \in Errors
             /\ Return(c, "retryable") /\ UNCHANGED <<primary, accepted>>
    <3>1. Standing(1) /\ "retryable" \in Results
      BY <2>1, <2>3 DEF Reliable, Results
    <3> QED
      BY <2>1, <2>3, <3>1, ReturnPreserves
  <2> QED
    BY <1>4, <2>2, <2>3 DEF SubmitAnswered
<1>5. ASSUME NEW c \in Caller, CancelAnswered(c) PROVE RouterInv'
  <2>1. /\ call[c].at = "answering" /\ call[c].does = "cancel" /\ call[c].at # "idle"
        /\ UNCHANGED <<primary, accepted, network>> /\ Reliable(call[c])
    BY <1>5 DEF CancelAnswered, RouterInv, CallsInv
  <2>2. CASE call[c].answer = "ok"
    <3>1. Return(c, "cancelled") /\ "cancelled" \in Results /\ Standing(call[c].tx)
      BY <1>5, <2>1, <2>2 DEF CancelAnswered, Results, Reliable
    <3> QED
      BY <2>1, <3>1, ReturnPreserves
  <2>3. CASE call[c].answer \in {"nonce too low", "already known"}
    <3>1. Return(c, "already_mined") /\ "already_mined" \in Results /\ Standing(1)
      BY <1>5, <2>1, <2>3 DEF CancelAnswered, Results, Reliable, Errors
    <3> QED
      BY <2>1, <3>1, ReturnPreserves
  <2>4. CASE call[c].answer \notin {"ok", "nonce too low", "already known"}
    <3>1. Return(c, "exhausted") /\ "exhausted" \in Results
      BY <1>5, <2>4 DEF CancelAnswered, Results
    <3> QED
      BY <2>1, <3>1, ReturnPreserves
  <2> QED
    BY <2>2, <2>3, <2>4
<1>6. ASSUME NEW c \in Caller, Unreachable(c) PROVE RouterInv'
  <2>1. call[c].at # "idle" /\ UNCHANGED network
    BY <1>6 DEF Unreachable
  <2>2. CASE call[c].does = "submit"
    BY <1>6, <2>1, <2>2, FailsPreserves DEF Unreachable
  <2>3. CASE call[c].does # "submit"
    <3>1. /\ Return(c, "exhausted") /\ "exhausted" \in Results
          /\ UNCHANGED <<primary, accepted, network>>
      BY <1>6, <2>3 DEF Unreachable, Results
    <3> QED
      BY <2>1, <2>3, <3>1, ReturnPreserves
  <2> QED
    BY <2>2, <2>3
<1>7. ASSUME NEW c \in Caller, Refused(c) PROVE RouterInv'
  <2>1. /\ Return(c, "terminal") /\ "terminal" \in Results /\ call[c].at # "idle"
        /\ UNCHANGED <<primary, accepted, network>>
    BY <1>7 DEF Refused, Results
  <2> QED
    BY <2>1, ReturnPreserves
<1>8. ASSUME UNCHANGED call, \A bid \in 0..MaxBid : Standing(bid) => Standing(bid)'
      PROVE  CallsInv'
  <2> SUFFICES ASSUME NEW c \in Caller PROVE Reliable(call[c])' /\ Walks(call[c])'
    BY DEF CallsInv
  <2>1. call[c].tx \in 0..MaxBid /\ 1 \in 0..MaxBid /\ Reliable(call[c]) /\ Walks(call[c])
    BY RouterConstants DEF RouterInv, RouterTypeOK, Calls, CallsInv
  <2>2. call'[c] = call[c]
    BY <1>8
  <2> QED
    BY <1>8, <2>1, <2>2 DEF Reliable, Walks, InTurn
<1>9. ASSUME ResetPrimary PROVE RouterInv'
  <2>1. 0 \in Indices /\ primary' = 0 /\ UNCHANGED <<call, accepted, network>>
    BY <1>9, RouterConstants DEF ResetPrimary, Indices
  <2>2. CallsInv'
    BY <1>8, <2>1, StandingKept DEF RouterInv
  <2> QED
    BY <2>1, <2>2 DEF RouterInv, RouterTypeOK, PrimaryHasAccepted, network
<1>10. ASSUME Gossip PROVE RouterInv'
  <2>1. PICK s \in Indices, t \in Indices :
          known[s] > known[t] /\ known' = [known EXCEPT ![t] = known[s]]
    BY <1>10 DEF Gossip
  <2>2. UNCHANGED <<primary, call, accepted, mined>>
    BY <1>10 DEF Gossip
  <2>3. known \in [Indices -> 0..MaxBid] /\ known' \in [Indices -> 0..MaxBid]
    BY <2>1 DEF RouterInv, RouterTypeOK
  <2>4. \A u \in Indices : known'[u] >= known[u] /\ known'[u] \in Nat
    BY <2>1, <2>3, RouterConstants
  <2>5. CallsInv'
    BY <1>8, <2>2, <2>4, StandingKept DEF RouterInv
  <2> QED
    BY <2>2, <2>3, <2>5 DEF RouterInv, RouterTypeOK, PrimaryHasAccepted
<1>11. ASSUME Mine PROVE RouterInv'
  <2>1. /\ mined' # NoBid /\ mined' \in 0..MaxBid
        /\ known' \in [Indices -> 0..MaxBid]
        /\ UNCHANGED <<primary, call, accepted>>
    BY <1>11, RouterConstants DEF Mine, RouterInv, RouterTypeOK, NoBid
  <2>2. CallsInv'
    BY <1>8, <2>1, StandingKept DEF RouterInv
  <2> QED
    BY <2>1, <2>2 DEF RouterInv, RouterTypeOK, PrimaryHasAccepted
<1>12. CASE UNCHANGED router_vars
  <2>1. UNCHANGED <<primary, call, accepted, known, mined, network>>
    BY <1>12 DEF router_vars, network
  <2>2. CallsInv'
    BY <1>8, <2>1, StandingKept DEF RouterInv
  <2> QED
    BY <2>1, <2>2 DEF RouterInv, RouterTypeOK, PrimaryHasAccepted
<1> QED
  BY <1>1, <1>2, <1>3, <1>4, <1>5, <1>6, <1>7, <1>9, <1>10, <1>11,
    <1>12 DEF RouterNext

-----------------------------------------------------------------------------
(* Theorems                                                                *)

\* The router's cell is always an index, and the locals of every call keep
\* their types.
THEOREM RouterTypeCorrect == RouterSpec => []RouterTypeOK
<1>1. RouterInv => RouterTypeOK
  BY DEF RouterInv
<1> QED
  BY <1>1, InitRouterInv, NextRouterInv, PTL DEF RouterSpec

\* submit asks no strategy twice, and every one before it gives up, for any
\* number of strategies and of callers that move the primary.
THEOREM WalkIsComplete == RouterSpec => []AsksEachOnce
<1>1. RouterInv => AsksEachOnce
  <2> SUFFICES ASSUME RouterInv, NEW c \in Caller
               PROVE  /\ IsInjective(call[c].tried)
                      /\ call[c].does = "submit" /\ call[c].result = "exhausted" =>
                           ToSet(call[c].tried) = Indices
    BY DEF AsksEachOnce
  <2>1. call[c] \in Calls /\ Walks(call[c]) /\ Reliable(call[c])
    BY DEF RouterInv, RouterTypeOK, CallsInv
  <2>2. PICK b \in Indices : InTurn(call[c].tried, b)
    BY <2>1 DEF Walks
  <2>3. call[c].tried \in Seq(Indices) /\ Len(call[c].tried) <= Strategies
    BY <2>1 DEF Calls, Walks
  <2>4. call[c].does = "submit" /\ call[c].result = "exhausted" =>
          Len(call[c].tried) = Strategies
    BY <2>1 DEF Walks, Reliable
  <2> QED
    BY <2>2, <2>3, <2>4, TurnsDiffer, LapIsComplete
<1> QED
  BY <1>1, InitRouterInv, NextRouterInv, PTL DEF RouterSpec

\* What submit and cancel answer holds from then on, whichever answers of
\* the nodes are lost on the way.
THEOREM AnswersAreReliable == RouterSpec => []AnswersHold
<1>1. RouterInv => AnswersHold
  BY DEF RouterInv, CallsInv, Reliable, AnswersHold, Standing
<1> QED
  BY <1>1, InitRouterInv, NextRouterInv, PTL DEF RouterSpec

\* A strategy that only ever failed never becomes the primary, however calls
\* that moved it overlap.
THEOREM PrimaryHasProvenItself == RouterSpec => []PrimaryHasAccepted
<1>1. RouterInv => PrimaryHasAccepted
  BY DEF RouterInv
<1> QED
  BY <1>1, InitRouterInv, NextRouterInv, PTL DEF RouterSpec

-----------------------------------------------------------------------------
(***************************************************************************)
(* The signers                                                             *)
(***************************************************************************)

(* Leases                                                                  *)

\* The remainder of the next number is the next remainder.
LEMMA NextRemainder ==
  ASSUME NEW n \in Nat \ {0}, NEW k \in Nat
  PROVE  (k + 1) % n = IF k % n = n - 1 THEN 0 ELSE (k % n) + 1
<1> DEFINE q == k \div n  r == k % n  p == (k + 1) \div n  s == (k + 1) % n
<1>1. /\ q \in Int /\ r \in 0..n-1 /\ k = n * q + r
      /\ p \in Int /\ s \in 0..n-1 /\ k + 1 = n * p + s
  OBVIOUS
<1> DEFINE d == p - q
<1> HIDE DEF q, r, p, s
<1>2. d \in Int /\ n * d = r + 1 - s
  <2>1. n * d = n * p - n * q
    BY <1>1
  <2>2. n * p \in Int /\ n * q \in Int
    BY <1>1
  <2> QED
    BY <1>1, <2>1, <2>2
<1> HIDE DEF d
<1>3. CASE d <= -1
  <2>1. n * d <= -n
    BY <1>2, <1>3
  <2> QED
    BY <1>1, <1>2, <2>1
<1>4. CASE d = 0
  <2>1. s = r + 1
    BY <1>1, <1>2, <1>4
  <2> QED
    BY <1>1, <2>1 DEF r, s
<1>5. CASE d = 1
  <2>1. n * d = n
    BY <1>5
  <2>2. s = r + 1 - n
    BY <1>1, <1>2, <2>1
  <2>3. s = 0 /\ r = n - 1
    BY <1>1, <2>2
  <2> QED
    BY <2>3 DEF r, s
<1>6. CASE d >= 2
  <2>1. n * d >= 2 * n
    BY <1>2, <1>6
  <2> QED
    BY <1>1, <1>2, <2>1
<1> QED
  BY <1>2, <1>3, <1>4, <1>5, <1>6

\* A number below the divisor is its own remainder.
LEMMA SmallRemainder ==
  ASSUME NEW n \in Nat \ {0}, NEW k \in 0..n - 1
  PROVE  k % n = k
<1> DEFINE q == k \div n  r == k % n
<1>1. q \in Int /\ r \in 0..n-1 /\ k = n * q + r
  OBVIOUS
<1> HIDE DEF q, r
<1>2. CASE q <= -1
  <2>1. n * q <= -n
    BY <1>1, <1>2
  <2> QED
    BY <1>1, <2>1
<1>3. CASE q = 0
  BY <1>1, <1>3 DEF r
<1>4. CASE q >= 1
  <2>1. n * q >= n
    BY <1>1, <1>4
  <2> QED
    BY <1>1, <2>1
<1> QED
  BY <1>1, <1>2, <1>3, <1>4

SignerTypes ==
  /\ next_index \in 0..IndexModulus - 1 /\ wraps \in Nat
  /\ leases \in [Signer -> Nat]

\* Full laps: the leases of a signer but the one of the lap at hand
Laps(s) == leases[s] - (IF s < Turn THEN 1 ELSE 0)

\* Invariant: the full laps of two signers differ only by the laps a wrap of
\* the counter cut short.
SignerInv ==
  SignerTypes /\ \A s, t \in Signer : Laps(s) <= Laps(t) + wraps

LEMMA InitSignerInv == SignerInit => SignerInv
<1> SUFFICES ASSUME SignerInit PROVE SignerInv
  OBVIOUS
<1>1. SignerTypes
  BY SignerConstants DEF SignerInit, SignerTypes
<1>2. Turn = 0
  BY SignerConstants DEF SignerInit, Turn
<1>3. \A s \in Signer : Laps(s) = 0
  BY <1>2, SignerConstants DEF SignerInit, Laps, Signer
<1> QED
  BY <1>1, <1>3 DEF SignerInit, SignerInv

LEMMA NextSignerInv == SignerInv /\ [Acquire]_signer_vars => SignerInv'
<1> SUFFICES ASSUME SignerInv, [Acquire]_signer_vars PROVE SignerInv'
  OBVIOUS
<1>1. CASE UNCHANGED signer_vars
  BY <1>1 DEF signer_vars, SignerInv, SignerTypes, Laps, Turn
<1>2. CASE Acquire
  <2>1. /\ Signers \in Nat \ {0} /\ IndexModulus \in Nat \ {0}
        /\ next_index \in 0..IndexModulus - 1 /\ wraps \in Nat /\ leases \in [Signer -> Nat]
        /\ Turn \in Signer /\ Signer = 0..Signers - 1
    BY SignerConstants DEF SignerInv, SignerTypes, Turn, Signer
  <2>2. /\ leases' = [leases EXCEPT ![Turn] = @ + 1]
        /\ next_index' = (next_index + 1) % IndexModulus
        /\ wraps' = IF next_index' = 0 THEN wraps + 1 ELSE wraps
    BY <1>2 DEF Acquire
  <2>3. SignerTypes'
    BY <2>1, <2>2 DEF SignerTypes
  <2>4. \A s \in Signer : /\ leases[s] \in Nat
                          /\ leases'[s] = leases[s] + (IF s = Turn THEN 1 ELSE 0)
    BY <2>1, <2>2
  <2> DEFINE before == [s \in Signer |-> leases[s] - (IF s < Turn THEN 1 ELSE 0)]
             after == [s \in Signer |-> leases'[s] - (IF s < Turn' THEN 1 ELSE 0)]
  <2>5. /\ \A s \in Signer : before[s] \in Int
        /\ \A s, t \in Signer : before[s] <= before[t] + wraps
    BY <2>1, <2>3, <2>4 DEF SignerInv, Laps
  <2>8. (\A s, t \in Signer : after[s] <= after[t] + wraps') => SignerInv'
    BY <2>1, <2>3, <2>4 DEF SignerInv, Laps
  <2>9. wraps \in Nat
    BY <2>1
  <2>6. CASE next_index' = 0
    <3>1. Turn' = 0 /\ wraps' = wraps + 1
      <4>1. 0 % Signers = 0
        BY <2>1, SmallRemainder
      <4> QED
        BY <2>1, <2>2, <2>6, <4>1 DEF Turn
    <3>2. \A s \in Signer : after[s] \in before[s]..(before[s] + 1)
      BY <2>1, <2>4, <3>1
    <3> HIDE DEF before, after
    <3>3. ASSUME NEW s \in Signer, NEW t \in Signer
          PROVE  after[s] <= after[t] + wraps'
      <4>1. before[s] \in Int /\ before[t] \in Int /\ before[s] <= before[t] + wraps
        BY <2>5
      <4> QED
        BY <2>9, <3>1, <3>2, <4>1
    <3> QED
      BY <2>8, <3>3
  <2>7. CASE next_index' # 0
    <3>1. next_index' = next_index + 1 /\ wraps' = wraps
      <4>1. next_index % IndexModulus = next_index
        BY <2>1, SmallRemainder
      <4>2. next_index' = IF next_index % IndexModulus = IndexModulus - 1 THEN 0
                          ELSE (next_index % IndexModulus) + 1
        <5>1. next_index \in Nat /\ IndexModulus \in Nat \ {0}
          BY <2>1
        <5> QED
          BY <2>2, <5>1, NextRemainder
      <4> QED
        BY <2>2, <2>7, <4>1, <4>2
    <3>2. Turn' = IF Turn = Signers - 1 THEN 0 ELSE Turn + 1
      <4>1. next_index \in Nat /\ Signers \in Nat \ {0}
      BY <2>1
    <4> QED
      BY <3>1, <4>1, NextRemainder DEF Turn
    <3> DEFINE lap == IF Turn = Signers - 1 THEN 1 ELSE 0
    <3>3. \A s \in Signer : after[s] = before[s] + lap
      BY <2>1, <2>4, <3>2
    <3> HIDE DEF before, after
    <3>4. ASSUME NEW s \in Signer, NEW t \in Signer
          PROVE  after[s] <= after[t] + wraps'
      <4>1. before[s] \in Int /\ before[t] \in Int /\ before[s] <= before[t] + wraps
        BY <2>5
      <4> QED
        BY <2>9, <3>1, <3>3, <4>1
    <3> QED
      BY <2>8, <3>4
  <2> QED
    BY <2>6, <2>7
<1> QED
  BY <1>1, <1>2

\* Whatever the number of signers and of leases, none has more than one lease
\* more than another, and one more for each wrap of the counter.
THEOREM LeasesAreBalanced == SignerSpec => []LeasesBalanced
<1>1. SignerInv => LeasesBalanced
  <2> SUFFICES ASSUME SignerInv, NEW s \in Signer, NEW t \in Signer
               PROVE  leases[s] <= leases[t] + 1 + wraps
    BY DEF LeasesBalanced
  <2>1. Laps(s) <= Laps(t) + wraps
    BY DEF SignerInv
  <2> QED
    BY <2>1 DEF Laps, SignerInv, SignerTypes
<1> QED
  BY <1>1, InitSignerInv, NextSignerInv, PTL DEF SignerSpec

===============================================================================
