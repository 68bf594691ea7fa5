--------------------------- MODULE SequencerProofs ---------------------------
(***************************************************************************)
(* Proofs about the L2 sequencer: its message queue for any number of      *)
(* callers and messages; what its block producer takes and how its tasks   *)
(* end, for any transactions, limits and handles; and the deposits it      *)
(* reads from L1, for any chain, windows, failures and restarts.           *)
(***************************************************************************)
EXTENDS MessageQueue, DepositBridge, Sequencer, SequenceTheorems, FiniteSetTheorems,
        WellFoundedInduction, TLAPS

-----------------------------------------------------------------------------
(* The message queue *)

\* The part of the state the two properties are about is well typed.
QueueTyped ==
  /\ processed \in [Instances -> SUBSET Messages]
  /\ pc \in [Callers -> {"out", "checked", "pushed"}]
  /\ msg \in [Callers -> Messages]

\* Between calls every message a caller has pushed is noted; during a call the
\* only one that may not be is the one it just pushed.
PushedIsNoted ==
  \A c \in Callers, m \in Messages :
    <<c, m>> \in pushed =>
      m \in processed[InstanceOf(c)] \/ (pc[c] = "pushed" /\ msg[c] = m)

\* What is noted, or about to be, has been pushed into the same instance.
PushedInto(i, m) == \E d \in Callers : InstanceOf(d) = i /\ <<d, m>> \in pushed

NotedWasPushed ==
  /\ \A i \in Instances : \A m \in processed[i] : PushedInto(i, m)
  /\ \A c \in Callers : pc[c] = "pushed" => <<c, msg[c]>> \in pushed

QueueInv == QueueTyped /\ PushedIsNoted /\ PushedOncePerCaller /\ NotedWasPushed /\ RefusedWasQueued

LEMMA InstanceType == \A c \in Callers : InstanceOf(c) \in Instances
BY DEF InstanceOf, Instances

LEMMA QueueInitInv == QueueInit => QueueInv
BY DEF QueueInit, QueueInv, QueueTyped, PushedIsNoted, PushedOncePerCaller, NotedWasPushed, RefusedWasQueued,
   PushedInto

\* A lookup that fails starts a call with a message the caller never pushed;
\* one that succeeds refuses a message that was pushed.
LEMMA LookUpInv ==
  ASSUME QueueInv, NEW c \in Callers, NEW m \in Messages, LookUp(c, m)
  PROVE  QueueInv'
<1> DEFINE i == InstanceOf(c)
<1> USE DEF QueueInv, IsProcessed, ProcessedAfterLookup, LookUp
<1>1. UNCHANGED <<pushed, processed>> /\ msg' = [msg EXCEPT ![c] = m] /\ pc[c] = "out"
  OBVIOUS
<1>2. QueueTyped'
  BY DEF QueueTyped
<1>3. PushedIsNoted'
  BY <1>1 DEF PushedIsNoted, QueueTyped
<1>4. NotedWasPushed'
  BY <1>1 DEF NotedWasPushed, PushedInto, QueueTyped
<1>5. PushedOncePerCaller'
  BY <1>1 DEF PushedOncePerCaller, PushedIsNoted, QueueTyped
<1>6. RefusedWasQueued'
  <2>1. CASE m \in processed[i]
    <3>1. \E d \in Callers : InstanceOf(d) = i /\ <<d, m>> \in pushed
      BY <2>1, InstanceType DEF NotedWasPushed, PushedInto
    <3>2. \A d \in Callers, n \in Messages :
            <<d, n, "err">> \in returned' => <<d, n, "err">> \in returned \/ (d = c /\ n = m)
      BY <2>1
    <3>3. QED
      BY <1>1, <3>1, <3>2 DEF RefusedWasQueued
  <2>2. CASE m \notin processed[i]
    BY <1>1, <2>2 DEF RefusedWasQueued
  <2>3. QED
    BY <2>1, <2>2
<1>7. QED
  BY <1>2, <1>3, <1>4, <1>5, <1>6

LEMMA PushInv ==
  ASSUME QueueInv, NEW c \in Callers, PushBack(c)
  PROVE  QueueInv'
<1> USE DEF QueueInv, PushBack
<1>1. QueueTyped'
  BY DEF QueueTyped
<1>2. PushedIsNoted'
  BY DEF PushedIsNoted, QueueTyped
<1>3. PushedOncePerCaller'
  BY DEF PushedOncePerCaller, QueueTyped
<1>4. NotedWasPushed'
  BY DEF NotedWasPushed, PushedInto, QueueTyped
<1>5. RefusedWasQueued'
  BY DEF RefusedWasQueued
<1>6. QED
  BY <1>1, <1>2, <1>3, <1>4, <1>5

LEMMA MarkInv ==
  ASSUME QueueInv, NEW c \in Callers, MarkProcessed(c)
  PROVE  QueueInv'
<1> USE DEF QueueInv, MarkProcessed
<1>0. InstanceOf(c) \in Instances
  BY InstanceType
<1>1. QueueTyped'
  BY <1>0 DEF QueueTyped
<1>2. PushedIsNoted'
  BY <1>0, InstanceType DEF PushedIsNoted, QueueTyped
<1>3. PushedOncePerCaller'
  BY DEF PushedOncePerCaller, QueueTyped
<1>4. NotedWasPushed'
  BY <1>0 DEF NotedWasPushed, PushedInto, QueueTyped
<1>5. RefusedWasQueued'
  BY DEF RefusedWasQueued
<1>6. QED
  BY <1>1, <1>2, <1>3, <1>4, <1>5

LEMMA QueueNextInv == QueueInv /\ [QueueNext]_queueVars => QueueInv'
<1> SUFFICES ASSUME QueueInv, [QueueNext]_queueVars
             PROVE  QueueInv'
  OBVIOUS
<1>1. CASE UNCHANGED <<processed, pc, msg, pushed, returned>>
  BY <1>1 DEF QueueInv, QueueTyped, PushedIsNoted, PushedOncePerCaller, NotedWasPushed,
     RefusedWasQueued, PushedInto
<1>2. ASSUME NEW l \in Lanes, Dequeue(l)
      PROVE  QueueInv'
  BY <1>1, <1>2 DEF Dequeue
<1>3. CASE UNCHANGED queueVars
  BY <1>1, <1>3 DEF queueVars
<1>4. QED
  BY <1>2, <1>3, LookUpInv, PushInv, MarkInv DEF QueueNext

\* In every reachable state no caller is about to push a message it has pushed
\* before.
THEOREM PushedOnce == QueueSpec => []PushedOncePerCaller
<1>1. QueueInv => PushedOncePerCaller
  BY DEF QueueInv
<1>2. QED
  BY QueueInitInv, QueueNextInv, <1>1, PTL DEF QueueSpec

\* In every reachable state every refused message has been pushed.
THEOREM RefusedQueued == QueueSpec => []RefusedWasQueued
<1>1. QueueInv => RefusedWasQueued
  BY DEF QueueInv
<1>2. QED
  BY QueueInitInv, QueueNextInv, <1>1, PTL DEF QueueSpec

(* The copies of a message *)

LEMMA ConcatSet ==
  ASSUME NEW s \in Seq(Messages), NEW t \in Seq(Messages)
  PROVE  /\ s \o t \in Seq(Messages)
         /\ Len(s \o t) = Len(s) + Len(t)
         /\ ToSet(s \o t) = ToSet(s) \cup ToSet(t)
<1>1. /\ s \o t \in Seq(Messages)
      /\ Len(s \o t) = Len(s) + Len(t) /\ Len(s) \in Nat /\ Len(t) \in Nat
      /\ DOMAIN s = 1 .. Len(s) /\ DOMAIN t = 1 .. Len(t) /\ DOMAIN (s \o t) = 1 .. Len(s \o t)
      /\ \A k \in 1 .. Len(s) + Len(t) : (s \o t)[k] = IF k <= Len(s) THEN s[k] ELSE t[k - Len(s)]
  BY ConcatProperties, LenProperties
<1>2. \A x \in ToSet(s \o t) : x \in ToSet(s) \cup ToSet(t)
  <2> SUFFICES ASSUME NEW k \in 1 .. Len(s) + Len(t)
               PROVE  (s \o t)[k] \in ToSet(s) \cup ToSet(t)
    BY <1>1 DEF ToSet
  <2>1. CASE k <= Len(s)
    BY <1>1, <2>1 DEF ToSet
  <2>2. CASE k > Len(s)
    <3>1. k - Len(s) \in 1 .. Len(t)
      BY <1>1, <2>2
    <3>2. QED
      BY <1>1, <2>2, <3>1 DEF ToSet
  <2>3. QED
    BY <1>1, <2>1, <2>2
<1>3. \A x \in ToSet(s) : x \in ToSet(s \o t)
  <2> SUFFICES ASSUME NEW k \in 1 .. Len(s)
               PROVE  s[k] \in ToSet(s \o t)
    BY <1>1 DEF ToSet
  <2>1. k \in 1 .. Len(s) + Len(t) /\ (s \o t)[k] = s[k]
    BY <1>1
  <2>2. QED
    BY <1>1, <2>1 DEF ToSet
<1>4. \A x \in ToSet(t) : x \in ToSet(s \o t)
  <2> SUFFICES ASSUME NEW k \in 1 .. Len(t)
               PROVE  t[k] \in ToSet(s \o t)
    BY <1>1 DEF ToSet
  <2>1. Len(s) + k \in 1 .. Len(s) + Len(t) /\ (s \o t)[Len(s) + k] = t[k]
    BY <1>1
  <2>2. QED
    BY <1>1, <2>1 DEF ToSet
<1>5. QED
  BY <1>1, <1>2, <1>3, <1>4

LEMMA AppendSet ==
  ASSUME NEW s \in Seq(Messages), NEW m \in Messages
  PROVE  /\ Append(s, m) \in Seq(Messages)
         /\ Len(Append(s, m)) = Len(s) + 1
         /\ ToSet(Append(s, m)) = ToSet(s) \cup {m}
<1>1. <<m>> \in Seq(Messages) /\ Len(<<m>>) = 1 /\ ToSet(<<m>>) = {m}
  BY DEF ToSet
<1>2. Append(s, m) = s \o <<m>>
  BY AppendIsConcat
<1>3. QED
  BY <1>1, <1>2, ConcatSet

LEMMA TailSet ==
  ASSUME NEW s \in Seq(Messages), s # <<>>
  PROVE  /\ Head(s) \in Messages /\ Tail(s) \in Seq(Messages)
         /\ Len(s) = 1 + Len(Tail(s))
         /\ ToSet(s) = {Head(s)} \cup ToSet(Tail(s))
<1>1. /\ Head(s) \in Messages /\ Tail(s) \in Seq(Messages) /\ Len(Tail(s)) = Len(s) - 1
      /\ Len(s) \in Nat /\ Len(Tail(s)) \in Nat
      /\ \A k \in 1 .. Len(Tail(s)) : Tail(s)[k] = s[k + 1]
  BY HeadTailProperties, LenProperties
<1>2. <<Head(s)>> \in Seq(Messages) /\ Len(<<Head(s)>>) = 1 /\ ToSet(<<Head(s)>>) = {Head(s)}
  BY <1>1 DEF ToSet
<1>3. s = <<Head(s)>> \o Tail(s)
  OBVIOUS
<1>4. QED
  BY <1>1, <1>2, <1>3, ConcatSet

\* The types that the counting needs.
LanesTyped ==
  /\ lane \in [Instances -> [Lanes -> Seq(Messages)]]
  /\ handedOut \in [Instances -> Seq(Messages)]
  /\ pushed \in SUBSET (Callers \X Messages)
  /\ IsFiniteSet(pushed)

\* The set and the number of the copies, piece by piece.
LEMMA CopiesInPieces ==
  ASSUME NEW h \in Seq(Messages), NEW d \in Seq(Messages), NEW w \in Seq(Messages), NEW r \in Seq(Messages)
  PROVE  /\ h \o d \o w \o r \in Seq(Messages)
         /\ ToSet(h \o d \o w \o r) = ToSet(h) \cup ToSet(d) \cup ToSet(w) \cup ToSet(r)
         /\ Len(h \o d \o w \o r) = Len(h) + Len(d) + Len(w) + Len(r)
<1>1. h \o d \in Seq(Messages) /\ ToSet(h \o d) = ToSet(h) \cup ToSet(d) /\ Len(h \o d) = Len(h) + Len(d)
  BY ConcatSet
<1>2. /\ (h \o d) \o w \in Seq(Messages)
      /\ ToSet((h \o d) \o w) = ToSet(h) \cup ToSet(d) \cup ToSet(w)
      /\ Len((h \o d) \o w) = Len(h) + Len(d) + Len(w)
  BY <1>1, ConcatSet
<1>3. QED
  BY <1>2, ConcatSet

\* One more in a piece is one more in all.
LEMMA PieceGrows ==
  ASSUME NEW h \in Seq(Messages), NEW d \in Seq(Messages), NEW w \in Seq(Messages), NEW r \in Seq(Messages),
         NEW m \in Messages
  PROVE  /\ ToSet(h \o Append(d, m) \o w \o r) = ToSet(h \o d \o w \o r) \cup {m}
         /\ Len(h \o Append(d, m) \o w \o r) = Len(h \o d \o w \o r) + 1
         /\ ToSet(h \o d \o Append(w, m) \o r) = ToSet(h \o d \o w \o r) \cup {m}
         /\ Len(h \o d \o Append(w, m) \o r) = Len(h \o d \o w \o r) + 1
         /\ ToSet(h \o d \o w \o Append(r, m)) = ToSet(h \o d \o w \o r) \cup {m}
         /\ Len(h \o d \o w \o Append(r, m)) = Len(h \o d \o w \o r) + 1
<1>1. Len(h) \in Nat /\ Len(d) \in Nat /\ Len(w) \in Nat /\ Len(r) \in Nat
  BY LenProperties
<1>2. /\ ToSet(h \o d \o w \o r) = ToSet(h) \cup ToSet(d) \cup ToSet(w) \cup ToSet(r)
      /\ Len(h \o d \o w \o r) = Len(h) + Len(d) + Len(w) + Len(r)
  BY CopiesInPieces
<1>3. /\ ToSet(h \o Append(d, m) \o w \o r) = ToSet(h \o d \o w \o r) \cup {m}
      /\ Len(h \o Append(d, m) \o w \o r) = Len(h \o d \o w \o r) + 1
  <2> DEFINE more == Append(d, m)
  <2>1. more \in Seq(Messages)
    BY AppendSet
  <2>2. Len(more) = Len(d) + 1 /\ ToSet(more) = ToSet(d) \cup {m}
    BY AppendSet
  <2> HIDE DEF more
  <2>3. /\ ToSet(h \o more \o w \o r) = ToSet(h) \cup ToSet(more) \cup ToSet(w) \cup ToSet(r)
        /\ Len(h \o more \o w \o r) = Len(h) + Len(more) + Len(w) + Len(r)
    BY <2>1, CopiesInPieces
  <2>4. ToSet(h \o more \o w \o r) = ToSet(h \o d \o w \o r) \cup {m}
    BY <1>2, <2>2, <2>3
  <2>5. Len(h \o more \o w \o r) = Len(h \o d \o w \o r) + 1
    BY <1>1, <1>2, <2>2, <2>3
  <2>6. QED
    BY <2>4, <2>5 DEF more
<1>4. /\ ToSet(h \o d \o Append(w, m) \o r) = ToSet(h \o d \o w \o r) \cup {m}
      /\ Len(h \o d \o Append(w, m) \o r) = Len(h \o d \o w \o r) + 1
  <2> DEFINE more == Append(w, m)
  <2>1. more \in Seq(Messages)
    BY AppendSet
  <2>2. Len(more) = Len(w) + 1 /\ ToSet(more) = ToSet(w) \cup {m}
    BY AppendSet
  <2> HIDE DEF more
  <2>3. /\ ToSet(h \o d \o more \o r) = ToSet(h) \cup ToSet(d) \cup ToSet(more) \cup ToSet(r)
        /\ Len(h \o d \o more \o r) = Len(h) + Len(d) + Len(more) + Len(r)
    BY <2>1, CopiesInPieces
  <2>4. ToSet(h \o d \o more \o r) = ToSet(h \o d \o w \o r) \cup {m}
    BY <1>2, <2>2, <2>3
  <2>5. Len(h \o d \o more \o r) = Len(h \o d \o w \o r) + 1
    BY <1>1, <1>2, <2>2, <2>3
  <2>6. QED
    BY <2>4, <2>5 DEF more
<1>5. /\ ToSet(h \o d \o w \o Append(r, m)) = ToSet(h \o d \o w \o r) \cup {m}
      /\ Len(h \o d \o w \o Append(r, m)) = Len(h \o d \o w \o r) + 1
  <2> DEFINE more == Append(r, m)
  <2>1. more \in Seq(Messages)
    BY AppendSet
  <2>2. Len(more) = Len(r) + 1 /\ ToSet(more) = ToSet(r) \cup {m}
    BY AppendSet
  <2> HIDE DEF more
  <2>3. /\ ToSet(h \o d \o w \o more) = ToSet(h) \cup ToSet(d) \cup ToSet(w) \cup ToSet(more)
        /\ Len(h \o d \o w \o more) = Len(h) + Len(d) + Len(w) + Len(more)
    BY <2>1, CopiesInPieces
  <2>4. ToSet(h \o d \o w \o more) = ToSet(h \o d \o w \o r) \cup {m}
    BY <1>2, <2>2, <2>3
  <2>5. Len(h \o d \o w \o more) = Len(h \o d \o w \o r) + 1
    BY <1>1, <1>2, <2>2, <2>3
  <2>6. QED
    BY <2>4, <2>5 DEF more
<1>6. QED
  BY <1>3, <1>4, <1>5

\* The oldest of a piece goes to the end of the first piece.
LEMMA DepositMoves ==
  ASSUME NEW h \in Seq(Messages), NEW d \in Seq(Messages), NEW w \in Seq(Messages), NEW r \in Seq(Messages),
         d # <<>>
  PROVE  /\ ToSet(Append(h, Head(d)) \o Tail(d) \o w \o r) = ToSet(h \o d \o w \o r)
         /\ Len(Append(h, Head(d)) \o Tail(d) \o w \o r) = Len(h \o d \o w \o r)
<1> DEFINE m == Head(d)
           rest == Tail(d)
           more == Append(h, m)
<1>1. Len(h) \in Nat /\ Len(d) \in Nat /\ Len(w) \in Nat /\ Len(r) \in Nat
  BY LenProperties
<1>2. /\ ToSet(h \o d \o w \o r) = ToSet(h) \cup ToSet(d) \cup ToSet(w) \cup ToSet(r)
      /\ Len(h \o d \o w \o r) = Len(h) + Len(d) + Len(w) + Len(r)
  BY CopiesInPieces
<1>3. m \in Messages /\ rest \in Seq(Messages)
  BY TailSet
<1>4. Len(d) = 1 + Len(rest) /\ Len(rest) \in Nat /\ ToSet(d) = {m} \cup ToSet(rest)
  BY <1>3, TailSet, LenProperties
<1>5. more \in Seq(Messages)
  BY <1>3, AppendSet
<1>6. Len(more) = Len(h) + 1 /\ ToSet(more) = ToSet(h) \cup {m}
  BY <1>3, AppendSet
<1> HIDE DEF m, rest, more
<1>7. /\ ToSet(more \o rest \o w \o r) = ToSet(more) \cup ToSet(rest) \cup ToSet(w) \cup ToSet(r)
      /\ Len(more \o rest \o w \o r) = Len(more) + Len(rest) + Len(w) + Len(r)
  BY <1>3, <1>5, CopiesInPieces
<1>8. ToSet(more \o rest \o w \o r) = ToSet(h \o d \o w \o r)
  BY <1>2, <1>4, <1>6, <1>7
<1>9. Len(more \o rest \o w \o r) = Len(h \o d \o w \o r)
  BY <1>1, <1>2, <1>4, <1>6, <1>7
<1>10. QED
  BY <1>8, <1>9 DEF m, rest, more

LEMMA WithdrawalMoves ==
  ASSUME NEW h \in Seq(Messages), NEW d \in Seq(Messages), NEW w \in Seq(Messages), NEW r \in Seq(Messages),
         w # <<>>
  PROVE  /\ ToSet(Append(h, Head(w)) \o d \o Tail(w) \o r) = ToSet(h \o d \o w \o r)
         /\ Len(Append(h, Head(w)) \o d \o Tail(w) \o r) = Len(h \o d \o w \o r)
<1> DEFINE m == Head(w)
           rest == Tail(w)
           more == Append(h, m)
<1>1. Len(h) \in Nat /\ Len(d) \in Nat /\ Len(w) \in Nat /\ Len(r) \in Nat
  BY LenProperties
<1>2. /\ ToSet(h \o d \o w \o r) = ToSet(h) \cup ToSet(d) \cup ToSet(w) \cup ToSet(r)
      /\ Len(h \o d \o w \o r) = Len(h) + Len(d) + Len(w) + Len(r)
  BY CopiesInPieces
<1>3. m \in Messages /\ rest \in Seq(Messages)
  BY TailSet
<1>4. Len(w) = 1 + Len(rest) /\ Len(rest) \in Nat /\ ToSet(w) = {m} \cup ToSet(rest)
  BY <1>3, TailSet, LenProperties
<1>5. more \in Seq(Messages)
  BY <1>3, AppendSet
<1>6. Len(more) = Len(h) + 1 /\ ToSet(more) = ToSet(h) \cup {m}
  BY <1>3, AppendSet
<1> HIDE DEF m, rest, more
<1>7. /\ ToSet(more \o d \o rest \o r) = ToSet(more) \cup ToSet(d) \cup ToSet(rest) \cup ToSet(r)
      /\ Len(more \o d \o rest \o r) = Len(more) + Len(d) + Len(rest) + Len(r)
  BY <1>3, <1>5, CopiesInPieces
<1>8. ToSet(more \o d \o rest \o r) = ToSet(h \o d \o w \o r)
  BY <1>2, <1>4, <1>6, <1>7
<1>9. Len(more \o d \o rest \o r) = Len(h \o d \o w \o r)
  BY <1>1, <1>2, <1>4, <1>6, <1>7
<1>10. QED
  BY <1>8, <1>9 DEF m, rest, more

CopiesMatch(i) ==
  /\ ToSet(Copies(i)) = {call[2] : call \in CallsInto(i)}
  /\ Len(Copies(i)) = Cardinality(CallsInto(i))

LEMMA PieceTypes ==
  ASSUME LanesTyped, NEW i \in Instances
  PROVE  /\ handedOut[i] \in Seq(Messages)
         /\ \A l \in Lanes : lane[i][l] \in Seq(Messages)
         /\ {"deposits", "withdrawals", "stateRoots"} = Lanes
BY DEF LanesTyped, Lanes

LEMMA CopiesInit ==
  ASSUME QueueInit
  PROVE  LanesTyped /\ CopiesAreCalls
<1>1. LanesTyped
  BY FS_EmptySet DEF QueueInit, LanesTyped
<1>2. SUFFICES ASSUME NEW i \in Instances
               PROVE  CopiesMatch(i)
  BY <1>1 DEF CopiesAreCalls, CopiesMatch
<1>3. /\ handedOut[i] = <<>> /\ lane[i]["deposits"] = <<>>
      /\ lane[i]["withdrawals"] = <<>> /\ lane[i]["stateRoots"] = <<>>
  BY DEF QueueInit, Lanes
<1>4. CallsInto(i) = {} /\ Cardinality({}) = 0
  BY FS_EmptySet DEF QueueInit, CallsInto
<1>5. ToSet(<<>>) = {} /\ Len(<<>>) = 0
  BY DEF ToSet
<1>6. Copies(i) = <<>>
  BY <1>3 DEF Copies
<1>7. {call[2] : call \in CallsInto(i)} = {}
  BY <1>4
<1>8. QED
  BY <1>4, <1>5, <1>6, <1>7 DEF CopiesMatch

\* A push adds one copy, of the message of one call that was not there before.
LEMMA CopiesPushed ==
  ASSUME QueueInv, LanesTyped, CopiesAreCalls, NEW c \in Callers, PushBack(c)
  PROVE  LanesTyped' /\ CopiesAreCalls'
<1> DEFINE i == InstanceOf(c)
           m == msg[c]
           l == LaneOf(m)
           call == <<c, m>>
<1>1. i \in Instances /\ m \in Messages /\ l \in Lanes
  BY InstanceType DEF QueueInv, QueueTyped, LaneOf, Lanes
<1>2. /\ lane' = [lane EXCEPT ![i][l] = Append(@, m)] /\ pushed' = pushed \cup {call}
      /\ handedOut' = handedOut /\ call \notin pushed
  BY DEF PushBack, QueueInv, PushedOncePerCaller
<1>3. /\ Append(lane[i][l], m) \in Seq(Messages)
      /\ Len(Append(lane[i][l], m)) = Len(lane[i][l]) + 1
      /\ ToSet(Append(lane[i][l], m)) = ToSet(lane[i][l]) \cup {m}
  BY <1>1, PieceTypes, AppendSet
<1>4. LanesTyped'
  <2>1. lane' \in [Instances -> [Lanes -> Seq(Messages)]]
    BY <1>1, <1>2, <1>3 DEF LanesTyped
  <2>2. IsFiniteSet(pushed \cup {call})
    BY FS_AddElement DEF LanesTyped
  <2>3. pushed' \in SUBSET (Callers \X Messages)
    BY <1>1, <1>2 DEF LanesTyped
  <2>4. QED
    BY <1>2, <2>1, <2>2, <2>3 DEF LanesTyped
<1>5. SUFFICES ASSUME NEW j \in Instances
               PROVE  CopiesMatch(j)'
  BY <1>4 DEF CopiesAreCalls, CopiesMatch
<1>6. CopiesMatch(j)
  BY DEF CopiesAreCalls, CopiesMatch
<1>7. CASE j # i
  <2>1. Copies(j)' = Copies(j)
    BY <1>1, <1>2, <1>7 DEF Copies, LanesTyped
  <2>2. CallsInto(j)' = CallsInto(j)
    BY <1>2, <1>7 DEF CallsInto
  <2>3. QED
    BY <1>6, <2>1, <2>2 DEF CopiesMatch
<1>8. CASE j = i
  <2>1. CallsInto(i)' = CallsInto(i) \cup {call} /\ call \notin CallsInto(i)
    BY <1>2 DEF CallsInto
  <2>2. IsFiniteSet(CallsInto(i))
    BY FS_Subset DEF CallsInto, LanesTyped
  <2>3. Cardinality(CallsInto(i)') = Cardinality(CallsInto(i)) + 1
    BY <2>1, <2>2, FS_AddElement
  <2>4. {p[2] : p \in CallsInto(i)'} = {p[2] : p \in CallsInto(i)} \cup {m}
    BY <2>1
  <2>5. \A k \in Lanes : lane'[i][k] = IF k = l THEN Append(lane[i][k], m) ELSE lane[i][k]
    BY <1>1, <1>2 DEF LanesTyped
  <2>6. ToSet(Copies(i)') = ToSet(Copies(i)) \cup {m} /\ Len(Copies(i)') = Len(Copies(i)) + 1
    <3> DEFINE h == handedOut[i]
               d == lane[i]["deposits"]
               w == lane[i]["withdrawals"]
               r == lane[i]["stateRoots"]
    <3>1. h \in Seq(Messages) /\ d \in Seq(Messages) /\ w \in Seq(Messages) /\ r \in Seq(Messages)
      BY <1>1, PieceTypes
    <3>2. Copies(i) = h \o d \o w \o r
      BY DEF Copies
    <3>3. CASE l = "deposits"
      <4>1. Copies(i)' = h \o Append(d, m) \o w \o r
        BY <1>2, <2>5, <3>3 DEF Copies, Lanes
      <4> HIDE DEF h, d, w, r
      <4>2. QED
        BY <1>1, <3>1, <3>2, <4>1, PieceGrows
    <3>4. CASE l = "withdrawals"
      <4>1. Copies(i)' = h \o d \o Append(w, m) \o r
        BY <1>2, <2>5, <3>4 DEF Copies, Lanes
      <4> HIDE DEF h, d, w, r
      <4>2. QED
        BY <1>1, <3>1, <3>2, <4>1, PieceGrows
    <3>5. CASE l = "stateRoots"
      <4>1. Copies(i)' = h \o d \o w \o Append(r, m)
        BY <1>2, <2>5, <3>5 DEF Copies, Lanes
      <4> HIDE DEF h, d, w, r
      <4>2. QED
        BY <1>1, <3>1, <3>2, <4>1, PieceGrows
    <3>6. QED
      BY <1>1, <3>3, <3>4, <3>5 DEF Lanes
  <2>7. QED
    BY <1>6, <1>8, <2>3, <2>4, <2>6 DEF CopiesMatch
<1>9. QED
  BY <1>7, <1>8

\* A dequeue takes the oldest of a lane to those that were handed out.
LEMMA CopiesDequeued ==
  ASSUME LanesTyped, CopiesAreCalls, NEW l \in Lanes, Dequeue(l)
  PROVE  LanesTyped' /\ CopiesAreCalls'
<1> DEFINE i == "sequencer"
           m == Head(lane[i][l])
<1>1. /\ i \in Instances /\ lane[i][l] # <<>> /\ l \in {"deposits", "withdrawals"}
      /\ lane' = [lane EXCEPT ![i][l] = Tail(@)] /\ pushed' = pushed
      /\ handedOut' = [handedOut EXCEPT ![i] = Append(@, m)]
  BY DEF Dequeue, DequeuedLanes, Popped, Instances
<1>2. /\ m \in Messages /\ Tail(lane[i][l]) \in Seq(Messages)
      /\ Len(lane[i][l]) = 1 + Len(Tail(lane[i][l]))
      /\ ToSet(lane[i][l]) = {m} \cup ToSet(Tail(lane[i][l]))
  BY <1>1, PieceTypes, TailSet
<1>3. /\ Append(handedOut[i], m) \in Seq(Messages)
      /\ Len(Append(handedOut[i], m)) = Len(handedOut[i]) + 1
      /\ ToSet(Append(handedOut[i], m)) = ToSet(handedOut[i]) \cup {m}
  BY <1>1, <1>2, PieceTypes, AppendSet
<1>4. LanesTyped'
  <2>1. lane' \in [Instances -> [Lanes -> Seq(Messages)]]
    BY <1>1, <1>2 DEF LanesTyped
  <2>2. handedOut' \in [Instances -> Seq(Messages)]
    BY <1>1, <1>3 DEF LanesTyped
  <2>3. QED
    BY <1>1, <2>1, <2>2 DEF LanesTyped
<1>5. SUFFICES ASSUME NEW j \in Instances
               PROVE  CopiesMatch(j)'
  BY <1>4 DEF CopiesAreCalls, CopiesMatch
<1>6. CopiesMatch(j) /\ CallsInto(j)' = CallsInto(j)
  BY <1>1 DEF CopiesAreCalls, CopiesMatch, CallsInto
<1>7. CASE j # i
  <2>1. Copies(j)' = Copies(j)
    BY <1>1, <1>7 DEF Copies, LanesTyped
  <2>2. QED
    BY <1>6, <2>1 DEF CopiesMatch
<1>8. CASE j = i
  <2>1. \A k \in Lanes : lane'[i][k] = IF k = l THEN Tail(lane[i][k]) ELSE lane[i][k]
    BY <1>1 DEF LanesTyped
  <2>2. handedOut'[i] = Append(handedOut[i], m)
    BY <1>1 DEF LanesTyped
  <2>3. ToSet(Copies(i)') = ToSet(Copies(i)) /\ Len(Copies(i)') = Len(Copies(i))
    <3> DEFINE h == handedOut[i]
               d == lane[i]["deposits"]
               w == lane[i]["withdrawals"]
               r == lane[i]["stateRoots"]
    <3>1. h \in Seq(Messages) /\ d \in Seq(Messages) /\ w \in Seq(Messages) /\ r \in Seq(Messages)
      BY <1>1, PieceTypes
    <3>2. Copies(i) = h \o d \o w \o r
      BY DEF Copies
    <3>3. CASE l = "deposits"
      <4>1. Copies(i)' = Append(h, Head(d)) \o Tail(d) \o w \o r
        BY <2>1, <2>2, <3>3 DEF Copies, Lanes
      <4>2. d # <<>>
        BY <1>1, <3>3
      <4> HIDE DEF h, d, w, r
      <4>3. /\ ToSet(Append(h, Head(d)) \o Tail(d) \o w \o r) = ToSet(h \o d \o w \o r)
            /\ Len(Append(h, Head(d)) \o Tail(d) \o w \o r) = Len(h \o d \o w \o r)
        BY <3>1, <4>2, DepositMoves
      <4>4. QED
        BY <3>2, <4>1, <4>3
    <3>4. CASE l = "withdrawals"
      <4>1. Copies(i)' = Append(h, Head(w)) \o d \o Tail(w) \o r
        BY <2>1, <2>2, <3>4 DEF Copies, Lanes
      <4>2. w # <<>>
        BY <1>1, <3>4
      <4> HIDE DEF h, d, w, r
      <4>3. /\ ToSet(Append(h, Head(w)) \o d \o Tail(w) \o r) = ToSet(h \o d \o w \o r)
            /\ Len(Append(h, Head(w)) \o d \o Tail(w) \o r) = Len(h \o d \o w \o r)
        BY <3>1, <4>2, WithdrawalMoves
      <4>4. QED
        BY <3>2, <4>1, <4>3
    <3>5. QED
      BY <1>1, <3>3, <3>4
  <2>4. QED
    BY <1>6, <1>8, <2>3 DEF CopiesMatch
<1>9. QED
  BY <1>7, <1>8

CopiesInv == LanesTyped /\ CopiesAreCalls

LEMMA CopiesNextInv == QueueInv /\ CopiesInv /\ [QueueNext]_queueVars => CopiesInv'
<1> SUFFICES ASSUME QueueInv, CopiesInv, [QueueNext]_queueVars
             PROVE  CopiesInv'
  OBVIOUS
<1>1. CASE UNCHANGED <<lane, pushed, handedOut>>
  <2>1. \A i : Copies(i)' = Copies(i) /\ CallsInto(i)' = CallsInto(i)
    BY <1>1 DEF Copies, CallsInto
  <2>2. QED
    BY <1>1, <2>1 DEF CopiesInv, LanesTyped, CopiesAreCalls
<1>2. ASSUME NEW c \in Callers, PushBack(c)
      PROVE  CopiesInv'
  BY <1>2, CopiesPushed DEF CopiesInv
<1>3. ASSUME NEW l \in Lanes, Dequeue(l)
      PROVE  CopiesInv'
  BY <1>3, CopiesDequeued DEF CopiesInv
<1>4. ASSUME NEW c \in Callers, NEW m \in Messages, LookUp(c, m)
      PROVE  CopiesInv'
  BY <1>1, <1>4 DEF LookUp
<1>5. ASSUME NEW c \in Callers, MarkProcessed(c)
      PROVE  CopiesInv'
  BY <1>1, <1>5 DEF MarkProcessed
<1>6. QED
  BY <1>1, <1>2, <1>3, <1>4, <1>5 DEF QueueNext, queueVars

LEMMA CopiesInvHolds == QueueSpec => []CopiesInv
<1>1. QueueInit => CopiesInv
  BY CopiesInit DEF CopiesInv
<1>2. QED
  BY <1>1, QueueInitInv, QueueNextInv, CopiesNextInv, PTL DEF QueueSpec

\* In every reachable state an instance has one copy for each call that pushed into
\* it, however the callers and the two consumers interleave.
THEOREM CopiesCounted == QueueSpec => []CopiesAreCalls
<1>1. CopiesInv => CopiesAreCalls
  BY DEF CopiesInv
<1>2. QED
  BY <1>1, CopiesInvHolds, PTL

LoneCaller(i) == \A c, d \in Callers : InstanceOf(c) = i /\ InstanceOf(d) = i => c = d

\* An instance that only one thread enqueues into, as the poller alone does into the
\* sequencer's, never has a message twice: it takes two threads, with both their
\* lookups before either's note, to break NoDuplicates.
THEOREM LoneCallerHasNoDuplicates ==
  QueueSpec => [](\A i \in Instances : LoneCaller(i) => IsInjective(Copies(i)))
<1>1. CopiesInv => \A i \in Instances : LoneCaller(i) => IsInjective(Copies(i))
  <2> SUFFICES ASSUME CopiesInv, NEW i \in Instances, LoneCaller(i)
               PROVE  IsInjective(Copies(i))
    OBVIOUS
  <2> DEFINE s == Copies(i)
             calls == CallsInto(i)
             values == {p[2] : p \in calls}
  <2>1. IsFiniteSet(calls) /\ \A p \in calls : p \in Callers \X Messages /\ InstanceOf(p[1]) = i
    BY FS_Subset DEF CopiesInv, LanesTyped, CallsInto
  <2>2. s \in Seq(Messages) /\ ToSet(s) = values /\ Len(s) = Cardinality(calls)
    BY PieceTypes, CopiesInPieces DEF CopiesInv, CopiesAreCalls, Copies
  <2>3. Cardinality(calls) = Cardinality(values) /\ IsFiniteSet(values)
    <3> DEFINE f == [p \in calls |-> p[2]]
    <3>1. f \in Surjection(calls, values)
      BY DEF Surjection
    <3>2. f \in Injection(calls, values)
      <4>1. \A p, q \in calls : p[2] = q[2] => p = q
        BY <2>1 DEF LoneCaller
      <4>2. QED
        BY <4>1 DEF Injection, IsInjective
    <3>3. QED
      BY <2>1, <3>1, <3>2, FS_Surjection
  <2>4. IsFiniteSet(1 .. Len(s)) /\ Cardinality(1 .. Len(s)) = Len(s) /\ DOMAIN s = 1 .. Len(s)
    BY <2>2, FS_Interval, LenProperties
  <2>5. s \in Surjection(1 .. Len(s), values)
    BY <2>2, <2>4, LenProperties DEF ToSet, Surjection
  <2>6. s \in Injection(1 .. Len(s), values)
    BY <2>2, <2>3, <2>4, <2>5, FS_Surjection
  <2>7. QED
    BY <2>4, <2>6 DEF Injection, IsInjective
<1>2. QED
  BY <1>1, CopiesInvHolds, PTL

-----------------------------------------------------------------------------
(* The tasks and their owners *)

\* While shutdown waits, the tasks before the one it waits for have ended, and
\* when it is back all have.  Nothing starts a task again.
EndedInTurn ==
  /\ sequencer.state = "held" => sequencer.at = 1
  /\ sequencer.state = "awaiting" => sequencer.at <= 4
  /\ sequencer.state = "closed" => sequencer.at = 5
  /\ sequencer.state \in {"awaiting", "closed"} =>
       \A i \in 1 .. 4 : i < sequencer.at => task[TaskOrder[i]] = "stopped"

\* A handle signals the second to the fourth task.
SignalsInTurn ==
  \A h \in Handles :
    /\ handle[h].state \in {"none", "held"} => handle[h].at = 2
    /\ handle[h].state = "signalling" => handle[h].at \in 2 .. 4

TasksInv == TasksTypeOK /\ EndedInTurn /\ SignalsInTurn

LEMMA TasksInitInv == TasksInit => TasksInv
BY TasksAssumption
   DEF TasksInit, TasksInv, TasksTypeOK, Owner, EndedInTurn, SignalsInTurn, Tasks, TaskOrder

LEMMA OrderedTasks == /\ Tasks = {"producer", "submitter", "poller", "processor"}
                      /\ \A i \in 1 .. 4 : TaskOrder[i] \in Tasks
                      /\ \A t \in Tasks : \E i \in 1 .. 4 : TaskOrder[i] = t
                      /\ Len(TaskOrder) = 4
BY DEF Tasks, TaskOrder

\* A timer that fires, a handler that ends and a loop that is left leave the
\* stopped tasks stopped.
LEMMA TaskStepInv ==
  ASSUME TasksInv, NEW t \in Tasks, Tick(t) \/ Finish(t) \/ Stop(t)
  PROVE  TasksInv'
<1>1. TasksTypeOK'
  BY DEF TasksInv, TasksTypeOK, Tick, Finish, Stop
<1>2. EndedInTurn'
  BY OrderedTasks DEF TasksInv, TasksTypeOK, EndedInTurn, Tick, Finish, Stop
<1>3. SignalsInTurn'
  BY DEF TasksInv, SignalsInTurn, Tick, Finish, Stop
<1>4. QED
  BY <1>1, <1>2, <1>3 DEF TasksInv

LEMMA ShutdownInv ==
  ASSUME TasksInv, ShutdownSequencer
  PROVE  TasksInv'
<1> USE DEF TasksInv, ShutdownSequencer, MaySend, Delivered
<1>1. "producer" \in Tasks
  BY OrderedTasks
<1>2. TasksTypeOK'
  BY <1>1 DEF TasksTypeOK, Owner
<1>3. EndedInTurn'
  BY DEF EndedInTurn, TasksTypeOK, Owner
<1>4. SignalsInTurn'
  BY DEF SignalsInTurn
<1>5. QED
  BY <1>2, <1>3, <1>4

\* The task awaited has ended, so that the next one can be awaited.
LEMMA AwaitInv ==
  ASSUME TasksInv, AwaitTask
  PROVE  TasksInv'
<1> USE DEF TasksInv, AwaitTask
<1>1. sequencer.at \in 1 .. 4 /\ Awaited = 4
  BY OrderedTasks DEF TasksTypeOK, Owner, EndedInTurn, Awaited
<1>2. TasksTypeOK'
  BY <1>1 DEF TasksTypeOK, Owner
<1>3. EndedInTurn'
  BY <1>1 DEF EndedInTurn
<1>4. SignalsInTurn'
  BY DEF SignalsInTurn
<1>5. QED
  BY <1>2, <1>3, <1>4

LEMMA DropSequencerInv ==
  ASSUME TasksInv, DropSequencer
  PROVE  TasksInv'
BY DEF DropSequencer, TasksInv, TasksTypeOK, Owner, EndedInTurn, SignalsInTurn

LEMMA HandleInv ==
  ASSUME TasksInv, NEW h \in Handles, ShutdownHandle(h) \/ DropHandle(h)
  PROVE  TasksInv'
<1> USE DEF TasksInv, ShutdownHandle, DropHandle
<1>1. TasksTypeOK'
  BY DEF TasksTypeOK, Owner
<1>2. EndedInTurn'
  BY DEF EndedInTurn
<1>3. SignalsInTurn'
  BY DEF SignalsInTurn, TasksTypeOK, Owner
<1>4. QED
  BY <1>1, <1>2, <1>3

LEMMA CloneInv ==
  ASSUME TasksInv, NEW h \in Handles, NEW g \in Handles, CloneHandle(h, g)
  PROVE  TasksInv'
<1> USE DEF TasksInv, CloneHandle
<1>1. TasksTypeOK'
  BY DEF TasksTypeOK, Owner
<1>2. EndedInTurn'
  BY DEF EndedInTurn
<1>3. SignalsInTurn'
  BY DEF SignalsInTurn, TasksTypeOK, Owner
<1>4. QED
  BY <1>1, <1>2, <1>3

LEMMA SignalInv ==
  ASSUME TasksInv, NEW h \in Handles, Signal(h)
  PROVE  TasksInv'
<1> USE DEF TasksInv, Signal, MaySend, Delivered
<1>1. handle[h].at \in 2 .. 4 /\ TaskOrder[handle[h].at] \in Tasks
  BY OrderedTasks DEF SignalsInTurn
<1>2. TasksTypeOK'
  BY <1>1 DEF TasksTypeOK, Owner
<1>3. EndedInTurn'
  BY DEF EndedInTurn
<1>4. SignalsInTurn'
  BY <1>1 DEF SignalsInTurn, TasksTypeOK, Owner
<1>5. QED
  BY <1>2, <1>3, <1>4

LEMMA TasksStepInv == TasksInv /\ [TasksStep]_taskVars => TasksInv'
<1>1. TasksInv /\ UNCHANGED taskVars => TasksInv'
  BY DEF TasksInv, TasksTypeOK, EndedInTurn, SignalsInTurn, taskVars
<1>2. QED
  BY <1>1, TaskStepInv, ShutdownInv, AwaitInv, DropSequencerInv, HandleInv, CloneInv, SignalInv
     DEF TasksStep, Owners

LEMMA TasksInvCloses == TasksInv => ClosedMeansStopped
BY OrderedTasks DEF TasksInv, EndedInTurn, ClosedMeansStopped

\* Theorem: the sequencer implements the tasks and their owners: whatever the
\* handlers do and whoever hands in transactions, the tasks start and end as they
\* do by themselves.
THEOREM SequencerImplementsTasks == Spec => TasksSpec
<1>1. Init => TasksInit
  BY DEF Init
<1>2. [Next]_vars => [TasksStep]_taskVars
  BY DEF Next, vars, TasksStep, HandIn, RunHandler
<1>3. QED
  BY <1>1, <1>2, PTL DEF Spec, TasksSpec

\* Theorem: after a shutdown that has returned no task runs (ClosedMeansStopped),
\* for any number of handles and whatever their owners do with them.
THEOREM ClosedStopped == Spec => []ClosedMeansStopped
<1>1. TasksSpec => []ClosedMeansStopped
  BY TasksInitInv, TasksStepInv, TasksInvCloses, PTL DEF TasksSpec
<1>2. QED
  BY <1>1, SequencerImplementsTasks, PTL

-----------------------------------------------------------------------------
(* The block producer *)

\* What happens to the pending list, whoever does it.
ProducerStep == (\E tx \in Txs : AddTransaction(tx)) \/ ProduceBlock

\* The cuts stay inside what is included, the last one at its end, and between
\* two cuts is a block that passed the comparisons of produce_block.
CutsInside ==
  /\ \A i \in DOMAIN cuts : cuts[i] <= Len(included)
  /\ Len(included) = IF cuts = <<>> THEN 0 ELSE cuts[Len(cuts)]

Passed(txs) ==
  /\ Len(txs) <= MaxBlockSize
  /\ \A k \in 1 .. Len(txs) : TotalGas(SubSeq(txs, 1, k)) % Word <= MaxBlockGas

BlocksPassed == \A i \in DOMAIN cuts : Passed(Produced(i))

ProducerInv ==
  /\ ProducerTypeOK
  /\ included \o pending = submitted
  /\ CutsInside
  /\ BlocksPassed

LEMMA ProducerInitInv == ProducerInit => ProducerInv
BY ProducerAssumption
   DEF ProducerInit, ProducerInv, ProducerTypeOK, CutsInside, BlocksPassed

LEMMA Regroup == \A s, t, u \in Seq(Txs) : (s \o t) \o u = s \o (t \o u)
BY ConcatAssociative

LEMMA AddInv ==
  ASSUME ProducerInv, NEW tx \in Txs, AddTransaction(tx)
  PROVE  ProducerInv'
<1>0. ProducerTypeOK =>
        \A last \in Seq(Txs) : (included \o pending) \o last = included \o (pending \o last)
  BY Regroup DEF ProducerTypeOK
<1> USE ProducerAssumption DEF ProducerInv, AddTransaction
<1>1. ProducerTypeOK'
  BY AppendProperties DEF ProducerTypeOK
<1>2. (included \o pending = submitted)'
  <2> DEFINE last == <<tx>>
  <2>1. included \in Seq(Txs) /\ pending \in Seq(Txs) /\ submitted \in Seq(Txs)
        /\ last \in Seq(Txs)
    BY DEF ProducerTypeOK
  <2>2. pending' = pending \o last /\ submitted' = submitted \o last
    BY <2>1, AppendIsConcat
  <2> HIDE DEF last
  <2>3. (included \o pending) \o last = included \o (pending \o last)
    BY <1>0, <2>1
  <2>4. QED
    BY <2>2, <2>3
<1>3. CutsInside'
  BY DEF CutsInside
<1>4. BlocksPassed'
  BY DEF BlocksPassed, Produced
<1>5. QED
  BY <1>1, <1>2, <1>3, <1>4

\* A longer sequence has the same pieces where it was.
LEMMA SubSeqOfLonger ==
  ASSUME NEW S, NEW s \in Seq(S), NEW t \in Seq(S),
         NEW m \in 1 .. Len(s) + 1, NEW n \in 0 .. Len(s)
  PROVE  SubSeq(s \o t, m, n) = SubSeq(s, m, n)
<1>1. CASE n < m
  BY <1>1, SubSeqEmpty
<1>2. CASE m <= n
  BY <1>2, SubSeqOfConcat1
<1>3. QED
  BY <1>1, <1>2

\* What is appended is the last piece.
LEMMA SubSeqOfAppended ==
  ASSUME NEW S, NEW s \in Seq(S), NEW t \in Seq(S)
  PROVE  SubSeq(s \o t, Len(s) + 1, Len(s) + Len(t)) = t
<1>1. CASE t = <<>>
  BY <1>1, SubSeqEmpty
<1>2. CASE t # <<>>
  <2>1. SubSeq(s \o t, Len(s) + 1, Len(s) + Len(t)) = SubSeq(t, 1, Len(t))
    BY <1>2, EmptySeq, SubSeqOfConcat2
  <2>2. QED
    BY <2>1, SubSeqFull
<1>3. QED
  BY <1>1, <1>2

\* A block is a piece off the front of the pending list, no longer than the limit
\* and within the gas limit as the code adds it up.
LEMMA ProduceInv ==
  ASSUME ProducerInv, ProduceBlock
  PROVE  ProducerInv'
<1>1. PICK n \in 0 .. Len(pending) :
        /\ TakesUpTo(n)
        /\ IF n = 0 THEN UNCHANGED producerVars
           ELSE /\ included' = included \o SubSeq(pending, 1, n)
                /\ cuts' = Append(cuts, Len(included) + n)
                /\ pending' = Rest(n)
                /\ UNCHANGED submitted
  BY DEF ProduceBlock
<1>2. CASE n = 0
  BY <1>1, <1>2 DEF producerVars, ProducerInv, ProducerTypeOK, CutsInside, BlocksPassed, Produced
<1>3. CASE n > 0
  <2> DEFINE block == SubSeq(pending, 1, n)
  <2>1. /\ pending \in Seq(Txs) /\ included \in Seq(Txs) /\ cuts \in Seq(Nat \ {0})
        /\ n \in 1 .. Len(pending)
        /\ included' = included \o block /\ cuts' = Append(cuts, Len(included) + n)
        /\ pending' = SubSeq(pending, n + 1, Len(pending)) /\ submitted' = submitted
    BY <1>1, <1>3 DEF ProducerInv, ProducerTypeOK, Rest
  <2>2. block \in Seq(Txs) /\ Len(block) = n
    BY <2>1, SubSeqProperties
  <2>3. pending' \in Seq(Txs) /\ block \o pending' = pending
    <3>1. pending' \in Seq(Txs)
      BY <2>1, SubSeqProperties
    <3>2. SubSeq(pending, 1, n) \o SubSeq(pending, n + 1, Len(pending))
            = SubSeq(pending, 1, Len(pending))
      <4>1. 1 \in 1 .. Len(pending) + 1 /\ n \in 1 - 1 .. Len(pending)
            /\ Len(pending) \in n .. Len(pending)
        BY <2>1
      <4>2. QED
        BY <2>1, <4>1, ConcatAdjacentSubSeq
    <3>3. SubSeq(pending, 1, Len(pending)) = pending
      BY <2>1, SubSeqFull
    <3>4. QED
      BY <2>1, <3>1, <3>2, <3>3
  <2> HIDE DEF block
  <2>4. /\ included' \in Seq(Txs) /\ Len(included') = Len(included) + n
        /\ cuts' \in Seq(Nat \ {0}) /\ Len(cuts') = Len(cuts) + 1
        /\ \A i \in 1 .. Len(cuts) : cuts'[i] = cuts[i]
        /\ cuts'[Len(cuts) + 1] = Len(included) + n
    <3>1. included' \in Seq(Txs) /\ Len(included') = Len(included) + n
      BY <2>1, <2>2, ConcatProperties
    <3>2. Len(included) + n \in Nat \ {0}
      BY <2>1
    <3>3. QED
      BY <2>1, <3>1, <3>2, AppendProperties
  <2>5. ProducerTypeOK'
    BY <2>1, <2>3, <2>4 DEF ProducerInv, ProducerTypeOK
  <2>6. included' \o pending' = submitted'
    <3>1. (included \o block) \o pending' = included \o (block \o pending')
      BY <2>1, <2>2, <2>3, Regroup
    <3>2. QED
      BY <2>1, <2>3, <3>1 DEF ProducerInv
  <2>7. CutsInside'
    <3>1. DOMAIN cuts' = 1 .. Len(cuts) + 1 /\ DOMAIN cuts = 1 .. Len(cuts) /\ Len(cuts) \in Nat
          /\ Len(included) \in Nat
      BY <2>1, <2>4
    <3>2. \A i \in 1 .. Len(cuts) : cuts[i] \in Nat /\ cuts[i] <= Len(included)
      BY <2>1, <3>1, ElementOfSeq DEF ProducerInv, CutsInside
    <3>3. \A i \in 1 .. Len(cuts) + 1 : cuts'[i] <= Len(included) + n
      BY <2>1, <2>4, <3>1, <3>2
    <3>4. cuts' # <<>> /\ cuts'[Len(cuts')] = Len(included')
      BY <2>1, <2>4
    <3>5. QED
      BY <2>4, <3>1, <3>3, <3>4 DEF CutsInside
  <2>8. ASSUME NEW i \in 1 .. Len(cuts)
        PROVE  Produced(i)' = Produced(i)
    <3> DEFINE from == IF i = 1 THEN 0 ELSE cuts[i - 1]
    <3>1. from \in 0 .. Len(included) /\ cuts[i] \in 0 .. Len(included)
          /\ (i # 1 => cuts'[i - 1] = cuts[i - 1])
      <4>1. \A j \in 1 .. Len(cuts) : cuts[j] \in 0 .. Len(included)
        BY <2>1 DEF ProducerInv, CutsInside
      <4>2. i # 1 => i - 1 \in 1 .. Len(cuts)
        BY <2>1
      <4>3. Len(included) \in Nat
        BY <2>1
      <4>4. i # 1 => cuts'[i - 1] = cuts[i - 1]
        BY <2>4, <4>2
      <4>5. from \in 0 .. Len(included)
        BY <4>1, <4>2, <4>3
      <4>6. QED
        BY <4>1, <4>4, <4>5
    <3> HIDE DEF from
    <3>2. SubSeq(included \o block, from + 1, cuts[i]) = SubSeq(included, from + 1, cuts[i])
      <4>1. from + 1 \in 1 .. Len(included) + 1
        BY <2>1, <3>1
      <4>2. QED
        BY <2>1, <2>2, <3>1, <4>1, SubSeqOfLonger
    <3>3. cuts'[i] = cuts[i]
      BY <2>4
    <3>4. QED
      BY <2>1, <3>1, <3>2, <3>3 DEF Produced, from
  <2>9. ASSUME NEW k, k = Len(cuts) + 1
        PROVE  Produced(k)' = block
    <3>1. (IF k = 1 THEN 0 ELSE cuts'[k - 1]) = Len(included)
      BY <2>1, <2>4, <2>9 DEF ProducerInv, CutsInside
    <3>2. SubSeq(included \o block, Len(included) + 1, Len(included) + n) = block
      BY <2>1, <2>2, SubSeqOfAppended
    <3>3. cuts'[k] = Len(included) + n
      BY <2>4, <2>9
    <3>4. QED
      BY <2>1, <3>1, <3>2, <3>3 DEF Produced
  <2>10. Passed(block)
    <3>1. n <= MaxBlockSize /\ \A k \in 1 .. n : TotalGas(SubSeq(pending, 1, k)) % Word <= MaxBlockGas
      BY <1>1 DEF TakesUpTo, Takes, WithinGas
    <3>2. ASSUME NEW k \in 1 .. n
          PROVE  SubSeq(block, 1, k) = SubSeq(pending, 1, k)
      <4>1. 1 \in 1 .. Len(block) + 1 /\ k \in 0 .. Len(block)
        BY <2>1, <2>2
      <4>2. QED
        BY <2>2, <2>3, <4>1, SubSeqOfLonger
    <3>3. QED
      BY <2>2, <3>1, <3>2 DEF Passed
  <2>11. BlocksPassed'
    <3>1. ASSUME NEW i \in 1 .. Len(cuts)
          PROVE  Passed(Produced(i)')
      <4>1. i \in DOMAIN cuts
        BY <2>1
      <4>2. QED
        BY <2>8, <4>1, Zenon DEF ProducerInv, BlocksPassed
    <3>2. \A i \in 1 .. Len(cuts) + 1 : i \in 1 .. Len(cuts) \/ i = Len(cuts) + 1
      BY <2>1
    <3>3. DOMAIN cuts' = 1 .. Len(cuts) + 1
      BY <2>4
    <3>4. ASSUME NEW i \in 1 .. Len(cuts) + 1
          PROVE  Passed(Produced(i)')
      <4>1. CASE i \in 1 .. Len(cuts)
        BY <4>1, <3>1
      <4>2. CASE i = Len(cuts) + 1
        BY <4>2, <2>9, <2>10, Zenon
      <4>3. QED
        BY <3>2, <4>1, <4>2
    <3>5. QED
      BY <3>3, <3>4, Zenon DEF BlocksPassed
  <2>12. QED
    BY <2>5, <2>6, <2>7, <2>11 DEF ProducerInv
<1>4. QED
  BY <1>1, <1>2, <1>3

LEMMA ProducerStepInv == ProducerInv /\ [ProducerStep]_producerVars => ProducerInv'
<1>1. ProducerInv /\ UNCHANGED producerVars => ProducerInv'
  BY DEF ProducerInv, ProducerTypeOK, CutsInside, BlocksPassed, Produced, producerVars
<1>2. QED
  BY <1>1, AddInv, ProduceInv DEF ProducerStep

LEMMA SequencerProduces == [Next]_vars => [ProducerStep]_producerVars
BY DEF Next, vars, ProducerStep, HandIn, RunHandler, Handler

LEMMA ProducerInvHolds == Spec => []ProducerInv
<1>1. Init => ProducerInv
  BY ProducerInitInv DEF Init
<1>2. QED
  BY <1>1, SequencerProduces, ProducerStepInv, PTL DEF Spec

\* Theorem: the sequencer's state is well typed, for any limits and handles.
THEOREM SequencerTyped == Spec => []TypeOK
<1>1. Spec => []TasksInv
  BY SequencerImplementsTasks, TasksInitInv, TasksStepInv, PTL DEF TasksSpec
<1>2. ProducerInv /\ TasksInv => TypeOK
  BY DEF ProducerInv, TasksInv, TypeOK
<1>3. QED
  BY <1>1, <1>2, ProducerInvHolds, PTL

-----------------------------------------------------------------------------
(* Sums of gas limits *)

\* A set of natural numbers has a smallest one.
LEMMA Smallest ==
  ASSUME NEW S \in SUBSET Nat, S # {}
  PROVE  \E m \in S : \A k \in S : m <= k
<1> DEFINE less == OpToRel(<, Nat)
<1>1. IsWellFoundedOn(less, Nat)
  BY NatLessThanWellFounded
<1>2. \A k, m \in Nat : <<k, m>> \in less <=> k < m
  BY DEF OpToRel
<1> HIDE DEF less
<1>3. PICK m \in S : \A k \in S : <<k, m>> \notin less
  BY <1>1, WFMin
<1>4. m \in Nat /\ \A k \in S : k \in Nat /\ ~(k < m)
  BY <1>2, <1>3
<1>5. QED
  BY <1>3, <1>4

\* A gas limit is that many units, each with the place of its transaction.
UnitsOf(txs, i) == {i} \X (1 .. Gas[txs[i]])
Units(txs, S) == {c \in S \X (1 .. Word) : c[2] <= Gas[txs[c[1]]]}

LEMMA GasType ==
  ASSUME NEW txs \in Seq(Txs), NEW i \in 1 .. Len(txs)
  PROVE  Gas[txs[i]] \in Nat /\ Gas[txs[i]] < Word /\ Word \in Nat
<1>1. txs[i] \in Txs
  OBVIOUS
<1>2. QED
  BY <1>1, ProducerAssumption

LEMMA UpTo ==
  ASSUME NEW n \in Nat
  PROVE  IsFiniteSet(1 .. n) /\ Cardinality(1 .. n) = n
BY FS_Interval

\* The units at some places are those at one of them and those at the others.
LEMMA UnitsSplit ==
  ASSUME NEW txs \in Seq(Txs), NEW S \in SUBSET (1 .. Len(txs)), NEW i \in S
  PROVE  Cardinality(Units(txs, S)) = Gas[txs[i]] + Cardinality(Units(txs, S \ {i}))
<1>1. Gas[txs[i]] \in Nat /\ Gas[txs[i]] < Word /\ Word \in Nat
  BY GasType
<1>2. IsFiniteSet(S \ {i}) /\ IsFiniteSet(1 .. Word)
  <2>1. IsFiniteSet(1 .. Len(txs)) /\ IsFiniteSet(1 .. Word)
    BY <1>1, UpTo, LenProperties
  <2>2. S \ {i} \in SUBSET (1 .. Len(txs))
    OBVIOUS
  <2>3. QED
    BY <2>1, <2>2, FS_Subset
<1>3. IsFiniteSet(Units(txs, S \ {i}))
  BY <1>2, FS_Product, FS_Subset DEF Units
<1>4. IsFiniteSet(UnitsOf(txs, i)) /\ Cardinality(UnitsOf(txs, i)) = Gas[txs[i]]
  <2>1. IsFiniteSet(1 .. Gas[txs[i]]) /\ Cardinality(1 .. Gas[txs[i]]) = Gas[txs[i]]
    BY <1>1, UpTo
  <2>2. IsFiniteSet({i}) /\ Cardinality({i}) = 1
    BY FS_Singleton
  <2>3. Cardinality(UnitsOf(txs, i)) = Cardinality({i}) * Cardinality(1 .. Gas[txs[i]])
        /\ IsFiniteSet(UnitsOf(txs, i))
    BY <2>1, <2>2, FS_Product DEF UnitsOf
  <2>4. QED
    BY <1>1, <2>1, <2>2, <2>3
<1>5. Units(txs, S) = UnitsOf(txs, i) \cup Units(txs, S \ {i})
  <2>1. UnitsOf(txs, i) = {c \in {i} \X (1 .. Word) : c[2] <= Gas[txs[c[1]]]}
    BY <1>1 DEF UnitsOf
  <2>2. QED
    BY <2>1 DEF Units
<1>6. UnitsOf(txs, i) \cap Units(txs, S \ {i}) = {}
  BY DEF UnitsOf, Units
<1>7. Cardinality(UnitsOf(txs, i) \cup Units(txs, S \ {i}))
        = Cardinality(UnitsOf(txs, i)) + Cardinality(Units(txs, S \ {i}))
            - Cardinality(UnitsOf(txs, i) \cap Units(txs, S \ {i}))
  BY <1>3, <1>4, FS_Union
<1>8. Cardinality(Units(txs, S \ {i})) \in Nat
  BY <1>3, FS_CardinalityType
<1>9. QED
  <2>1. Cardinality(UnitsOf(txs, i) \cap Units(txs, S \ {i})) = 0
    BY <1>6, FS_EmptySet
  <2>2. QED
    BY <1>1, <1>4, <1>5, <1>7, <1>8, <2>1

\* The fold of gas limits counts their units: a list on which they differed would
\* have a smallest set of places on which they do.
LEMMA TotalIsUnits ==
  ASSUME NEW txs \in Seq(Txs)
  PROVE  TotalGas(txs) = Cardinality(Units(txs, 1 .. Len(txs)))
<1> DEFINE S == 1 .. Len(txs)
           Pick(s) == CHOOSE i \in s : TRUE
           Step(g, s) == IF s = {} THEN 0 ELSE Gas[txs[Pick(s)]] + g[s \ {Pick(s)}]
           Sums(g) == g = [s \in SUBSET S |-> Step(g, s)]
           count == [s \in SUBSET S |-> Cardinality(Units(txs, s))]
           iter == CHOOSE g : Sums(g)
<1>1. IsFiniteSet(S) /\ DOMAIN txs = S
  BY UpTo, LenProperties
<1>2. Units(txs, {}) = {}
  BY DEF Units
<1>3. ASSUME NEW s \in SUBSET S
      PROVE  Cardinality(Units(txs, s)) = Step(count, s)
  <2>1. CASE s = {}
    BY <1>2, <2>1, FS_EmptySet
  <2>2. CASE s # {}
    <3>1. Pick(s) \in s /\ s \ {Pick(s)} \in SUBSET S
      BY <2>2
    <3>2. Cardinality(Units(txs, s)) = Gas[txs[Pick(s)]] + Cardinality(Units(txs, s \ {Pick(s)}))
      BY <3>1, UnitsSplit
    <3>3. QED
      BY <2>2, <3>1, <3>2
  <2>3. QED
    BY <2>1, <2>2
<1>4. Sums(count)
  BY <1>3
<1>5. Sums(iter)
  BY <1>4
<1>6. TotalGas(txs) = iter[S]
  BY <1>1 DEF TotalGas, FoldSeq, FoldFunction, FoldFunctionOnSet, MapThenFoldSet
<1>7. \A s \in SUBSET S : iter[s] = count[s]
  <2> DEFINE wrong == {s \in SUBSET S : iter[s] # count[s]}
  <2> SUFFICES ASSUME wrong # {}
               PROVE  FALSE
    OBVIOUS
  <2>1. IsWellFoundedOn(StrictSubsetOrdering(S), SUBSET S)
    BY <1>1, FS_StrictSubsetOrderingWellFounded, FS_FiniteSubsetsOfFinite
  <2>2. PICK s \in wrong : \A t \in wrong : <<t, s>> \notin StrictSubsetOrdering(S)
    <3> HIDE DEF wrong
    <3>1. wrong \subseteq SUBSET S
      BY DEF wrong
    <3>2. QED
      BY <2>1, <3>1, WFMin
  <2>3. CASE s = {}
    BY <1>4, <1>5, <2>3
  <2>4. CASE s # {}
    <3>1. Pick(s) \in s /\ s \ {Pick(s)} \in SUBSET S
      BY <2>4
    <3>2. <<s \ {Pick(s)}, s>> \in StrictSubsetOrdering(S)
      <4> HIDE DEF S
      <4>1. QED
        BY <3>1 DEF StrictSubsetOrdering
    <3>3. iter[s \ {Pick(s)}] = count[s \ {Pick(s)}]
      BY <2>2, <3>1, <3>2
    <3>4. iter[s] = Step(iter, s) /\ count[s] = Step(count, s)
      BY <1>4, <1>5
    <3> HIDE DEF iter, count, Pick
    <3>5. QED
      BY <2>2, <2>4, <3>3, <3>4
  <2>5. QED
    BY <2>3, <2>4
<1>8. QED
  BY <1>6, <1>7

\* One transaction more adds its gas limit to the sum, and no transaction has none.
LEMMA TotalOfPrefix ==
  ASSUME NEW txs \in Seq(Txs)
  PROVE  /\ TotalGas(SubSeq(txs, 1, 0)) = 0
         /\ \A k \in 1 .. Len(txs) :
              TotalGas(SubSeq(txs, 1, k)) = Gas[txs[k]] + TotalGas(SubSeq(txs, 1, k - 1))
<1>1. TotalGas(SubSeq(txs, 1, 0)) = 0
  <2>1. SubSeq(txs, 1, 0) = <<>> /\ <<>> \in Seq(Txs) /\ Len(<<>>) = 0
    BY SubSeqEmpty
  <2>2. Units(<<>>, 1 .. 0) = {}
    BY DEF Units
  <2>3. QED
    BY <2>1, <2>2, TotalIsUnits, FS_EmptySet
<1>2. ASSUME NEW k \in 1 .. Len(txs)
      PROVE  TotalGas(SubSeq(txs, 1, k)) = Gas[txs[k]] + TotalGas(SubSeq(txs, 1, k - 1))
  <2> DEFINE long == SubSeq(txs, 1, k)
             short == SubSeq(txs, 1, k - 1)
  <2>1. /\ long \in Seq(Txs) /\ Len(long) = k /\ \A i \in 1 .. k : long[i] = txs[i]
        /\ short \in Seq(Txs) /\ Len(short) = k - 1 /\ \A i \in 1 .. k - 1 : short[i] = txs[i]
    BY SubSeqProperties
  <2> HIDE DEF long, short
  <2>2. Cardinality(Units(long, 1 .. k)) = Gas[txs[k]] + Cardinality(Units(long, (1 .. k) \ {k}))
    <3>1. k \in 1 .. k /\ 1 .. k \in SUBSET (1 .. Len(long)) /\ long[k] = txs[k]
      BY <2>1
    <3>2. QED
      BY <2>1, <3>1, UnitsSplit
  <2>3. Units(long, (1 .. k) \ {k}) = Units(short, 1 .. k - 1)
    <3>1. (1 .. k) \ {k} = 1 .. k - 1
      OBVIOUS
    <3>2. \A i \in 1 .. k - 1 : long[i] = short[i]
      BY <2>1
    <3>3. QED
      BY <3>1, <3>2 DEF Units
  <2>4. TotalGas(long) = Cardinality(Units(long, 1 .. k)) /\ TotalGas(short) = Cardinality(Units(short, 1 .. k - 1))
    BY <2>1, TotalIsUnits
  <2>5. QED
    BY <2>2, <2>3, <2>4 DEF long, short
<1>3. QED
  BY <1>1, <1>2

\* No gas limit is so large that a full block and it are more than a word holds.
GasFitsWord == \A tx \in Txs : MaxBlockGas + Gas[tx] < Word

LEMMA NoWrap ==
  ASSUME NEW w \in Nat \ {0}, NEW x \in 0 .. w - 1
  PROVE  x % w = x
OBVIOUS

\* Then a list that passes the comparison at each of its transactions is within the
\* limit: the first sum beyond it has not wrapped.
LEMMA PassedIsWithin ==
  ASSUME GasFitsWord, NEW txs \in Seq(Txs),
         \A k \in 1 .. Len(txs) : TotalGas(SubSeq(txs, 1, k)) % Word <= MaxBlockGas
  PROVE  TotalGas(txs) <= MaxBlockGas
<1> DEFINE sum(k) == TotalGas(SubSeq(txs, 1, k))
           beyond == {k \in 0 .. Len(txs) : ~(sum(k) \in 0 .. MaxBlockGas)}
<1>1. MaxBlockGas \in Nat /\ Word \in Nat \ {0} /\ MaxBlockGas < Word /\ Len(txs) \in Nat
  BY ProducerAssumption
<1>2. sum(0) = 0 /\ \A k \in 1 .. Len(txs) : sum(k) = Gas[txs[k]] + sum(k - 1)
  BY TotalOfPrefix
<1>3. \A k \in 1 .. Len(txs) : sum(k) % Word <= MaxBlockGas
  OBVIOUS
<1> HIDE DEF sum
<1>4. beyond = {}
  <2> SUFFICES ASSUME beyond # {}
               PROVE  FALSE
    OBVIOUS
  <2>1. beyond \in SUBSET Nat
    OBVIOUS
  <2>2. PICK k \in beyond : \A j \in beyond : k <= j
    <3> HIDE DEF beyond
    <3>1. QED
      BY <2>1, Smallest
  <2>3. k \in 1 .. Len(txs)
    BY <1>1, <1>2
  <2>4. sum(k - 1) \in 0 .. MaxBlockGas
    BY <2>2, <2>3
  <2>5. Gas[txs[k]] \in Nat /\ MaxBlockGas + Gas[txs[k]] < Word
    <3>1. txs[k] \in Txs
      BY <2>3
    <3>2. QED
      BY <2>3, <3>1, GasType DEF GasFitsWord
  <2>6. sum(k) \in 0 .. Word - 1
    BY <1>1, <1>2, <2>3, <2>4, <2>5
  <2>7. sum(k) % Word = sum(k)
    BY <1>1, <2>6, NoWrap
  <2>8. QED
    BY <1>1, <1>3, <2>3, <2>6, <2>7
<1>5. sum(Len(txs)) \in 0 .. MaxBlockGas
  BY <1>1, <1>4
<1>6. sum(Len(txs)) = TotalGas(txs)
  BY SubSeqFull DEF sum
<1>7. QED
  BY <1>1, <1>5, <1>6

\* Theorem: transactions are taken in the order they were handed in, none is lost
\* or doubled, and no block is over a limit (FirstComeFirstServed), as long as no
\* gas limit is so large that the sum of produce_block could wrap.
THEOREM ServedInOrder ==
  ASSUME GasFitsWord
  PROVE  Spec => []FirstComeFirstServed
<1>1. ProducerInv => FirstComeFirstServed
  <2> SUFFICES ASSUME ProducerInv
               PROVE  FirstComeFirstServed
    OBVIOUS
  <2>1. ASSUME NEW i \in DOMAIN cuts
        PROVE  Len(Produced(i)) <= MaxBlockSize /\ TotalGas(Produced(i)) <= MaxBlockGas
    <3>1. Produced(i) \in Seq(Txs)
      <4>1. /\ i \in 1 .. Len(cuts) /\ included \in Seq(Txs)
            /\ cuts[i] \in 0 .. Len(included)
            /\ (i # 1 => cuts[i - 1] \in 0 .. Len(included))
        BY DEF ProducerInv, ProducerTypeOK, CutsInside
      <4>2. QED
        BY <4>1, SubSeqProperties DEF Produced
    <3>2. Passed(Produced(i))
      BY DEF ProducerInv, BlocksPassed
    <3>3. QED
      BY <3>1, <3>2, GasFitsWord, PassedIsWithin DEF Passed
  <2>2. QED
    BY <2>1 DEF ProducerInv, FirstComeFirstServed, BlocksWithinLimits
<1>2. QED
  BY <1>1, ProducerInvHolds, PTL

-----------------------------------------------------------------------------
(* Deposits *)

\* The log has the events up to the head, and their nonces grow along it.
ChainInv ==
  /\ upTo[0] = 0 /\ upTo[head] = Len(log)
  /\ \A b, c \in 0 .. head : b <= c => upTo[b] <= upTo[c]
  /\ \A i \in 1 .. Len(log) : log[i].block <= head
  /\ \A i, j \in 1 .. Len(log) : i < j => Nonce(log[i]) < Nonce(log[j])

\* A window begins after the last one and ends at the head at most, and a process
\* that has scanned nothing has nothing in its memory.
PollInv ==
  /\ poller = "query" =>
       /\ window[1] <= window[2] /\ window[2] \in 1 .. head
       /\ lastScanned > 0 => window[1] = lastScanned + 1
  /\ poller # "enqueue" => found = <<>>
  /\ (firstScanned = 0) <=> (lastScanned = 0)
  /\ firstScanned <= lastScanned
  /\ lastScanned = 0 =>
       found = <<>> /\ queue = <<>> /\ noted = {} /\ inherited = Len(credited)

\* Where this process is in the log: behind the deposits it has enqueued, before
\* those it has found.
Position == upTo[lastScanned] - Len(found)
Taken == SubSeq(credited, inherited + 1, Len(credited))

DeliveryInv ==
  firstScanned > 0 =>
    /\ upTo[firstScanned - 1] <= Position
    /\ Taken \o queue = SubSeq(log, upTo[firstScanned - 1] + 1, Position)
    /\ found = SubSeq(log, Position + 1, upTo[lastScanned])

\* The hashes noted belong to deposits before that place, so that no deposit still
\* to be enqueued is taken for one of them.
NotedInv == \A h \in noted : \E i \in 1 .. Position : h.nonce = Nonce(log[i])

DepositInv == DepositTypeOK /\ ChainInv /\ PollInv /\ DeliveryInv /\ NotedInv

LEMMA DepositInitInv == DepositInit => DepositInv
BY DepositAssumption
   DEF DepositInit, DepositInv, DepositTypeOK, ChainInv, PollInv, DeliveryInv, NotedInv, Position

\* Nonces are ordered as block number and log index are.
LEMMA NonceGrows ==
  ASSUME NEW d \in Deposit, NEW e \in Deposit,
         d.block < e.block \/ (d.block = e.block /\ d.index < e.index)
  PROVE  Nonce(d) < Nonce(e)
<1>1. /\ d.block \in Nat /\ e.block \in Nat /\ d.index \in Nat /\ e.index \in Nat
      /\ 1 <= e.index /\ d.index < NonceStride /\ NonceStride \in Nat
  BY DepositAssumption DEF Deposit, Block
<1>2. CASE d.block = e.block
  BY <1>1, <1>2 DEF Nonce
<1>3. CASE d.block < e.block
  <2>1. PICK k \in Nat : e.block = d.block + 1 + k
    <3>1. e.block - d.block - 1 \in Nat /\ e.block = d.block + 1 + (e.block - d.block - 1)
      BY <1>1, <1>3
    <3>2. QED
      BY <3>1
  <2>2. e.block * NonceStride = d.block * NonceStride + NonceStride + k * NonceStride
    BY <1>1, <2>1
  <2>3. k * NonceStride >= 0 /\ k * NonceStride \in Nat /\ d.block * NonceStride \in Nat
    BY <1>1
  <2>4. QED
    BY <1>1, <2>2, <2>3 DEF Nonce
<1>4. QED
  BY <1>2, <1>3

\* What the chain, the memory and the history say of the types of the state.
LEMMA DepositTypes ==
  ASSUME DepositInv
  PROVE  /\ head \in Nat /\ head <= MaxBlock
         /\ log \in Seq(Deposit) /\ Len(log) \in Nat
         /\ found \in Seq(Deposit) /\ Len(found) \in Nat
         /\ queue \in Seq(Deposit) /\ credited \in Seq(Deposit) /\ Len(credited) \in Nat
         /\ lastScanned \in 0 .. head /\ firstScanned \in 0 .. head
         /\ inherited \in 0 .. Len(credited)
         /\ \A b \in 0 .. head : upTo[b] \in 0 .. Len(log)
         /\ Taken \in Seq(Deposit)
<1>1. /\ head \in Nat /\ head <= MaxBlock
      /\ log \in Seq(Deposit) /\ Len(log) \in Nat
      /\ found \in Seq(Deposit) /\ Len(found) \in Nat
      /\ queue \in Seq(Deposit) /\ credited \in Seq(Deposit) /\ Len(credited) \in Nat
      /\ lastScanned \in 0 .. head /\ inherited \in 0 .. Len(credited)
      /\ firstScanned \in Nat /\ upTo \in [0 .. MaxBlock -> Nat]
  <2>1. MaxBlock \in Nat
    BY DepositAssumption
  <2>2. DepositTypeOK
    BY DEF DepositInv
  <2>3. head \in Nat /\ head <= MaxBlock /\ lastScanned \in 0 .. head /\ firstScanned \in Nat
        /\ upTo \in [0 .. MaxBlock -> Nat]
    BY <2>1, <2>2 DEF DepositTypeOK
  <2>4. log \in Seq(Deposit) /\ found \in Seq(Deposit) /\ queue \in Seq(Deposit)
        /\ credited \in Seq(Deposit) /\ inherited \in 0 .. Len(credited)
    BY <2>2 DEF DepositTypeOK
  <2>5. Len(log) \in Nat /\ Len(found) \in Nat /\ Len(credited) \in Nat
    BY <2>4, LenProperties
  <2>6. QED
    BY <2>3, <2>4, <2>5
<1>2. firstScanned \in 0 .. head
  BY <1>1 DEF DepositInv, PollInv
<1>3. ASSUME NEW b \in 0 .. head
      PROVE  upTo[b] \in 0 .. Len(log)
  <2>1. upTo[b] \in Nat /\ head \in 0 .. head /\ b <= head
    BY <1>1, DepositAssumption
  <2>2. QED
    BY <1>1, <2>1 DEF DepositInv, ChainInv
<1>4. Taken \in Seq(Deposit)
  BY <1>1, SubSeqProperties DEF Taken
<1>5. QED
  BY <1>1, <1>2, <1>3, <1>4

\* The events of a new block are deposits of that block, numbered from 1.
LEMMA BlockEvents ==
  ASSUME DepositInv, NEW payloads \in SeqOf(Payloads, MaxLogs), NewL1Block(payloads)
  PROVE  LET events == [k \in 1 .. Len(payloads) |->
                          [block |-> head + 1, index |-> k, payload |-> payloads[k]]]
         IN  /\ Len(payloads) \in 0 .. MaxLogs
             /\ events \in Seq(Deposit) /\ Len(events) = Len(payloads)
             /\ \A k \in 1 .. Len(payloads) : events[k].block = head + 1 /\ events[k].index = k
<1> DEFINE events == [k \in 1 .. Len(payloads) |->
                        [block |-> head + 1, index |-> k, payload |-> payloads[k]]]
<1>1. Len(payloads) \in 0 .. MaxLogs /\ \A k \in 1 .. Len(payloads) : payloads[k] \in Payloads
  <2>1. PICK n \in 0 .. MaxLogs : payloads \in [1 .. n -> Payloads]
    BY DEF SeqOf
  <2>2. Len(payloads) = n
    BY <2>1, DepositAssumption
  <2>3. QED
    BY <2>1, <2>2
<1>2. head + 1 \in Block
  <2>1. head \in Nat /\ head < MaxBlock /\ MaxBlock \in Nat
    BY DepositTypes, DepositAssumption DEF NewL1Block
  <2>2. QED
    BY <2>1 DEF Block
<1>3. \A k \in 1 .. Len(payloads) : events[k] \in Deposit
  BY <1>1, <1>2, DepositAssumption DEF Deposit
<1>4. events \in [1 .. Len(payloads) -> Deposit] /\ Len(payloads) \in Nat
  BY <1>1, <1>3, DepositAssumption
<1>5. QED
  BY <1>1, <1>4

\* A new block appends to the log behind every place the process knows.
LEMMA NewBlockInv ==
  ASSUME DepositInv, NEW payloads \in SeqOf(Payloads, MaxLogs), NewL1Block(payloads)
  PROVE  DepositInv'
<1> DEFINE events == [k \in 1 .. Len(payloads) |->
                        [block |-> head + 1, index |-> k, payload |-> payloads[k]]]
<1>0. /\ head \in Nat /\ head < MaxBlock /\ head' = head + 1
      /\ log' = log \o events /\ upTo' = [upTo EXCEPT ![head + 1] = Len(log) + Len(payloads)]
      /\ UNCHANGED <<clock, poller, lastScanned, window, found, queue, noted, crashes,
                     firstScanned, credited, inherited>>
  BY DepositTypes DEF NewL1Block, memory
<1>1. Len(payloads) \in 0 .. MaxLogs
  BY BlockEvents
<1>2. /\ events \in Seq(Deposit) /\ Len(events) = Len(payloads)
      /\ \A k \in 1 .. Len(payloads) : events[k].block = head + 1 /\ events[k].index = k
  BY BlockEvents
<1> HIDE DEF events
<1>3. /\ log' \in Seq(Deposit) /\ Len(log') = Len(log) + Len(payloads)
      /\ \A i \in 1 .. Len(log') :
           log'[i] = IF i <= Len(log) THEN log[i] ELSE events[i - Len(log)]
  <2>1. log \in Seq(Deposit) /\ Len(log) \in Nat
    BY DepositTypes
  <2>2. /\ log \o events \in Seq(Deposit) /\ Len(log \o events) = Len(log) + Len(events)
        /\ \A i \in 1 .. Len(log) + Len(events) :
             (log \o events)[i] = IF i <= Len(log) THEN log[i] ELSE events[i - Len(log)]
    <3>1. events \in Seq(Deposit)
      BY <1>2
    <3>2. QED
      BY <2>1, <3>1, ConcatProperties
  <2>3. QED
    BY <1>0, <1>2, <2>2
<1>4. \A b \in 0 .. head : upTo'[b] = upTo[b]
  BY <1>0, DepositAssumption DEF DepositInv, DepositTypeOK
<1>5. upTo'[head + 1] = Len(log') /\ upTo' \in [0 .. MaxBlock -> Nat]
  <2>1. upTo \in [0 .. MaxBlock -> Nat] /\ MaxBlock \in Nat /\ Len(log) \in Nat
    BY DepositTypes, DepositAssumption DEF DepositInv, DepositTypeOK
  <2>2. head + 1 \in 0 .. MaxBlock /\ Len(log) + Len(payloads) \in Nat
    BY <1>0, <1>1, <2>1, DepositAssumption
  <2>3. QED
    BY <1>0, <1>3, <2>1, <2>2
<1>6. DepositTypeOK'
  <2>1. MaxBlock \in Nat /\ head' \in 0 .. MaxBlock
    BY <1>0, DepositAssumption
  <2>2. lastScanned' \in 0 .. head'
    BY <1>0, DepositTypes
  <2>3. QED
    BY <1>0, <1>3, <1>5, <2>1, <2>2 DEF DepositInv, DepositTypeOK
<1>7. ChainInv'
  <2>1. upTo'[0] = 0 /\ upTo'[head'] = Len(log')
    BY <1>0, <1>4, <1>5 DEF DepositInv, ChainInv
  <2>2. \A b, c \in 0 .. head' : b <= c => upTo'[b] <= upTo'[c]
    <3>1. \A b \in 0 .. head' : b \in 0 .. head \/ b = head + 1
      BY <1>0
    <3>2. \A b \in 0 .. head : upTo'[b] <= Len(log')
      <4>1. \A b \in 0 .. head : upTo[b] \in 0 .. Len(log)
        BY DepositTypes
      <4>2. Len(log) \in Nat /\ Len(payloads) \in Nat
        BY <1>1, DepositTypes, DepositAssumption
      <4>3. QED
        BY <1>3, <1>4, <4>1, <4>2
    <3>3. \A b, c \in 0 .. head : b <= c => upTo'[b] <= upTo'[c]
      BY <1>4 DEF DepositInv, ChainInv
    <3>4. Len(log') \in Nat
      BY <1>1, <1>3, DepositTypes
    <3>5. QED
      BY <1>0, <1>5, <3>1, <3>2, <3>3, <3>4
  <2>3. \A i \in 1 .. Len(log') : log'[i].block <= head'
    <3> SUFFICES ASSUME NEW i \in 1 .. Len(log')
                 PROVE  log'[i].block <= head + 1
      BY <1>0
    <3>1. Len(log) \in Nat /\ Len(payloads) \in Nat /\ i \in Nat
      BY <1>1, <1>3, DepositTypes, DepositAssumption
    <3>2. CASE i <= Len(log)
      <4>1. i \in 1 .. Len(log) /\ log'[i] = log[i]
        BY <1>3, <3>1, <3>2
      <4>2. log[i].block <= head /\ log[i] \in Deposit
        BY <4>1, DepositTypes, ElementOfSeq DEF DepositInv, ChainInv
      <4>3. log[i].block \in Nat
        BY <4>2, DepositAssumption DEF Deposit, Block
      <4>4. QED
        BY <1>0, <4>1, <4>2, <4>3
    <3>3. CASE ~(i <= Len(log))
      <4>1. i - Len(log) \in 1 .. Len(payloads) /\ log'[i] = events[i - Len(log)]
        BY <1>3, <3>1, <3>3
      <4>2. log'[i].block = head + 1
        BY <1>2, <4>1
      <4>3. QED
        BY <1>0, <4>2
    <3>4. QED
      BY <3>2, <3>3
  <2>4. ASSUME NEW i \in 1 .. Len(log'), NEW j \in 1 .. Len(log'), i < j
        PROVE  Nonce(log'[i]) < Nonce(log'[j])
    <3>0. Len(log) \in Nat /\ Len(payloads) \in Nat /\ i \in Nat /\ j \in Nat
      BY <1>1, <1>3, DepositTypes, DepositAssumption
    <3>1. log'[i] \in Deposit /\ log'[j] \in Deposit
      BY <1>3, ElementOfSeq
    <3>2. CASE j <= Len(log)
      <4>1. i \in 1 .. Len(log) /\ j \in 1 .. Len(log) /\ log'[i] = log[i] /\ log'[j] = log[j]
        BY <1>1, <1>3, <2>4, <3>2, DepositTypes
      <4>2. QED
        BY <2>4, <4>1 DEF DepositInv, ChainInv
    <3>3. CASE i <= Len(log) /\ ~(j <= Len(log))
      <4>1. log'[i].block <= head
        BY <1>3, <3>3, DepositTypes DEF DepositInv, ChainInv
      <4>2. j - Len(log) \in 1 .. Len(payloads) /\ log'[j] = events[j - Len(log)]
        BY <1>3, <3>0, <3>3
      <4>3. log'[j].block = head + 1
        BY <1>2, <4>2
      <4>4. log'[i].block \in Nat
        BY <3>1, DepositAssumption DEF Deposit, Block
      <4>5. log'[i].block < log'[j].block
        BY <1>0, <4>1, <4>3, <4>4
      <4>6. QED
        BY <3>1, <4>5, NonceGrows
    <3>4. CASE ~(i <= Len(log))
      <4>1. /\ log'[i].block = head + 1 /\ log'[i].index = i - Len(log)
            /\ log'[j].block = head + 1 /\ log'[j].index = j - Len(log)
        <5>1. /\ i - Len(log) \in 1 .. Len(payloads) /\ log'[i] = events[i - Len(log)]
              /\ j - Len(log) \in 1 .. Len(payloads) /\ log'[j] = events[j - Len(log)]
          BY <1>3, <2>4, <3>0, <3>4
        <5>2. QED
          BY <1>2, <5>1
      <4>2. log'[i].index < log'[j].index
        BY <2>4, <3>0, <4>1
      <4>3. QED
        BY <3>1, <4>1, <4>2, NonceGrows
    <3>5. QED
      BY <3>2, <3>3, <3>4
  <2>5. QED
    BY <2>1, <2>2, <2>3, <2>4 DEF ChainInv, Nonce
<1>8. PollInv'
  BY <1>0 DEF DepositInv, PollInv, DepositTypeOK
<1>9. Position' = Position /\ Taken' = Taken
  BY <1>0, <1>4, DepositTypes DEF Position, Taken
<1>10. Position \in Int /\ Position <= upTo[lastScanned] /\ upTo[lastScanned] <= Len(log)
  BY DepositTypes DEF Position
<1>11. DeliveryInv'
  <2> SUFFICES ASSUME firstScanned > 0
               PROVE  /\ upTo'[firstScanned - 1] <= Position
                      /\ Taken \o queue = SubSeq(log', upTo'[firstScanned - 1] + 1, Position)
                      /\ found = SubSeq(log', Position + 1, upTo'[lastScanned])
    BY <1>0, <1>9 DEF DeliveryInv
  <2>1. firstScanned - 1 \in 0 .. head /\ lastScanned \in 0 .. head
    BY DepositTypes
  <2>2. upTo'[firstScanned - 1] = upTo[firstScanned - 1] /\ upTo'[lastScanned] = upTo[lastScanned]
    BY <1>4, <2>1
  <2>3. upTo[firstScanned - 1] \in 0 .. Len(log) /\ upTo[lastScanned] \in 0 .. Len(log)
    BY <2>1, DepositTypes
  <2>4. upTo[firstScanned - 1] <= Position /\ Position \in 0 .. Len(log)
    BY <1>10, <2>3, DepositTypes DEF DepositInv, DeliveryInv
  <2>5. SubSeq(log', upTo[firstScanned - 1] + 1, Position) = SubSeq(log, upTo[firstScanned - 1] + 1, Position)
    <3>1. upTo[firstScanned - 1] + 1 \in 1 .. Len(log) + 1
      BY <2>3, DepositTypes
    <3>2. QED
      BY <1>0, <1>2, <2>4, <3>1, DepositTypes, SubSeqOfLonger
  <2>6. SubSeq(log', Position + 1, upTo[lastScanned]) = SubSeq(log, Position + 1, upTo[lastScanned])
    <3>1. Position + 1 \in 1 .. Len(log) + 1
      BY <2>4, DepositTypes
    <3>2. QED
      BY <1>0, <1>2, <2>3, <3>1, DepositTypes, SubSeqOfLonger
  <2>7. QED
    BY <2>2, <2>4, <2>5, <2>6 DEF DepositInv, DeliveryInv
<1>12. NotedInv'
  <2>1. \A i \in 1 .. Position : log'[i] = log[i]
    BY <1>1, <1>3, <1>10, DepositTypes
  <2>2. \A h \in noted' : \E i \in 1 .. Position : h.nonce = Nonce(log'[i])
    BY <1>0, <2>1 DEF DepositInv, NotedInv
  <2>3. QED
    BY <1>9, <2>2 DEF NotedInv, Nonce
<1>13. QED
  BY <1>6, <1>7, <1>8, <1>11, <1>12 DEF DepositInv

\* The steps that leave the log and the delivery alone.
LEMMA ClockInv ==
  ASSUME DepositInv, ClockTicks
  PROVE  DepositInv'
<1>1. /\ clock' \in 0 .. MaxTime
      /\ UNCHANGED <<head, log, upTo, poller, lastScanned, window, found, queue, noted, crashes,
                     firstScanned, credited, inherited>>
  BY DepositAssumption DEF ClockTicks, chain, memory, DepositInv, DepositTypeOK
<1>2. DepositTypeOK'
  BY <1>1 DEF DepositInv, DepositTypeOK
<1>3. ChainInv' /\ PollInv'
  BY <1>1 DEF DepositInv, ChainInv, PollInv, Nonce
<1>4. DeliveryInv' /\ NotedInv'
  BY <1>1 DEF DepositInv, DeliveryInv, NotedInv, Position, Taken, Nonce
<1>5. QED
  BY <1>2, <1>3, <1>4 DEF DepositInv

LEMMA StartPollInv ==
  ASSUME DepositInv, StartPoll
  PROVE  DepositInv'
<1> DEFINE from == WindowStart(head)
           to == WindowEnd(head, from)
<1>1. /\ poller = "idle" /\ head > lastScanned /\ window' = <<from, to>> /\ poller' = "query"
      /\ UNCHANGED <<head, log, upTo, clock, lastScanned, found, queue, noted, crashes,
                     firstScanned, credited, inherited>>
  BY DEF StartPoll, chain
<1>2. head \in Nat /\ lastScanned \in Nat /\ MaxBlockRange \in Nat /\ MaxBlockRange >= 1
      /\ head <= MaxBlock /\ MaxBlock \in Nat
  BY DepositTypes, DepositAssumption
<1>3. from \in 0 .. head /\ (lastScanned > 0 => from = lastScanned + 1)
      /\ (lastScanned = 0 /\ from = 0 => head <= MaxBlockRange - 1)
  BY <1>1, <1>2 DEF WindowStart, SaturatingSub
<1>4. to \in 1 .. head /\ from <= to
  BY <1>1, <1>2, <1>3 DEF WindowEnd
<1> HIDE DEF from, to
<1>5. window' \in (0 .. MaxBlock) \X (0 .. MaxBlock)
  BY <1>1, <1>2, <1>3, <1>4
<1>6. DepositTypeOK'
  BY <1>1, <1>5 DEF DepositInv, DepositTypeOK
<1>7. PollInv'
  BY <1>1, <1>2, <1>3, <1>4 DEF DepositInv, PollInv
<1>8. ChainInv' /\ DeliveryInv' /\ NotedInv'
  BY <1>1 DEF DepositInv, ChainInv, DeliveryInv, NotedInv, Position, Taken, Nonce
<1>9. QED
  BY <1>6, <1>7, <1>8 DEF DepositInv

\* Outside a query there is no window.
LEMMA NoWindow == <<0, 0>> \in (0 .. MaxBlock) \X (0 .. MaxBlock)
<1>1. MaxBlock \in Nat
  BY DepositAssumption
<1>2. 0 \in 0 .. MaxBlock
  BY <1>1
<1>3. QED
  BY <1>2

\* A poll that ends leaves nothing found.
LEMMA PollEndsInv ==
  ASSUME DepositInv, QueryFails \/ EndPoll
  PROVE  DepositInv'
<1>1. /\ found = <<>> /\ poller' = "idle"
      /\ window' \in {window, <<0, 0>>}
      /\ UNCHANGED <<head, log, upTo, clock, lastScanned, found, queue, noted, crashes,
                     firstScanned, credited, inherited>>
  BY DEF QueryFails, EndPoll, chain, DepositInv, PollInv
<1>2. DepositTypeOK'
  <2>1. window' \in (0 .. MaxBlock) \X (0 .. MaxBlock)
    BY <1>1, NoWindow DEF DepositInv, DepositTypeOK
  <2>2. QED
    BY <1>1, <2>1 DEF DepositInv, DepositTypeOK
<1>3. PollInv'
  BY <1>1 DEF DepositInv, PollInv
<1>4. ChainInv' /\ DeliveryInv' /\ NotedInv'
  BY <1>1 DEF DepositInv, ChainInv, DeliveryInv, NotedInv, Position, Taken, Nonce
<1>5. QED
  BY <1>2, <1>3, <1>4 DEF DepositInv

\* A process that starts again has nothing, and is nowhere in the log.
LEMMA RestartInv ==
  ASSUME DepositInv, Restart
  PROVE  DepositInv'
<1>1. /\ crashes < MaxCrashes /\ crashes' = crashes + 1
      /\ poller' = "idle" /\ lastScanned' = 0 /\ window' = <<0, 0>> /\ found' = <<>>
      /\ queue' = <<>> /\ noted' = {} /\ firstScanned' = 0 /\ inherited' = Len(credited)
      /\ UNCHANGED <<head, log, upTo, clock, credited>>
  BY DEF Restart, chain
<1>2. DepositTypeOK'
  <2>1. crashes' \in 0 .. MaxCrashes /\ 0 \in 0 .. MaxBlock /\ MaxBlock \in Nat
    <3>1. crashes \in 0 .. MaxCrashes
      BY DEF DepositInv, DepositTypeOK
    <3>2. MaxCrashes \in Nat /\ MaxBlock \in Nat
      BY DepositAssumption
    <3>3. QED
      BY <1>1, <3>1, <3>2
  <2>2. inherited' \in 0 .. Len(credited')
    BY <1>1, DepositTypes
  <2>3. lastScanned' \in 0 .. head'
    BY <1>1, DepositTypes
  <2>4. QED
    BY <1>1, <2>1, <2>2, <2>3 DEF DepositInv, DepositTypeOK
<1>3. ChainInv' /\ PollInv'
  BY <1>1 DEF DepositInv, ChainInv, PollInv, Nonce
<1>4. DeliveryInv' /\ NotedInv'
  BY <1>1 DEF DeliveryInv, NotedInv
<1>5. QED
  BY <1>2, <1>3, <1>4 DEF DepositInv

\* The window that was asked for begins where the process is in the log.
LEMMA QueryInv ==
  ASSUME DepositInv, QueryOk
  PROVE  DepositInv'
<1> DEFINE from == IF window[1] = 0 THEN 1 ELSE window[1]
           to == window[2]
<1>1. /\ poller = "query" /\ poller' = "enqueue"
      /\ found' = DepositsIn(from, to) /\ lastScanned' = to
      /\ firstScanned' = IF firstScanned = 0 THEN from ELSE firstScanned
      /\ window' = <<0, 0>>
      /\ UNCHANGED <<head, log, upTo, clock, queue, noted, crashes, credited, inherited>>
  BY DEF QueryOk, chain
<1>2. /\ head \in Nat /\ head <= MaxBlock /\ MaxBlock \in Nat
      /\ log \in Seq(Deposit) /\ Len(log) \in Nat
      /\ lastScanned \in 0 .. head /\ firstScanned \in 0 .. head
      /\ credited \in Seq(Deposit) /\ queue \in Seq(Deposit)
      /\ Taken \in Seq(Deposit) /\ inherited \in 0 .. Len(credited)
      /\ window[1] \in Nat
  <2>1. MaxBlock \in Nat
    BY DepositAssumption
  <2>2. window \in (0 .. MaxBlock) \X (0 .. MaxBlock)
    BY DEF DepositInv, DepositTypeOK
  <2>3. window[1] \in Nat
    BY <2>1, <2>2
  <2>4. QED
    BY <2>1, <2>3, DepositTypes
<1>3. /\ from \in 1 .. to /\ to \in 1 .. head
      /\ (lastScanned > 0 => from = lastScanned + 1)
      /\ found = <<>>
  BY <1>1, <1>2 DEF DepositInv, PollInv
<1> HIDE DEF from, to
<1> DEFINE before == upTo[from - 1]
           upto == upTo[to]
<1>4. before \in 0 .. upto /\ upto \in 0 .. Len(log)
  <2>1. from - 1 \in 0 .. head /\ to \in 0 .. head /\ from - 1 <= to
    BY <1>2, <1>3
  <2>2. before \in 0 .. Len(log) /\ upto \in 0 .. Len(log) /\ before <= upto
    BY <2>1, DepositTypes DEF DepositInv, ChainInv
  <2>3. QED
    BY <1>2, <2>2
<1>5. found' = SubSeq(log, before + 1, upto)
  <2>1. (IF to <= head THEN to ELSE head) = to
    BY <1>2, <1>3
  <2>2. QED
    BY <1>1, <2>1 DEF DepositsIn
<1>6. found' \in Seq(Deposit) /\ Len(found') = upto - before
  <2> HIDE DEF before, upto
  <2>1. before + 1 \in Int /\ upto \in Int
        /\ \A i \in before + 1 .. upto : i \in 1 .. Len(log)
    BY <1>2, <1>4
  <2>2. \A i \in before + 1 .. upto : log[i] \in Deposit
    BY <1>2, <2>1, ElementOfSeq
  <2>3. /\ SubSeq(log, before + 1, upto) \in Seq(Deposit)
        /\ Len(SubSeq(log, before + 1, upto))
             = IF before + 1 <= upto THEN upto - (before + 1) + 1 ELSE 0
    BY <2>1, <2>2, SubSeqProperties
  <2>4. QED
    BY <1>2, <1>4, <1>5, <2>3
<1>7. lastScanned = 0 => Taken = <<>> /\ queue = <<>> /\ noted = {} /\ firstScanned = 0
  <2>1. lastScanned = 0 => inherited = Len(credited) /\ queue = <<>> /\ noted = {} /\ firstScanned = 0
    BY DEF DepositInv, PollInv
  <2>2. inherited = Len(credited) => SubSeq(credited, inherited + 1, Len(credited)) = <<>>
    BY <1>2, SubSeqEmpty
  <2>3. QED
    BY <2>1, <2>2 DEF Taken
<1>8. lastScanned > 0 => Position = before /\ firstScanned > 0
  BY <1>2, <1>3, DepositTypes DEF Position, DepositInv, PollInv
<1>9. Position' = before /\ Taken' = Taken
  BY <1>1, <1>4, <1>6 DEF Position, Taken
<1>10. DepositTypeOK'
  <2>1. lastScanned' \in 0 .. head' /\ firstScanned' \in 0 .. MaxBlock
    BY <1>1, <1>2, <1>3
  <2>2. QED
    BY <1>1, <1>6, <2>1, NoWindow DEF DepositInv, DepositTypeOK
<1>11. ChainInv'
  BY <1>1 DEF DepositInv, ChainInv, Nonce
<1>12. PollInv'
  <2>1. firstScanned' > 0 /\ lastScanned' > 0 /\ firstScanned' <= lastScanned'
    BY <1>1, <1>2, <1>3 DEF DepositInv, PollInv
  <2>2. QED
    BY <1>1, <1>2, <1>3, <2>1 DEF PollInv
<1>13. DeliveryInv'
  <2>1. CASE lastScanned = 0
    <3>1. firstScanned' = from /\ Taken \o queue = <<>>
      BY <1>1, <1>7, <2>1
    <3>2. SubSeq(log, before + 1, before) = <<>>
      BY <1>4, SubSeqEmpty
    <3>3. QED
      BY <1>1, <1>4, <1>5, <1>9, <3>1, <3>2 DEF DeliveryInv
  <2>2. CASE lastScanned > 0
    <3>1. firstScanned' = firstScanned /\ Position = before
      BY <1>1, <1>8, <2>2
    <3>2. upTo[firstScanned - 1] <= before
          /\ Taken \o queue = SubSeq(log, upTo[firstScanned - 1] + 1, before)
      BY <1>8, <2>2, <3>1 DEF DepositInv, DeliveryInv
    <3>3. QED
      BY <1>1, <1>5, <1>9, <3>1, <3>2 DEF DeliveryInv
  <2>3. QED
    BY <1>2, <2>1, <2>2
<1>14. NotedInv'
  BY <1>1, <1>2, <1>7, <1>8, <1>9 DEF DepositInv, NotedInv, Nonce
<1>15. QED
  BY <1>10, <1>11, <1>12, <1>13, <1>14 DEF DepositInv

\* A sequence is its head and then its tail.
LEMMA HeadThenTail ==
  ASSUME NEW S, NEW s \in Seq(S), s # <<>>
  PROVE  /\ Head(s) \in S /\ Tail(s) \in Seq(S) /\ <<Head(s)>> \in Seq(S)
         /\ s = <<Head(s)>> \o Tail(s)
<1>1. Head(s) \in S /\ Tail(s) \in Seq(S) /\ Len(s) \in Nat \ {0} /\ Head(s) = s[1]
  BY HeadTailProperties, EmptySeq
<1>2. SubSeq(s, 1, Len(s)) = <<s[1]>> \o SubSeq(s, 1 + 1, Len(s))
  BY <1>1, SubSeqRecursiveFirst
<1>3. SubSeq(s, 1, Len(s)) = s /\ Tail(s) = SubSeq(s, 2, Len(s))
  BY SubSeqFull, TailIsSubSeq
<1>4. QED
  BY <1>1, <1>2, <1>3

LEMMA RegroupDeposits == \A s, t, u \in Seq(Deposit) : (s \o t) \o u = s \o (t \o u)
BY ConcatAssociative

\* The processor takes the oldest deposit of the queue: it stays in its place
\* between what was taken and what is queued.
LEMMA ProcessInv ==
  ASSUME DepositInv, ProcessDeposit
  PROVE  DepositInv'
<1>1. /\ queue # <<>> /\ credited' = Append(credited, Head(queue)) /\ queue' = Tail(queue)
      /\ UNCHANGED <<head, log, upTo, clock, poller, lastScanned, window, found, noted, crashes,
                     firstScanned, inherited>>
  BY DEF ProcessDeposit, chain
<1>2. /\ queue \in Seq(Deposit) /\ credited \in Seq(Deposit) /\ Taken \in Seq(Deposit)
      /\ Len(credited) \in Nat /\ inherited \in 0 .. Len(credited)
  BY DepositTypes
<1> DEFINE first == <<Head(queue)>>
<1>3. /\ Head(queue) \in Deposit /\ Tail(queue) \in Seq(Deposit) /\ first \in Seq(Deposit)
      /\ queue = first \o Tail(queue)
  BY <1>1, <1>2, HeadThenTail
<1>4. /\ credited' \in Seq(Deposit) /\ Len(credited') = Len(credited) + 1
      /\ credited'[Len(credited) + 1] = Head(queue) /\ credited' = credited \o first
  BY <1>1, <1>2, <1>3, AppendProperties, AppendIsConcat
<1>5. Taken' = Taken \o first
  <2>1. inherited + 1 \in 1 .. Len(credited') /\ Len(credited') \in inherited + 1 .. Len(credited')
    BY <1>2, <1>4
  <2>2. SubSeq(credited', inherited + 1, Len(credited'))
          = SubSeq(credited', inherited + 1, Len(credited') - 1) \o <<credited'[Len(credited')]>>
    BY <1>4, <2>1, SubSeqRecursiveSecond
  <2>3. Len(credited') - 1 = Len(credited) /\ <<credited'[Len(credited')]>> = first
    BY <1>2, <1>4
  <2> HIDE DEF first
  <2>4. SubSeq(credited \o first, inherited + 1, Len(credited))
          = SubSeq(credited, inherited + 1, Len(credited))
    <3>1. inherited + 1 \in 1 .. Len(credited) + 1 /\ Len(credited) \in 0 .. Len(credited)
      BY <1>2
    <3>2. QED
      BY <1>2, <1>3, <3>1, SubSeqOfLonger
  <2>5. QED
    BY <1>1, <1>4, <2>2, <2>3, <2>4 DEF Taken
<1> HIDE DEF first
<1>6. Taken' \o queue' = Taken \o queue
  <2>1. (Taken \o first) \o Tail(queue) = Taken \o (first \o Tail(queue))
    BY <1>2, <1>3, RegroupDeposits
  <2>2. QED
    BY <1>1, <1>3, <1>5, <2>1
<1>7. DepositTypeOK'
  <2>1. inherited' \in 0 .. Len(credited')
    BY <1>1, <1>2, <1>4
  <2>2. QED
    BY <1>1, <1>3, <1>4, <2>1 DEF DepositInv, DepositTypeOK
<1>8. ChainInv' /\ PollInv'
  BY <1>1 DEF DepositInv, ChainInv, PollInv, Nonce
<1>9. Position' = Position
  BY <1>1 DEF Position
<1>10. DeliveryInv' /\ NotedInv'
  BY <1>1, <1>6, <1>9 DEF DepositInv, DeliveryInv, NotedInv, Nonce
<1>11. QED
  BY <1>7, <1>8, <1>10 DEF DepositInv

\* The next deposit found has a nonce of its own, so that it is enqueued behind
\* what was taken and queued before.
LEMMA EnqueueInv ==
  ASSUME DepositInv, EnqueueFound
  PROVE  DepositInv'
<1> DEFINE d == Head(found)
           first == <<d>>
<1>1. /\ poller = "enqueue" /\ found # <<>> /\ found' = Tail(found)
      /\ queue' = IF MessageHash(d) \in noted THEN queue ELSE Append(queue, d)
      /\ noted' = noted \cup {MessageHash(d)}
      /\ UNCHANGED <<head, log, upTo, clock, poller, lastScanned, window, crashes, firstScanned,
                     credited, inherited>>
  BY DEF EnqueueFound, chain
<1>2. /\ log \in Seq(Deposit) /\ Len(log) \in Nat
      /\ found \in Seq(Deposit) /\ Len(found) \in Nat
      /\ queue \in Seq(Deposit) /\ Taken \in Seq(Deposit)
      /\ lastScanned \in 0 .. head /\ firstScanned \in 0 .. head /\ head \in Nat
      /\ upTo[lastScanned] \in 0 .. Len(log)
  BY DepositTypes
<1>3. lastScanned > 0 /\ firstScanned > 0
  BY <1>1, <1>2 DEF DepositInv, PollInv
<1> DEFINE start == upTo[firstScanned - 1]
           upto == upTo[lastScanned]
<1>4. /\ start \in 0 .. Position /\ Position \in 0 .. upto
      /\ Taken \o queue = SubSeq(log, start + 1, Position)
      /\ found = SubSeq(log, Position + 1, upto)
  <2>1. firstScanned - 1 \in 0 .. head
    BY <1>2, <1>3
  <2>2. start \in 0 .. Len(log)
    BY <2>1, DepositTypes
  <2>3. start <= Position /\ Position \in Int /\ Position <= upto
    BY <1>2, <1>3 DEF DepositInv, DeliveryInv, Position
  <2>4. Taken \o queue = SubSeq(log, start + 1, Position) /\ found = SubSeq(log, Position + 1, upto)
    BY <1>3 DEF DepositInv, DeliveryInv
  <2> HIDE DEF start, upto
  <2>5. start \in 0 .. Position /\ Position \in 0 .. upto
    BY <1>2, <2>2, <2>3
  <2>6. QED
    BY <2>4, <2>5
<1>5. Len(found) = upto - Position /\ Len(found) > 0 /\ Position < upto
  BY <1>1, <1>2, EmptySeq DEF Position
<1> DEFINE at == Position + 1
<1>6. at \in 1 .. Len(log) /\ upto \in at .. Len(log)
  BY <1>2, <1>4, <1>5
<1>7. d = log[at] /\ found' = SubSeq(log, at + 1, upto) /\ d \in Deposit
  <2>1. Head(SubSeq(log, at, upto)) = log[at] /\ Tail(SubSeq(log, at, upto)) = SubSeq(log, at + 1, upto)
    BY <1>2, <1>6, HeadTailOfSubSeq
  <2>2. log[at] \in Deposit
    BY <1>2, <1>6, ElementOfSeq
  <2>3. QED
    BY <1>1, <1>4, <2>1, <2>2
<1>8. found' \in Seq(Deposit) /\ Len(found') = Len(found) - 1 /\ first \in Seq(Deposit)
  BY <1>1, <1>2, HeadTailProperties, HeadThenTail
<1> HIDE DEF d
<1>9. MessageHash(d) \notin noted
  <2> SUFFICES ASSUME MessageHash(d) \in noted
               PROVE  FALSE
    OBVIOUS
  <2>1. PICK i \in 1 .. Position : MessageHash(d).nonce = Nonce(log[i])
    BY DEF DepositInv, NotedInv
  <2>2. MessageHash(d).nonce = Nonce(log[at])
    BY <1>7 DEF MessageHash
  <2>3. i \in 1 .. Len(log) /\ i < at
    BY <1>2, <1>4, <1>6
  <2>4. Nonce(log[i]) < Nonce(log[at])
    BY <1>6, <2>3 DEF DepositInv, ChainInv
  <2>5. Nonce(log[at]) \in Int
    BY <1>7, DepositAssumption DEF Nonce, Deposit, Block
  <2>6. QED
    BY <2>1, <2>2, <2>4, <2>5
<1>10. queue' = queue \o first /\ queue' \in Seq(Deposit)
  BY <1>1, <1>2, <1>7, <1>9, AppendIsConcat, AppendProperties
<1>11. Position' = at /\ Taken' = Taken
  BY <1>1, <1>2, <1>8 DEF Position, Taken
<1>12. SubSeq(log, start + 1, at) = SubSeq(log, start + 1, Position) \o first
  <2>1. CASE start = Position
    <3>1. SubSeq(log, start + 1, Position) = <<>>
      BY <1>4, <2>1, SubSeqEmpty
    <3>2. SubSeq(log, at, at) = <<log[at]>> \o SubSeq(log, at + 1, at)
      BY <1>2, <1>6, SubSeqRecursiveFirst
    <3>3. SubSeq(log, at + 1, at) = <<>>
      BY <1>6, SubSeqEmpty
    <3>4. first \o <<>> = first /\ <<>> \o first = first
      BY <1>8, ConcatEmptySeq
    <3>5. QED
      BY <1>7, <2>1, <3>1, <3>2, <3>3, <3>4
  <2>2. CASE start < Position
    <3> HIDE DEF start, upto
    <3>1. start + 1 \in 1 .. Len(log) /\ at \in start + 1 .. Len(log) /\ at - 1 = Position
      BY <1>2, <1>4, <1>6, <2>2
    <3>2. QED
      BY <1>2, <1>7, <3>1, SubSeqRecursiveSecond
  <2> HIDE DEF start, upto
  <2>3. start = Position \/ start < Position
    BY <1>4
  <2>4. QED
    BY <2>1, <2>2, <2>3
<1> HIDE DEF first, start, upto
<1>13. Taken' \o queue' = SubSeq(log, start + 1, at)
  <2>1. (Taken \o queue) \o first = Taken \o (queue \o first)
    BY <1>2, <1>8, RegroupDeposits
  <2>2. QED
    BY <1>4, <1>10, <1>11, <1>12, <2>1
<1>14. DepositTypeOK'
  <2>1. MessageHash(d) \in Hash
    <3>1. Nonce(d) \in Nat /\ d.payload \in Payloads
      BY <1>7, DepositAssumption DEF Nonce, Deposit, Block
    <3>2. clock \in Nat
      BY DepositAssumption DEF DepositInv, DepositTypeOK
    <3>3. QED
      BY <3>1, <3>2 DEF MessageHash, Hash
  <2>2. QED
    BY <1>1, <1>8, <1>10, <2>1 DEF DepositInv, DepositTypeOK
<1>15. ChainInv'
  BY <1>1 DEF DepositInv, ChainInv, Nonce
<1>16. PollInv'
  BY <1>1, <1>3 DEF DepositInv, PollInv
<1>17. DeliveryInv'
  <2>1. start' = start /\ upto' = upto
    BY <1>1 DEF start, upto
  <2>2. start <= at
    BY <1>4, <1>6
  <2>3. QED
    BY <1>1, <1>7, <1>11, <1>13, <2>2 DEF DeliveryInv, start, upto
<1>18. NotedInv'
  <2> SUFFICES ASSUME NEW h \in noted'
               PROVE  \E i \in 1 .. at : h.nonce = Nonce(log[i])
    BY <1>1, <1>11 DEF NotedInv, Nonce
  <2>1. CASE h \in noted
    <3>1. PICK i \in 1 .. Position : h.nonce = Nonce(log[i])
      BY <2>1 DEF DepositInv, NotedInv
    <3>2. i \in 1 .. at
      BY <1>4, <1>6
    <3>3. QED
      BY <3>1, <3>2
  <2>2. CASE h = MessageHash(d)
    <3>1. h.nonce = Nonce(log[at]) /\ at \in 1 .. at
      BY <1>6, <1>7, <2>2 DEF MessageHash
    <3>2. QED
      BY <3>1
  <2>3. QED
    BY <1>1, <2>1, <2>2
<1>19. QED
  BY <1>14, <1>15, <1>16, <1>17, <1>18 DEF DepositInv

LEMMA DepositStepInv == DepositInv /\ [DepositNext]_depositVars => DepositInv'
<1>1. DepositInv /\ UNCHANGED depositVars => DepositInv'
  BY DEF DepositInv, DepositTypeOK, ChainInv, PollInv, DeliveryInv, NotedInv, Position, Taken,
         Nonce, depositVars, chain, memory
<1>2. QED
  BY <1>1, NewBlockInv, ClockInv, StartPollInv, QueryInv, PollEndsInv, EnqueueInv, ProcessInv,
     RestartInv DEF DepositNext

\* Taken, queued and found are three adjacent pieces of the log.
LEMMA DepositInvDelivers == DepositInv => DeliversContiguousLog
<1> SUFFICES ASSUME DepositInv, firstScanned > 0
             PROVE  SubSeq(credited, inherited + 1, Len(credited)) \o queue \o found
                      = DepositsIn(firstScanned, lastScanned)
  BY DEF DeliversContiguousLog
<1> DEFINE start == upTo[firstScanned - 1]
           upto == upTo[lastScanned]
<1>1. /\ log \in Seq(Deposit) /\ Len(log) \in Nat /\ Len(found) \in Nat
      /\ lastScanned \in 0 .. head /\ firstScanned \in 0 .. head /\ head \in Nat
      /\ upto \in 0 .. Len(log)
  BY DepositTypes
<1>2. firstScanned - 1 \in 0 .. head
  BY <1>1
<1>3. start \in 0 .. Len(log) /\ Position \in Int /\ Position <= upto /\ start <= Position
  <2>1. start \in 0 .. Len(log)
    BY <1>2, DepositTypes
  <2>2. Position \in Int /\ Position <= upto
    BY <1>1 DEF Position
  <2>3. start <= Position
    BY DEF DepositInv, DeliveryInv
  <2>4. QED
    BY <2>1, <2>2, <2>3
<1>4. /\ Taken \o queue = SubSeq(log, start + 1, Position)
      /\ found = SubSeq(log, Position + 1, upto)
  BY DEF DepositInv, DeliveryInv
<1>5. SubSeq(log, start + 1, Position) \o SubSeq(log, Position + 1, upto)
        = SubSeq(log, start + 1, upto)
  <2> HIDE DEF start, upto
  <2>1. start + 1 \in 1 .. Len(log) + 1 /\ Position \in (start + 1) - 1 .. Len(log)
        /\ upto \in Position .. Len(log)
    BY <1>1, <1>3
  <2>2. QED
    BY <1>1, <2>1, ConcatAdjacentSubSeq
<1>6. DepositsIn(firstScanned, lastScanned) = SubSeq(log, start + 1, upto)
  <2>1. (IF lastScanned <= head THEN lastScanned ELSE head) = lastScanned
    BY <1>1
  <2>2. QED
    BY <2>1 DEF DepositsIn
<1>7. QED
  BY <1>4, <1>5, <1>6 DEF Taken

LEMMA DepositInvHolds == DepositSpec => []DepositInv
BY DepositInitInv, DepositStepInv, PTL DEF DepositSpec

\* Theorem: the chain, the poller and the queue are well typed, for any chain,
\* windows and restarts.
THEOREM DepositsTyped == DepositSpec => []DepositTypeOK
<1>1. DepositInv => DepositTypeOK
  BY DEF DepositInv
<1>2. QED
  BY <1>1, DepositInvHolds, PTL

\* Theorem: what a process has taken, queued and found is a contiguous piece of
\* the log of L1, in its order (DeliversContiguousLog), whatever the blocks hold,
\* however long the windows are, and whichever queries fail.
THEOREM DeliversLog == DepositSpec => []DeliversContiguousLog
BY DepositInvDelivers, DepositInvHolds, PTL

-----------------------------------------------------------------------------
(* The stream that L2 sees *)

\* The place of the next deposit to be credited, as the refinement has it.
NextPlace ==
  IF Len(credited) = inherited THEN 0
  ELSE upTo[firstScanned - 1] + (Len(credited) - inherited) + 1

\* The log only grows, behind every place in use.
LEMMA LogGrows ==
  ASSUME DepositInv, NEW payloads \in SeqOf(Payloads, MaxLogs), NewL1Block(payloads)
  PROVE  log' \in Seq(Deposit) /\ IsPrefix(log, log') /\ NextPlace' = NextPlace
<1> DEFINE events == [k \in 1 .. Len(payloads) |->
                        [block |-> head + 1, index |-> k, payload |-> payloads[k]]]
<1>1. /\ log \in Seq(Deposit) /\ Len(log) \in Nat /\ Len(credited) \in Nat /\ head \in Nat
      /\ firstScanned \in 0 .. head
  BY DepositTypes
<1>2. events \in Seq(Deposit)
  BY BlockEvents
<1>3. log' = log \o events
  BY DEF NewL1Block
<1> HIDE DEF events
<1>4. log' \in Seq(Deposit) /\ Len(log') = Len(log) + Len(events) /\ Len(events) \in Nat
  BY <1>1, <1>2, <1>3, ConcatProperties, LenProperties
<1>5. SubSeq(log', 1, Len(log)) = SubSeq(log, 1, Len(log))
  BY <1>1, <1>2, <1>3, SubSeqOfLonger
<1>6. IsPrefix(log, log')
  BY <1>1, <1>4, <1>5 DEF IsPrefix
<1>7. NextPlace' = NextPlace
  <2>1. /\ upTo' = [upTo EXCEPT ![head + 1] = Len(log) + Len(payloads)]
        /\ UNCHANGED <<firstScanned, credited, inherited>>
    BY DEF NewL1Block
  <2>2. CASE Len(credited) = inherited
    BY <2>1, <2>2 DEF NextPlace
  <2>3. CASE Len(credited) # inherited
    <3>1. firstScanned - 1 \in 0 .. head
      BY <1>1, <2>3 DEF DepositInv, PollInv
    <3>2. upTo'[firstScanned - 1] = upTo[firstScanned - 1]
      BY <1>1, <2>1, <3>1 DEF DepositInv, DepositTypeOK
    <3>3. QED
      BY <2>1, <3>2 DEF NextPlace
  <2>4. QED
    BY <2>2, <2>3
<1>8. QED
  BY <1>4, <1>6, <1>7

\* The head of the queue is the deposit on L1 right behind the last one credited.
LEMMA HeadIsNext ==
  ASSUME DepositInv, queue # <<>>
  PROVE  \E k \in 1 .. Len(log) :
           /\ firstScanned > 0
           /\ k = upTo[firstScanned - 1] + (Len(credited) - inherited) + 1
           /\ Head(queue) = log[k]
<1> DEFINE start == upTo[firstScanned - 1]
           n == Len(credited) - inherited
<1>1. /\ log \in Seq(Deposit) /\ Len(log) \in Nat /\ Len(found) \in Nat
      /\ queue \in Seq(Deposit) /\ credited \in Seq(Deposit) /\ Taken \in Seq(Deposit)
      /\ Len(credited) \in Nat /\ inherited \in 0 .. Len(credited)
      /\ head \in Nat /\ firstScanned \in 0 .. head /\ lastScanned \in 0 .. head
  BY DepositTypes
<1>2. firstScanned > 0 /\ firstScanned - 1 \in 0 .. head
  BY <1>1 DEF DepositInv, PollInv
<1>3. start \in 0 .. Len(log) /\ upTo[lastScanned] \in 0 .. Len(log)
  BY <1>1, <1>2, DepositTypes
<1>4. Position \in 0 .. Len(log) /\ start <= Position
  <2>1. start <= Position
    BY <1>2 DEF DepositInv, DeliveryInv
  <2>2. Position \in Int /\ Position <= upTo[lastScanned]
    BY <1>1, <1>3 DEF Position
  <2> HIDE DEF start
  <2>3. QED
    BY <1>3, <2>1, <2>2
<1>5. Taken \o queue = SubSeq(log, start + 1, Position)
  BY <1>2 DEF DepositInv, DeliveryInv
<1>6. Len(Taken) = n /\ n \in Nat
  BY <1>1, SubSeqProperties DEF Taken
<1>7. Len(queue) \in Nat \ {0} /\ Head(queue) = queue[1]
  BY <1>1, LenProperties, HeadTailProperties, EmptySeq
<1> HIDE DEF start, n
<1>8. Len(Taken \o queue) = n + Len(queue) /\ (Taken \o queue)[n + 1] = Head(queue)
  <2>1. n + 1 \in 1 .. Len(Taken) + Len(queue) /\ ~(n + 1 <= Len(Taken)) /\ n + 1 - Len(Taken) = 1
    BY <1>6, <1>7
  <2>2. /\ Len(Taken \o queue) = Len(Taken) + Len(queue)
        /\ \A i \in 1 .. Len(Taken) + Len(queue) :
             (Taken \o queue)[i] = IF i <= Len(Taken) THEN Taken[i] ELSE queue[i - Len(Taken)]
    BY <1>1, ConcatProperties
  <2>3. QED
    BY <1>6, <1>7, <2>1, <2>2
<1>9. /\ Len(SubSeq(log, start + 1, Position)) = Position - start
      /\ \A i \in 1 .. Position - start :
           SubSeq(log, start + 1, Position)[i] = log[start + i]
  <2>1. start + 1 \in 1 .. Len(log) + 1 /\ Position \in start .. Len(log)
    BY <1>1, <1>3, <1>4
  <2>2. QED
    BY <1>1, <1>3, <1>4, <2>1, SubSeqProperties
<1>10. n + 1 \in 1 .. Position - start
  BY <1>3, <1>4, <1>5, <1>6, <1>7, <1>8, <1>9
<1>11. start + n + 1 \in 1 .. Len(log) /\ Head(queue) = log[start + n + 1]
  <2>1. start + (n + 1) = start + n + 1
    BY <1>3, <1>6
  <2>2. Head(queue) = log[start + (n + 1)]
    BY <1>5, <1>8, <1>9, <1>10
  <2>3. QED
    BY <1>3, <1>4, <1>6, <1>10, <2>1, <2>2
<1>12. QED
  BY <1>2, <1>11 DEF start, n

\* Every step of the bridge is a step of the stream or none at all.
LEMMA StreamStep ==
  ASSUME DepositInv, DepositInv', [DepositNext]_depositVars
  PROVE  [Stream!Next]_(Stream!streamVars)
<1> USE DEF Stream!streamVars
<1>1. ASSUME NEW payloads \in SeqOf(Payloads, MaxLogs), NewL1Block(payloads)
      PROVE  Stream!Grow
  <2>1. credited' = credited
    BY <1>1 DEF NewL1Block
  <2>2. log' \in Seq(Deposit) /\ IsPrefix(log, log') /\ NextPlace' = NextPlace
    BY <1>1, LogGrows
  <2>3. QED
    BY <2>1, <2>2 DEF Stream!Grow, NextPlace, IsPrefix, Stream!IsPrefix
<1>2. CASE UNCHANGED <<log, upTo, credited, inherited, firstScanned>>
  BY <1>2
<1>3. CASE QueryOk
  <2>1. UNCHANGED <<log, upTo, credited, inherited>> /\ (firstScanned # 0 => firstScanned' = firstScanned)
    BY <1>3 DEF QueryOk, chain
  <2>2. firstScanned = 0 => Len(credited) = inherited
    BY DepositTypes DEF DepositInv, PollInv
  <2>3. QED
    BY <2>1, <2>2
<1>4. CASE ProcessDeposit
  <2>1. /\ queue # <<>> /\ credited' = Append(credited, Head(queue))
        /\ UNCHANGED <<log, upTo, firstScanned, inherited>>
    BY <1>4 DEF ProcessDeposit, chain
  <2>2. PICK k \in 1 .. Len(log) :
          /\ firstScanned > 0
          /\ k = upTo[firstScanned - 1] + (Len(credited) - inherited) + 1
          /\ Head(queue) = log[k]
    BY <2>1, HeadIsNext
  <2>3. /\ credited \in Seq(Deposit) /\ Len(credited) \in Nat /\ inherited \in 0 .. Len(credited)
        /\ upTo[firstScanned - 1] \in Nat /\ Head(queue) \in Deposit
    <3>1. /\ credited \in Seq(Deposit) /\ Len(credited) \in Nat /\ inherited \in 0 .. Len(credited)
          /\ queue \in Seq(Deposit) /\ Len(log) \in Nat /\ head \in Nat
          /\ firstScanned \in 0 .. head
      BY DepositTypes
    <3>2. firstScanned - 1 \in 0 .. head
      BY <2>2, <3>1
    <3>3. upTo[firstScanned - 1] \in 0 .. Len(log)
      BY <3>2, DepositTypes
    <3>4. Head(queue) \in Deposit
      BY <2>1, <3>1, HeadThenTail
    <3>5. QED
      BY <3>1, <3>3, <3>4
  <2>4. Len(credited') = Len(credited) + 1
    BY <2>1, <2>3, AppendProperties
  <2>5. NextPlace \in {0, k} /\ NextPlace' = k + 1
    <3> DEFINE start == upTo[firstScanned - 1]
    <3>1. NextPlace \in {0, k}
      BY <2>2 DEF NextPlace
    <3>2. NextPlace' = IF Len(credited') = inherited THEN 0 ELSE start + (Len(credited') - inherited) + 1
      BY <2>1 DEF NextPlace
    <3> HIDE DEF start
    <3>3. start \in Nat /\ k = start + (Len(credited) - inherited) + 1
      BY <2>2, <2>3 DEF start
    <3>4. NextPlace' = k + 1
      BY <2>3, <2>4, <3>2, <3>3
    <3>5. QED
      BY <3>1, <3>4
  <2>6. Stream!Credit(k)
    BY <2>1, <2>2, <2>5 DEF Stream!Credit, NextPlace
  <2>7. QED
    BY <2>6 DEF Stream!Next
<1>5. CASE Restart
  <2>1. inherited' = Len(credited) /\ UNCHANGED <<log, credited>>
    BY <1>5 DEF Restart, chain
  <2>2. QED
    BY <2>1 DEF Stream!Next, Stream!Restart
<1>6. CASE UNCHANGED depositVars
  BY <1>2, <1>6 DEF depositVars, chain
<1>7. CASE ClockTicks \/ StartPoll \/ QueryFails \/ EnqueueFound \/ EndPoll
  BY <1>2, <1>7 DEF ClockTicks, StartPoll, QueryFails, EnqueueFound, EndPoll, chain
<1>8. QED
  BY <1>1, <1>3, <1>4, <1>5, <1>6, <1>7 DEF DepositNext, Stream!Next

\* Theorem: seen from L2 the bridge is a DepositStream (ImplementsStream): each
\* process credits the deposits of L1 one after the other, in their order and
\* without a gap, whatever the blocks hold, however long the windows are, and
\* whichever queries fail.
THEOREM DepositsImplementStream == DepositSpec => ImplementsStream
<1>1. DepositInit => Stream!Init
  BY DEF DepositInit, Stream!Init
<1>2. DepositInv /\ DepositInv' /\ [DepositNext]_depositVars => [Stream!Next]_(Stream!streamVars)
  BY StreamStep
<1>3. QED
  BY <1>1, <1>2, DepositInvHolds, PTL DEF DepositSpec, ImplementsStream, Stream!Spec

\* What one process takes are different deposits, as it takes a piece of the log.
LEMMA SuffixShape ==
  ASSUME NEW S, NEW s \in Seq(S), NEW n \in 0 .. Len(s)
  PROVE  /\ Len(SubSeq(s, n + 1, Len(s))) = Len(s) - n
         /\ \A k \in 1 .. Len(s) - n : SubSeq(s, n + 1, Len(s))[k] = s[n + k]
<1>1. Len(s) \in Nat /\ n \in Nat /\ n <= Len(s)
  BY LenProperties
<1>2. \A k \in n + 1 .. Len(s) : s[k] \in S
  BY <1>1, ElementOfSeq
<1>3. /\ Len(SubSeq(s, n + 1, Len(s))) = IF n + 1 <= Len(s) THEN Len(s) - (n + 1) + 1 ELSE 0
      /\ \A k \in 1 .. Len(s) - (n + 1) + 1 : SubSeq(s, n + 1, Len(s))[k] = s[n + 1 + k - 1]
  BY <1>1, <1>2, SubSeqProperties
<1>4. Len(SubSeq(s, n + 1, Len(s))) = Len(s) - n
  BY <1>1, <1>3
<1>5. ASSUME NEW k \in 1 .. Len(s) - n
      PROVE  SubSeq(s, n + 1, Len(s))[k] = s[n + k]
  <2>1. k \in 1 .. Len(s) - (n + 1) + 1 /\ n + 1 + k - 1 = n + k
    BY <1>1
  <2>2. QED
    BY <1>3, <2>1
<1>6. QED
  BY <1>4, <1>5

LEMMA TakenShape ==
  ASSUME DepositInv
  PROVE  /\ Len(Taken) = Len(credited) - inherited
         /\ DOMAIN Taken = 1 .. Len(credited) - inherited
         /\ \A k \in 1 .. Len(credited) - inherited : Taken[k] = credited[inherited + k]
<1>1. /\ credited \in Seq(Deposit) /\ Taken \in Seq(Deposit)
      /\ inherited \in 0 .. Len(credited)
  BY DepositTypes
<1>2. /\ Len(Taken) = Len(credited) - inherited
      /\ \A k \in 1 .. Len(credited) - inherited : Taken[k] = credited[inherited + k]
  BY <1>1, SuffixShape DEF Taken
<1>3. DOMAIN Taken = 1 .. Len(Taken)
  BY <1>1, LenProperties
<1>4. QED
  BY <1>2, <1>3

LEMMA TakenOnce == DepositInv => IsInjective(Taken)
<1> SUFFICES ASSUME DepositInv, NEW i \in DOMAIN Taken, NEW j \in DOMAIN Taken, Taken[i] = Taken[j]
             PROVE  i = j
  BY DEF IsInjective
<1> DEFINE start == upTo[firstScanned - 1]
<1>1. /\ log \in Seq(Deposit) /\ Len(log) \in Nat /\ Len(found) \in Nat
      /\ queue \in Seq(Deposit) /\ credited \in Seq(Deposit) /\ Taken \in Seq(Deposit)
      /\ Len(credited) \in Nat /\ inherited \in 0 .. Len(credited)
      /\ head \in Nat /\ firstScanned \in 0 .. head /\ lastScanned \in 0 .. head
  BY DepositTypes
<1>2. /\ Len(Taken) \in Nat /\ DOMAIN Taken = 1 .. Len(Taken)
      /\ Len(queue) \in Nat /\ Len(Taken) = Len(credited) - inherited
  BY <1>1, TakenShape, LenProperties
<1>3. firstScanned > 0 /\ firstScanned - 1 \in 0 .. head
  BY <1>1, <1>2 DEF DepositInv, PollInv
<1>4. start \in 0 .. Len(log) /\ upTo[lastScanned] \in 0 .. Len(log)
  BY <1>1, <1>3, DepositTypes
<1>5. start <= Position /\ Taken \o queue = SubSeq(log, start + 1, Position)
  BY <1>3 DEF DepositInv, DeliveryInv
<1>6. Position \in Int /\ Position <= upTo[lastScanned]
  BY <1>1, <1>4 DEF Position
<1>7. \A a, b \in 1 .. Len(log) : a < b => log[a] # log[b]
  <2>1. ASSUME NEW a \in 1 .. Len(log)
        PROVE  Nonce(log[a]) \in Int
    <3>1. log[a] \in Deposit
      BY <1>1
    <3>2. log[a].block \in Int /\ log[a].index \in Int /\ NonceStride \in Int
      BY <3>1, DepositAssumption DEF Deposit, Block
    <3>3. QED
      BY <3>2 DEF Nonce
  <2>2. QED
    BY <2>1 DEF DepositInv, ChainInv
<1> HIDE DEF start
<1>8. /\ Len(SubSeq(log, start + 1, Position)) = Position - start
      /\ \A k \in 1 .. Position - start :
           SubSeq(log, start + 1, Position)[k] = log[start + k]
  <2>1. start + 1 \in 1 .. Len(log) + 1 /\ Position \in start .. Len(log)
    BY <1>1, <1>4, <1>5, <1>6
  <2>2. QED
    BY <1>1, <1>4, <1>5, <2>1, SubSeqProperties
<1>9. /\ Len(Taken \o queue) = Len(Taken) + Len(queue)
      /\ \A k \in 1 .. Len(Taken) : (Taken \o queue)[k] = Taken[k]
  <2>1. /\ Len(Taken \o queue) = Len(Taken) + Len(queue)
        /\ \A k \in 1 .. Len(Taken) + Len(queue) :
             (Taken \o queue)[k] = IF k <= Len(Taken) THEN Taken[k] ELSE queue[k - Len(Taken)]
    BY <1>1, ConcatProperties
  <2>2. \A k \in 1 .. Len(Taken) : k \in 1 .. Len(Taken) + Len(queue) /\ k <= Len(Taken)
    BY <1>2
  <2>3. QED
    BY <2>1, <2>2
<1>10. \A k \in 1 .. Len(Taken) : start + k \in 1 .. Len(log) /\ Taken[k] = log[start + k]
  <2>1. Len(Taken) <= Position - start /\ Position <= Len(log)
    <3>1. Len(Taken) + Len(queue) = Position - start
      BY <1>5, <1>8, <1>9
    <3>2. start \in Nat /\ upTo[lastScanned] <= Len(log) /\ upTo[lastScanned] \in Nat
      BY <1>1, <1>4
    <3>3. QED
      <4>1. Len(Taken) <= Position - start
        BY <1>2, <1>6, <3>1, <3>2
      <4>2. Position <= Len(log)
        BY <1>1, <1>6, <3>2
      <4>3. QED
        BY <4>1, <4>2
  <2>2. \A k \in 1 .. Len(Taken) : k \in 1 .. Position - start /\ start + k \in 1 .. Len(log)
    BY <1>1, <1>2, <1>4, <1>6, <2>1
  <2>3. QED
    BY <1>5, <1>8, <1>9, <2>2
<1>11. /\ start + i \in 1 .. Len(log) /\ start + j \in 1 .. Len(log)
       /\ log[start + i] = log[start + j] /\ i \in Int /\ j \in Int
  BY <1>2, <1>10
<1>12. ~(start + i < start + j) /\ ~(start + j < start + i)
  BY <1>7, <1>11
<1>13. QED
  BY <1>4, <1>11, <1>12

\* Theorem: a process credits no deposit twice, whatever is polled again and however
\* often; with no restart this is CreditedOnce, and it is a restart alone that can
\* break CreditedOnce.
THEOREM ProcessCreditsOnce == DepositSpec => [](IsInjective(Taken) /\ (crashes = 0 => CreditedOnce))
<1>1. DepositInv => IsInjective(Taken)
  BY TakenOnce
<1> DEFINE Fresh == crashes = 0 => inherited = 0
<1>2. DepositInit => Fresh
  BY DEF DepositInit
<1>3. DepositInv /\ Fresh /\ [DepositNext]_depositVars => Fresh'
  <2> SUFFICES ASSUME DepositInv, Fresh, [DepositNext]_depositVars
               PROVE  Fresh'
    OBVIOUS
  <2>1. CASE Restart
    <3>1. crashes \in Nat /\ crashes' = crashes + 1
      BY <2>1, DepositAssumption DEF Restart, DepositInv, DepositTypeOK
    <3>2. QED
      BY <3>1
  <2>2. CASE ~Restart
    <3>1. UNCHANGED <<crashes, inherited>>
      BY <2>2 DEF DepositNext, NewL1Block, ClockTicks, StartPoll, QueryOk, QueryFails, EnqueueFound,
                  EndPoll, ProcessDeposit, depositVars
    <3>2. QED
      BY <3>1
  <2>3. QED
    BY <2>1, <2>2
<1>4. DepositInv /\ Fresh /\ IsInjective(Taken) => (crashes = 0 => CreditedOnce)
  <2> SUFFICES ASSUME DepositInv, inherited = 0
               PROVE  Taken = credited
    BY DEF CreditedOnce
  <2>1. credited \in Seq(Deposit)
    BY DepositTypes
  <2>2. QED
    BY <2>1, SubSeqFull DEF Taken
<1>5. QED
  BY <1>1, <1>2, <1>3, <1>4, DepositInvHolds, PTL DEF DepositSpec

\* The places at which a deposit is among the credited, and those of earlier processes.
CreditsOf(d) == {k \in 1 .. Len(credited) : credited[k] = d}
OlderCredits(d) == {k \in 1 .. inherited : credited[k] = d}

LEMMA CreditsFinite ==
  ASSUME DepositInv, NEW d \in Deposit
  PROVE  /\ IsFiniteSet(CreditsOf(d)) /\ Cardinality(CreditsOf(d)) \in Nat
         /\ IsFiniteSet(OlderCredits(d)) /\ Cardinality(OlderCredits(d)) \in Nat
<1>1. Len(credited) \in Nat /\ inherited \in Nat
  BY DepositTypes
<1>2. IsFiniteSet(1 .. Len(credited)) /\ IsFiniteSet(1 .. inherited)
  BY <1>1, FS_Interval
<1>3. IsFiniteSet(CreditsOf(d)) /\ IsFiniteSet(OlderCredits(d))
  BY <1>2, FS_Subset DEF CreditsOf, OlderCredits
<1>4. QED
  BY <1>3, FS_CardinalityType

\* This process adds at most one credit to those of the earlier ones.
LEMMA OneCreditMore ==
  ASSUME DepositInv, NEW d \in Deposit
  PROVE  Cardinality(CreditsOf(d)) <= Cardinality(OlderCredits(d)) + 1
<1>1. /\ Len(credited) \in Nat /\ inherited \in 0 .. Len(credited)
      /\ credited \in Seq(Deposit) /\ Taken \in Seq(Deposit)
  BY DepositTypes
<1>2. /\ DOMAIN Taken = 1 .. Len(credited) - inherited
      /\ \A k \in 1 .. Len(credited) - inherited : Taken[k] = credited[inherited + k]
  BY TakenShape
<1>3. \A k, l \in CreditsOf(d) : k > inherited /\ l > inherited => k = l
  <2> SUFFICES ASSUME NEW k \in CreditsOf(d), NEW l \in CreditsOf(d), k > inherited, l > inherited
               PROVE  k = l
    OBVIOUS
  <2>1. /\ k \in 1 .. Len(credited) /\ l \in 1 .. Len(credited)
        /\ credited[k] = d /\ credited[l] = d
    BY DEF CreditsOf
  <2>2. /\ k - inherited \in 1 .. Len(credited) - inherited /\ inherited + (k - inherited) = k
        /\ l - inherited \in 1 .. Len(credited) - inherited /\ inherited + (l - inherited) = l
    BY <1>1, <2>1
  <2>3. Taken[k - inherited] = d /\ Taken[l - inherited] = d
    BY <1>2, <2>1, <2>2
  <2>4. k - inherited = l - inherited
    BY <1>2, <2>2, <2>3, TakenOnce DEF IsInjective
  <2>5. QED
    BY <1>1, <2>1, <2>4
<1>4. \A k \in CreditsOf(d) : k <= inherited => k \in OlderCredits(d)
  BY <1>1 DEF CreditsOf, OlderCredits
<1>5. \A k \in CreditsOf(d) : k \in Int /\ inherited \in Int
  BY <1>1 DEF CreditsOf
<1>6. CASE \E k \in CreditsOf(d) : k > inherited
  <2>1. PICK k \in CreditsOf(d) : k > inherited
    BY <1>6
  <2>2. CreditsOf(d) \subseteq OlderCredits(d) \cup {k}
    BY <1>3, <1>4, <1>5, <2>1
  <2>3. /\ IsFiniteSet(OlderCredits(d) \cup {k})
        /\ Cardinality(OlderCredits(d) \cup {k}) <= Cardinality(OlderCredits(d)) + 1
    <3>1. IsFiniteSet(OlderCredits(d)) /\ Cardinality(OlderCredits(d)) \in Nat
      BY CreditsFinite
    <3>2. /\ IsFiniteSet(OlderCredits(d) \cup {k})
          /\ \/ Cardinality(OlderCredits(d) \cup {k}) = Cardinality(OlderCredits(d))
             \/ Cardinality(OlderCredits(d) \cup {k}) = Cardinality(OlderCredits(d)) + 1
      BY <3>1, FS_AddElement
    <3>3. QED
      BY <3>1, <3>2
  <2>4. Cardinality(CreditsOf(d)) <= Cardinality(OlderCredits(d) \cup {k})
    BY <2>2, <2>3, FS_Subset
  <2>5. Cardinality(OlderCredits(d) \cup {k}) \in Nat
    BY <2>3, FS_CardinalityType
  <2>6. QED
    BY <2>3, <2>4, <2>5, CreditsFinite
<1>7. CASE ~ \E k \in CreditsOf(d) : k > inherited
  <2>1. CreditsOf(d) \subseteq OlderCredits(d)
    BY <1>4, <1>5, <1>7
  <2>2. Cardinality(CreditsOf(d)) <= Cardinality(OlderCredits(d))
    BY <2>1, CreditsFinite, FS_Subset
  <2>3. QED
    BY <2>2, CreditsFinite
<1>8. QED
  BY <1>6, <1>7

OlderBounded == \A d \in Deposit : Cardinality(OlderCredits(d)) <= crashes

LEMMA OlderBoundedInv ==
  ASSUME DepositInv, DepositInv', OlderBounded, [DepositNext]_depositVars
  PROVE  OlderBounded'
<1> SUFFICES ASSUME NEW d \in Deposit
             PROVE  Cardinality(OlderCredits(d)') <= crashes'
  BY DEF OlderBounded
<1>1. crashes \in Nat /\ Cardinality(OlderCredits(d)) <= crashes
  BY DepositAssumption DEF OlderBounded, DepositInv, DepositTypeOK
<1>2. CASE Restart
  <2>1. crashes' = crashes + 1 /\ OlderCredits(d)' = CreditsOf(d)
    BY <1>2 DEF Restart, OlderCredits, CreditsOf
  <2>2. QED
    BY <1>1, <2>1, OneCreditMore, CreditsFinite
<1>3. CASE ProcessDeposit
  <2>1. /\ credited \in Seq(Deposit) /\ Len(credited) \in Nat /\ inherited \in 0 .. Len(credited)
        /\ queue \in Seq(Deposit) /\ queue # <<>>
    BY <1>3, DepositTypes DEF ProcessDeposit
  <2>2. Head(queue) \in Deposit
    BY <2>1, HeadTailProperties
  <2>3. \A k \in 1 .. inherited : credited'[k] = credited[k]
    <3>1. \A k \in 1 .. Len(credited) : Append(credited, Head(queue))[k] = credited[k]
      BY <2>1, <2>2, AppendProperties
    <3>2. QED
      BY <1>3, <2>1, <3>1 DEF ProcessDeposit
  <2>4. OlderCredits(d)' = OlderCredits(d) /\ crashes' = crashes
    BY <1>3, <2>3 DEF ProcessDeposit, OlderCredits
  <2>5. QED
    BY <1>1, <2>4
<1>4. CASE UNCHANGED <<crashes, inherited, credited>>
  BY <1>1, <1>4 DEF OlderCredits
<1>5. QED
  BY <1>2, <1>3, <1>4
     DEF DepositNext, NewL1Block, ClockTicks, StartPoll, QueryOk, QueryFails, EnqueueFound, EndPoll, depositVars

\* Theorem: a deposit is credited at most once more often than the sequencer was
\* restarted, whatever windows the processes read: each of them takes it once at most.
THEOREM RestartsBoundCredits ==
  DepositSpec => [](\A d \in Deposit : Cardinality(CreditsOf(d)) <= crashes + 1)
<1>1. DepositInit => OlderBounded
  <2> SUFFICES ASSUME DepositInit, NEW d \in Deposit
               PROVE  Cardinality(OlderCredits(d)) <= crashes
    BY DEF OlderBounded
  <2>1. OlderCredits(d) = {} /\ crashes = 0
    BY DEF DepositInit, OlderCredits
  <2>2. QED
    BY <2>1, FS_EmptySet
<1>2. DepositInv /\ OlderBounded => \A d \in Deposit : Cardinality(CreditsOf(d)) <= crashes + 1
  <2> SUFFICES ASSUME DepositInv, OlderBounded, NEW d \in Deposit
               PROVE  Cardinality(CreditsOf(d)) <= crashes + 1
    OBVIOUS
  <2>1. Cardinality(OlderCredits(d)) <= crashes /\ crashes \in Nat
    BY DepositAssumption DEF OlderBounded, DepositInv, DepositTypeOK
  <2>2. QED
    BY <2>1, OneCreditMore, CreditsFinite
<1>3. DepositInv /\ DepositInv' /\ OlderBounded /\ [DepositNext]_depositVars => OlderBounded'
  BY OlderBoundedInv
<1>4. QED
  BY <1>1, <1>2, <1>3, DepositInvHolds, PTL DEF DepositSpec
=============================================================================
