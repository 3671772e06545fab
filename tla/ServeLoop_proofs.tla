--------------------------- MODULE ServeLoop_proofs ---------------------------
(***************************************************************************)
(* Proofs about ServeLoop, for any messages, topics and tokens and any     *)
(* number of lost streams and restarts.                                    *)
(***************************************************************************)
EXTENDS ServeLoop, FiniteSetTheorems, SequenceTheorems, TLAPS

-------------------------------------------------------------------------------
(* Lemmas on membership in a sequence. *)

LEMMA InAppend ==
  ASSUME NEW S, NEW s \in Seq(S), NEW x \in S, NEW m
  PROVE  InSeq(m, Append(s, x)) <=> InSeq(m, s) \/ m = x
<1>1. /\ DOMAIN Append(s, x) = 1..(Len(s) + 1) /\ DOMAIN s = 1..Len(s)
      /\ Len(s) \in Nat
      /\ Append(s, x)[Len(s) + 1] = x
      /\ \A i \in 1..Len(s) : Append(s, x)[i] = s[i]
  OBVIOUS
<1>2. QED
  BY <1>1 DEF InSeq

LEMMA InTail ==
  ASSUME NEW S, NEW s \in Seq(S), s # <<>>, NEW m, InSeq(m, s)
  PROVE  m = Head(s) \/ InSeq(m, Tail(s))
<1>1. PICK i \in 1..Len(s) : s[i] = m
  BY DEF InSeq
<1>2. CASE i = 1
  BY <1>1, <1>2
<1>3. CASE i # 1
  <2>1. i - 1 \in DOMAIN Tail(s) /\ Tail(s)[i - 1] = s[i]
    BY <1>1, <1>3
  <2>2. QED
    BY <1>1, <2>1 DEF InSeq
<1>4. QED
  BY <1>2, <1>3

LEMMA NotInEmpty == \A m : ~InSeq(m, <<>>)
  BY DEF InSeq

-------------------------------------------------------------------------------
(* What handling one message does to the dedup set and to the executions.    *)
LEMMA HandleTyped ==
  ASSUME TypeOK, NEW m \in Msgs, Handle(m)
  PROVE  seen' \subseteq Tokens /\ runs' \in [Tokens -> Nat]
<1>1. CASE Wanted(m) /\ TokenOf[m] \notin seen
  <2>1. TokenOf[m] \in Tokens
    BY <1>1, ServeLoopAssumption DEF Wanted
  <2>2. seen' = Remember(TokenOf[m]) /\ runs' = [runs EXCEPT ![TokenOf[m]] = @ + 1]
    BY <1>1 DEF Handle, Fresh
  <2>3. QED
    BY <2>1, <2>2 DEF Remember, TypeOK
<1>2. CASE ~(Wanted(m) /\ TokenOf[m] \notin seen)
  BY <1>2 DEF Handle, Fresh, doneVars, TypeOK
<1>3. QED
  BY <1>1, <1>2

LEMMA TypeStep ==
  ASSUME TypeOK, [Next]_vars
  PROVE  TypeOK'
<1> USE ServeLoopAssumption DEF nodeVars, loopVars, missed, bounds
<1>0. <<>> \in Seq(Msgs)
  OBVIOUS
<1>1. ASSUME NEW m \in Msgs, Arrive(m) PROVE TypeOK'
  <2>1. Append(inbox, m) \in Seq(Msgs) /\ Append(queue, m) \in Seq(Msgs)
    BY DEF TypeOK
  <2>2. inbox' \in Seq(Msgs) /\ queue' \in Seq(Msgs) /\ gap' \subseteq Msgs
    BY <1>1, <2>1 DEF Arrive, TypeOK
  <2>3. QED
    BY <1>1, <2>2 DEF Arrive, TypeOK, doneVars
<1>2. CASE Break
  BY <1>2 DEF Break, TypeOK, doneVars
<1>3. CASE NodeRestart
  BY <1>3 DEF NodeRestart, TypeOK, doneVars
<1>4. CASE HostRestart
  BY <1>4 DEF HostRestart, TypeOK
<1>5. ASSUME NEW t \in Topics, SubscribeOk(t) \/ SubscribeFail(t) PROVE TypeOK'
  BY <1>5 DEF SubscribeOk, SubscribeFail, TypeOK, doneVars
<1>6. CASE Subscribed \/ BatchDone \/ OpenOk \/ OpenFail
  BY <1>0, <1>6 DEF Subscribed, BatchDone, OpenOk, OpenFail, TypeOK, doneVars
<1>7. CASE DrainOk \/ StreamEnded \/ Reconnect
  <2>1. CASE DrainOk
    BY <1>0, <2>1 DEF DrainOk, TypeOK, doneVars
  <2>2. CASE StreamEnded \/ Reconnect
    BY <2>2 DEF StreamEnded, Reconnect, AfterBackoff, TypeOK, doneVars
  <2>3. QED
    BY <1>7, <2>1, <2>2
<1>8. CASE DrainFail
  <2>1. gap' \subseteq Msgs
    <3>1. \A i \in 1..Len(inbox) : inbox[i] \in Msgs
      BY ElementOfSeq DEF TypeOK
    <3>2. DOMAIN inbox = 1..Len(inbox)
      BY DEF TypeOK
    <3>3. QED
      BY <1>8, <3>1, <3>2 DEF DrainFail
  <2>2. QED
    BY <1>8, <2>1 DEF DrainFail, TypeOK, doneVars
<1>9. CASE HandleBatch
  <2>1. Head(batch) \in Msgs /\ Tail(batch) \in Seq(Msgs)
    BY <1>9 DEF HandleBatch, Rest, TypeOK
  <2>2. seen' \subseteq Tokens /\ runs' \in [Tokens -> Nat]
    BY <1>9, <2>1, HandleTyped DEF HandleBatch, Rest
  <2>3. QED
    BY <1>9, <2>1, <2>2 DEF HandleBatch, Rest, TypeOK
<1>10. CASE HandleItem
  <2>1. Head(queue) \in Msgs /\ Tail(queue) \in Seq(Msgs)
    BY <1>10 DEF HandleItem, TypeOK
  <2>2. seen' \subseteq Tokens /\ runs' \in [Tokens -> Nat]
    BY <1>10, <2>1, HandleTyped DEF HandleItem
  <2>3. QED
    BY <1>10, <2>1, <2>2 DEF HandleItem, TypeOK
<1>11. CASE ItemError
  <2>1. Head(queue) \in Msgs /\ Tail(queue) \in Seq(Msgs)
    BY <1>11 DEF ItemError, TypeOK
  <2>2. QED
    BY <1>11, <2>1 DEF ItemError, TypeOK, doneVars
<1>12. CASE UNCHANGED vars
  BY <1>12 DEF vars, TypeOK
<1>13. QED
  BY <1>1, <1>2, <1>3, <1>4, <1>5, <1>6, <1>7, <1>8, <1>9, <1>10, <1>11, <1>12
  DEF Next, Loop

LEMMA TypeInit == Init => TypeOK
  BY ServeLoopAssumption DEF Init, TypeOK

(* Type correctness: in particular only tokens enter the dedup set, never   *)
(* the absence of one.                                                      *)
THEOREM TypeCorrect == Spec => []TypeOK
  BY TypeInit, TypeStep, PTL DEF Spec

-------------------------------------------------------------------------------
(* At most once.  As long as the set has room it is exactly the set of the  *)
(* tokens executed, so a token executed is never executed again.            *)

(* A request is executed at most once in a life of the host, in whatever    *)
(* way the inbox and the stream overlap, as long as the dedup set has room  *)
(* for every token: "already handled this request token".                   *)
AtMostOnce ==
  Cardinality(Tokens) <= SeenCap => \A t \in Tokens : runs[t] <= 1

Once ==
  /\ \A t \in Tokens : runs[t] <= 1 /\ (runs[t] > 0 => t \in seen)

LEMMA RememberAll ==
  ASSUME Cardinality(Tokens) <= SeenCap, seen \subseteq Tokens, NEW t \in Tokens
  PROVE  Remember(t) = seen \union {t}
<1>1. seen \union {t} \subseteq Tokens
  OBVIOUS
<1>2. IsFiniteSet(Tokens)
  BY ServeLoopAssumption
<1>3. /\ IsFiniteSet(seen \union {t})
      /\ Cardinality(seen \union {t}) <= Cardinality(Tokens)
  BY <1>1, <1>2, FS_Subset
<1>4. /\ Cardinality(seen \union {t}) \in Nat /\ Cardinality(Tokens) \in Nat
      /\ SeenCap \in Nat
  BY <1>2, <1>3, FS_CardinalityType, ServeLoopAssumption
<1>5. ~(Cardinality(seen \union {t}) > SeenCap)
  BY <1>3, <1>4
<1>6. QED
  BY <1>5 DEF Remember

LEMMA HandleOnce ==
  ASSUME TypeOK, Once, Cardinality(Tokens) <= SeenCap, NEW m \in Msgs, Handle(m)
  PROVE  Once'
<1>1. CASE Wanted(m) /\ TokenOf[m] \notin seen
  <2>1. TokenOf[m] \in Tokens
    BY <1>1, ServeLoopAssumption DEF Wanted
  <2>2. seen' = seen \union {TokenOf[m]}
    BY <1>1, <2>1, RememberAll DEF Handle, Fresh, TypeOK
  <2>3. runs' = [runs EXCEPT ![TokenOf[m]] = @ + 1]
    BY <1>1 DEF Handle, Fresh
  <2>4. runs[TokenOf[m]] = 0
    BY <1>1, <2>1 DEF Once, TypeOK
  <2>5. QED
    BY <2>1, <2>2, <2>3, <2>4 DEF Once, TypeOK
<1>2. CASE ~(Wanted(m) /\ TokenOf[m] \notin seen)
  BY <1>2 DEF Handle, Fresh, doneVars, Once
<1>3. QED
  BY <1>1, <1>2

LEMMA OnceStep ==
  ASSUME TypeOK, Cardinality(Tokens) <= SeenCap, Once, [Next]_vars
  PROVE  Once'
<1>1. CASE HandleBatch
  <2>1. Head(batch) \in Msgs
    BY <1>1 DEF HandleBatch, Rest, TypeOK
  <2>2. QED
    BY <1>1, <2>1, HandleOnce DEF HandleBatch, Rest
<1>2. CASE HandleItem
  <2>1. Head(queue) \in Msgs
    BY <1>2 DEF HandleItem, TypeOK
  <2>2. QED
    BY <1>2, <2>1, HandleOnce DEF HandleItem
<1>3. CASE HostRestart
  BY <1>3 DEF HostRestart, Once
<1>4. CASE ~(HandleBatch \/ HandleItem \/ HostRestart)
  <2>1. UNCHANGED doneVars
    BY <1>4
    DEF Next, Loop, Arrive, Break, NodeRestart, SubscribeOk, SubscribeFail, Subscribed,
        DrainOk, DrainFail, BatchDone, OpenOk, OpenFail, ItemError, StreamEnded,
        Reconnect, vars, doneVars
  <2>2. QED
    BY <2>1 DEF doneVars, Once
<1>5. QED
  BY <1>1, <1>2, <1>3, <1>4

(* No request runs twice in a life of the host while the dedup set has room *)
(* for every token, however inbox and stream overlap.                       *)
THEOREM RunsAtMostOnce == Spec => []AtMostOnce
<1> DEFINE I == Cardinality(Tokens) <= SeenCap => Once
<1>1. Init => I
  BY DEF Init, Once
<1>2. TypeOK /\ I /\ [Next]_vars => I'
  BY OnceStep
<1>3. I => AtMostOnce
  BY DEF Once, AtMostOnce
<1>4. QED
  BY <1>1, <1>2, <1>3, TypeCorrect, PTL DEF Spec
-------------------------------------------------------------------------------
(* No request in the inbox is overlooked while the stream is open.           *)

SeenRan == \A t \in seen : runs[t] > 0

Covered(s) ==
  \A m \in Msgs : InSeq(m, inbox) /\ Wanted(m) =>
    runs[TokenOf[m]] > 0 \/ InSeq(m, s) \/ m \in gap

CInv ==
  /\ SeenRan
  /\ stream = "open" => pc = "stream"
  /\ pc = "batch" => Covered(batch)
  /\ pc = "open" => Covered(<<>>)
  /\ pc = "stream" /\ stream = "open" => Covered(queue)

(* A handled message has run, now or before; nothing is run less often.     *)
LEMMA HandleRuns ==
  ASSUME TypeOK, SeenRan, NEW m \in Msgs, Handle(m)
  PROVE  /\ SeenRan'
         /\ Wanted(m) => runs'[TokenOf[m]] > 0
         /\ \A t \in Tokens : runs[t] > 0 => runs'[t] > 0
<1>1. CASE Wanted(m) /\ TokenOf[m] \notin seen
  <2>1. TokenOf[m] \in Tokens
    BY <1>1, ServeLoopAssumption DEF Wanted
  <2>2. seen' \subseteq seen \union {TokenOf[m]}
    BY <1>1 DEF Handle, Fresh, Remember
  <2>3. runs' = [runs EXCEPT ![TokenOf[m]] = @ + 1]
    BY <1>1 DEF Handle, Fresh
  <2>4. QED
    BY <2>1, <2>2, <2>3 DEF SeenRan, TypeOK
<1>2. CASE ~(Wanted(m) /\ TokenOf[m] \notin seen)
  BY <1>2 DEF Handle, Fresh, doneVars, SeenRan
<1>3. QED
  BY <1>1, <1>2

(* Taking the head of a queue and handling it keeps the inbox covered.      *)
LEMMA HandleCovers ==
  ASSUME TypeOK, SeenRan, NEW s \in Seq(Msgs), s # <<>>, Covered(s), Handle(Head(s)),
         UNCHANGED <<inbox, gap>>
  PROVE  /\ SeenRan'
         /\ \A m \in Msgs : InSeq(m, inbox') /\ Wanted(m) =>
              runs'[TokenOf[m]] > 0 \/ InSeq(m, Tail(s)) \/ m \in gap'
<1>1. Head(s) \in Msgs
  OBVIOUS
<1>2. /\ SeenRan' /\ (Wanted(Head(s)) => runs'[TokenOf[Head(s)]] > 0)
      /\ \A t \in Tokens : runs[t] > 0 => runs'[t] > 0
  BY <1>1, HandleRuns
<1>3. ASSUME NEW m \in Msgs, InSeq(m, inbox), Wanted(m)
      PROVE  runs'[TokenOf[m]] > 0 \/ InSeq(m, Tail(s)) \/ m \in gap
  <2>1. TokenOf[m] \in Tokens
    BY <1>3, ServeLoopAssumption DEF Wanted
  <2>2. runs[TokenOf[m]] > 0 \/ InSeq(m, s) \/ m \in gap
    BY <1>3 DEF Covered
  <2>3. InSeq(m, s) => m = Head(s) \/ InSeq(m, Tail(s))
    BY InTail
  <2>4. QED
    BY <1>2, <1>3, <2>1, <2>2, <2>3
<1>4. QED
  BY <1>2, <1>3

LEMMA CInvStep ==
  ASSUME TypeOK, CInv, [Next]_vars
  PROVE  CInv'
<1> USE DEF nodeVars, loopVars, doneVars, missed, bounds
<1>1. ASSUME NEW m \in Msgs, Arrive(m) PROVE CInv'
  <2>1. CASE TopicOf[m] \in subs
    <3>1. inbox' = Append(inbox, m) /\ UNCHANGED <<pc, batch, stream, doneVars>>
      BY <1>1, <2>1 DEF Arrive
    <3>2. \A n : InSeq(n, inbox') <=> InSeq(n, inbox) \/ n = m
      BY <3>1, InAppend DEF TypeOK
    <3>3. /\ gap \subseteq gap'
          /\ pc \in {"batch", "open"} /\ stream = "closed" => m \in gap'
          /\ stream = "open" => queue' = Append(queue, m)
      BY <1>1, <2>1 DEF Arrive
    <3>4. \A n : InSeq(n, Append(queue, m)) <=> InSeq(n, queue) \/ n = m
      BY InAppend DEF TypeOK
    <3>5. pc' = "batch" => Covered(batch)'
      BY <3>1, <3>2, <3>3 DEF CInv, Covered, TypeOK
    <3>6. pc' = "open" => Covered(<<>>)'
      BY <3>1, <3>2, <3>3 DEF CInv, Covered, TypeOK
    <3>7. pc' = "stream" /\ stream' = "open" => Covered(queue)'
      BY <3>1, <3>2, <3>3, <3>4 DEF CInv, Covered
    <3>8. QED
      BY <3>1, <3>5, <3>6, <3>7 DEF CInv, SeenRan
  <2>2. CASE TopicOf[m] \notin subs
    BY <1>1, <2>2 DEF Arrive, CInv, Covered, SeenRan
  <2>3. QED
    BY <2>1, <2>2
<1>2. CASE Break
  BY <1>2 DEF Break, CInv, Covered, SeenRan
<1>3. CASE NodeRestart
  BY <1>3, NotInEmpty DEF NodeRestart, CInv, Covered, SeenRan
<1>4. CASE HostRestart
  BY <1>4 DEF HostRestart, CInv, SeenRan
<1>5. ASSUME NEW t \in Topics, SubscribeOk(t) \/ SubscribeFail(t) PROVE CInv'
  BY <1>5 DEF SubscribeOk, SubscribeFail, CInv, SeenRan
<1>6. CASE Subscribed \/ StreamEnded \/ Reconnect \/ OpenFail
  BY <1>6 DEF Subscribed, StreamEnded, Reconnect, AfterBackoff, OpenFail, CInv, SeenRan
<1>7. CASE DrainOk
  <2>1. batch' = inbox /\ inbox' \in {inbox, <<>>} /\ pc' = "batch"
    BY <1>7 DEF DrainOk
  <2>2. Covered(batch)'
    BY <2>1, NotInEmpty DEF Covered
  <2>3. QED
    BY <1>7, <2>1, <2>2 DEF DrainOk, CInv, SeenRan
<1>8. CASE DrainFail
  <2>1. \A m : InSeq(m, inbox') => m \in gap'
    BY <1>8 DEF DrainFail, InSeq
  <2>2. QED
    BY <1>8, <2>1 DEF DrainFail, CInv, Covered, SeenRan
<1>9. CASE HandleBatch
  <2>1. batch # <<>> /\ batch \in Seq(Msgs) /\ Covered(batch) /\ Handle(Head(batch))
    BY <1>9 DEF HandleBatch, Rest, CInv, TypeOK
  <2>2. UNCHANGED <<inbox, gap, pc, stream>> /\ batch' = Tail(batch)
    BY <1>9 DEF HandleBatch, Rest
  <2>3. SeenRan' /\ Covered(batch)'
    BY <2>1, <2>2, HandleCovers DEF CInv, Covered
  <2>4. QED
    BY <1>9, <2>2, <2>3 DEF HandleBatch, Rest, CInv
<1>10. CASE BatchDone
  <2>1. Covered(<<>>)
    BY <1>10 DEF BatchDone, CInv
  <2>2. QED
    BY <1>10, <2>1 DEF BatchDone, CInv, Covered, SeenRan
<1>11. CASE OpenOk
  <2>1. Covered(<<>>)
    BY <1>11 DEF OpenOk, CInv
  <2>2. queue' = <<>> /\ pc' = "stream" /\ UNCHANGED <<inbox, gap, doneVars>>
    BY <1>11 DEF OpenOk
  <2>3. Covered(queue)'
    BY <2>1, <2>2 DEF Covered
  <2>4. QED
    BY <2>2, <2>3 DEF CInv, SeenRan
<1>12. CASE HandleItem
  <2>1. queue # <<>> /\ queue \in Seq(Msgs) /\ Handle(Head(queue)) /\ pc = "stream"
    BY <1>12 DEF HandleItem, TypeOK
  <2>2. UNCHANGED <<inbox, gap, pc, stream>> /\ queue' = Tail(queue)
    BY <1>12 DEF HandleItem
  <2>3. SeenRan'
    BY <2>1, HandleRuns DEF CInv
  <2>4. stream = "open" => Covered(queue)'
    BY <2>1, <2>2, HandleCovers DEF CInv, Covered
  <2>5. QED
    BY <2>1, <2>2, <2>3, <2>4 DEF CInv
<1>13. CASE ItemError
  <2>1. queue # <<>> /\ queue \in Seq(Msgs) /\ pc = "stream"
    BY <1>13 DEF ItemError, TypeOK
  <2>2. /\ UNCHANGED <<inbox, pc, stream, seen, runs>>
        /\ queue' = Tail(queue) /\ gap' = gap \union {Head(queue)}
    BY <1>13 DEF ItemError
  <2>3. \A m \in Msgs : InSeq(m, queue) => m = Head(queue) \/ InSeq(m, Tail(queue))
    BY <2>1, InTail
  <2>4. stream = "open" => Covered(queue)'
    BY <2>1, <2>2, <2>3 DEF CInv, Covered
  <2>5. QED
    BY <2>1, <2>2, <2>4 DEF CInv, SeenRan
<1>14. CASE UNCHANGED vars
  BY <1>14 DEF vars, CInv, Covered, SeenRan
<1>15. QED
  BY <1>1, <1>2, <1>3, <1>4, <1>5, <1>6, <1>7, <1>8, <1>9, <1>10, <1>11, <1>12, <1>13,
     <1>14
  DEF Next, Loop

(* While the stream is open every request in the node's inbox has run or is *)
(* on the stream, except those the round left behind: there when its drain  *)
(* failed, come between drain and stream, or read from the stream as an     *)
(* error.                                                                   *)
THEOREM InboxCovered == Spec => []StreamCoversInbox
<1>1. Init => CInv
  BY DEF Init, CInv, SeenRan
<1>2. TypeOK /\ CInv /\ [Next]_vars => CInv'
  BY CInvStep
<1>3. TypeOK /\ CInv => StreamCoversInbox
  <2> SUFFICES ASSUME TypeOK, CInv, pc = "stream", stream = "open",
                      NEW i \in DOMAIN inbox, Wanted(inbox[i])
               PROVE  \/ runs[TokenOf[inbox[i]]] > 0
                      \/ InSeq(inbox[i], queue)
                      \/ inbox[i] \in gap
    BY DEF StreamCoversInbox
  <2>1. inbox[i] \in Msgs
    BY ElementOfSeq DEF TypeOK
  <2>2. InSeq(inbox[i], inbox)
    BY DEF InSeq
  <2>3. QED
    BY <2>1, <2>2 DEF CInv, Covered
<1>4. QED
  BY <1>1, <1>2, <1>3, TypeCorrect, PTL DEF Spec

-------------------------------------------------------------------------------
(* From the subscribe calls of a round on, a topic not subscribed is one    *)
(* whose call is still to come or one the round is known to be deaf to.     *)
Heard ==
  /\ stream = "open" => pc = "stream"
  /\ pc = "subscribe" => Topics \subseteq subs \union deaf \union todo
  /\ pc \in {"drain", "batch", "open"} => Topics \subseteq subs \union deaf
  /\ pc = "stream" /\ stream = "open" => Topics \subseteq subs \union deaf
  /\ pc \notin {"subscribe", "sleep"} => todo = {}

LEMMA HeardStep ==
  ASSUME TypeOK, Heard, [Next]_vars
  PROVE  Heard'
<1> USE DEF nodeVars, loopVars, doneVars, missed, bounds
<1>1. ASSUME NEW m \in Msgs, Arrive(m) PROVE Heard'
  BY <1>1 DEF Arrive, Heard
<1>2. CASE Break
  BY <1>2 DEF Break, Heard
<1>3. CASE NodeRestart
  BY <1>3 DEF NodeRestart, Heard, TypeOK
<1>4. CASE HostRestart
  BY <1>4 DEF HostRestart, Heard
<1>5. ASSUME NEW t \in Topics, SubscribeOk(t) \/ SubscribeFail(t) PROVE Heard'
  BY <1>5 DEF SubscribeOk, SubscribeFail, Heard
<1>6. CASE Subscribed \/ DrainOk \/ DrainFail \/ BatchDone \/ OpenOk \/ OpenFail
  BY <1>6 DEF Subscribed, DrainOk, DrainFail, BatchDone, OpenOk, OpenFail, Heard
<1>7. CASE HandleBatch \/ HandleItem \/ ItemError
  BY <1>7 DEF HandleBatch, HandleItem, ItemError, Heard
<1>8. CASE StreamEnded \/ Reconnect
  BY <1>8 DEF StreamEnded, Reconnect, AfterBackoff, Heard
<1>9. CASE UNCHANGED vars
  BY <1>9 DEF vars, Heard
<1>10. QED
  BY <1>1, <1>2, <1>3, <1>4, <1>5, <1>6, <1>7, <1>8, <1>9 DEF Next, Loop

(* On an open stream the host is subscribed to whatever it serves, however  *)
(* often the node restarted before this round.                              *)
THEOREM TopicsHeard == Spec => []HearsItsTopics
<1>1. Init => Heard
  BY DEF Init, Heard
<1>2. TypeOK /\ Heard /\ [Next]_vars => Heard'
  BY HeardStep
<1>3. Heard => HearsItsTopics
  BY DEF Heard, HearsItsTopics
<1>4. QED
  BY <1>1, <1>2, <1>3, TypeCorrect, PTL DEF Spec
-------------------------------------------------------------------------------
(* The loop implements the abstract service.  What it handles has been sent, *)
(* and what has run is still remembered unless the set has been cleared,     *)
(* which happens only when more than SeenCap requests have run.              *)

Known(s) == \A m \in Msgs : InSeq(m, s) => m \in sent

AllKnown == Known(inbox) /\ Known(queue) /\ Known(batch)

Ran == {t \in Tokens : runs[t] > 0}

Forgets ==
  /\ seen \subseteq Ran
  /\ seen = Ran \/ Cardinality(Ran) > SeenCap

LEMMA InHead ==
  ASSUME NEW S, NEW s \in Seq(S), s # <<>>
  PROVE  /\ InSeq(Head(s), s)
         /\ \A m : InSeq(m, Tail(s)) => InSeq(m, s)
<1>1. Len(s) \in Nat /\ Len(s) > 0 /\ DOMAIN s = 1..Len(s)
  BY EmptySeq
<1>2. InSeq(Head(s), s)
  BY <1>1 DEF InSeq
<1>3. ASSUME NEW m, InSeq(m, Tail(s)) PROVE InSeq(m, s)
  <2>1. PICK i \in DOMAIN Tail(s) : Tail(s)[i] = m
    BY <1>3 DEF InSeq
  <2>2. i + 1 \in DOMAIN s /\ s[i + 1] = m
    BY <1>1, <2>1
  <2>3. QED
    BY <2>2 DEF InSeq
<1>4. QED
  BY <1>2, <1>3

LEMMA KnownStep ==
  ASSUME TypeOK, AllKnown, [Next]_vars
  PROVE  AllKnown'
<1> USE DEF nodeVars, loopVars, doneVars, missed, bounds
<1>1. ASSUME NEW m \in Msgs, Arrive(m) PROVE AllKnown'
  <2>1. /\ \A n : InSeq(n, Append(inbox, m)) <=> InSeq(n, inbox) \/ n = m
        /\ \A n : InSeq(n, Append(queue, m)) <=> InSeq(n, queue) \/ n = m
    BY InAppend DEF TypeOK
  <2>2. /\ sent' = sent \union {m} /\ batch' = batch
        /\ inbox' = inbox \/ inbox' = Append(inbox, m)
        /\ queue' = queue \/ queue' = Append(queue, m)
    BY <1>1 DEF Arrive
  <2>3. QED
    BY <2>1, <2>2 DEF AllKnown, Known
<1>2. CASE Break \/ NodeRestart \/ HostRestart
  BY <1>2, NotInEmpty DEF Break, NodeRestart, HostRestart, AllKnown, Known
<1>3. CASE DrainOk
  BY <1>3, NotInEmpty DEF DrainOk, AllKnown, Known
<1>4. CASE OpenOk
  BY <1>4, NotInEmpty DEF OpenOk, AllKnown, Known
<1>5. CASE HandleBatch
  <2>1. \A m : InSeq(m, Tail(batch)) => InSeq(m, batch)
    BY <1>5, InHead DEF HandleBatch, TypeOK
  <2>2. QED
    BY <1>5, <2>1 DEF HandleBatch, Rest, AllKnown, Known
<1>6. CASE HandleItem \/ ItemError
  <2>1. \A m : InSeq(m, Tail(queue)) => InSeq(m, queue)
    BY <1>6, InHead DEF HandleItem, ItemError, TypeOK
  <2>2. QED
    BY <1>6, <2>1 DEF HandleItem, ItemError, AllKnown, Known
<1>7. CASE \/ \E t \in Topics : SubscribeOk(t) \/ SubscribeFail(t)
           \/ Subscribed \/ DrainFail \/ BatchDone \/ OpenFail \/ StreamEnded
           \/ Reconnect
  <2>1. UNCHANGED <<inbox, queue, batch, sent>>
    BY <1>7 DEF SubscribeOk, SubscribeFail, Subscribed, DrainFail, BatchDone, OpenFail,
               StreamEnded, Reconnect
  <2>2. QED
    BY <2>1 DEF AllKnown, Known
<1>8. CASE UNCHANGED vars
  BY <1>8 DEF vars, AllKnown, Known
<1>9. QED
  BY <1>1, <1>2, <1>3, <1>4, <1>5, <1>6, <1>7, <1>8 DEF Next, Loop

(* More requests have run than the set held when a new one made it overflow. *)
LEMMA RanGrows ==
  ASSUME NEW A \in SUBSET Tokens, NEW B \in SUBSET Tokens, A \subseteq B
  PROVE  /\ Cardinality(A) \in Nat /\ Cardinality(B) \in Nat
         /\ Cardinality(A) <= Cardinality(B)
<1>1. IsFiniteSet(Tokens)
  BY ServeLoopAssumption
<1>2. IsFiniteSet(B)
  BY <1>1, FS_Subset
<1>3. IsFiniteSet(A) /\ Cardinality(A) <= Cardinality(B)
  BY <1>2, FS_Subset
<1>4. QED
  BY <1>2, <1>3, FS_CardinalityType

(* Handling a message runs nothing, or a request that was sent and has not  *)
(* run before, or has not been remembered.                                  *)
LEMMA HandleServes ==
  ASSUME TypeOK, Forgets, NEW m \in Msgs, m \in sent, sent' = sent, Handle(m)
  PROVE  /\ Forgets'
         /\ \/ \E t \in Tokens : RequestService!Execute(t)
            \/ UNCHANGED RequestService!vars
<1>1. CASE Fresh(m)
  <2> DEFINE t == TokenOf[m]
  <2>1. t \in Tokens /\ t \in Asked
    BY <1>1, ServeLoopAssumption DEF Fresh, Wanted, Asked
  <2>2. t \notin seen /\ seen' = Remember(t) /\ runs' = [runs EXCEPT ![t] = @ + 1]
    BY <1>1 DEF Handle, Fresh
  <2>3. Ran' = Ran \union {t} /\ Ran \subseteq Tokens /\ Ran' \subseteq Tokens
    BY <2>1, <2>2 DEF Ran, TypeOK
  <2>4. SeenCap \in Nat
    BY ServeLoopAssumption
  <2>5. t \notin Ran \/ Cardinality(Ran) > SeenCap
    BY <2>2 DEF Forgets
  <2>6. Forgets'
    <3>1. Cardinality(Ran) <= Cardinality(Ran')
      BY <2>3, RanGrows
    <3>2. Cardinality(Ran) \in Nat /\ Cardinality(Ran') \in Nat
      BY <2>3, RanGrows
    <3>3. CASE seen' = seen \union {t}
      BY <2>3, <2>4, <3>1, <3>2, <3>3 DEF Forgets
    <3>4. CASE seen' = {t} /\ Cardinality(seen \union {t}) > SeenCap
      <4>1. seen \union {t} \subseteq Ran'
        BY <2>3 DEF Forgets
      <4>2. /\ Cardinality(seen \union {t}) \in Nat
            /\ Cardinality(seen \union {t}) <= Cardinality(Ran')
        BY <2>3, <4>1, RanGrows
      <4>3. Cardinality(Ran') > SeenCap
        BY <2>4, <3>2, <3>4, <4>2
      <4>4. QED
        BY <2>3, <3>4, <4>3 DEF Forgets
    <3>5. QED
      BY <2>2, <3>3, <3>4 DEF Remember
  <2>7. Asked' = Asked
    BY DEF Asked, Wanted
  <2>8. RequestService!Executed = Ran
    BY DEF Ran, RequestService!Executed
  <2>9. RequestService!Execute(t)
    <3>1. RequestService!Cardinality(Ran) = Cardinality(Ran)
      BY DEF RequestService!Cardinality, Cardinality
    <3>2. QED
      BY <2>1, <2>2, <2>5, <2>7, <2>8, <3>1 DEF RequestService!Execute
  <2>10. QED
    BY <2>1, <2>6, <2>9
<1>2. CASE ~Fresh(m)
  <2>1. UNCHANGED <<seen, runs>>
    BY <1>2 DEF Handle, doneVars
  <2>2. Asked' = Asked
    BY DEF Asked, Wanted
  <2>3. QED
    BY <2>1, <2>2 DEF Forgets, Ran, RequestService!vars
<1>3. QED
  BY <1>1, <1>2

LEMMA ServiceStep ==
  ASSUME TypeOK, AllKnown, Forgets, [Next]_vars
  PROVE  Forgets' /\ [RequestService!Next]_(RequestService!vars)
<1> USE DEF nodeVars, loopVars, missed, bounds
<1>1. CASE HandleBatch
  <2>1. Head(batch) \in Msgs /\ Head(batch) \in sent
    BY <1>1, InHead DEF HandleBatch, TypeOK, AllKnown, Known
  <2>2. Handle(Head(batch)) /\ sent' = sent
    BY <1>1 DEF HandleBatch
  <2>3. QED
    BY <2>1, <2>2, HandleServes DEF RequestService!Next
<1>2. CASE HandleItem
  <2>1. Head(queue) \in Msgs /\ Head(queue) \in sent
    BY <1>2, InHead DEF HandleItem, TypeOK, AllKnown, Known
  <2>2. Handle(Head(queue)) /\ sent' = sent
    BY <1>2 DEF HandleItem
  <2>3. QED
    BY <2>1, <2>2, HandleServes DEF RequestService!Next
<1>3. CASE HostRestart
  <2>1. seen' = {} /\ runs' = [t \in Tokens |-> 0] /\ sent' = sent
    BY <1>3 DEF HostRestart
  <2>2. Forgets'
    BY <2>1 DEF Forgets, Ran
  <2>3. RequestService!Restart
    BY <2>1 DEF RequestService!Restart, Asked, Wanted
  <2>4. QED
    BY <2>2, <2>3 DEF RequestService!Next
<1>4. ASSUME NEW m \in Msgs, Arrive(m)
      PROVE  Forgets' /\ [RequestService!Next]_(RequestService!vars)
  <2>1. UNCHANGED <<seen, runs>> /\ sent' = sent \union {m}
    BY <1>4 DEF Arrive, doneVars
  <2>2. Forgets'
    BY <2>1 DEF Forgets, Ran
  <2>3. CASE Wanted(m)
    <3>1. TokenOf[m] \in Tokens
      BY <2>3, ServeLoopAssumption DEF Wanted
    <3>2. Asked' = Asked \union {TokenOf[m]}
      BY <2>1, <2>3 DEF Asked, Wanted
    <3>3. RequestService!Ask(TokenOf[m])
      BY <2>1, <3>2 DEF RequestService!Ask
    <3>4. QED
      BY <2>2, <3>1, <3>3 DEF RequestService!Next
  <2>4. CASE ~Wanted(m)
    <3>1. Asked' = Asked
      BY <2>1, <2>4 DEF Asked, Wanted
    <3>2. QED
      BY <2>1, <2>2, <3>1 DEF RequestService!vars
  <2>5. QED
    BY <2>3, <2>4
<1>5. CASE ~(HandleBatch \/ HandleItem \/ HostRestart \/ \E m \in Msgs : Arrive(m))
  <2>1. UNCHANGED <<seen, runs, sent>>
    BY <1>5
    DEF Next, Loop, Break, NodeRestart, SubscribeOk, SubscribeFail, Subscribed, DrainOk,
        DrainFail, BatchDone, OpenOk, OpenFail, ItemError, StreamEnded, Reconnect, vars,
        doneVars
  <2>2. QED
    BY <2>1 DEF Forgets, Ran, Asked, Wanted, RequestService!vars
<1>6. QED
  BY <1>1, <1>2, <1>3, <1>4, <1>5

(* The serve loop implements the abstract service: only requests that were  *)
(* sent run, and within a life of the host none runs again before more than *)
(* SeenCap different ones have, whatever the node delivers twice.           *)
THEOREM LoopServes == Spec => ImplementsRequestService
<1>1. Init => AllKnown /\ Forgets
  BY NotInEmpty DEF Init, AllKnown, Known, Forgets, Ran
<1>2. Init => RequestService!Init
  BY DEF Init, RequestService!Init, Asked
<1>3. TypeOK /\ AllKnown /\ Forgets /\ [Next]_vars
        => /\ AllKnown' /\ Forgets'
           /\ [RequestService!Next]_(RequestService!vars)
  BY KnownStep, ServiceStep
<1>4. QED
  BY <1>1, <1>2, <1>3, TypeCorrect, PTL
  DEF Spec, ImplementsRequestService, RequestService!Spec
===============================================================================
