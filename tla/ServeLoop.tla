------------------------------- MODULE ServeLoop -------------------------------
(***************************************************************************)
(* The host's serve loop and the node it reads from: subscribe, drain the  *)
(* inbox once, open the push stream, handle its messages one by one, and   *)
(* start over when the stream ends.  A set of reply tokens already seen    *)
(* keeps a request found in the inbox and on the stream from running twice *)
(* and is cleared when it grows past a cap.                                *)
(*                                                                         *)
(* The node is external.  It keeps the messages of the topics it is        *)
(* subscribed to in an inbox, pushes those that arrive while a stream is   *)
(* open, and forgets its subscriptions, inbox and streams when it restarts.*)
(***************************************************************************)
EXTENDS Integers, Sequences, FiniteSets

CONSTANTS
  Msgs,        \* messages clients send, each at most once
  Topics,      \* the two topics the host serves
  TopicOf,     \* TopicOf[m]: a topic of the host, or another one
  Tokens,      \* reply tokens
  TokenOf,     \* TokenOf[m]: a token, or NoToken
  NoToken,
  SeenCap,     \* 8192
  Failing,     \* which of the calls "subscribe", "drain", "open" and "item" may
               \* fail: all of them; an instance may leave some out
  MaxBreaks, MaxNodeRestarts, MaxHostRestarts  \* bounds for model checking only

ASSUME ServeLoopAssumption ==
  /\ TokenOf \in [Msgs -> Tokens \union {NoToken}]
  /\ NoToken \notin Tokens
  /\ IsFiniteSet(Tokens)
  /\ SeenCap \in Nat \ {0}
  /\ MaxBreaks \in Nat /\ MaxNodeRestarts \in Nat /\ MaxHostRestarts \in Nat

VARIABLES
  subs,      \* topics the node has the host subscribed to
  inbox,     \* messages the node holds for GET /mesh/messages
  stream,    \* "open" or "closed"
  queue,     \* messages pushed on the open stream, not yet read
  sent,      \* messages already sent
  pc,        \* place of the loop in run
  todo,      \* topics still to subscribe in this round
  batch,     \* messages of the last drain still to handle
  seen,      \* the dedup set
  runs,      \* runs[t]: history, executions of token t in this life of the host
  gap,       \* history: inbox messages that this round leaves behind: there
             \* when its drain failed, come after its drain and before its
             \* stream, or delivered on its stream as an error
  deaf,      \* history: topics that this round leaves unsubscribed, because
             \* the call failed or the node restarted after it
  breaks, nodeRestarts, hostRestarts

nodeVars == <<subs, inbox, stream, queue>>
loopVars == <<pc, todo, batch>>
doneVars == <<seen, runs>>
missed == <<gap, deaf>>
bounds == <<breaks, nodeRestarts, hostRestarts>>
vars == <<subs, inbox, stream, queue, sent, pc, todo, batch, seen, runs, gap, deaf,
          breaks, nodeRestarts, hostRestarts>>

(* announce has tried to subscribe already; its failures are ignored. *)
Init ==
  /\ subs \in SUBSET Topics /\ inbox = <<>> /\ stream = "closed" /\ queue = <<>>
  /\ sent = {}
  /\ pc = "subscribe" /\ todo = Topics /\ batch = <<>>
  /\ seen = {} /\ runs = [t \in Tokens |-> 0]
  /\ gap = {} /\ deaf = {}
  /\ breaks = 0 /\ nodeRestarts = 0 /\ hostRestarts = 0

InSeq(m, s) == \E i \in DOMAIN s : s[i] = m

-------------------------------------------------------------------------------
(* A message reaches the node.  It is kept when its topic is subscribed and  *)
(* pushed when a stream is open; otherwise nobody will ever see it.          *)
Arrive(m) ==
  /\ m \notin sent
  /\ sent' = sent \union {m}
  /\ IF TopicOf[m] \in subs
     THEN /\ inbox' = Append(inbox, m)
          /\ queue' = IF stream = "open" THEN Append(queue, m) ELSE queue
          /\ gap' = IF pc \in {"batch", "open"} /\ stream = "closed"
                    THEN gap \union {m} ELSE gap
     ELSE UNCHANGED <<inbox, queue, gap>>
  /\ UNCHANGED <<subs, stream, loopVars, doneVars, deaf, bounds>>

(* The stream ends; what it had not delivered stays in the inbox only. *)
Break ==
  /\ breaks < MaxBreaks /\ stream = "open"
  /\ breaks' = breaks + 1
  /\ stream' = "closed" /\ queue' = <<>>
  /\ UNCHANGED <<subs, inbox, sent, loopVars, doneVars, missed, nodeRestarts, hostRestarts>>

NodeRestart ==
  /\ nodeRestarts < MaxNodeRestarts
  /\ nodeRestarts' = nodeRestarts + 1
  /\ subs' = {} /\ inbox' = <<>> /\ stream' = "closed" /\ queue' = <<>> /\ gap' = {}
  /\ deaf' = IF pc \in {"stream", "sleep"} THEN deaf ELSE deaf \union (Topics \ todo)
  /\ UNCHANGED <<sent, loopVars, doneVars, breaks, hostRestarts>>

-------------------------------------------------------------------------------
(* One round of the loop. *)

(* subscribe(topic): an error is logged and the loop goes on. *)
SubscribeOk(t) ==
  /\ pc = "subscribe" /\ t \in todo
  /\ subs' = subs \union {t}
  /\ todo' = todo \ {t}
  /\ UNCHANGED <<inbox, stream, queue, sent, pc, batch, doneVars, missed, bounds>>

SubscribeFail(t) ==
  /\ "subscribe" \in Failing
  /\ pc = "subscribe" /\ t \in todo
  /\ todo' = todo \ {t}
  /\ deaf' = IF t \in subs THEN deaf ELSE deaf \union {t}
  /\ UNCHANGED <<nodeVars, sent, pc, batch, doneVars, gap, bounds>>

Subscribed ==
  /\ pc = "subscribe" /\ todo = {}
  /\ pc' = "drain"
  /\ UNCHANGED <<nodeVars, sent, todo, batch, doneVars, missed, bounds>>

(* messages(): the inbox as it is now.  Reading does not have to empty it;  *)
(* both are allowed of the node.                                            *)
DrainOk ==
  /\ pc = "drain"
  /\ batch' = inbox
  /\ pc' = "batch"
  /\ gap' = {}
  /\ inbox' \in {inbox, <<>>}
  /\ UNCHANGED <<subs, stream, queue, sent, todo, doneVars, deaf, bounds>>

DrainFail ==
  /\ "drain" \in Failing
  /\ pc = "drain"
  /\ pc' = "open"
  /\ gap' = {inbox[i] : i \in DOMAIN inbox}
  /\ UNCHANGED <<nodeVars, sent, todo, batch, doneVars, deaf, bounds>>

(* handle_inbound: drop a message without reply token or of another topic,  *)
(* drop a token already seen; else remember it, clear the set first when it *)
(* has grown past the cap, and run the request to its reply.                *)
Wanted(m) == TokenOf[m] # NoToken /\ TopicOf[m] \in Topics

(* Fault: the set is cleared one token early. *)
RememberLess(t) ==
  LET s == seen \union {t}
  IN  IF Cardinality(s) >= SeenCap THEN {t} ELSE s

Remember(t) ==
  LET s == seen \union {t}
  IN  IF Cardinality(s) > SeenCap THEN {t} ELSE s


(* Fault: a message without a reply token is not filtered out. *)
FreshTokenless(m) == TopicOf[m] \in Topics /\ TokenOf[m] \notin seen

Fresh(m) == Wanted(m) /\ TokenOf[m] \notin seen

Handle(m) ==
  IF Fresh(m)
  THEN /\ seen' = Remember(TokenOf[m])
       /\ runs' = [runs EXCEPT ![TokenOf[m]] = @ + 1]
  ELSE UNCHANGED doneVars

(* Fault: the messages of the drain are dropped after the first. *)
RestDropped == <<>>

Rest == Tail(batch)

HandleBatch ==
  /\ pc = "batch" /\ batch # <<>>
  /\ Handle(Head(batch))
  /\ batch' = Rest
  /\ UNCHANGED <<nodeVars, sent, pc, todo, missed, bounds>>

BatchDone ==
  /\ pc = "batch" /\ batch = <<>>
  /\ pc' = "open"
  /\ UNCHANGED <<nodeVars, sent, todo, batch, doneVars, missed, bounds>>

(* messages_stream(): a stream of what arrives from now on. *)
OpenOk ==
  /\ pc = "open"
  /\ stream' = "open" /\ queue' = <<>> /\ pc' = "stream"
  /\ UNCHANGED <<subs, inbox, sent, todo, batch, doneVars, missed, bounds>>

OpenFail ==
  /\ "open" \in Failing
  /\ pc = "open"
  /\ pc' = "sleep"
  /\ UNCHANGED <<nodeVars, sent, todo, batch, doneVars, missed, bounds>>

HandleItem ==
  /\ pc = "stream" /\ queue # <<>>
  /\ Handle(Head(queue))
  /\ queue' = Tail(queue)
  /\ UNCHANGED <<subs, inbox, stream, sent, loopVars, missed, bounds>>

(* A message comes as an error, one that does not decode for instance: it is *)
(* logged and gone from the stream, and the loop stays on the same stream.   *)
ItemError ==
  /\ "item" \in Failing
  /\ pc = "stream" /\ queue # <<>>
  /\ queue' = Tail(queue)
  /\ gap' = gap \union {Head(queue)}
  /\ UNCHANGED <<subs, inbox, stream, sent, loopVars, doneVars, deaf, bounds>>

StreamEnded ==
  /\ pc = "stream" /\ stream = "closed"
  /\ pc' = "sleep"
  /\ UNCHANGED <<nodeVars, sent, todo, batch, doneVars, missed, bounds>>

(* Fault: the stream is opened again without subscribing and draining. *)
AfterBackoffOpen == "open"

AfterBackoff == "subscribe"

(* The back-off is over: start the next round. *)
Reconnect ==
  /\ pc = "sleep"
  /\ pc' = AfterBackoff /\ todo' = Topics /\ deaf' = {}
  /\ UNCHANGED <<nodeVars, sent, batch, doneVars, gap, bounds>>

(* The host process restarts against the same node. *)
HostRestart ==
  /\ hostRestarts < MaxHostRestarts
  /\ hostRestarts' = hostRestarts + 1
  /\ pc' = "subscribe" /\ todo' = Topics /\ batch' = <<>> /\ deaf' = {}
  /\ seen' = {} /\ runs' = [t \in Tokens |-> 0]
  /\ stream' = "closed" /\ queue' = <<>>
  /\ UNCHANGED <<subs, inbox, sent, gap, breaks, nodeRestarts>>

Loop ==
  \/ \E t \in Topics : SubscribeOk(t) \/ SubscribeFail(t)
  \/ Subscribed \/ DrainOk \/ DrainFail \/ HandleBatch \/ BatchDone
  \/ OpenOk \/ OpenFail \/ HandleItem \/ ItemError \/ StreamEnded \/ Reconnect

Next ==
  \/ \E m \in Msgs : Arrive(m)
  \/ Break \/ NodeRestart \/ HostRestart
  \/ Loop

Spec == Init /\ [][Next]_vars

(* The loop never stops on its own.  A call to the node that is made again  *)
(* and again is assumed to succeed at last; no single call is.              *)
Fairness ==
  /\ WF_vars(Loop)
  /\ \A t \in Topics : SF_vars(SubscribeOk(t))
  /\ SF_vars(DrainOk) /\ SF_vars(OpenOk)

LiveSpec == Spec /\ Fairness

-------------------------------------------------------------------------------
TypeOK ==
  /\ subs \subseteq Topics
  /\ inbox \in Seq(Msgs) /\ queue \in Seq(Msgs) /\ batch \in Seq(Msgs)
  /\ stream \in {"open", "closed"}
  /\ sent \subseteq Msgs
  /\ pc \in {"subscribe", "drain", "batch", "open", "stream", "sleep"}
  /\ todo \subseteq Topics
  /\ seen \subseteq Tokens /\ runs \in [Tokens -> Nat]
  /\ gap \subseteq Msgs /\ deaf \subseteq Topics
  /\ breaks \in Nat /\ nodeRestarts \in Nat /\ hostRestarts \in Nat


(* The loop implements the abstract service: whatever the node redelivers   *)
(* and in whatever way the streams break, only requests that were sent run, *)
(* and one runs again in the same life only after more than SeenCap others. *)
Asked == {TokenOf[m] : m \in {n \in sent : Wanted(n)}}

RequestService ==
  INSTANCE RequestService WITH
    Requests <- Tokens, Cap <- SeenCap, asked <- Asked, times <- runs

ImplementsRequestService == RequestService!Spec

(* While the stream is open every request in the node's inbox has been      *)
(* executed or is on the stream, but for those the round left behind: they  *)
(* were there when its drain failed, came between the drain and the stream, *)
(* or were read from the stream as an error.  There is no other hole.       *)
StreamCoversInbox ==
  pc = "stream" /\ stream = "open" =>
    \A i \in DOMAIN inbox : Wanted(inbox[i]) =>
      \/ runs[TokenOf[inbox[i]]] > 0
      \/ InSeq(inbox[i], queue)
      \/ inbox[i] \in gap

(* On an open stream the host is subscribed to all its topics, but for      *)
(* those whose call failed in this round and those the node has forgotten   *)
(* by a restart within it: a host that comes back to a restarted node reads *)
(* from one that has it down as a subscriber again.                         *)
HearsItsTopics ==
  pc = "stream" /\ stream = "open" => Topics \subseteq subs \union deaf

(* A request that is in the node's inbox when the loop reconnects, or comes *)
(* in while the stream is open, is executed, unless the node forgets it.    *)
(* Left out are those that a round leaves behind, in one of the three ways  *)
(* StreamCoversInbox names: they wait for the next successful drain, and no *)
(* stream has to end for it to come (see NeverMissed).                      *)
Answered ==
  \A m \in Msgs : Wanted(m) =>
    (InSeq(m, inbox) /\ m \notin gap) ~>
       (runs[TokenOf[m]] > 0 \/ ~InSeq(m, inbox) \/ m \in gap)

(* What run's documentation claims: "a request that arrived during the      *)
(* connect gap is never missed".                                            *)
NeverMissed ==
  \A m \in Msgs : Wanted(m) =>
    InSeq(m, inbox) ~> (runs[TokenOf[m]] > 0 \/ ~InSeq(m, inbox))
===============================================================================
