------------------------------ MODULE EventBus ------------------------------
(***************************************************************************)
(* One channel of the Flow Event Bus (platform/eventbus): publishers whose *)
(* requests are stored and then fanned out, subscriptions that replay the  *)
(* store and then switch to live delivery, retention, and restarts.        *)
(*                                                                         *)
(* The publisher is AsyncPublisher's drain goroutine                       *)
(* (platform/pkg/eventbus/publisher.go): one request at a time, repeated   *)
(* until it is acknowledged.  It waits 10 seconds for an acknowledgement,  *)
(* so a repeated request may overtake the attempt it gave up.  The         *)
(* subscriber's side is in EventConsumer.                                  *)
(***************************************************************************)
EXTENDS Naturals, Sequences, FiniteSets, FiniteSetsExt, SequencesExt

CONSTANTS
  Publishers,    \* the drain goroutines of the processes that publish
  Consumers,     \* the subscribed processes
  MaxEvents,     \* bound: events submitted
  MaxInserts,    \* bound: rows inserted, repeated requests included
  ReplayBatch,   \* replayBatch
  BufSize,       \* subscriberBufSize
  Matching,      \* events that pass the subscriptions' filter
  Retention,     \* a retention policy is configured for the channel
  MaxFaults      \* bound: attempts given up, lost streams, restarts

ASSUME BusAssumption ==
  /\ MaxEvents \in Nat /\ MaxInserts \in Nat /\ MaxFaults \in Nat
  /\ ReplayBatch \in Nat \ {0} /\ BufSize \in Nat \ {0}
  /\ Retention \in BOOLEAN
  /\ Matching \subseteq 1..MaxEvents

VARIABLES
  log,        \* the rows of the events table: sequence, event and publisher
  counter,    \* Store.seq for the channel
  inserted,   \* rows inserted so far (bound)
  request,    \* request[p]: the event p is publishing, 0 for none
  pending,    \* pending[p]: the sequence p's request got, until it is fanned out
  late,       \* rows not fanned out yet whose publisher gave the attempt up
  abandoned,  \* history: the sequences of the attempts given up
  issued,     \* events submitted so far
  sub,        \* sub[c]: the server's side of c's stream
  faults

busVars == <<log, counter, inserted, request, pending, late, abandoned, issued, sub, faults>>

Row == [seq : Nat, id : 1..MaxEvents, by : Publishers]

\* mode: where Subscribe is.  start: last_sequence.  cursor: the replay's.
\* joined: the counter when the subscriber was added.  buf: its Go channel.
\* sent: what was sent on the stream.  wire: what of it is not received yet.
\* dropped: what fanOut skipped because buf was full.
Session == [mode : {"none", "replay", "joining", "live"},
            start : Nat, cursor : Nat, joined : Nat,
            buf : Seq(Row), sent : Seq(Row), wire : Seq(Row), dropped : SUBSET Row]
NoSession == [mode |-> "none", start |-> 0, cursor |-> 0, joined |-> 0,
              buf |-> <<>>, sent |-> <<>>, wire |-> <<>>, dropped |-> {}]

BusTypeOK ==
  /\ log \subseteq Row
  /\ counter \in Nat
  /\ inserted \in 0..MaxInserts
  /\ request \in [Publishers -> 0..MaxEvents]
  /\ pending \in [Publishers -> Nat]
  /\ late \subseteq Row /\ abandoned \subseteq Nat
  /\ issued \in 0..MaxEvents
  /\ sub \in [Consumers -> Session]
  /\ faults \in 0..MaxFaults

BusInit ==
  /\ log = {} /\ counter = 0 /\ inserted = 0
  /\ request = [p \in Publishers |-> 0]
  /\ pending = [p \in Publishers |-> 0]
  /\ late = {} /\ abandoned = {}
  /\ issued = 0
  /\ sub = [c \in Consumers |-> NoSession]
  /\ faults = 0

Fault == faults < MaxFaults /\ faults' = faults + 1

MinSequence == IF log = {} THEN 0 ELSE Min({e.seq : e \in log})

\* loadSequences: MAX(sequence) of the rows that are left.
MaxSequence == IF log = {} THEN 0 ELSE Max({e.seq : e \in log})

-----------------------------------------------------------------------------
(* Publishing *)

Submit(p) ==
  /\ request[p] = 0 /\ issued < MaxEvents
  /\ issued' = issued + 1
  /\ request' = [request EXCEPT ![p] = issued + 1]
  /\ UNCHANGED <<log, counter, inserted, pending, late, abandoned, sub, faults>>

\* Store.Insert, under the store's mutex.  A failed insert gives the number
\* back and changes nothing.
Insert(p) ==
  /\ request[p] # 0 /\ pending[p] = 0
  /\ inserted < MaxInserts /\ inserted' = inserted + 1
  /\ counter' = counter + 1
  /\ log' = log \cup {[seq |-> counter + 1, id |-> request[p], by |-> p]}
  /\ pending' = [pending EXCEPT ![p] = counter + 1]
  /\ UNCHANGED <<request, late, abandoned, issued, sub, faults>>

\* fanOut's non-blocking send to one registered subscriber.
Offer(s, e) ==
  IF s.mode # "live" \/ e.id \notin Matching THEN s
  ELSE IF Len(s.buf) < BufSize THEN [s EXCEPT !.buf = Append(@, e)]
  ELSE [s EXCEPT !.dropped = @ \cup {e}]

\* The row of p's attempt.
Published(p) == [seq |-> pending[p], id |-> request[p], by |-> p]

OfferToAll(e) == sub' = [c \in Consumers |-> Offer(sub[c], e)]

\* Mutant: the request is released before the fan-out reads it.
FanOutReleased(p) ==
  /\ pending[p] # 0
  /\ pending' = [pending EXCEPT ![p] = 0]
  /\ request' = [request EXCEPT ![p] = 0]
  /\ OfferToAll([seq |-> pending[p], id |-> request'[p], by |-> p])
  /\ UNCHANGED <<log, counter, inserted, late, abandoned, issued, faults>>

\* Publish after Insert: fan out, then acknowledge.
FanOut(p) ==
  /\ pending[p] # 0
  /\ pending' = [pending EXCEPT ![p] = 0]
  /\ request' = [request EXCEPT ![p] = 0]
  /\ OfferToAll(Published(p))
  /\ UNCHANGED <<log, counter, inserted, late, abandoned, issued, faults>>

\* publishWithRetry gets no acknowledgement in its 10 seconds, or an error for
\* one, and repeats the request.  The handler runs on: its row is in the store and
\* fanOut looks at no context.  (An attempt without a row fails at its insert,
\* which has the request's context.)
GiveUp(p) ==
  /\ pending[p] # 0 /\ Fault
  /\ pending' = [pending EXCEPT ![p] = 0]
  /\ late' = late \cup {Published(p)}
  /\ abandoned' = abandoned \cup {pending[p]}
  /\ UNCHANGED <<log, counter, inserted, request, issued, sub>>

\* The fan-out of an attempt given up, before or after its successor's.
FanOutLate(e) ==
  /\ e \in late /\ late' = late \ {e}
  /\ OfferToAll(e)
  /\ UNCHANGED <<log, counter, inserted, request, pending, abandoned, issued, faults>>

-----------------------------------------------------------------------------
(* Subscribing *)

\* Mutant: the earliest retained sequence counts as expired too.
ExpiredAtFirst(last) == last > 0 /\ MinSequence > 0 /\ last <= MinSequence

\* The check on last_sequence; 0 asks for live events only.
Expired(last) == last > 0 /\ MinSequence > 0 /\ last < MinSequence

OpenSession(c, last) ==
  sub' = [sub EXCEPT ![c] = [NoSession EXCEPT !.mode = IF last > 0 THEN "replay" ELSE "joining",
                                              !.start = last, !.cursor = last]]

CloseSession(c) == sub' = [sub EXCEPT ![c] = NoSession]

\* Mutant: the newest rows first.
GetSinceNewest(last) ==
  LET after == {e \in log : e.seq > last}
  IN  {e \in after : Cardinality({f \in after : f.seq > e.seq}) < ReplayBatch}

\* GetSince: the next rows after a sequence, at most ReplayBatch of them.
GetSince(last) ==
  LET after == {e \in log : e.seq > last}
  IN  {e \in after : Cardinality({f \in after : f.seq < e.seq}) < ReplayBatch}

\* Mutant: in descending order.
Descending(rows) ==
  {s \in [1..Cardinality(rows) -> rows] :
     /\ Range(s) = rows
     /\ \A i, j \in DOMAIN s : i < j => s[i].seq > s[j].seq}

\* ORDER BY sequence ASC: there is one such enumeration of rows.
Ascending(rows) ==
  {s \in [1..Cardinality(rows) -> rows] :
     /\ Range(s) = rows
     /\ \A i, j \in DOMAIN s : i < j => s[i].seq < s[j].seq}

\* One round of the replay loop; the cursor also passes the rows the filter
\* holds back.
Replay(c) ==
  LET batch == GetSince(sub[c].cursor)
  IN  /\ sub[c].mode = "replay"
      /\ IF batch = {} THEN sub' = [sub EXCEPT ![c].mode = "joining"]
         ELSE \E chosen \in Ascending({e \in batch : e.id \in Matching}) :
                sub' = [sub EXCEPT ![c].cursor = Max({e.seq : e \in batch}),
                                   ![c].sent = @ \o chosen, ![c].wire = @ \o chosen]
      /\ UNCHANGED <<log, counter, inserted, request, pending, late, abandoned, issued, faults>>

\* registry.add: from here on fanOut sees the subscriber.
Join(c) ==
  /\ sub[c].mode = "joining"
  /\ sub' = [sub EXCEPT ![c].mode = "live", ![c].joined = counter]
  /\ UNCHANGED <<log, counter, inserted, request, pending, late, abandoned, issued, faults>>

\* The live loop sends the oldest buffered event.
Forward(c) ==
  /\ sub[c].mode = "live" /\ sub[c].buf # <<>>
  /\ sub' = [sub EXCEPT ![c].buf = Tail(@), ![c].sent = Append(@, Head(sub[c].buf)),
                        ![c].wire = Append(@, Head(sub[c].buf))]
  /\ UNCHANGED <<log, counter, inserted, request, pending, late, abandoned, issued, faults>>

-----------------------------------------------------------------------------
(* Retention and restarts *)

\* Evict deletes by the publishers' timestamps or, oldest first, by size; the
\* timestamps need not follow the sequence.
Evict ==
  /\ Retention
  /\ \E gone \in SUBSET log \ {{}} : log' = log \ gone
  /\ UNCHANGED <<counter, inserted, request, pending, late, abandoned, issued, sub, faults>>

\* The bus restarts: streams break, requests under way fail and are repeated,
\* and the counter is read back from the rows.
Restart ==
  /\ Fault
  /\ counter' = MaxSequence
  /\ pending' = [p \in Publishers |-> 0]
  /\ late' = {} /\ abandoned' = {}
  /\ sub' = [c \in Consumers |-> NoSession]
  /\ UNCHANGED <<log, inserted, request, issued>>

BusStep ==
  \/ \E p \in Publishers : Submit(p) \/ Insert(p) \/ FanOut(p) \/ GiveUp(p)
  \/ \E e \in late : FanOutLate(e)
  \/ \E c \in Consumers : Replay(c) \/ Join(c) \/ Forward(c)
  \/ Evict \/ Restart

-----------------------------------------------------------------------------
(* What the bus promises *)

\* The number the next insert takes is above every row's, across evictions, and
\* across a restart that reads it back: an insert never collides with a row.
CounterIsAhead == \A e \in log : e.seq <= counter

\* What a subscription was sent or is about to be: its stream and its buffer.
Offered(c) == Range(sub[c].sent) \cup Range(sub[c].buf)

\* The replay loop of Subscribe: every row retained between last_sequence and
\* the replay's cursor that passes the filter was sent, though batches are read
\* one by one while rows come and go.
ReplayIsComplete == \A c \in Consumers : \A e \in log :
  (sub[c].mode # "none" /\ e.id \in Matching /\ sub[c].start < e.seq /\ e.seq <= sub[c].cursor) =>
    e \in Offered(c)

\* fanOut: every row stored after the subscriber was added and fanned out since
\* is on the stream or in its buffer, or was dropped because the buffer was full.
LiveIsComplete == \A c \in Consumers : \A e \in log :
  (sub[c].mode = "live" /\ e.id \in Matching /\ sub[c].joined < e.seq
     /\ e \notin late /\ \A p \in Publishers : pending[p] # e.seq) =>
    e \in Offered(c) \cup sub[c].dropped

\* One publisher's events arrive on a stream in the order of their numbers,
\* replayed or live, although insert and fan-out are two steps under no common
\* lock: a number that comes after a higher one is that of an attempt the
\* publisher had given up.  One that is fanned out during the switch to live may
\* arrive twice.
StreamInOrder == \A c \in Consumers :
  LET s == sub[c].sent \o sub[c].buf
  IN  \A i, j \in 1..Len(s) :
        (i < j /\ s[i].by = s[j].by /\ s[j].seq < s[i].seq) => s[j].seq \in abandoned

=============================================================================
