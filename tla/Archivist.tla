----------------------------- MODULE Archivist ------------------------------
(***************************************************************************)
(* The Archivist's records of one governed artefact of one Workitem        *)
(* (platform/archivist/internal/service, store/sqlite): its head version,  *)
(* the stamps on its versions and its feedback items.  Every RPC is one or *)
(* more SQLite transactions; what the callers do with them is in           *)
(* FoundryCycle.                                                           *)
(*                                                                         *)
(* Versions are identified by the hash of their content, so a version is   *)
(* its content here, and a content that comes back finds its stamps.       *)
(* Justifications are absent: RefuseFeedback takes one and nothing stores  *)
(* it.                                                                     *)
(***************************************************************************)
EXTENDS Naturals, Sequences

CONSTANTS
  Contents,    \* what a version may hold
  Laws,        \* laws with a text/markdown representation, which appraisal evaluates
  PlainLaws,   \* laws with a text/plain representation, which quench evaluates
  Threshold,   \* deadlockThreshold: depths from here on are not told apart
  MaxItems,    \* bound: feedback items ever raised
  None         \* no version yet

ASSUME ThresholdAssumption == Threshold \in Nat \ {0, 1}
ASSUME MaxItemsAssumption == MaxItems \in Nat
ASSUME NoneAssumption == None \notin Contents

\* The name of a law stamp tells the law and the representation.
ASSUME NamesAssumption == Laws \cap (PlainLaws \cup {"group", "appraisal", "approval"}) = {}

VARIABLES
  head,        \* GetHead: the content of the latest version
  stamps,      \* the stamps table: <<content, stamp name>>
  items        \* the feedback_items table, oldest first

archive == <<head, stamps, items>>

State == {"NEW", "ACTIONED", "WONT_FIX", "REJECTED", "DEADLOCKED", "RESOLVED"}
Source == {"quench", "appraisal"}

\* law-<id>-<type> and lawgrp-<group> of the one group, which is law-by-law
LawStamps == Laws \cup PlainLaws \cup {"group"}
Stamp == LawStamps \cup {"appraisal", "approval"}

\* A feedback item: refusable is can_wont_fix, cites what the review that
\* raised it cited, depth the number of its events, ruled linked_ruling # "".
Feedback == [state : State, source : Source, refusable : BOOLEAN, version : Contents \cup {None},
             cites : SUBSET Laws, depth : 1..Threshold, ruled : BOOLEAN]

ArchiveTypeOK ==
  /\ head \in Contents \cup {None}
  /\ stamps \subseteq (Contents \cup {None}) \X Stamp
  /\ items \in Seq(Feedback)

ArchiveInit == head = None /\ stamps = {} /\ items = <<>>

\* StampArtefact puts the stamp on whatever is the head when it runs.
Stamped(names) == stamps' = stamps \cup ({head} \X names)

HasStamp(name) == <<head, name>> \in stamps

\* AddFeedback: a NEW item on the head, with its first event.
Raised(source, refusable, cites) ==
  Append(items, [state |-> "NEW", source |-> source, refusable |-> refusable,
                 version |-> head, cites |-> cites, depth |-> 1, ruled |-> FALSE])

Deeper(depth) == IF depth < Threshold THEN depth + 1 ELSE depth

Moved(item, to) == [item EXCEPT !.state = to, !.depth = Deeper(@)]

\* Mutant: the from-states are not validated.
TransitionBlindly(i, from, to) == items' = [items EXCEPT ![i] = Moved(@, to)]

\* TransitionFeedback: validated and applied in one transaction.
Transition(i, from, to) ==
  /\ items[i].state \in from
  /\ items' = [items EXCEPT ![i] = Moved(@, to)]

\* LinkRuling: a deadlocked item that no ruling binds yet (contempt guard).
MayLink(i) == items[i].state = "DEADLOCKED" /\ ~items[i].ruled

LinkRuling(i, to) ==
  /\ MayLink(i)
  /\ items' = [items EXCEPT ![i] = [Moved(@, to) EXCEPT !.ruled = TRUE]]

\* Mutants: stale refusable feedback and stale ruled feedback is resolved too.
StaleRefusable(item, content) ==
  /\ item.version # content /\ ~item.ruled
  /\ item.state \notin {"RESOLVED", "DEADLOCKED"}
StaleRuled(item, content) ==
  /\ ~item.refusable /\ item.version # content
  /\ item.state \notin {"RESOLVED", "DEADLOCKED"}

\* ResolveStaleFeedback: what a new version supersedes.  Its event also goes
\* to items resolved before, whose depth nobody reads.
Stale(item, content) ==
  /\ ~item.refusable /\ item.version # content /\ ~item.ruled
  /\ item.state \notin {"RESOLVED", "DEADLOCKED"}

ResolvedStale(content) ==
  [i \in DOMAIN items |->
     IF Stale(items[i], content) THEN Moved(items[i], "RESOLVED") ELSE items[i]]

\* StoreArtefact: nothing happens unless the content differs from the head's;
\* when resolving the stale feedback fails the error is logged and dropped.
Store(content, resolves) ==
  IF content = head
    THEN UNCHANGED archive
    ELSE /\ head' = content
         /\ items' = IF resolves THEN ResolvedStale(content) ELSE items
         /\ UNCHANGED stamps
=============================================================================
