------------------------ MODULE FoundryCycle_proofs -------------------------
(***************************************************************************)
(* Proofs about FoundryCycle: what a reader of the artefact's records may  *)
(* rely on, for any contents, laws, cycles and number of failures.         *)
(***************************************************************************)
EXTENDS FoundryCycle, SequenceTheorems, TLAPS

-----------------------------------------------------------------------------
(* The archive's operators.                                                *)

LEMMA StateFacts ==
  /\ Threshold \in Nat /\ Threshold >= 2
  /\ MaxItems \in Nat /\ None \notin Contents
  /\ Laws \subseteq Stamp /\ PlainLaws \subseteq Stamp
  /\ "group" \in Stamp /\ "appraisal" \in Stamp /\ "approval" \in Stamp
BY ThresholdAssumption, MaxItemsAssumption, NoneAssumption DEF Stamp, LawStamps

LEMMA MovedType ==
  ASSUME NEW item \in Feedback, NEW to \in State
  PROVE  /\ Moved(item, to) \in Feedback
         /\ Moved(item, to).state = to
         /\ Moved(item, to).ruled = item.ruled
         /\ Moved(item, to).refusable = item.refusable
         /\ [Moved(item, to) EXCEPT !.ruled = TRUE] \in Feedback
         /\ [Moved(item, to) EXCEPT !.ruled = TRUE].state = to
         /\ [Moved(item, to) EXCEPT !.ruled = TRUE].refusable = item.refusable
         /\ [Moved(item, to) EXCEPT !.ruled = TRUE].ruled = TRUE
<1>1. Deeper(item.depth) \in 1..Threshold
  BY StateFacts DEF Feedback, Deeper
<1> QED BY <1>1 DEF Moved, Feedback

\* Replacing one item, or none when the number is of no item.
LEMMA ItemReplaced ==
  ASSUME items \in Seq(Feedback), NEW i, NEW item,
         i \in DOMAIN items => item \in Feedback
  PROVE  /\ [items EXCEPT ![i] = item] \in Seq(Feedback)
         /\ Len([items EXCEPT ![i] = item]) = Len(items)
         /\ DOMAIN [items EXCEPT ![i] = item] = DOMAIN items
         /\ \A j \in DOMAIN items : [items EXCEPT ![i] = item][j] = IF j = i THEN item ELSE items[j]
<1>1. DOMAIN items = 1..Len(items)
  BY LenProperties
<1>2. CASE i \in DOMAIN items
  BY <1>1, <1>2, ExceptSeq
<1>3. CASE i \notin DOMAIN items
  <2>1. items = [j \in 1..Len(items) |-> items[j]]
    BY LenProperties
  <2>2. [items EXCEPT ![i] = item] = items
    BY <1>1, <1>3, <2>1
  <2> QED BY <1>3, <2>2
<1> QED BY <1>2, <1>3

\* Transition moves one item, from a state it may be moved from.
LEMMA TransitionMoves ==
  ASSUME items \in Seq(Feedback), NEW i, NEW from, NEW to \in State, Transition(i, from, to)
  PROVE  /\ items' \in Seq(Feedback) /\ Len(items') = Len(items) /\ DOMAIN items' = DOMAIN items
         /\ \A j \in DOMAIN items : items'[j] = IF j = i THEN Moved(items[j], to) ELSE items[j]
         /\ items[i].state \in from
<1>1. \A j \in DOMAIN items : items[j] \in Feedback
  BY ElementOfSeq, LenProperties
<1>2. i \in DOMAIN items => Moved(items[i], to) \in Feedback
  BY <1>1, MovedType
<1>3. items' = [items EXCEPT ![i] = Moved(items[i], to)] /\ items[i].state \in from
  <2>1. items' = [items EXCEPT ![i] = Moved(@, to)]
    BY DEF Transition
  <2> QED BY <2>1 DEF Transition
<1> QED BY <1>2, <1>3, ItemReplaced

LEMMA RulingMoves ==
  ASSUME items \in Seq(Feedback), NEW i, NEW to \in State, LinkRuling(i, to)
  PROVE  /\ items' \in Seq(Feedback) /\ Len(items') = Len(items) /\ DOMAIN items' = DOMAIN items
         /\ \A j \in DOMAIN items :
              items'[j] = IF j = i THEN [Moved(items[j], to) EXCEPT !.ruled = TRUE] ELSE items[j]
         /\ items[i].state = "DEADLOCKED" /\ ~items[i].ruled
<1>1. \A j \in DOMAIN items : items[j] \in Feedback
  BY ElementOfSeq, LenProperties
<1>2. i \in DOMAIN items => [Moved(items[i], to) EXCEPT !.ruled = TRUE] \in Feedback
  BY <1>1, MovedType
<1>3. items' = [items EXCEPT ![i] = [Moved(items[i], to) EXCEPT !.ruled = TRUE]]
  BY DEF LinkRuling
<1>4. items[i].state = "DEADLOCKED" /\ ~items[i].ruled
  BY Zenon DEF LinkRuling, MayLink
<1>5. /\ items' \in Seq(Feedback) /\ Len(items') = Len(items) /\ DOMAIN items' = DOMAIN items
      /\ \A j \in DOMAIN items :
           items'[j] = IF j = i THEN [Moved(items[j], to) EXCEPT !.ruled = TRUE] ELSE items[j]
  BY <1>2, <1>3, ItemReplaced
<1> QED BY <1>4, <1>5

\* A new version resolves what it supersedes and touches nothing else.
LEMMA StoreMoves ==
  ASSUME ArchiveTypeOK, NEW content \in Contents \cup {None}, NEW resolves \in BOOLEAN, Store(content, resolves)
  PROVE  /\ ArchiveTypeOK' /\ Len(items') = Len(items) /\ DOMAIN items' = DOMAIN items
         /\ \A j \in DOMAIN items :
              \/ items'[j] = items[j]
              \/ Stale(items[j], content) /\ items'[j] = Moved(items[j], "RESOLVED")
         /\ stamps' = stamps
<1>1. \A j \in DOMAIN items : items[j] \in Feedback
  BY ElementOfSeq, LenProperties DEF ArchiveTypeOK
<1>2. DOMAIN items = 1..Len(items) /\ Len(items) \in Nat
  BY LenProperties DEF ArchiveTypeOK
<1>3. /\ ResolvedStale(content) \in Seq(Feedback) /\ Len(ResolvedStale(content)) = Len(items)
      /\ \A j \in DOMAIN items : ResolvedStale(content)[j] =
           IF Stale(items[j], content) THEN Moved(items[j], "RESOLVED") ELSE items[j]
      /\ DOMAIN ResolvedStale(content) = DOMAIN items
  <2>1. \A j \in 1..Len(items) : Moved(items[j], "RESOLVED") \in Feedback
    BY <1>1, <1>2, MovedType DEF State
  <2>2. ResolvedStale(content) \in [1..Len(items) -> Feedback]
    BY <1>1, <1>2, <2>1 DEF ResolvedStale
  <2>3. ResolvedStale(content) \in Seq(Feedback) /\ Len(ResolvedStale(content)) = Len(items)
    BY <1>2, <2>2, IsASeq, LenProperties
  <2> QED BY <1>2, <2>3 DEF ResolvedStale
<1>4. CASE content = head
  BY <1>4 DEF Store, archive, ArchiveTypeOK
<1>5. CASE content # head
  BY <1>3, <1>5 DEF Store, ArchiveTypeOK
<1> QED BY <1>4, <1>5

-----------------------------------------------------------------------------
(* Type correctness.                                                       *)

\* What a handler holds fits where it is.
Fits(w) ==
  /\ w.step = "route" => w.to \in Node
  /\ w.step = "rule" => w.to \in {"WONT_FIX", "REJECTED"}
  /\ w.step \in {"review", "judge"} => w.node \in Reviewing
  /\ w.node = "appraisal" => \A i \in DOMAIN w.todo : w.todo[i].state \in {"ACTIONED", "WONT_FIX"}

TInv == TypeOK /\ \A r \in Slot : Fits(work[r])

LEMMA RestrictTodo ==
  ASSUME NEW t \in ToTreat, NEW j
  PROVE  /\ Restrict(t, DOMAIN t \ {j}) \in ToTreat
         /\ DOMAIN Restrict(t, DOMAIN t \ {j}) = DOMAIN t \ {j}
         /\ \A i \in DOMAIN t \ {j} : Restrict(t, DOMAIN t \ {j})[i] = t[i]
<1>1. PICK D \in SUBSET (1..MaxItems) : t \in [D -> Feedback]
  BY DEF ToTreat
<1>2. Restrict(t, DOMAIN t \ {j}) \in [D \ {j} -> Feedback]
  BY <1>1 DEF Restrict
<1>3. D \ {j} \in SUBSET (1..MaxItems)
  BY <1>1
<1> QED BY <1>1, <1>2, <1>3 DEF ToTreat, Restrict

LEMMA TodoType ==
  ASSUME TypeOK, NEW n
  PROVE  /\ Todo(n) \in ToTreat
         /\ DOMAIN Todo(n) = {i \in DOMAIN items : items[i].state \in Concern(n)}
         /\ \A i \in DOMAIN Todo(n) : Todo(n)[i] = items[i] /\ items[i] \in Feedback
<1> DEFINE D == {i \in DOMAIN items : items[i].state \in Concern(n)}
<1>1. DOMAIN items = 1..Len(items) /\ Len(items) \in Nat /\ Len(items) <= MaxItems
  BY LenProperties DEF TypeOK, ArchiveTypeOK
<1>2. \A i \in DOMAIN items : items[i] \in Feedback
  BY ElementOfSeq, <1>1 DEF TypeOK, ArchiveTypeOK
<1>3. D \in SUBSET (1..MaxItems)
  BY <1>1, StateFacts
<1>4. Todo(n) \in [D -> Feedback]
  BY <1>2 DEF Todo, Restrict
<1> QED BY <1>2, <1>3, <1>4 DEF Todo, Restrict, ToTreat

LEMMA IdleType == Idle \in Work /\ Fits(Idle)
<1>1. Nothing \in [{} -> Feedback] /\ DOMAIN Nothing = {}
  BY DEF Nothing
<1>2. Nothing \in ToTreat
  BY <1>1 DEF ToTreat
<1>3. Idle \in Work
  BY <1>2 DEF Idle, Work, Handler, Step, Node
<1> QED BY <1>1, <1>3 DEF Fits, Idle, Node

LEMMA BecomesOne ==
  ASSUME work \in [Slot -> Work], NEW r \in Slot, NEW w, Becomes(r, w)
  PROVE  work' = [work EXCEPT ![r] = w] /\ work'[r] = w /\ \A q \in Slot \ {r} : work'[q] = work[q]
BY DEF Becomes

\* One handler goes on to what fits, and the records stay records.
LEMMA KeepsType ==
  ASSUME TInv, NEW r \in Slot, NEW w \in Work, Fits(w), Becomes(r, w),
         ArchiveTypeOK', Len(items') <= MaxItems, UNCHANGED flow, node' \in Node,
         faults' \in 0..MaxFaults, outlived' \in BOOLEAN,
         reviewed' \subseteq (Contents \cup {None}) \X Laws
  PROVE  TInv'
<1>1. work' \in [Slot -> Work]
  BY DEF TInv, TypeOK, Becomes
<1>2. \A q \in Slot : Fits(work'[q])
  BY BecomesOne DEF TInv, TypeOK
<1>3. \A q \in Slot : work'[q].step = "route" => work'[q].to \in Node
  BY <1>2 DEF Fits
<1> QED BY <1>1, <1>2, <1>3 DEF TInv, TypeOK, ArchiveTypeOK

LEMMA LeavesFits ==
  ASSUME NEW to \in Node
  PROVE  LET w == [Idle EXCEPT !.step = "route", !.to = to] IN w \in Work /\ Fits(w)
<1>1. Idle \in Work /\ Fits(Idle) /\ Idle.node = "sort"
  BY IdleType DEF Idle
<1> DEFINE w == [Idle EXCEPT !.step = "route", !.to = to]
<1>2. w \in Work
  BY <1>1 DEF Work, Step
<1>3. w.step = "route" /\ w.to = to /\ w.node = "sort"
  BY <1>1 DEF Work
<1> HIDE DEF w
<1>4. Fits(w)
  BY <1>3 DEF Fits
<1> QED BY <1>2, <1>4 DEF w

\* The item a handler treats is treated.
LEMMA TreatedFits ==
  ASSUME TInv, NEW r \in Slot, NEW i
  PROVE  Treated(r, i) \in Work /\ Fits(Treated(r, i))
<1>1. work[r] \in Work /\ Fits(work[r]) /\ work[r].todo \in ToTreat
  BY DEF TInv, TypeOK, Work
<1> DEFINE t == Restrict(work[r].todo, DOMAIN work[r].todo \ {i})
<1>2. /\ t \in ToTreat /\ DOMAIN t = DOMAIN work[r].todo \ {i}
      /\ \A j \in DOMAIN t : t[j] = work[r].todo[j]
  <2>1. \A d \in ToTreat :
          /\ Restrict(d, DOMAIN d \ {i}) \in ToTreat
          /\ DOMAIN Restrict(d, DOMAIN d \ {i}) = DOMAIN d \ {i}
          /\ \A j \in DOMAIN d \ {i} : Restrict(d, DOMAIN d \ {i})[j] = d[j]
    BY RestrictTodo
  <2> HIDE DEF t
  <2>2. t = Restrict(work[r].todo, DOMAIN work[r].todo \ {i})
    BY DEF t
  <2> QED BY <1>1, <2>1, <2>2
<1>3. Treated(r, i) = [work[r] EXCEPT !.todo = t]
  BY DEF Treated
<1> HIDE DEF t
<1>4. /\ Treated(r, i) \in Work
      /\ Treated(r, i).step = work[r].step /\ Treated(r, i).node = work[r].node
      /\ Treated(r, i).to = work[r].to /\ Treated(r, i).todo = t
  BY <1>1, <1>2, <1>3 DEF Work
<1>5. Fits(Treated(r, i))
  BY <1>1, <1>2, <1>4 DEF Fits
<1> QED BY <1>4, <1>5

LEMMA FaultCounts ==
  ASSUME faults \in 0..MaxFaults
  PROVE  (Fault => faults' \in 0..MaxFaults) /\ (UNCHANGED faults => faults' \in 0..MaxFaults)
BY MaxFaultsAssumption DEF Fault

LEMMA FitsAsWell ==
  ASSUME NEW v, NEW w, Fits(v), w.step = v.step, w.node = v.node, w.to = v.to, w.todo = v.todo
  PROVE  Fits(w)
BY DEF Fits

LEMMA Unchanged ==
  ASSUME TInv, UNCHANGED items
  PROVE  items' \in Seq(Feedback) /\ Len(items') <= MaxItems /\ Len(items) \in Nat
BY LenProperties DEF TInv, TypeOK, ArchiveTypeOK

LEMMA StampedType ==
  ASSUME ArchiveTypeOK, NEW names \in SUBSET Stamp, Stamped(names)
  PROVE  stamps' \subseteq (Contents \cup {None}) \X Stamp
BY DEF ArchiveTypeOK, Stamped

LEMMA ForgeStoresType == ASSUME TInv, NEW r \in Slot, ForgeStores(r) PROVE TInv'
<1>1. PICK c \in Contents : Stores(c)
  BY DEF ForgeStores
<1>2. ArchiveTypeOK' /\ Len(items') <= MaxItems
  BY <1>1, StoreMoves DEF Stores, TInv, TypeOK
<1>3. faults' \in 0..MaxFaults
  BY <1>1, FaultCounts DEF Stores, TInv, TypeOK
<1>4. LET w == [Idle EXCEPT !.step = "route", !.to = "sort"] IN w \in Work /\ Fits(w) /\ Becomes(r, w)
  BY LeavesFits DEF ForgeStores, Leaves, Node, Handler
<1> QED BY <1>2, <1>3, <1>4, KeepsType DEF ForgeStores, TInv, TypeOK

LEMMA RefineStoresType == ASSUME TInv, NEW r \in Slot, RefineStores(r) PROVE TInv'
<1>1. PICK c \in Contents \cup {None} : Stores(c)
  BY DEF RefineStores, TInv, TypeOK, Work
<1>2. ArchiveTypeOK' /\ Len(items') <= MaxItems
  BY <1>1, StoreMoves DEF Stores, TInv, TypeOK
<1>3. faults' \in 0..MaxFaults
  BY <1>1, FaultCounts DEF Stores, TInv, TypeOK
<1>4. LET w == [Idle EXCEPT !.step = "route", !.to = "sort"] IN w \in Work /\ Fits(w) /\ Becomes(r, w)
  BY LeavesFits DEF RefineStores, Leaves, Node, Handler
<1> QED BY <1>2, <1>3, <1>4, KeepsType DEF RefineStores, TInv, TypeOK

LEMMA TriagesType == ASSUME TInv, NEW r \in Slot, Triages(r) PROVE TInv'
<1>1. PICK i \in DOMAIN work[r].todo :
         \/ /\ \E to \in State : Transition(i, {"NEW", "REJECTED"}, to)
            /\ \/ Becomes(r, [Treated(r, i) EXCEPT !.acted = TRUE])
               \/ Becomes(r, Treated(r, i))
         \/ UNCHANGED items /\ Becomes(r, Idle)
  BY DEF Triages, State
<1>2. Treated(r, i) \in Work /\ Fits(Treated(r, i)) /\ Idle \in Work /\ Fits(Idle)
  BY TreatedFits, IdleType
<1>3. [Treated(r, i) EXCEPT !.acted = TRUE] \in Work /\ Fits([Treated(r, i) EXCEPT !.acted = TRUE])
  <2> DEFINE v == Treated(r, i)
  <2> DEFINE w == [v EXCEPT !.acted = TRUE]
  <2>1. v \in Work /\ Fits(v)
    BY <1>2
  <2> HIDE DEF v
  <2>2. w \in Work /\ w.step = v.step /\ w.node = v.node /\ w.to = v.to /\ w.todo = v.todo
    BY <2>1 DEF Work
  <2> HIDE DEF w
  <2>3. Fits(w)
    BY <2>1, <2>2, FitsAsWell
  <2> QED BY <2>2, <2>3 DEF v, w
<1>4. ArchiveTypeOK' /\ Len(items') <= MaxItems
  <2>1. UNCHANGED <<head, stamps>>
    BY DEF Triages
  <2> QED BY <1>1, <2>1, TransitionMoves, Unchanged DEF TInv, TypeOK, ArchiveTypeOK
<1>5. PICK w \in Work : Fits(w) /\ Becomes(r, w)
  BY <1>1, <1>2, <1>3
<1> QED BY <1>4, <1>5, KeepsType DEF Triages, TInv, TypeOK

LEMMA ReviewsType == ASSUME TInv, NEW r \in Slot, Reviews(r) PROVE TInv'
<1>1. PICK failed \in SUBSET Laws, silent \in SUBSET Laws, found \in SUBSET SUBSET Laws :
         /\ reviewed' = reviewed \cup ({work[r].read} \X (((Laws \ failed) \ silent) \ UNION found))
         /\ Becomes(r, [work[r] EXCEPT !.step = "judge", !.found = found, !.earn = Earned(found, failed)])
  BY DEF Reviews
<1> DEFINE earn == Earned(found, failed)
<1> DEFINE w == [work[r] EXCEPT !.step = "judge", !.found = found, !.earn = earn]
<1>2. earn \in SUBSET Stamp
  BY StateFacts DEF Earned
<1> HIDE DEF earn
<1>3. work[r] \in Work /\ Fits(work[r]) /\ work[r].node = "appraisal"
  BY DEF TInv, TypeOK, Reviews, At
<1>4. w \in Work /\ w.step = "judge" /\ w.node = "appraisal" /\ w.todo = work[r].todo
  BY <1>2, <1>3 DEF Work, Step
<1> HIDE DEF w
<1>5. Fits(w)
  BY <1>3, <1>4 DEF Fits, Reviewing
<1>6. reviewed' \subseteq (Contents \cup {None}) \X Laws
  BY <1>1, <1>3 DEF TInv, TypeOK, Work
<1>7. Becomes(r, w)
  BY <1>1 DEF w, earn
<1>8. ArchiveTypeOK' /\ Len(items') <= MaxItems
  BY DEF Reviews, archive, TInv, TypeOK, ArchiveTypeOK
<1> QED BY <1>4, <1>5, <1>6, <1>7, <1>8, KeepsType DEF Reviews, TInv, TypeOK

LEMMA AppraisesType == ASSUME TInv, NEW r \in Slot, Appraises(r) PROVE TInv'
<1>1. PICK i \in DOMAIN work[r].todo :
         \/ /\ \E to \in State : Transition(i, {work[r].todo[i].state}, to)
            /\ Becomes(r, Treated(r, i))
         \/ UNCHANGED items /\ Becomes(r, Idle)
  BY DEF Appraises, State
<1>2. Treated(r, i) \in Work /\ Fits(Treated(r, i)) /\ Idle \in Work /\ Fits(Idle)
  BY TreatedFits, IdleType
<1>3. ArchiveTypeOK' /\ Len(items') <= MaxItems
  <2>1. UNCHANGED <<head, stamps>>
    BY DEF Appraises
  <2> QED BY <1>1, <2>1, TransitionMoves, Unchanged DEF TInv, TypeOK, ArchiveTypeOK
<1>4. PICK w \in Work : Fits(w) /\ Becomes(r, w)
  BY <1>1, <1>2
<1> QED BY <1>3, <1>4, KeepsType DEF Appraises, TInv, TypeOK

LEMMA ChecksType == ASSUME TInv, NEW r \in Slot, Checks(r) PROVE TInv'
<1>1. PICK i \in DOMAIN work[r].todo :
         /\ Becomes(r, Treated(r, i))
         /\ \/ \E to \in State : Transition(i, {"ACTIONED"}, to)
            \/ UNCHANGED items
  BY DEF Checks, State
<1>2. Treated(r, i) \in Work /\ Fits(Treated(r, i))
  BY TreatedFits
<1>3. ArchiveTypeOK' /\ Len(items') <= MaxItems
  <2>1. UNCHANGED <<head, stamps>>
    BY DEF Checks
  <2> QED BY <1>1, <2>1, TransitionMoves, Unchanged DEF TInv, TypeOK, ArchiveTypeOK
<1> QED BY <1>1, <1>2, <1>3, KeepsType DEF Checks, TInv, TypeOK

LEMMA RaisesType == ASSUME TInv, NEW r \in Slot, Raises(r) PROVE TInv'
<1>1. PICK cites \in work[r].found :
         /\ Len(items) < flow.maxItems
         /\ items' = Raised(work[r].node, work[r].node = "appraisal", cites)
         /\ Becomes(r, [work[r] EXCEPT !.found = @ \ {cites}])
  BY DEF Raises
<1>2. work[r] \in Work /\ Fits(work[r]) /\ work[r].node \in Source
  BY DEF TInv, TypeOK, Raises, Reviewing, Source
<1> DEFINE w == [work[r] EXCEPT !.found = @ \ {cites}]
<1>3. w \in Work /\ w.step = work[r].step /\ w.node = work[r].node /\ w.to = work[r].to
         /\ w.todo = work[r].todo
  BY <1>2 DEF Work
<1>4. Becomes(r, w)
  BY <1>1
<1> HIDE DEF w
<1>5. Fits(w)
  BY <1>2, <1>3, FitsAsWell
<1> DEFINE item == [state |-> "NEW", source |-> work[r].node, refusable |-> work[r].node = "appraisal",
                    version |-> head, cites |-> cites, depth |-> 1, ruled |-> FALSE]
<1>6. item \in Feedback
  <2>1. cites \in SUBSET Laws
    BY <1>1, <1>2 DEF Work
  <2>2. 1 \in 1..Threshold
    BY StateFacts
  <2>3. head \in Contents \cup {None}
    BY DEF TInv, TypeOK, ArchiveTypeOK
  <2> QED BY <1>2, <2>1, <2>2, <2>3 DEF Feedback, State
<1>7. items' = Append(items, item)
  BY <1>1 DEF Raised
<1> HIDE DEF item
<1>8. items' \in Seq(Feedback) /\ Len(items') = Len(items) + 1
  BY <1>6, <1>7, AppendProperties DEF TInv, TypeOK, ArchiveTypeOK
<1>9. Len(items') <= MaxItems
  <2>1. flow.maxItems \in 0..MaxItems
    BY FlowsAssumption DEF TInv, TypeOK, Flow
  <2>2. Len(items) \in Nat
    BY LenProperties DEF TInv, TypeOK, ArchiveTypeOK
  <2> QED BY <1>1, <1>8, <2>1, <2>2, StateFacts
<1>10. ArchiveTypeOK'
  BY <1>8 DEF Raises, TInv, TypeOK, ArchiveTypeOK
<1> QED BY <1>3, <1>4, <1>5, <1>9, <1>10, KeepsType DEF Raises, TInv, TypeOK

LEMMA AttestsType == ASSUME TInv, NEW r \in Slot, Attests(r) PROVE TInv'
<1>1. PICK name \in work[r].earn :
         /\ Becomes(r, [work[r] EXCEPT !.earn = @ \ {name}])
         /\ \/ Stamped({name}) /\ UNCHANGED faults
            \/ Fault /\ UNCHANGED stamps
  BY DEF Attests
<1>2. work[r] \in Work /\ Fits(work[r])
  BY DEF TInv, TypeOK
<1> DEFINE w == [work[r] EXCEPT !.earn = @ \ {name}]
<1>3. w \in Work /\ w.step = work[r].step /\ w.node = work[r].node /\ w.to = work[r].to
         /\ w.todo = work[r].todo
  BY <1>2 DEF Work
<1>4. Becomes(r, w)
  BY <1>1
<1> HIDE DEF w
<1>5. Fits(w)
  BY <1>2, <1>3, FitsAsWell
<1>6. stamps' \subseteq (Contents \cup {None}) \X Stamp
  <2>1. {name} \in SUBSET Stamp
    BY <1>1, <1>2 DEF Work
  <2> QED BY <1>1, <2>1, StampedType DEF TInv, TypeOK, ArchiveTypeOK
<1>7. faults' \in 0..MaxFaults
  BY <1>1, FaultCounts DEF TInv, TypeOK
<1>8. ArchiveTypeOK' /\ Len(items') <= MaxItems
  BY <1>6 DEF Attests, TInv, TypeOK, ArchiveTypeOK
<1> QED BY <1>3, <1>4, <1>5, <1>7, <1>8, KeepsType DEF Attests, TInv, TypeOK

LEMMA StaticStampType == \A n : StaticStamp(n) \in SUBSET Stamp
BY StateFacts DEF StaticStamp

LEMMA SignsType == ASSUME TInv, NEW r \in Slot, Signs(r) \/ Approves(r) PROVE TInv'
<1>1. \E n : Stamped(StaticStamp(n))
  BY DEF Signs, Approves
<1>2. stamps' \subseteq (Contents \cup {None}) \X Stamp
  BY <1>1, StaticStampType, StampedType DEF TInv, TypeOK
<1>3. ArchiveTypeOK' /\ Len(items') <= MaxItems
  BY <1>2 DEF Signs, Approves, TInv, TypeOK, ArchiveTypeOK
<1>4. LET w == [Idle EXCEPT !.step = "route", !.to = "sort"] IN w \in Work /\ Fits(w) /\ Becomes(r, w)
  BY LeavesFits DEF Signs, Approves, Leaves, Node, Handler
<1> QED BY <1>3, <1>4, KeepsType DEF Signs, Approves, TInv, TypeOK

LEMMA CancelsType == ASSUME TInv, NEW r \in Slot, Cancels(r) PROVE TInv'
<1>1. LET w == [Idle EXCEPT !.step = "route", !.to = "cancelling"]
      IN w \in Work /\ Fits(w) /\ Becomes(r, w)
  BY LeavesFits DEF Cancels, Leaves, Node
<1>2. ArchiveTypeOK' /\ Len(items') <= MaxItems
  BY DEF Cancels, archive, TInv, TypeOK, ArchiveTypeOK
<1> QED BY <1>1, <1>2, KeepsType DEF Cancels, TInv, TypeOK

LEMMA DecidesType == ASSUME TInv, NEW r \in Slot, Decides(r) PROVE TInv'
<1>1. PICK to \in {"WONT_FIX", "REJECTED"} : Becomes(r, [work[r] EXCEPT !.step = "rule", !.to = to])
  BY DEF Decides
<1>2. work[r] \in Work /\ work[r].node = "hitl-arbiter"
  BY DEF TInv, TypeOK, Decides, At
<1> DEFINE w == [work[r] EXCEPT !.step = "rule", !.to = to]
<1>3. w \in Work /\ w.step = "rule" /\ w.node = "hitl-arbiter" /\ w.to = to /\ Becomes(r, w)
  BY <1>1, <1>2 DEF Work, Step, State
<1> HIDE DEF w
<1>4. Fits(w)
  BY <1>3 DEF Fits
<1>5. ArchiveTypeOK' /\ Len(items') <= MaxItems
  BY DEF Decides, archive, TInv, TypeOK, ArchiveTypeOK
<1> QED BY <1>3, <1>4, <1>5, KeepsType DEF Decides, TInv, TypeOK

LEMMA RulesType == ASSUME TInv, NEW r \in Slot, Rules(r) PROVE TInv'
<1>1. work[r].to \in State
  BY DEF TInv, Fits, Rules, At, State
<1>2. \A i : /\ Treated(r, i) \in Work /\ Fits(Treated(r, i))
  BY TreatedFits
<1>3. LET w == [Idle EXCEPT !.step = "route", !.to = "sort"] IN w \in Work /\ Fits(w)
  BY LeavesFits DEF Node, Handler
<1>4. \/ \E i : LinkRuling(i, work[r].to) /\ Becomes(r, Treated(r, i))
      \/ Becomes(r, Idle) /\ UNCHANGED items
      \/ Leaves(r, "sort") /\ UNCHANGED items
  BY DEF Rules
<1>5. PICK w \in Work : Fits(w) /\ Becomes(r, w)
  BY <1>2, <1>3, <1>4, IdleType DEF Leaves
<1>6. ArchiveTypeOK' /\ Len(items') <= MaxItems
  <2>1. UNCHANGED <<head, stamps>>
    BY DEF Rules
  <2> QED BY <1>1, <1>4, <2>1, RulingMoves, Unchanged DEF TInv, TypeOK, ArchiveTypeOK
<1> QED BY <1>5, <1>6, KeepsType DEF Rules, TInv, TypeOK

LEMMA ChecksDeadlockType == ASSUME TInv, NEW r \in Slot, ChecksDeadlock(r) PROVE TInv'
<1>1. \/ /\ Leaves(r, "hitl-arbiter")
         /\ \/ UNCHANGED items
            \/ \E i : Transition(i, State \ {"RESOLVED", "DEADLOCKED"}, "DEADLOCKED")
      \/ Becomes(r, [work[r] EXCEPT !.step = "decide"]) /\ UNCHANGED items
  BY DEF ChecksDeadlock
<1>2. LET w == [Idle EXCEPT !.step = "route", !.to = "hitl-arbiter"] IN w \in Work /\ Fits(w)
  BY LeavesFits DEF Node, Handler, Human
<1>3. work[r] \in Work /\ work[r].node = "sort"
  BY DEF TInv, TypeOK, ChecksDeadlock, At
<1> DEFINE v == [work[r] EXCEPT !.step = "decide"]
<1>4. v \in Work /\ v.step = "decide" /\ v.node = "sort"
  BY <1>3 DEF Work, Step
<1> HIDE DEF v
<1>5. Fits(v)
  BY <1>4 DEF Fits
<1>6. PICK w \in Work : Fits(w) /\ Becomes(r, w)
  BY <1>1, <1>2, <1>4, <1>5 DEF Leaves, v
<1>7. ArchiveTypeOK' /\ Len(items') <= MaxItems
  <2>1. UNCHANGED <<head, stamps>> /\ "DEADLOCKED" \in State
    BY DEF ChecksDeadlock, State
  <2> QED BY <1>1, <2>1, TransitionMoves, Unchanged DEF TInv, TypeOK, ArchiveTypeOK
<1> QED BY <1>6, <1>7, KeepsType DEF ChecksDeadlock, TInv, TypeOK

LEMMA DecidesRouteType == ASSUME TInv, NEW r \in Slot, DecidesRoute(r) PROVE TInv'
<1>1. PICK to \in Node : Leaves(r, to)
  BY DEF DecidesRoute
<1>2. LET w == [Idle EXCEPT !.step = "route", !.to = to] IN w \in Work /\ Fits(w) /\ Becomes(r, w)
  BY <1>1, LeavesFits DEF Leaves
<1>3. ArchiveTypeOK' /\ Len(items') <= MaxItems
  BY DEF DecidesRoute, archive, TInv, TypeOK, ArchiveTypeOK
<1> QED BY <1>2, <1>3, KeepsType DEF DecidesRoute, TInv, TypeOK

LEMMA RoutesType == ASSUME TInv, NEW r \in Slot, Routes(r) PROVE TInv'
<1>1. ArchiveTypeOK' /\ Len(items') <= MaxItems
  BY DEF Routes, archive, TInv, TypeOK, ArchiveTypeOK
<1>2. node' \in Node
  BY DEF Routes, TInv, TypeOK
<1> QED BY <1>1, <1>2, IdleType, KeepsType DEF Routes, TInv, TypeOK

LEMMA BeginType == ASSUME TInv, Begin PROVE TInv'
<1> DEFINE found == IF node = "quench" /\ head \notin Valid THEN {{}} ELSE {}
<1> DEFINE read == IF node \in Reviewing \cup {"refine"} THEN head ELSE None
<1> DEFINE earn == IF node = "quench" THEN flow.plain ELSE {}
<1> DEFINE todo == Todo(node)
<1> DEFINE step == First(node)
<1> DEFINE w == [Idle EXCEPT !.node = node, !.step = step, !.todo = todo, !.read = read,
                             !.found = found, !.earn = earn]
<1>1. Becomes("live", w) /\ node \in Handler /\ "live" \in Slot
  BY DEF Begin, Slot
<1>2. found \in SUBSET SUBSET Laws
  OBVIOUS
<1>3. read \in Contents \cup {None}
  BY DEF TInv, TypeOK, ArchiveTypeOK
<1>4. earn \in SUBSET Stamp
  BY FlowsAssumption, StateFacts DEF TInv, TypeOK, Flow
<1>5. todo \in ToTreat /\ \A i \in DOMAIN todo : todo[i].state \in Concern(node)
  BY TodoType DEF TInv
<1>6. step \in Step
  BY DEF First, Step
<1>6a. step \in {"review", "judge"} => node \in Reviewing
  BY DEF First, Reviewing
<1>6b. step # "rule" /\ node = "appraisal" => Concern(node) = {"ACTIONED", "WONT_FIX"}
  BY DEF Concern
<1>6c. step # "rule"
  BY DEF First
<1> HIDE DEF found, read, earn, todo, step
<1>7. w \in Work /\ w.step = step /\ w.node = node /\ w.to = "sort" /\ w.todo = todo
  BY <1>1, <1>2, <1>3, <1>4, <1>5, <1>6, IdleType DEF Work, Idle
<1> HIDE DEF w
<1>8. Fits(w)
  BY <1>5, <1>6a, <1>6b, <1>6c, <1>7 DEF Fits, Node, Handler
<1>9. ArchiveTypeOK' /\ Len(items') <= MaxItems
  BY DEF Begin, archive, TInv, TypeOK, ArchiveTypeOK
<1> QED BY <1>1, <1>7, <1>8, <1>9, KeepsType DEF Begin, TInv, TypeOK

LEMMA OtherType == ASSUME TInv, Fails \/ Outlives \/ LateEnds \/ Exits PROVE TInv'
<1>1. ArchiveTypeOK' /\ Len(items') <= MaxItems
  BY DEF Fails, Outlives, LateEnds, Exits, archive, TInv, TypeOK, ArchiveTypeOK
<1>2. "live" \in Slot /\ "late" \in Slot /\ Idle \in Work /\ Fits(Idle)
  BY IdleType DEF Slot
<1>3. CASE Fails
  BY <1>1, <1>2, <1>3, FaultCounts, KeepsType DEF Fails, TInv, TypeOK
<1>4. CASE LateEnds
  BY <1>1, <1>2, <1>4, KeepsType DEF LateEnds, TInv, TypeOK
<1>5. CASE Exits
  BY <1>1, <1>5 DEF Exits, TInv, TypeOK, Node
<1>6. CASE Outlives
  <2>1. work' \in [Slot -> Work]
    BY <1>2, <1>6 DEF Outlives, TInv, TypeOK
  <2>2. \A q \in Slot : Fits(work'[q])
    BY <1>2, <1>6 DEF Outlives, TInv, TypeOK, Slot
  <2>3. \A q \in Slot : work'[q].step = "route" => work'[q].to \in Node
    BY <2>2 DEF Fits
  <2>4. faults' \in 0..MaxFaults
    BY <1>6, FaultCounts DEF Outlives, TInv, TypeOK
  <2> QED BY <1>1, <1>6, <2>1, <2>2, <2>3, <2>4 DEF Outlives, TInv, TypeOK
<1> QED BY <1>3, <1>4, <1>5, <1>6

LEMMA InitType == Init => TInv
<1> SUFFICES ASSUME Init PROVE TInv
  OBVIOUS
<1>1. items \in Seq(Feedback) /\ Len(items) = 0
  BY EmptySeq DEF Init, ArchiveInit
<1>2. work \in [Slot -> Work] /\ \A r \in Slot : work[r] = Idle
  BY IdleType DEF Init
<1>3. Idle.step = "idle"
  BY DEF Idle
<1>4. ArchiveTypeOK /\ Len(items) <= MaxItems
  BY <1>1, StateFacts DEF Init, ArchiveInit, ArchiveTypeOK
<1>5. node \in Node /\ faults \in 0..MaxFaults
  BY MaxFaultsAssumption DEF Init, Node, Handler
<1>6. TypeOK
  BY <1>2, <1>3, <1>4, <1>5 DEF Init, TypeOK
<1> QED BY <1>2, <1>6, IdleType DEF TInv

LEMMA NextType == TInv /\ [Next]_vars => TInv'
<1> SUFFICES ASSUME TInv, [Next]_vars PROVE TInv'
  OBVIOUS
<1>1. CASE Begin
  BY <1>1, BeginType
<1>2. CASE Exits \/ Fails \/ Outlives \/ LateEnds
  BY <1>2, OtherType
<1>3. ASSUME NEW r \in Slot, Works(r) PROVE TInv'
  BY <1>3, ForgeStoresType, TriagesType, RefineStoresType, ReviewsType, AppraisesType, ChecksType,
     RaisesType, AttestsType, SignsType, RulesType, ChecksDeadlockType, DecidesRouteType, RoutesType
     DEF Works
<1>4. ASSUME NEW r \in Slot, Humans(r) PROVE TInv'
  BY <1>4, SignsType, CancelsType, DecidesType DEF Humans
<1>5. CASE UNCHANGED vars
  BY <1>5 DEF vars, TInv, TypeOK, ArchiveTypeOK
<1> QED BY <1>1, <1>2, <1>3, <1>4, <1>5 DEF Next

\* Every reachable state is well typed, whatever the laws, the cycles, the
\* answers of models, reviews and humans, and the failures.
THEOREM TypeCorrect == Spec => []TypeOK
<1>1. Spec => []TInv
  BY InitType, NextType, PTL DEF Spec
<1>2. TInv => TypeOK
  BY DEF TInv
<1> QED BY <1>1, <1>2, PTL

-----------------------------------------------------------------------------
(* What a step may do to an item.                                          *)

Superseded(j) == \E c : Stale(items[j], c) /\ items'[j] = Moved(items[j], "RESOLVED")

Triaged(j) ==
  /\ items[j].state \in {"NEW", "REJECTED"} /\ head' = head
  /\ \E r \in Slot :
       /\ At(r, "refine", "triage") /\ j \in DOMAIN work[r].todo
       /\ \/ items'[j] = Moved(items[j], "ACTIONED")
          \/ MayRefuse(work[r].todo[j]) /\ items'[j] = Moved(items[j], "WONT_FIX")

Judged(j) ==
  /\ items[j].state \in {"ACTIONED", "WONT_FIX"} /\ head' = head
  /\ \E r \in Slot : work[r].node \in Reviewing /\ work[r].step = "judge"
  /\ \E to \in {"RESOLVED", "REJECTED"} : items'[j] = Moved(items[j], to)

Deadens(j) ==
  /\ items[j].state \notin {"RESOLVED", "DEADLOCKED"}
  /\ items'[j] = Moved(items[j], "DEADLOCKED")

IsRuled(j) ==
  /\ items[j].state = "DEADLOCKED"
  /\ \E to \in {"WONT_FIX", "REJECTED"} : items'[j] = [Moved(items[j], to) EXCEPT !.ruled = TRUE]

Moves(j) ==
  \/ items'[j] = items[j]
  \/ Superseded(j) \/ Triaged(j) \/ Judged(j) \/ Deadens(j) \/ IsRuled(j)

LEMMA StoresMove ==
  ASSUME TInv, NEW r \in Slot, ForgeStores(r) \/ RefineStores(r), NEW j \in DOMAIN items
  PROVE  j \in DOMAIN items' /\ Moves(j)
<1>1. PICK c \in Contents \cup {None} : Stores(c)
  BY DEF ForgeStores, RefineStores, TInv, TypeOK, Work
<1>2. PICK resolves \in BOOLEAN : Store(c, resolves)
  BY <1>1 DEF Stores
<1> QED BY <1>2, StoreMoves DEF TInv, TypeOK, Moves, Superseded

LEMMA HandlersMove ==
  ASSUME TInv, NEW r \in Slot, Works(r), NEW j \in DOMAIN items
  PROVE  j \in DOMAIN items' /\ Moves(j)
<1>0. items \in Seq(Feedback) /\ {"ACTIONED", "WONT_FIX", "RESOLVED", "REJECTED", "DEADLOCKED"} \subseteq State
  BY DEF TInv, TypeOK, ArchiveTypeOK, State
<1>1. CASE ForgeStores(r) \/ RefineStores(r)
  BY <1>1, StoresMove
<1>2. CASE Triages(r)
  <2>1. /\ At(r, "refine", "triage") /\ head' = head
    BY <1>2 DEF Triages
  <2>2. PICK i \in DOMAIN work[r].todo :
           \/ Transition(i, {"NEW", "REJECTED"}, "ACTIONED")
           \/ MayRefuse(work[r].todo[i]) /\ Transition(i, {"NEW", "REJECTED"}, "WONT_FIX")
           \/ UNCHANGED items
    BY <1>2 DEF Triages
  <2> QED BY <1>0, <2>1, <2>2, TransitionMoves DEF Moves, Triaged
<1>3. CASE Appraises(r)
  <2>1. /\ work[r].node \in Reviewing /\ work[r].step = "judge" /\ head' = head
    BY <1>3 DEF Appraises, At, Reviewing
  <2>2. PICK i \in DOMAIN work[r].todo :
           \/ \E to \in {"RESOLVED", "REJECTED"} : Transition(i, {work[r].todo[i].state}, to)
           \/ UNCHANGED items
    BY <1>3 DEF Appraises
  <2>3. work[r].todo[i].state \in {"ACTIONED", "WONT_FIX"}
    BY <1>3, <2>2 DEF Appraises, At, TInv, Fits
  <2> QED BY <1>0, <2>1, <2>2, <2>3, TransitionMoves DEF Moves, Judged
<1>4. CASE Checks(r)
  <2>1. /\ work[r].node \in Reviewing /\ work[r].step = "judge" /\ head' = head
    BY <1>4 DEF Checks, At, Reviewing
  <2>2. PICK i \in DOMAIN work[r].todo :
           \/ \E to \in {"RESOLVED", "REJECTED"} : Transition(i, {"ACTIONED"}, to)
           \/ UNCHANGED items
    BY <1>4 DEF Checks
  <2> QED BY <1>0, <2>1, <2>2, TransitionMoves DEF Moves, Judged
<1>5. CASE Raises(r)
  <2>1. PICK cites \in work[r].found : items' = Raised(work[r].node, work[r].node = "appraisal", cites)
    BY <1>5 DEF Raises
  <2>2. PICK item : items' = Append(items, item)
    BY <2>1 DEF Raised
  <2>3. DOMAIN items = 1..Len(items) /\ Len(items) \in Nat
    BY <1>0, LenProperties
  <2>4. items'[j] = items[j] /\ j \in DOMAIN items'
    BY <1>0, <2>2, <2>3
  <2> QED BY <2>4 DEF Moves
<1>6. CASE ChecksDeadlock(r)
  BY <1>0, <1>6, TransitionMoves DEF ChecksDeadlock, Moves, Deadens
<1>7. CASE Rules(r)
  <2>1. work[r].to \in {"WONT_FIX", "REJECTED"}
    BY <1>7 DEF Rules, At, TInv, Fits
  <2>2. UNCHANGED items \/ \E i : LinkRuling(i, work[r].to)
    BY <1>7 DEF Rules
  <2> QED BY <1>0, <2>1, <2>2, RulingMoves DEF Moves, IsRuled
<1>8. CASE Reviews(r) \/ Attests(r) \/ Signs(r) \/ DecidesRoute(r) \/ Routes(r)
  BY <1>8 DEF Reviews, Attests, Signs, DecidesRoute, Routes, archive, Moves
<1> QED BY <1>1, <1>2, <1>3, <1>4, <1>5, <1>6, <1>7, <1>8 DEF Works

LEMMA ItemsMove ==
  ASSUME TInv, [Next]_vars, NEW j \in DOMAIN items
  PROVE  j \in DOMAIN items' /\ Moves(j)
<1>1. CASE \E r \in Slot : Works(r)
  BY <1>1, HandlersMove
<1>2. CASE UNCHANGED items
  BY <1>2 DEF Moves
<1> QED BY <1>1, <1>2 DEF Next, Begin, Exits, Fails, Outlives, LateEnds, Humans, Approves, Cancels,
                          Decides, archive, vars

LEMMA ItemType == ASSUME TInv, NEW j \in DOMAIN items PROVE items[j] \in Feedback
BY ElementOfSeq, LenProperties DEF TInv, TypeOK, ArchiveTypeOK

\* Resolved feedback stays resolved, also under handlers that outlived their
\* assignment and write on what they read long ago.
THEOREM ResolvedIsFinal == Spec => ResolvedStaysResolved
<1>1. ASSUME TInv, [Next]_vars
      PROVE  \A i \in DOMAIN items : items[i].state = "RESOLVED" => items'[i] = items[i]
  BY <1>1, ItemsMove DEF Moves, Superseded, Stale, Triaged, Judged, Deadens, IsRuled
<1> QED BY <1>1, InitType, NextType, PTL DEF Spec, ResolvedStaysResolved

\* What appraisal raised or a ruling binds is resolved by a verdict only.
THEOREM VerdictResolves == Spec => ResolvedByVerdict
<1>1. ASSUME TInv, [Next]_vars, NEW i \in DOMAIN items,
             items[i].refusable \/ items[i].ruled,
             items[i].state # "RESOLVED", items'[i].state = "RESOLVED"
      PROVE  items[i].state \in {"ACTIONED", "WONT_FIX"} /\ head' = head
  <2>1. Moves(i) /\ items[i] \in Feedback
    BY <1>1, ItemsMove, ItemType
  <2>2. ~Superseded(i)
    BY <1>1 DEF Superseded, Stale
  <2>3. ~Triaged(i)
    BY <1>1, <2>1, MovedType DEF Triaged, State
  <2>4. ~Deadens(i)
    BY <1>1, <2>1, MovedType DEF Deadens, State
  <2>5. ASSUME NEW to \in {"WONT_FIX", "REJECTED"}
        PROVE  [Moved(items[i], to) EXCEPT !.ruled = TRUE].state = to
    <3>1. to \in State /\ items[i] \in Feedback
      BY <2>1 DEF State
    <3> QED BY <3>1, MovedType
  <2>6. ~IsRuled(i)
    BY <1>1, <2>5 DEF IsRuled
  <2> QED BY <1>1, <2>1, <2>2, <2>3, <2>4, <2>6 DEF Moves, Judged
<1>2. ASSUME TInv, [Next]_vars
      PROVE  \A i \in DOMAIN items :
               /\ items[i].refusable \/ items[i].ruled
               /\ items[i].state # "RESOLVED" /\ items'[i].state = "RESOLVED"
               => items[i].state \in {"ACTIONED", "WONT_FIX"} /\ head' = head
  BY <1>1, <1>2
<1> QED BY <1>2, InitType, NextType, PTL DEF Spec, ResolvedByVerdict

-----------------------------------------------------------------------------
(* While no handler outlived its assignment, one handler at a time works   *)
(* for the Workitem: what it read stays true and what Sort found stays so  *)
(* until the node it chose is done.                                        *)

Live == work["live"]
Busy == Live.step \notin {"idle", "route"}
RoutesTo(nodes) == Live.step = "route" /\ Live.to \in nodes

OneHandler ==
  /\ work["late"].step = "idle"
  /\ Live.step # "idle" => node \in Handler
  /\ Busy => Live.node = node
  /\ ~RoutesTo({"done", "cancelled"})

\* What a reviewer read is the head, what refine has still to treat is as read.
AsRead ==
  /\ Busy /\ node \in Reviewing => Live.read = head
  /\ Busy /\ node = "refine" => \A i \in DOMAIN Live.todo : i \in DOMAIN items /\ Live.todo[i] = items[i]

\* Sort found no deadlock, and none comes up while its choice is carried out.
NoneDeadlocked == \A i \in DOMAIN items : ~Deadlocked(items[i])
GateChecked ==
  Live.step = "decide" \/ RoutesTo(Reviewing \cup {"exit"}) \/ node \in Reviewing => NoneDeadlocked

\* Sort lets go of what is decided, and the operator of what is stamped.
Decided == \A i \in DOMAIN items :
  \/ items[i].state = "RESOLVED"
  \/ items[i].source = "quench" /\ items[i].state \in {"NEW", "REJECTED"}
ExitDecided ==
  /\ RoutesTo({"exit"}) \/ node \in {"exit", "done"} => Decided
  /\ node \in {"done", "cancelled"} => ContractHolds

Single == ~outlived => OneHandler /\ AsRead /\ GateChecked /\ ExitDecided

LEMMA SingleParts ==
  ASSUME Single, ~outlived
  PROVE  OneHandler /\ AsRead /\ GateChecked /\ ExitDecided
BY DEF Single

LEMMA LiveType ==
  ASSUME TInv
  PROVE  Live \in Work /\ Fits(Live) /\ "live" \in Slot /\ Slot = {"live", "late"}
BY DEF TInv, TypeOK, Live, Slot

\* The handler that takes a step is the one the operator waits for.
LEMMA OnlyLive ==
  ASSUME TInv, Single, ~outlived, NEW r \in Slot, Works(r) \/ Humans(r)
  PROVE  r = "live" /\ Live.step # "idle" /\ node \in Handler
<1>1. work[r].step # "idle"
  BY DEF Works, Humans, ForgeStores, Triages, RefineStores, Reviews, Appraises, Checks, Raises,
         Attests, Signs, Rules, ChecksDeadlock, DecidesRoute, Routes, Approves, Cancels, Decides, At
<1> QED BY <1>1, SingleParts DEF OneHandler, Live, Slot

\* It goes on, leaves for a node, or ends.
LEMMA GoesOn ==
  ASSUME TInv, Single, ~outlived, Busy, NEW w, Becomes("live", w),
         w.node = Live.node, w.step \notin {"idle", "route"},
         UNCHANGED <<node, outlived>>, AsRead',
         w.step = "decide" \/ node \in Reviewing => NoneDeadlocked'
  PROVE  Single'
<1>1. Live' = w /\ work'["late"] = work["late"]
  BY LiveType, BecomesOne DEF Live, TInv, TypeOK
<1>2. OneHandler /\ node \in Handler /\ node \notin {"exit", "done", "cancelled"}
  BY SingleParts DEF OneHandler, Busy, Handler, Reviewing, Human
<1>3. OneHandler'
  BY <1>1, <1>2 DEF OneHandler, Busy, RoutesTo
<1>4. GateChecked' /\ ExitDecided'
  BY <1>1, <1>2 DEF GateChecked, ExitDecided, RoutesTo
<1> QED BY <1>3, <1>4 DEF Single

LEMMA LeavesFor ==
  ASSUME TInv, Single, ~outlived, Live.step # "idle", NEW to \in Node \ {"done", "cancelled"}, Leaves("live", to),
         UNCHANGED <<node, outlived>>,
         to \in Reviewing \cup {"exit"} \/ node \in Reviewing => NoneDeadlocked',
         to = "exit" => Decided'
  PROVE  Single'
<1>1. Live' = [Idle EXCEPT !.step = "route", !.to = to] /\ work'["late"] = work["late"]
  BY LiveType, BecomesOne DEF Leaves, Live, TInv, TypeOK
<1>2. Live'.step = "route" /\ Live'.to = to
  BY <1>1, IdleType DEF Idle
<1>3. OneHandler /\ node \in Handler /\ node \notin {"exit", "done", "cancelled"}
  BY SingleParts DEF OneHandler, Handler, Reviewing, Human
<1>4. OneHandler' /\ AsRead'
  BY <1>1, <1>2, <1>3 DEF OneHandler, AsRead, Busy, RoutesTo
<1>5. GateChecked' /\ ExitDecided'
  BY <1>2, <1>3 DEF GateChecked, ExitDecided, RoutesTo
<1> QED BY <1>4, <1>5 DEF Single

LEMMA Ends ==
  ASSUME TInv, Single, ~outlived, Becomes("live", Idle), UNCHANGED outlived,
         node' \in Reviewing => NoneDeadlocked',
         node' \in {"exit", "done"} => Decided',
         node' \notin {"done", "cancelled"}
  PROVE  Single'
<1>1. Live' = Idle /\ work'["late"] = work["late"] /\ Idle.step = "idle"
  BY LiveType, BecomesOne DEF Live, TInv, TypeOK, Idle
<1>2. OneHandler' /\ AsRead'
  BY <1>1, SingleParts DEF OneHandler, AsRead, Busy, RoutesTo
<1>3. GateChecked' /\ ExitDecided'
  BY <1>1 DEF GateChecked, ExitDecided, RoutesTo
<1> QED BY <1>2, <1>3 DEF Single

\* Verdicts and new findings deadlock nothing.
LEMMA VerdictsDeadlockNone ==
  ASSUME TInv, NoneDeadlocked, DOMAIN items' = DOMAIN items,
         \A j \in DOMAIN items :
           \/ items'[j] = items[j]
           \/ \E to \in {"RESOLVED", "REJECTED"} : items'[j] = Moved(items[j], to)
  PROVE  NoneDeadlocked'
<1> SUFFICES ASSUME NEW j \in DOMAIN items PROVE ~Deadlocked(items'[j])
  BY DEF NoneDeadlocked
<1>1. CASE items'[j] = items[j]
  BY <1>1 DEF NoneDeadlocked
<1>2. ASSUME NEW to \in {"RESOLVED", "REJECTED"}, items'[j] = Moved(items[j], to)
      PROVE  ~Deadlocked(items'[j])
  <2>1. items[j] \in Feedback /\ to \in State
    BY <1>2, ItemType DEF State
  <2>2. Moved(items[j], to).state = to
    BY <2>1, MovedType
  <2> QED BY <1>2, <2>2 DEF Deadlocked
<1> QED BY <1>1, <1>2

LEMMA RaisedAppends ==
  ASSUME TInv, NEW source, NEW refusable, NEW cites, items' = Raised(source, refusable, cites)
  PROVE  /\ DOMAIN items \subseteq DOMAIN items'
         /\ \A j \in DOMAIN items : items'[j] = items[j]
         /\ NoneDeadlocked => NoneDeadlocked'
<1> DEFINE new == [state |-> "NEW", source |-> source, refusable |-> refusable,
                   version |-> head, cites |-> cites, depth |-> 1, ruled |-> FALSE]
<1>1. items' = Append(items, new)
  BY DEF Raised
<1>2. ~Deadlocked(new)
  BY StateFacts DEF Deadlocked
<1> HIDE DEF new
<1>3. items \in Seq(Feedback) /\ DOMAIN items = 1..Len(items) /\ Len(items) \in Nat
  BY LenProperties DEF TInv, TypeOK, ArchiveTypeOK
<1>4. /\ DOMAIN items' = 1..(Len(items) + 1)
      /\ \A j \in DOMAIN items : items'[j] = items[j]
      /\ items'[Len(items) + 1] = new
  BY <1>1, <1>3
<1>5. ASSUME NoneDeadlocked, NEW j \in DOMAIN items' PROVE ~Deadlocked(items'[j])
  BY <1>2, <1>3, <1>4, <1>5 DEF NoneDeadlocked
<1> QED BY <1>3, <1>4, <1>5 DEF NoneDeadlocked

\* What a handler that is at work at a node, and reads and treats items, finds.
LEMMA AtNode ==
  ASSUME TInv, Single, ~outlived, Busy
  PROVE  /\ node = Live.node
         /\ node \in Reviewing => Live.read = head /\ NoneDeadlocked
         /\ node = "refine" => \A i \in DOMAIN Live.todo : i \in DOMAIN items /\ Live.todo[i] = items[i]
         /\ Live.step = "decide" => NoneDeadlocked
BY SingleParts DEF OneHandler, AsRead, GateChecked

LEMMA StoresSingle ==
  ASSUME TInv, Single, ~outlived, ForgeStores("live") \/ RefineStores("live") PROVE Single'
<1>1. Busy /\ Live.node \in {"forge", "refine"} /\ Leaves("live", "sort") /\ UNCHANGED <<node, outlived>>
  BY DEF ForgeStores, RefineStores, At, Busy, Live
<1>2. node \notin Reviewing /\ Live.step # "idle" /\ "sort" \in Node \ {"done", "cancelled"}
  BY <1>1, AtNode DEF Reviewing, Busy, Node, Handler
<1>3. "sort" \notin Reviewing \cup {"exit"}
  BY DEF Reviewing
<1> QED BY <1>1, <1>2, <1>3, LeavesFor

LEMMA TreatedParts ==
  ASSUME TInv, NEW i
  PROVE  /\ Treated("live", i).node = Live.node /\ Treated("live", i).step = Live.step
         /\ Treated("live", i).read = Live.read /\ Treated("live", i).earn = Live.earn
         /\ DOMAIN Treated("live", i).todo = DOMAIN Live.todo \ {i}
         /\ \A j \in DOMAIN Live.todo \ {i} : Treated("live", i).todo[j] = Live.todo[j]
         /\ Treated("live", i) \in Work
<1> DEFINE t == Restrict(Live.todo, DOMAIN Live.todo \ {i})
<1>1. Live \in Work /\ Live.todo \in ToTreat
  BY LiveType DEF Work
<1>2. DOMAIN t = DOMAIN Live.todo \ {i} /\ \A j \in DOMAIN Live.todo \ {i} : t[j] = Live.todo[j]
  BY <1>1 DEF Restrict
<1>3. Treated("live", i) = [Live EXCEPT !.todo = t]
  BY DEF Treated, Live
<1>4. Treated("live", i) \in Work
  BY LiveType, TreatedFits
<1> HIDE DEF t
<1> QED BY <1>1, <1>2, <1>3, <1>4 DEF Work

LEMMA TriagesSingle == ASSUME TInv, Single, ~outlived, Triages("live") PROVE Single'
<1>1. /\ Busy /\ Live.node = "refine" /\ Live.step = "triage" /\ UNCHANGED <<node, outlived>>
  BY DEF Triages, At, Busy, Live
<1>2. node = "refine" /\ node \notin Reviewing
  BY <1>1, AtNode DEF Reviewing
<1>3. PICK i \in DOMAIN Live.todo :
        \/ /\ \E to \in {"ACTIONED", "WONT_FIX"} : Transition(i, {"NEW", "REJECTED"}, to)
           /\ \/ Becomes("live", Treated("live", i))
              \/ Becomes("live", [Treated("live", i) EXCEPT !.acted = TRUE])
        \/ Becomes("live", Idle)
  BY DEF Triages, Live
<1>4. CASE Becomes("live", Idle)
  BY <1>1, <1>2, <1>4, Ends
<1>5. ASSUME NEW to \in {"ACTIONED", "WONT_FIX"}, Transition(i, {"NEW", "REJECTED"}, to),
             NEW w, Becomes("live", w),
             w = Treated("live", i) \/ w = [Treated("live", i) EXCEPT !.acted = TRUE]
      PROVE  Single'
  <2>1. /\ w.node = Live.node /\ w.step = Live.step /\ DOMAIN w.todo = DOMAIN Live.todo \ {i}
        /\ \A j \in DOMAIN Live.todo \ {i} : w.todo[j] = Live.todo[j]
    BY <1>5, TreatedParts DEF Work
  <2>2. Live' = w
    BY <1>5, LiveType, BecomesOne DEF Live, TInv, TypeOK
  <2>3. /\ DOMAIN items' = DOMAIN items
        /\ \A j \in DOMAIN items : j # i => items'[j] = items[j]
    <3>1. items \in Seq(Feedback) /\ to \in State
      BY DEF TInv, TypeOK, ArchiveTypeOK, State
    <3> QED BY <1>5, <3>1, TransitionMoves
  <2>4. \A j \in DOMAIN w.todo : j \in DOMAIN items' /\ w.todo[j] = items'[j]
    BY <1>1, <1>2, <2>1, <2>3, AtNode
  <2>5. AsRead'
    BY <1>1, <1>2, <2>2, <2>4 DEF AsRead
  <2> QED BY <1>1, <1>2, <1>5, <2>1, <2>5, GoesOn
<1> QED BY <1>3, <1>4, <1>5

\* A reviewer at its node, going on with what it read.
LEMMA ReviewerGoesOn ==
  ASSUME TInv, Single, ~outlived, Busy, node \in Reviewing, NEW w, Becomes("live", w),
         w.node = Live.node, w.step = "judge", w.read = Live.read,
         UNCHANGED <<node, outlived, head>>, NoneDeadlocked'
  PROVE  Single'
<1>1. Live' = w
  BY LiveType, BecomesOne DEF Live, TInv, TypeOK
<1>2. AsRead'
  BY <1>1, AtNode DEF AsRead, Reviewing
<1> QED BY <1>2, GoesOn

LEMMA ReviewsSingle == ASSUME TInv, Single, ~outlived, Reviews("live") PROVE Single'
<1>1. /\ Busy /\ Live.node = "appraisal" /\ UNCHANGED <<node, outlived, head, items>>
  BY DEF Reviews, At, Busy, Live, archive
<1>2. node \in Reviewing /\ NoneDeadlocked'
  BY <1>1, AtNode DEF Reviewing, NoneDeadlocked
<1>3. PICK found, earn : Becomes("live", [Live EXCEPT !.step = "judge", !.found = found, !.earn = earn])
  BY DEF Reviews, Live
<1> DEFINE w == [Live EXCEPT !.step = "judge", !.found = found, !.earn = earn]
<1>4. w.node = Live.node /\ w.step = "judge" /\ w.read = Live.read
  BY LiveType DEF Work
<1> QED BY <1>1, <1>2, <1>3, <1>4, ReviewerGoesOn

LEMMA VerdictsSingle ==
  ASSUME TInv, Single, ~outlived, Appraises("live") \/ Checks("live") PROVE Single'
<1>1. /\ Busy /\ Live.node \in Reviewing /\ Live.step = "judge" /\ UNCHANGED <<node, outlived, head>>
  BY DEF Appraises, Checks, At, Busy, Live, Reviewing
<1>2. node \in Reviewing /\ NoneDeadlocked /\ node \notin {"exit", "done", "cancelled"}
  BY <1>1, AtNode DEF Reviewing
<1>3. PICK i \in DOMAIN Live.todo :
        /\ Becomes("live", Treated("live", i)) \/ Becomes("live", Idle)
        /\ \/ \E from, to : to \in {"RESOLVED", "REJECTED"} /\ Transition(i, from, to)
           \/ UNCHANGED items
  BY DEF Appraises, Checks, Live
<1>4. NoneDeadlocked'
  <2>1. CASE UNCHANGED items
    BY <1>2, <2>1 DEF NoneDeadlocked
  <2>2. ASSUME NEW from, NEW to \in {"RESOLVED", "REJECTED"}, Transition(i, from, to)
        PROVE  NoneDeadlocked'
    <3>1. items \in Seq(Feedback) /\ to \in State
      BY DEF TInv, TypeOK, ArchiveTypeOK, State
    <3>2. /\ DOMAIN items' = DOMAIN items
          /\ \A j \in DOMAIN items : items'[j] = IF j = i THEN Moved(items[j], to) ELSE items[j]
      BY <2>2, <3>1, TransitionMoves
    <3> QED BY <1>2, <3>2, VerdictsDeadlockNone
  <2> QED BY <1>3, <2>1, <2>2
<1>5. CASE Becomes("live", Idle)
  BY <1>1, <1>2, <1>4, <1>5, Ends
<1>6. CASE Becomes("live", Treated("live", i))
  BY <1>1, <1>2, <1>4, <1>6, TreatedParts, ReviewerGoesOn
<1> QED BY <1>3, <1>5, <1>6

LEMMA FindingsSingle ==
  ASSUME TInv, Single, ~outlived, Raises("live") \/ Attests("live") PROVE Single'
<1>1. /\ Busy /\ Live.node \in Reviewing /\ Live.step = "judge" /\ UNCHANGED <<node, outlived, head>>
  BY DEF Raises, Attests, Busy, Live
<1>2. node \in Reviewing /\ NoneDeadlocked
  BY <1>1, AtNode
<1>3. UNCHANGED items \/ \E cites : items' = Raised(Live.node, Live.node = "appraisal", cites)
  BY DEF Raises, Attests, Live
<1>4. NoneDeadlocked'
  BY <1>2, <1>3, RaisedAppends DEF NoneDeadlocked
<1>5. PICK found, earn : Becomes("live", [Live EXCEPT !.found = found, !.earn = earn])
  <2>1. CASE Raises("live")
    <3>1. PICK found : Becomes("live", [Live EXCEPT !.found = found])
      BY <2>1 DEF Raises, Live
    <3>2. [Live EXCEPT !.found = found] = [Live EXCEPT !.found = found, !.earn = Live.earn]
      BY LiveType DEF Work
    <3> QED BY <3>1, <3>2
  <2>2. CASE Attests("live")
    <3>1. PICK earn : Becomes("live", [Live EXCEPT !.earn = earn])
      BY <2>2 DEF Attests, Live
    <3>2. [Live EXCEPT !.earn = earn] = [Live EXCEPT !.found = Live.found, !.earn = earn]
      BY LiveType DEF Work
    <3> QED BY <3>1, <3>2
  <2> QED BY <2>1, <2>2
<1> DEFINE w == [Live EXCEPT !.found = found, !.earn = earn]
<1>6. w.node = Live.node /\ w.step = Live.step /\ w.read = Live.read
  BY LiveType DEF Work
<1> QED BY <1>1, <1>2, <1>4, <1>5, <1>6, ReviewerGoesOn

LEMMA SignsSingle ==
  ASSUME TInv, Single, ~outlived, Signs("live") \/ Approves("live") \/ Cancels("live") PROVE Single'
<1>1. PICK to \in {"sort", "cancelling"} : Leaves("live", to)
  BY DEF Signs, Approves, Cancels
<1>2. Busy /\ UNCHANGED <<node, outlived, items>>
  BY DEF Signs, Approves, Cancels, At, Busy, Live, archive
<1>3. node \in Reviewing => NoneDeadlocked'
  BY <1>2, AtNode DEF NoneDeadlocked
<1>4. Live.step # "idle" /\ to \in Node \ {"done", "cancelled"} /\ to \notin Reviewing \cup {"exit"}
  BY <1>2 DEF Busy, Node, Handler, Reviewing
<1> QED BY <1>1, <1>2, <1>3, <1>4, LeavesFor

LEMMA ArbiterSingle ==
  ASSUME TInv, Single, ~outlived, Decides("live") \/ Rules("live") PROVE Single'
<1>1. /\ Busy /\ Live.node = "hitl-arbiter" /\ UNCHANGED <<node, outlived>>
  BY DEF Decides, Rules, At, Busy, Live
<1>2. node = "hitl-arbiter" /\ node \notin Reviewing /\ Live.step # "idle"
  BY <1>1, AtNode DEF Reviewing, Busy
<1>3. ASSUME NEW w, Becomes("live", w), w.node = Live.node, w.step = "rule"
      PROVE  Single'
  <2>1. AsRead'
    BY <1>1, <1>2 DEF AsRead
  <2> QED BY <1>1, <1>2, <1>3, <2>1, GoesOn
<1>4. CASE Decides("live")
  <2>1. PICK to : Becomes("live", [Live EXCEPT !.step = "rule", !.to = to])
    BY <1>4 DEF Decides, Live
  <2> DEFINE w == [Live EXCEPT !.step = "rule", !.to = to]
  <2>2. w.node = Live.node /\ w.step = "rule"
    BY LiveType DEF Work
  <2> QED BY <1>3, <2>1, <2>2
<1>5. CASE Rules("live")
  <2>1. Live.step = "rule"
    BY <1>5 DEF Rules, At, Live
  <2>2. \/ Becomes("live", Idle) \/ Leaves("live", "sort")
        \/ \E i : Becomes("live", Treated("live", i))
    BY <1>5 DEF Rules
  <2>3. CASE Becomes("live", Idle)
    BY <1>1, <1>2, <2>3, Ends
  <2>4. CASE Leaves("live", "sort")
    <3>1. "sort" \in Node \ {"done", "cancelled"} /\ "sort" \notin Reviewing \cup {"exit"}
      BY DEF Node, Handler, Reviewing
    <3> QED BY <1>1, <1>2, <2>4, <3>1, LeavesFor
  <2>5. ASSUME NEW i, Becomes("live", Treated("live", i)) PROVE Single'
    BY <1>3, <2>1, <2>5, TreatedParts
  <2> QED BY <2>2, <2>3, <2>4, <2>5
<1> QED BY <1>4, <1>5

LEMMA ChecksDeadlockSingle == ASSUME TInv, Single, ~outlived, ChecksDeadlock("live") PROVE Single'
<1>1. /\ Busy /\ Live.node = "sort" /\ UNCHANGED <<node, outlived, head>>
  BY DEF ChecksDeadlock, At, Busy, Live
<1>2. node = "sort" /\ node \notin Reviewing /\ Live.step # "idle"
  BY <1>1, AtNode DEF Reviewing, Busy
<1>3. CASE Leaves("live", "hitl-arbiter")
  <2>1. /\ "hitl-arbiter" \in Node \ {"done", "cancelled"}
        /\ "hitl-arbiter" \notin Reviewing \cup {"exit"}
    BY DEF Node, Handler, Human, Reviewing
  <2> QED BY <1>1, <1>2, <1>3, <2>1, LeavesFor
<1>4. CASE /\ \A i \in DOMAIN items : ~Deadlocked(items[i])
           /\ Becomes("live", [Live EXCEPT !.step = "decide"])
           /\ UNCHANGED items
  <2>1. NoneDeadlocked'
    BY <1>4 DEF NoneDeadlocked
  <2> DEFINE w == [Live EXCEPT !.step = "decide"]
  <2>2. w.node = Live.node /\ w.step = "decide"
    BY LiveType DEF Work
  <2>3. AsRead'
    BY <1>1, <1>2 DEF AsRead
  <2> QED BY <1>1, <1>4, <2>1, <2>2, <2>3, GoesOn
<1> QED BY <1>3, <1>4 DEF ChecksDeadlock, Live

\* What Sort lets go to the exit it found decided.
LEMMA ExitMeansDecided ==
  ASSUME TInv, NoneDeadlocked, Directed("exit")
  PROVE  Decided
<1>1. flow.order \in Seq(Handler) /\ "appraisal" \in Range(flow.order)
  BY FlowsAssumption DEF TInv, TypeOK, Flow
<1>2. "exit" \notin Handler \cup {Attester, "refine", "appraisal"}
  BY DEF Handler, Reviewing, Human, Attester
<1>3. ~\E n \in Range(flow.order) : Wants(n)
  <2>1. SUFFICES ASSUME NEW k \in DOMAIN flow.order,
                        "exit" = flow.order[k] \/ "exit" = "refine"
                 PROVE  FALSE
    BY DEF Directed
  <2>2. flow.order[k] \in Handler
    BY <1>1, ElementOfSeq, LenProperties
  <2> QED BY <1>2, <2>1, <2>2
<1>4. ~Addressed
  BY <1>2, <1>3 DEF Directed
<1>5. "appraisal" \notin Raisers
  BY <1>1, <1>3 DEF Wants, StaticStamp
<1> SUFFICES ASSUME NEW i \in DOMAIN items
             PROVE  \/ items[i].state = "RESOLVED"
                    \/ items[i].source = "quench" /\ items[i].state \in {"NEW", "REJECTED"}
  BY DEF Decided
<1>6. items[i].state \in State /\ items[i].source \in Source
  BY ItemType DEF Feedback
<1>7. items[i].state \notin {"ACTIONED", "WONT_FIX", "DEADLOCKED"}
  BY <1>4 DEF Addressed, NoneDeadlocked, Deadlocked
<1>8. items[i].state \in {"NEW", "REJECTED"} => items[i].source # "appraisal"
  BY <1>5 DEF Raisers
<1> QED BY <1>6, <1>7, <1>8 DEF State, Source

LEMMA DecidesRouteSingle == ASSUME TInv, Single, ~outlived, DecidesRoute("live") PROVE Single'
<1>1. /\ Busy /\ Live.step = "decide" /\ UNCHANGED <<node, outlived, items>>
  BY DEF DecidesRoute, At, Busy, Live, archive
<1>2. NoneDeadlocked /\ NoneDeadlocked'
  BY <1>1, AtNode DEF NoneDeadlocked
<1>3. PICK to \in Node : Directed(to) /\ Leaves("live", to)
  BY DEF DecidesRoute
<1>4. to = "exit" => Decided'
  BY <1>1, <1>2, <1>3, ExitMeansDecided DEF Decided
<1>5. to \notin {"done", "cancelled"}
  <2>1. flow.order \in Seq(Handler)
    BY FlowsAssumption DEF TInv, TypeOK, Flow
  <2>2. \A k \in DOMAIN flow.order : flow.order[k] \in Handler
    BY <2>1, ElementOfSeq, LenProperties
  <2>3. to \in Handler \cup {"refine", Attester, "appraisal", "exit"}
    BY <1>3, <2>2 DEF Directed
  <2> QED BY <2>3 DEF Attester, Handler, Reviewing, Human
<1> QED BY <1>1, <1>2, <1>3, <1>4, <1>5, LeavesFor DEF Busy

LEMMA RoutesSingle == ASSUME TInv, Single, ~outlived, Routes("live") PROVE Single'
<1>1. /\ Live.step = "route" /\ node' = Live.to /\ Becomes("live", Idle)
      /\ UNCHANGED <<outlived, items>>
  BY DEF Routes, Live, archive
<1>2. Live.to \in Reviewing => NoneDeadlocked'
  BY <1>1, SingleParts DEF GateChecked, RoutesTo, NoneDeadlocked
<1>3. Live.to \notin {"done", "cancelled"}
  BY <1>1, SingleParts DEF OneHandler, RoutesTo
<1>4. Live.to = "exit" => Decided'
  BY <1>1, SingleParts DEF ExitDecided, RoutesTo, Decided
<1> QED BY <1>1, <1>2, <1>3, <1>4, Ends

LEMMA BeginSingle == ASSUME TInv, Single, ~outlived, Begin PROVE Single'
<1>1. node \in Handler /\ UNCHANGED <<node, outlived, items, head>>
  BY DEF Begin, archive
<1>2. PICK found, earn :
        Becomes("live", [Idle EXCEPT !.node = node, !.step = First(node), !.todo = Todo(node),
          !.read = IF node \in Reviewing \cup {"refine"} THEN head ELSE None,
          !.found = found, !.earn = earn])
  BY DEF Begin
<1> DEFINE w == [Idle EXCEPT !.node = node, !.step = First(node), !.todo = Todo(node),
                   !.read = IF node \in Reviewing \cup {"refine"} THEN head ELSE None,
                   !.found = found, !.earn = earn]
<1>3. Live' = w /\ work'["late"] = work["late"]
  BY <1>2, LiveType, BecomesOne DEF Live, TInv, TypeOK
<1>4. /\ w.node = node /\ w.step = First(node) /\ w.to = "sort" /\ w.todo = Todo(node)
      /\ w.read = IF node \in Reviewing \cup {"refine"} THEN head ELSE None
  BY DEF Idle
<1> HIDE DEF w
<1>5. First(node) # "decide"
  BY DEF First
<1>6. OneHandler'
  BY <1>1, <1>3, <1>4, SingleParts DEF OneHandler, Busy, RoutesTo
<1>7. AsRead'
  <2>1. /\ DOMAIN Todo(node) \subseteq DOMAIN items
        /\ \A i \in DOMAIN Todo(node) : Todo(node)[i] = items[i]
    BY TodoType DEF TInv
  <2> QED BY <1>1, <1>3, <1>4, <2>1 DEF AsRead
<1>8. GateChecked' /\ ExitDecided'
  <2>1. node \notin {"exit", "done", "cancelled"} /\ "sort" \notin Reviewing \cup {"exit"}
    BY <1>1 DEF Handler, Reviewing, Human
  <2> QED BY <1>1, <1>3, <1>4, <1>5, <2>1, SingleParts DEF GateChecked, ExitDecided, RoutesTo, NoneDeadlocked
<1> QED BY <1>6, <1>7, <1>8 DEF Single

LEMMA ExitsSingle == ASSUME TInv, Single, ~outlived, Exits PROVE Single'
<1>1. /\ node \in {"exit", "cancelling"} /\ node' = IF node = "exit" THEN "done" ELSE "cancelled"
      /\ Live.step = "idle" /\ UNCHANGED <<archive, flow, work, outlived>>
  BY DEF Exits, Live
<1>2. OneHandler' /\ AsRead'
  BY <1>1, SingleParts DEF OneHandler, AsRead, Busy, RoutesTo, Live
<1>3. GateChecked'
  BY <1>1 DEF GateChecked, RoutesTo, Live, Reviewing
<1>4. ContractHolds'
  BY <1>1 DEF Exits, ContractHolds, Unstamped, HasStamp, Required, archive
<1>5. ExitDecided'
  BY <1>1, <1>4, SingleParts DEF ExitDecided, RoutesTo, Live, Decided, archive
<1> QED BY <1>2, <1>3, <1>5 DEF Single

LEMMA StutterSingle == ASSUME Single, UNCHANGED <<archive, flow, node, work, outlived>> PROVE Single'
<1>1. UNCHANGED <<head, stamps, items, flow, node, work, outlived>>
  BY DEF archive
<1>2. (OneHandler => OneHandler') /\ (AsRead => AsRead')
  BY <1>1 DEF OneHandler, AsRead, Live, Busy, RoutesTo
<1>3. (GateChecked => GateChecked') /\ (Decided => Decided')
  BY <1>1 DEF GateChecked, Live, RoutesTo, NoneDeadlocked, Decided
<1>4. ContractHolds => ContractHolds'
  BY <1>1 DEF ContractHolds, Unstamped, HasStamp, Required
<1>5. ExitDecided => ExitDecided'
  BY <1>1, <1>3, <1>4 DEF ExitDecided, Live, RoutesTo
<1> QED BY <1>1, <1>2, <1>3, <1>5 DEF Single

LEMMA FaultsSingle ==
  ASSUME TInv, Single, ~outlived, Fails \/ Outlives \/ LateEnds PROVE Single'
<1>1. CASE Fails
  <2>1. Live.step # "idle" /\ Becomes("live", Idle) /\ UNCHANGED <<node, outlived, items>>
    BY <1>1 DEF Fails, Live, archive
  <2>2. node \in Handler /\ node \notin {"exit", "done", "cancelled"}
    BY <2>1, SingleParts DEF OneHandler, Handler, Reviewing, Human
  <2>3. node \in Reviewing => NoneDeadlocked'
    BY <2>1, SingleParts DEF GateChecked, NoneDeadlocked
  <2> QED BY <2>1, <2>2, <2>3, Ends
<1>2. CASE Outlives
  BY <1>2 DEF Outlives, Single
<1>3. CASE LateEnds
  BY <1>3, SingleParts DEF LateEnds, OneHandler
<1> QED BY <1>1, <1>2, <1>3

LEMMA InitSingle == Init => Single
<1> SUFFICES ASSUME Init PROVE Single
  OBVIOUS
<1>1. Live = Idle /\ work["late"] = Idle /\ Idle.step = "idle" /\ node = "forge"
  BY DEF Init, Live, Slot, Idle
<1>2. OneHandler /\ AsRead /\ GateChecked /\ ExitDecided
  BY <1>1 DEF OneHandler, AsRead, GateChecked, ExitDecided, RoutesTo, Busy, Reviewing
<1> QED BY <1>2 DEF Single

LEMMA NextSingle == TInv /\ Single /\ [Next]_vars => Single'
<1> SUFFICES ASSUME TInv, Single, [Next]_vars PROVE Single'
  OBVIOUS
<1>1. CASE outlived
  <2>1. outlived'
    BY <1>1 DEF Next, Begin, Exits, Fails, Outlives, LateEnds, Works, Humans, ForgeStores, Triages,
           RefineStores, Reviews, Appraises, Checks, Raises, Attests, Signs, Rules, ChecksDeadlock,
           DecidesRoute, Routes, Approves, Cancels, Decides, vars
  <2> QED BY <2>1 DEF Single
<1>2. CASE ~outlived
  <2>1. ASSUME NEW r \in Slot, Works(r) \/ Humans(r) PROVE Single'
    <3>1. Works("live") \/ Humans("live")
      BY <1>2, <2>1, OnlyLive
    <3>2. CASE Works("live")
      BY <1>2, <3>2, StoresSingle, TriagesSingle, ReviewsSingle, VerdictsSingle, FindingsSingle,
         SignsSingle, ArbiterSingle, ChecksDeadlockSingle, DecidesRouteSingle, RoutesSingle DEF Works
    <3>3. CASE Humans("live")
      BY <1>2, <3>3, SignsSingle, ArbiterSingle DEF Humans
    <3> QED BY <3>1, <3>2, <3>3
  <2>2. CASE UNCHANGED vars
    BY <2>2, StutterSingle DEF vars, archive
  <2> QED BY <1>2, <2>1, <2>2, BeginSingle, ExitsSingle, FaultsSingle DEF Next
<1> QED BY <1>1, <1>2

LEMMA Invariance == Spec => [](TInv /\ Single)
<1>1. Init => TInv /\ Single
  BY InitType, InitSingle
<1>2. TInv /\ Single /\ [Next]_vars => (TInv /\ Single)'
  BY NextType, NextSingle
<1> QED BY <1>1, <1>2, PTL DEF Spec

\* What left the flow carries the stamps of its exit contract on its head, and
\* what completed leaves nothing undecided but quench's findings.
THEOREM CompletedWasReviewed == Spec => []CompletedIsReviewed
<1>1. TInv /\ Single => CompletedIsReviewed
  <2> SUFFICES ASSUME TInv, Single, ~outlived
               PROVE  /\ node \in {"done", "cancelled"} => Unstamped(Required) = {}
                      /\ node = "done" => \A i \in DOMAIN items :
                           \/ items[i].state = "RESOLVED"
                           \/ items[i].source = "quench" /\ items[i].state \in {"NEW", "REJECTED"}
    BY DEF CompletedIsReviewed
  <2> QED BY SingleParts DEF ExitDecided, ContractHolds, Decided
<1> QED BY <1>1, Invariance, PTL

\* No handler refuses what a ruling rejected.
THEOREM RulingIsObeyed == Spec => RuledIsObeyed
<1>1. ASSUME TInv, Single, [Next]_vars, NEW i \in DOMAIN items,
             items[i].ruled, items[i].state = "REJECTED", ~outlived
      PROVE  items'[i].state # "WONT_FIX"
  <2>1. Moves(i) /\ items[i] \in Feedback
    BY <1>1, ItemsMove, ItemType
  <2>2. \A to \in State : Moved(items[i], to).state = to
    BY <2>1, MovedType
  <2>3. CASE Triaged(i)
    <3>1. PICK r \in Slot :
            /\ At(r, "refine", "triage") /\ i \in DOMAIN work[r].todo
            /\ \/ items'[i] = Moved(items[i], "ACTIONED")
               \/ MayRefuse(work[r].todo[i])
      BY <2>3 DEF Triaged
    <3>2. r = "live" /\ Busy /\ Live.node = "refine"
      BY <1>1, <3>1, SingleParts DEF At, OneHandler, Live, Busy, Slot
    <3>3. work[r].todo[i] = items[i]
      BY <1>1, <3>1, <3>2, AtNode DEF Live
    <3>4. items'[i] = Moved(items[i], "ACTIONED")
      BY <1>1, <3>1, <3>3 DEF MayRefuse
    <3> QED BY <2>2, <3>4 DEF State
  <2>4. ~Judged(i) /\ ~IsRuled(i)
    BY <1>1 DEF Judged, IsRuled
  <2>5. CASE Superseded(i) \/ Deadens(i)
    BY <2>2, <2>5 DEF Superseded, Deadens, State
  <2> QED BY <1>1, <2>1, <2>3, <2>4, <2>5 DEF Moves
<1>2. ASSUME TInv, Single, [Next]_vars
      PROVE  \A i \in DOMAIN items : items[i].ruled /\ items[i].state = "REJECTED" /\ ~outlived
               => items'[i].state # "WONT_FIX"
  BY <1>1, <1>2
<1> QED BY <1>2, Invariance, PTL DEF Spec, RuledIsObeyed

\* A review rejects a fix only below the threshold.
THEOREM RejectionsEnd == Spec => RejectionsAreBounded
<1>1. ASSUME TInv, Single, [Next]_vars, NEW i \in DOMAIN items,
             items[i].state = "ACTIONED", items'[i].state = "REJECTED"
      PROVE  items[i].depth < Threshold \/ outlived
  <2> SUFFICES ASSUME ~outlived PROVE items[i].depth < Threshold
    OBVIOUS
  <2>1. Moves(i) /\ items[i] \in Feedback
    BY <1>1, ItemsMove, ItemType
  <2>2. \A to \in State : Moved(items[i], to).state = to
    BY <2>1, MovedType
  <2>3. Judged(i)
    BY <1>1, <2>1, <2>2 DEF Moves, Superseded, Triaged, Deadens, IsRuled, State
  <2>4. Busy /\ Live.node \in Reviewing
    BY <2>3, SingleParts, <1>1 DEF Judged, OneHandler, Live, Busy, Slot
  <2>5. ~Deadlocked(items[i])
    BY <1>1, <2>4, AtNode DEF NoneDeadlocked
  <2>6. items[i].depth \in Nat /\ Threshold \in Nat
    BY <2>1, StateFacts DEF Feedback
  <2> QED BY <1>1, <2>5, <2>6 DEF Deadlocked
<1>2. ASSUME TInv, Single, [Next]_vars
      PROVE  \A i \in DOMAIN items : items[i].state = "ACTIONED" /\ items'[i].state = "REJECTED"
               => items[i].depth < Threshold \/ outlived
  BY <1>1, <1>2
<1> QED BY <1>2, Invariance, PTL DEF Spec, RejectionsAreBounded

-----------------------------------------------------------------------------
(* What is attested was reviewed, when every review arrives.               *)

Earnt ==
  /\ \A s \in stamps : s[2] \in Laws => s \in reviewed
  /\ Live.step = "judge" => \A l \in Live.earn \cap Laws : <<head, l>> \in reviewed
Attested == ~outlived => Earnt

\* A step that stamps no law, learns of no review and leaves nothing to judge
\* but what was earned keeps what is attested.
LEMMA KeepsAttested ==
  ASSUME Attested, ~outlived, reviewed \subseteq reviewed',
         \A s \in stamps' : s \in stamps \/ s[2] \notin Laws,
         \/ Live'.step # "judge"
         \/ Live'.earn \cap Laws = {}
         \/ Live.step = "judge" /\ head' = head /\ Live'.earn \subseteq Live.earn
  PROVE  Attested'
BY DEF Attested, Earnt

LEMMA StaticStampsNoLaw == \A n : StaticStamp(n) \cap Laws = {}
BY NamesAssumption DEF StaticStamp

LEMMA AttestsKeeps == ASSUME TInv, Single, Attested, ~outlived, Attests("live") PROVE Attested'
<1>1. /\ Busy /\ Live.node \in Reviewing /\ Live.step = "judge" /\ UNCHANGED <<head, reviewed>>
  BY DEF Attests, Busy, Live
<1>2. PICK name \in Live.earn :
        /\ Becomes("live", [Live EXCEPT !.earn = @ \ {name}])
        /\ Stamped({name}) \/ UNCHANGED stamps
  BY DEF Attests, Live
<1>3. Live'.earn \subseteq Live.earn
  BY <1>2, LiveType, BecomesOne DEF Live, TInv, TypeOK, Work
<1>4. \A s \in stamps' : s \in stamps \/ s = <<head, name>>
  BY <1>2 DEF Stamped
<1>5. Earnt
  BY DEF Attested
<1>6. \A s \in stamps' : s[2] \in Laws => s \in reviewed'
  BY <1>1, <1>2, <1>4, <1>5 DEF Earnt
<1>7. \A l \in Live'.earn \cap Laws : <<head', l>> \in reviewed'
  BY <1>1, <1>3, <1>5 DEF Earnt
<1> QED BY <1>6, <1>7 DEF Attested, Earnt

LEMMA ReviewsKeeps ==
  ASSUME ReviewsArrive, TInv, Single, Attested, ~outlived, Reviews("live") PROVE Attested'
<1>1. /\ Busy /\ Live.node = "appraisal" /\ UNCHANGED <<head, stamps>>
  BY DEF Reviews, At, Busy, Live, archive
<1>2. Live.read = head
  BY <1>1, AtNode DEF Reviewing
<1>3. PICK failed \in SUBSET Laws, found \in SUBSET SUBSET Laws :
        /\ reviewed' = reviewed \cup ({Live.read} \X ((Laws \ failed) \ UNION found))
        /\ Becomes("live", [Live EXCEPT !.step = "judge", !.found = found,
                                        !.earn = Earned(found, failed)])
  <2>1. PICK failed \in SUBSET Laws, silent \in SUBSET Laws, found \in SUBSET SUBSET Laws :
          /\ silent = {}
          /\ reviewed' = reviewed \cup ({Live.read} \X (((Laws \ failed) \ silent) \ UNION found))
          /\ Becomes("live", [Live EXCEPT !.step = "judge", !.found = found,
                                          !.earn = Earned(found, failed)])
    BY DEF Reviews, Live
  <2>2. (Laws \ failed) \ silent = Laws \ failed
    BY <2>1
  <2> QED BY <2>1, <2>2
<1>4. Live'.earn = Earned(found, failed)
  <2>1. \A w : Becomes("live", w) => Live' = w
    BY LiveType, BecomesOne DEF Live, TInv, TypeOK
  <2>2. \A earn : [Live EXCEPT !.step = "judge", !.found = found, !.earn = earn].earn = earn
    BY LiveType DEF Work
  <2> QED BY <1>3, <2>1, <2>2
<1>5. Live'.earn \cap Laws \subseteq (Laws \ failed) \ UNION found
  BY <1>4, NamesAssumption DEF Earned
<1>6. \A l \in Live'.earn \cap Laws : <<head', l>> \in reviewed'
  BY <1>1, <1>2, <1>3, <1>5
<1>7. \A s \in stamps' : s[2] \in Laws => s \in reviewed'
  BY <1>1, <1>3 DEF Attested, Earnt
<1> QED BY <1>6, <1>7 DEF Attested, Earnt

\* Handlers that judge keep what is earned; the others have nothing to judge.
LEMMA JudgesKeep ==
  ASSUME TInv, Single, Attested, ~outlived,
         Appraises("live") \/ Checks("live") \/ Raises("live") PROVE Attested'
<1>1. Live.step = "judge" /\ UNCHANGED <<head, stamps, reviewed>>
  BY DEF Appraises, Checks, Raises, At, Live
<1>2. \/ \E i : Becomes("live", Treated("live", i))
      \/ Becomes("live", Idle)
      \/ \E found : Becomes("live", [Live EXCEPT !.found = found])
  BY DEF Appraises, Checks, Raises, Live
<1>3. Live'.step # "judge" \/ Live'.earn = Live.earn
  <2>1. Idle.step # "judge"
    BY DEF Idle
  <2>2. \A w : Becomes("live", w) => Live' = w
    BY LiveType, BecomesOne DEF Live, TInv, TypeOK
  <2>3. \A found : [Live EXCEPT !.found = found].earn = Live.earn
    BY LiveType DEF Work
  <2> QED BY <1>2, <2>1, <2>2, <2>3, TreatedParts
<1> QED BY <1>1, <1>3, KeepsAttested

LEMMA OthersKeepAttested ==
  ASSUME TInv, Single, Attested, ~outlived,
         \/ ForgeStores("live") \/ RefineStores("live") \/ Signs("live") \/ Approves("live")
         \/ Cancels("live") \/ DecidesRoute("live")
         \/ Triages("live") \/ Rules("live") \/ Decides("live") \/ ChecksDeadlock("live")
         \/ Routes("live") \/ Fails
  PROVE  Attested'
<1>1. UNCHANGED reviewed
  BY DEF ForgeStores, RefineStores, Signs, Approves, Cancels, DecidesRoute, Triages, Rules, Decides,
         ChecksDeadlock, Routes, Fails
<1>2. \A s \in stamps' : s \in stamps \/ s[2] \notin Laws
  <2>1. UNCHANGED stamps \/ \E n : Stamped(StaticStamp(n))
    <3>1. CASE ForgeStores("live") \/ RefineStores("live")
      BY <3>1 DEF ForgeStores, RefineStores, Stores, Store, archive
    <3> QED BY <3>1 DEF Signs, Approves, Cancels, DecidesRoute, Triages, Rules,
           Decides, ChecksDeadlock, Routes, Fails, archive
  <2> QED BY <2>1, StaticStampsNoLaw DEF Stamped
<1>3. Live'.step # "judge"
  <2>1. \A w : Becomes("live", w) => Live' = w
    BY LiveType, BecomesOne DEF Live, TInv, TypeOK
  <2>2. \A to : [Idle EXCEPT !.step = "route", !.to = to].step = "route" /\ Idle.step = "idle"
    BY DEF Idle
  <2>3. /\ [Live EXCEPT !.step = "decide"].step = "decide"
        /\ \A to : [Live EXCEPT !.step = "rule", !.to = to].step = "rule"
    BY LiveType DEF Work
  <2>4. CASE Triages("live") \/ Rules("live")
    <3>1. Live.step \in {"triage", "rule"}
      BY <2>4 DEF Triages, Rules, At, Live
    <3>2. PICK i : \/ Becomes("live", Treated("live", i))
                   \/ Becomes("live", [Treated("live", i) EXCEPT !.acted = TRUE])
                   \/ Becomes("live", Idle) \/ Leaves("live", "sort")
      BY <2>4 DEF Triages, Rules
    <3>3. /\ Treated("live", i).step = Live.step
          /\ [Treated("live", i) EXCEPT !.acted = TRUE].step = Live.step
      BY TreatedParts DEF Work
    <3> QED BY <2>1, <2>2, <3>1, <3>2, <3>3 DEF Leaves
  <2>5. \/ Triages("live") \/ Rules("live")
        \/ Becomes("live", Idle) \/ \E to : Leaves("live", to)
        \/ Becomes("live", [Live EXCEPT !.step = "decide"])
        \/ \E to : Becomes("live", [Live EXCEPT !.step = "rule", !.to = to])
    BY DEF ForgeStores, RefineStores, Signs, Approves, Cancels, DecidesRoute, Decides,
           ChecksDeadlock, Routes, Fails, Live
  <2> QED BY <2>1, <2>2, <2>3, <2>4, <2>5 DEF Leaves
<1> QED BY <1>1, <1>2, <1>3, KeepsAttested

LEMMA BeginKeeps == ASSUME TInv, Attested, ~outlived, Begin PROVE Attested'
<1>1. UNCHANGED <<stamps, reviewed>>
  BY DEF Begin, archive
<1>2. Live'.earn = IF node = "quench" THEN flow.plain ELSE {}
  <2>1. PICK w : Becomes("live", w) /\ w.earn = IF node = "quench" THEN flow.plain ELSE {}
    <3> DEFINE w == [Idle EXCEPT
          !.node = node, !.step = First(node), !.todo = Todo(node),
          !.read = IF node \in Reviewing \cup {"refine"} THEN head ELSE None,
          !.found = IF node = "quench" /\ head \notin Valid THEN {{}} ELSE {},
          !.earn = IF node = "quench" THEN flow.plain ELSE {}]
    <3>1. Becomes("live", w)
      BY DEF Begin
    <3>2. w.earn = IF node = "quench" THEN flow.plain ELSE {}
      BY DEF Idle
    <3> QED BY <3>1, <3>2
  <2> QED BY <2>1, LiveType, BecomesOne DEF Live, TInv, TypeOK
<1>3. flow.plain \cap Laws = {}
  BY FlowsAssumption, NamesAssumption DEF TInv, TypeOK, Flow
<1> QED BY <1>1, <1>2, <1>3, KeepsAttested

LEMMA NextAttested ==
  ASSUME ReviewsArrive, TInv, Single, Attested, [Next]_vars PROVE Attested'
<1>1. CASE outlived
  <2>1. outlived'
    BY <1>1 DEF Next, Begin, Exits, Fails, Outlives, LateEnds, Works, Humans, ForgeStores, Triages,
           RefineStores, Reviews, Appraises, Checks, Raises, Attests, Signs, Rules, ChecksDeadlock,
           DecidesRoute, Routes, Approves, Cancels, Decides, vars
  <2> QED BY <2>1 DEF Attested
<1>2. CASE ~outlived
  <2>1. ASSUME NEW r \in Slot, Works(r) \/ Humans(r) PROVE Attested'
    <3>1. Works("live") \/ Humans("live")
      BY <1>2, <2>1, OnlyLive
    <3> QED BY <1>2, <3>1, AttestsKeeps, ReviewsKeeps, JudgesKeep, OthersKeepAttested DEF Works, Humans
  <2>2. CASE UNCHANGED vars \/ Exits
    BY <2>2 DEF vars, Exits, archive, Attested, Earnt, Live
  <2>3. CASE Outlives \/ LateEnds
    BY <1>2, <2>3, SingleParts DEF Outlives, LateEnds, Attested, OneHandler
  <2> QED BY <1>2, <2>1, <2>2, <2>3, BeginKeeps, OthersKeepAttested DEF Next
<1> QED BY <1>1, <1>2

\* A law stamp was earned by a review of the content it is on.
THEOREM StampsAreEarned ==
  ASSUME ReviewsArrive
  PROVE  Spec => []AttestedWasReviewed
<1>1. Init => Attested
  <2> SUFFICES ASSUME Init PROVE Attested
    OBVIOUS
  <2>1. stamps = {} /\ Live.step = "idle"
    BY DEF Init, ArchiveInit, Live, Slot, Idle
  <2> QED BY <2>1 DEF Attested, Earnt
<1>2. (TInv /\ Single) /\ Attested /\ [Next]_vars => Attested'
  BY NextAttested
<1>3. Attested => AttestedWasReviewed
  BY DEF Attested, Earnt, AttestedWasReviewed
<1> QED BY <1>1, <1>2, <1>3, Invariance, PTL DEF Spec
=============================================================================
