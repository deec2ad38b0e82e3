-------------------------- MODULE Workitem_proofs --------------------------
(***************************************************************************)
(* Proofs about Workitem, for every set of items, nodes and outputs, every *)
(* budget and pool size, and handlers that may outlive their assignment.   *)
(***************************************************************************)
EXTENDS Workitem, TLAPS

-----------------------------------------------------------------------------
(* Types *)

\* What the operators that build plans and items return.
LEMMA PlanTypes ==
  ASSUME NEW item \in Item
  PROVE  /\ \A why \in Reason : FailPlan(why) \in Plan
         /\ NextSteps(item) \subseteq Plan
         /\ \A p \in NextSteps(item) : p.phase \in {"Pending", "Suspended", "Completed", "Failed"}
         /\ \A p \in NextSteps(item) : p.phase = "Completed" => item.visits < MaxVisits
<1>1. \A why \in Reason : FailPlan(why) \in Plan /\ FailPlan(why).phase = "Failed"
  BY DEF FailPlan, NoPlan, Plan, Phase, Reason
<1>2. /\ item.assignee \in Nodes \cup {None} /\ item.ri.target \in Nodes \cup {None}
      /\ item.ri.cond \in BOOLEAN /\ item.ri.timed \in BOOLEAN
  BY DEF Item, Instruction
<1>3. \A p \in Moves(item) : p \in Plan /\ p.phase = "Pending"
  BY <1>2 DEF Moves, NoPlan, Plan, Phase, Reason
<1>4. \A p \in Completions(item) : p \in Plan /\ p.phase = "Completed"
  BY <1>2 DEF Completions, NoPlan, Plan, Phase, Reason
<1>5. \A p \in Suspensions(item) : p \in Plan /\ p.phase = "Suspended"
  BY <1>2 DEF Suspensions, NoPlan, Plan, Phase, Reason
<1>6. \A p : Guarded(item, p) = p \/ Guarded(item, p) = FailPlan("THRASH_BUDGET_EXCEEDED")
  BY DEF Guarded
<1>7. "THRASH_BUDGET_EXCEEDED" \in Reason
  BY DEF Reason
<1>8. NextSteps(item) \subseteq Plan /\ \A p \in NextSteps(item) :
        p.phase \in {"Pending", "Suspended", "Completed", "Failed"}
  BY <1>1, <1>3, <1>4, <1>5, <1>6, <1>7 DEF NextSteps
<1>9. item.visits < MaxVisits \/ ThrashExceeded(item)
  BY ConstantsAssumption DEF Item, ThrashExceeded
<1>10. ThrashExceeded(item) => \A p \in NextSteps(item) : p.phase # "Completed"
  BY <1>1, <1>5, <1>7 DEF NextSteps, Guarded
<1> QED BY <1>1, <1>8, <1>9, <1>10

LEMMA RoutedType ==
  ASSUME NEW item \in Item, NEW p \in Plan
  PROVE  /\ Routed(item, p) \in Item
         /\ Routed(item, p).phase = p.phase
         /\ Routed(item, p).ri = NoInstruction
         /\ Routed(item, p).visits = item.visits
         /\ Routed(item, p).parent = item.parent
BY DEF Routed, Item, Plan, Instruction, NoInstruction

LEMMA ClaimedType ==
  ASSUME NEW item \in Item
  PROVE  /\ Claimed(item) \in Item
         /\ Claimed(item).visits = item.visits + 1
         /\ Claimed(item).phase = "Running"
         /\ Claimed(item).ri = item.ri
         /\ Claimed(item).assignee = item.assignee
         /\ Claimed(item).parent = item.parent
<1>1. item.visits \in Nat
  BY DEF Item
<1>2. item.visits + 1 \in Nat
  BY <1>1
<1> DEFINE n == item.visits + 1
<1>3. [item EXCEPT !.phase = "Running", !.assigned = TRUE, !.visits = n] \in Item
  BY <1>2 DEF Item, Phase
<1>4. Claimed(item) = [item EXCEPT !.phase = "Running", !.assigned = TRUE, !.visits = n]
  BY DEF Claimed
<1> HIDE DEF n
<1> QED BY <1>3, <1>4 DEF Item, n

LEMMA AbsentType == Absent \in Item /\ NoInstruction \in Instruction /\ NoPlan \in Plan
BY DEF Absent, Item, Phase, Instruction, NoInstruction, Reason, NoPlan, Plan

\* A write of a well-typed item based on the cache keeps the store well typed.
LEMMA UpdateType ==
  ASSUME store \in [Workitems -> Item], NEW w \in Workitems, NEW item \in Item,
         Update(w, item)
  PROVE  store' \in [Workitems -> Item]
BY DEF Update

LEMMA InitType == Init => TypeOK
BY ConstantsAssumption, AbsentType DEF Init, TypeOK, Step

LEMMA NextType == TypeOK /\ [Next]_vars => TypeOK'
<1> SUFFICES ASSUME TypeOK, Next PROVE TypeOK'
  BY DEF TypeOK, vars
<1> USE DEF TypeOK
<1>1. CASE Crash
  BY <1>1, AbsentType, ConstantsAssumption DEF Crash, Step
<1>2. ASSUME NEW w \in Workitems, Informer(w) PROVE TypeOK'
  BY <1>2 DEF Informer
<1>3. ASSUME NEW w \in Workitems, Reconcile(w) PROVE TypeOK'
  <2>0. cache[w] \in Item
    OBVIOUS
  <2>1. CASE Claim(w)
    <3>1. Claimed(cache[w]) \in Item
      BY <2>0, ClaimedType
    <3>2. cache[w].assignee \in Nodes \cup {None}
      BY <2>0 DEF Item
    <3>3. [NoPlan EXCEPT !.assignee = cache[w].assignee] \in Plan
      BY <3>2, AbsentType DEF Plan
    <3> QED BY <2>1, <3>1, <3>3, UpdateType DEF Claim, Begin, Step
  <2>2. CASE ClaimOverBudget(w)
    BY <2>2, <2>0, PlanTypes DEF ClaimOverBudget, Begin, Step, Reason
  <2>3. CASE RunningTimeout(w) \/ TimeoutUnchecked(w)
    BY <2>3, <2>0, PlanTypes DEF RunningTimeout, TimeoutUnchecked, Begin, Step, Reason
  <2>4. CASE Decide(w)
    BY <2>4, <2>0, PlanTypes DEF Decide, Begin, Step
  <2>5. CASE SuspendTimeout(w)
    BY <2>5, <2>0, PlanTypes DEF SuspendTimeout, Begin, Step, Reason
  <2>6. CASE SuspendMet(w)
    BY <2>6, AbsentType DEF SuspendMet, Begin, Step
  <2> QED BY <1>3, <2>1, <2>2, <2>3, <2>4, <2>5, <2>6 DEF Reconcile, Progress
<1>4. ASSUME NEW w \in Workitems, Write(w) PROVE TypeOK'
  <2>0. cache[w] \in Item /\ plan[w] \in Plan
    OBVIOUS
  <2>1. End(w) => pc' \in [Workitems -> Step] /\ plan' \in [Workitems -> Plan]
    BY AbsentType DEF End, Begin, Step
  <2>2. CASE Revert(w)
    <3>1. [cache[w] EXCEPT !.phase = "Pending", !.assigned = FALSE] \in Item
      BY <2>0 DEF Item, Phase
    <3> QED BY <2>1, <2>2, <3>1, UpdateType DEF Revert
  <2>3. CASE Apply(w)
    BY <2>0, <2>1, <2>3, RoutedType, UpdateType DEF Apply
  <2>4. CASE Resume(w)
    <3>1. [cache[w] EXCEPT !.phase = "Pending", !.cond = FALSE, !.timed = FALSE] \in Item
      BY <2>0 DEF Item, Phase
    <3> QED BY <2>1, <2>4, <3>1, UpdateType DEF Resume
  <2>5. CASE Fail(w)
    <3>1. [cache[w] EXCEPT !.phase = "Failed", !.reason = plan[w].reason,
                           !.ri = NoInstruction, !.assigned = FALSE] \in Item
      BY <2>0, AbsentType DEF Item, Phase, Plan
    <3> QED BY <2>1, <2>5, <3>1, UpdateType DEF Fail
  <2> QED BY <1>4, <2>2, <2>3, <2>4, <2>5 DEF Write
<1>5. ASSUME NEW w \in Workitems, Handler(w) PROVE TypeOK'
  <2>1. CASE ZombieExits(w) \/ InactivityTimeout(w)
    BY <2>1 DEF ZombieExits, InactivityTimeout, Goto, Step
  <2>2. CASE HandlerReturns(w)
    BY <2>2, AbsentType DEF HandlerReturns, End, Begin, Step
  <2>3. CASE Assign(w) \/ AssignFails(w) \/ HandlerErrs(w) \/ BeginAwait(w) \/ EndAwait(w)
    BY <2>3 DEF Assign, AssignFails, HandlerErrs, BeginAwait, EndAwait, Goto, Step
  <2> QED BY <1>5, <2>1, <2>2, <2>3 DEF Handler
<1>6. ASSUME NEW w \in Workitems, Call(w) PROVE TypeOK'
  <2>1. ASSUME NEW ri \in Submittable, SubmitResult(w, ri) PROVE TypeOK'
    <3>1. cache[w] \in Item /\ ri \in Instruction
      BY ConstantsAssumption
    <3>2. [cache[w] EXCEPT !.ri = ri, !.phase = "Routing"] \in Item
      BY <3>1 DEF Item, Phase
    <3> QED BY <2>1, <3>2, UpdateType DEF SubmitResult
  <2>2. ASSUME NEW c \in Workitems, NEW ri \in Routable, RouteChild(w, c, ri) PROVE TypeOK'
    <3>1. cache[c] \in Item /\ ri \in Instruction
      BY ConstantsAssumption
    <3>2. [cache[c] EXCEPT !.ri = ri, !.phase = "Routing"] \in Item
      BY <3>1 DEF Item, Phase
    <3> QED BY <2>2, <3>2, UpdateType DEF RouteChild
  <2>3. CASE ResumeWorkitem(w)
    <3>1. cache[w] \in Item
      OBVIOUS
    <3>2. [cache[w] EXCEPT !.phase = "Pending", !.cond = FALSE, !.timed = FALSE,
                           !.ri = NoInstruction] \in Item
      BY <3>1, AbsentType DEF Item, Phase
    <3> QED BY <2>3, <3>2, UpdateType DEF ResumeWorkitem
  <2>4. ASSUME NEW c \in Workitems, NEW parent \in Workitems \cup {None}, Create(c, parent)
        PROVE  TypeOK'
    <3>1. [Absent EXCEPT !.phase = "", !.parent = parent] \in Item
      BY AbsentType DEF Item, Phase
    <3> QED BY <2>4, <3>1 DEF Create
  <2>5. CASE InitStatus(w)
    <3>1. PICK n \in Nodes \cup {None} :
            store' = [store EXCEPT ![w] = [@ EXCEPT !.phase = "Pending", !.assignee = n]]
      BY <2>5, ConstantsAssumption DEF InitStatus
    <3>2. store[w] \in Item
      OBVIOUS
    <3>3. [store[w] EXCEPT !.phase = "Pending", !.assignee = n] \in Item
      BY <3>2 DEF Item, Phase
    <3> QED BY <2>5, <3>1, <3>3 DEF InitStatus
  <2>6. CASE CreateFails(w)
    BY <2>6, ConstantsAssumption DEF CreateFails
  <2> QED BY <1>6, <2>1, <2>2, <2>3, <2>4, <2>5, <2>6 DEF Call, CreateWorkitem, CreateChild
<1> QED BY <1>1, <1>2, <1>3, <1>4, <1>5, <1>6 DEF Next

\* Type correctness: whatever the interleaving, every object is a Workitem the
\* API server's schema admits.
THEOREM TypeCorrect == Spec => []TypeOK
BY InitType, NextType, PTL DEF Spec
-----------------------------------------------------------------------------
(* The inductive invariant, item by item *)

\* An object whose status was never written is untouched by the reconciler and
\* by handlers; one that does not exist is in no cache either.
FreshIsUntouched(w) ==
  /\ store[w].phase \in {"Absent", ""} =>
       cache[w].phase \in {"Absent", ""} /\ pc[w] = "idle" /\ w \notin zombies
  /\ store[w].phase = "Absent" => store[w] = Absent /\ cache[w] = Absent
  /\ w \in creating => store[w].phase = ""

\* The cache misses at most one count, and then it still shows Pending: the next
\* claim, like every write, needs the latest version.
CacheCounts(w) ==
  \/ store[w].visits = cache[w].visits
  \/ cache[w].phase = "Pending" /\ store[w].visits = cache[w].visits + 1

\* What a decision promises its write: completing was within budget, and no
\* visit is counted while the decision is pending.
PlanIsSound(w) ==
  pc[w] = "apply" =>
    /\ plan[w].phase \in {"Pending", "Suspended", "Completed"}
    /\ plan[w].phase = "Completed" => store[w].visits < MaxVisits

\* The properties themselves, for one item.
Kept(w) ==
  /\ store[w].visits <= MaxVisits
  /\ store[w].phase = "Completed" => store[w].visits < MaxVisits
  /\ pc[w] \in {"dispatch", "process", "await", "revert"} =>
       store[w].phase \in {"Running", "Routing"} /\ store[w].assignee = plan[w].assignee
  /\ store[w].phase = "Routing" <=> store[w].ri # NoInstruction

ItemInv(w) == FreshIsUntouched(w) /\ CacheCounts(w) /\ PlanIsSound(w) /\ Kept(w)

IInv == TypeOK /\ \A w \in Workitems : ItemInv(w)

\* A step that changes nothing of an item.
Untouched(w) ==
  /\ store'[w] = store[w] /\ cache'[w] = cache[w]
  /\ pc'[w] = pc[w] /\ plan'[w] = plan[w]
  /\ w \in zombies' <=> w \in zombies
  /\ w \in creating' <=> w \in creating

LEMMA UntouchedKeeps ==
  ASSUME NEW w \in Workitems, ItemInv(w), Untouched(w)
  PROVE  ItemInv(w)'
<1>1. FreshIsUntouched(w)'
  BY DEF ItemInv, FreshIsUntouched, Untouched
<1>2. CacheCounts(w)'
  BY DEF ItemInv, CacheCounts, Untouched
<1>3. PlanIsSound(w)'
  BY DEF ItemInv, PlanIsSound, Untouched
<1>4. Kept(w)'
  BY DEF ItemInv, Kept, Untouched
<1> QED BY <1>1, <1>2, <1>3, <1>4 DEF ItemInv

LEMMA InitItem == Init => \A w \in Workitems : ItemInv(w)
<1> SUFFICES ASSUME Init, NEW w \in Workitems PROVE ItemInv(w)
  OBVIOUS
<1>1. /\ store[w] = Absent /\ cache[w] = Absent /\ pc[w] = "idle"
      /\ w \notin zombies /\ w \notin creating
  BY DEF Init
<1>2. Absent.phase = "Absent" /\ Absent.visits = 0 /\ Absent.ri = NoInstruction
  BY DEF Absent
<1> QED BY <1>1, <1>2, ConstantsAssumption DEF ItemInv, FreshIsUntouched, CacheCounts, PlanIsSound, Kept

\* An action about one item leaves the others alone.
LEMMA OthersUntouched ==
  ASSUME TypeOK, NEW w \in Workitems,
         Informer(w) \/ Reconcile(w) \/ Write(w) \/ Handler(w)
  PROVE  \A x \in Workitems : x # w => Untouched(x)
<1> SUFFICES ASSUME NEW x \in Workitems, x # w PROVE Untouched(x)
  OBVIOUS
<1> USE DEF TypeOK, Untouched
<1>1. CASE Informer(w)
  BY <1>1 DEF Informer
<1>2. CASE Reconcile(w)
  BY <1>2 DEF Reconcile, Progress, Claim, ClaimOverBudget, RunningTimeout, TimeoutUnchecked,
    Decide, SuspendTimeout, SuspendMet,
    Update, Begin
<1>3. CASE Write(w)
  BY <1>3 DEF Write, Revert, Apply, Resume, Fail, Update, End, Begin
<1>4. CASE Handler(w)
  BY <1>4 DEF Handler, Assign, AssignFails, HandlerReturns, HandlerErrs, InactivityTimeout,
    BeginAwait, EndAwait, ZombieExits, Goto, End, Begin
<1> QED BY <1>1, <1>2, <1>3, <1>4

\* A write that keeps the visits and the pairing of phase and instruction, made
\* by a reconcile that ends or by a call that respects a running assignment.
LEMMA WriteKeeps ==
  ASSUME IInv, NEW w \in Workitems, NEW item \in Item, Update(w, item),
         cache' = cache, zombies' = zombies, creating' = creating,
         cache[w].phase \notin {"Absent", ""}, item.phase \notin {"Absent", ""},
         item.visits = cache[w].visits,
         item.phase = "Completed" => item.visits < MaxVisits,
         item.phase = "Routing" <=> item.ri # NoInstruction,
         \/ pc'[w] = "idle"
         \/ /\ pc'[w] = pc[w] /\ plan'[w] = plan[w]
            /\ pc[w] \in {"dispatch", "process", "await", "revert"} =>
                 item.phase \in {"Running", "Routing"} /\ item.assignee = store[w].assignee
  PROVE  ItemInv(w)'
<1>1. /\ store[w] = cache[w] /\ store'[w] = item /\ cache'[w] = cache[w] /\ ItemInv(w)
  BY DEF Update, InSync, IInv, TypeOK
<1>2. FreshIsUntouched(w)'
  BY <1>1 DEF ItemInv, FreshIsUntouched
<1>3. CacheCounts(w)'
  BY <1>1 DEF CacheCounts
<1>4. PlanIsSound(w)'
  BY <1>1 DEF ItemInv, PlanIsSound
<1>5. Kept(w)'
  BY <1>1 DEF ItemInv, Kept
<1> QED BY <1>2, <1>3, <1>4, <1>5 DEF ItemInv

\* A step that moves only the reconcile of one item, to a stage that promises
\* nothing new.
LEMMA MoveKeeps ==
  ASSUME IInv, NEW w \in Workitems, store' = store, cache' = cache, creating' = creating,
         store[w].phase \in {"Absent", ""} => pc'[w] = "idle" /\ w \notin zombies',
         PlanIsSound(w)',
         pc'[w] \in {"dispatch", "process", "await", "revert"} =>
           pc[w] \in {"dispatch", "process", "await", "revert"} /\ plan'[w] = plan[w]
  PROVE  ItemInv(w)'
<1>1. ItemInv(w)
  BY DEF IInv
<1>2. FreshIsUntouched(w)'
  BY <1>1 DEF ItemInv, FreshIsUntouched
<1>3. CacheCounts(w)'
  BY <1>1 DEF ItemInv, CacheCounts
<1>4. Kept(w)'
  BY <1>1 DEF ItemInv, Kept
<1> QED BY <1>2, <1>3, <1>4 DEF ItemInv

LEMMA InformerKeeps ==
  ASSUME IInv, NEW w \in Workitems, Informer(w)
  PROVE  ItemInv(w)'
<1>1. /\ cache'[w] = store[w] /\ store' = store /\ pc' = pc /\ plan' = plan
      /\ zombies' = zombies /\ creating' = creating /\ ItemInv(w)
  BY DEF Informer, IInv, TypeOK
<1>2. FreshIsUntouched(w)'
  BY <1>1 DEF ItemInv, FreshIsUntouched
<1>3. CacheCounts(w)'
  BY <1>1 DEF CacheCounts
<1>4. PlanIsSound(w)' /\ Kept(w)'
  BY <1>1 DEF ItemInv, PlanIsSound, Kept
<1> QED BY <1>2, <1>3, <1>4 DEF ItemInv

LEMMA ReconcileKeeps ==
  ASSUME IInv, NEW w \in Workitems, Reconcile(w)
  PROVE  ItemInv(w)'
<1>1. /\ TypeOK /\ ItemInv(w) /\ cache[w] \in Item /\ store[w] \in Item
  BY DEF IInv, TypeOK
<1>2. CASE Claim(w)
  <2>1. /\ store[w] = cache[w] /\ store'[w] = Claimed(cache[w]) /\ cache'[w] = cache[w]
        /\ cache[w].phase = "Pending" /\ cache[w].visits + 1 <= MaxVisits
        /\ zombies' = zombies /\ creating' = creating
        /\ pc'[w] = "dispatch" /\ plan'[w] = [NoPlan EXCEPT !.assignee = cache[w].assignee]
    BY <1>1, <1>2 DEF Claim, Update, InSync, Begin, TypeOK
  <2>2. plan'[w].assignee = cache[w].assignee
    BY <2>1 DEF NoPlan
  <2>3. FreshIsUntouched(w)'
    BY <1>1, <2>1, ClaimedType DEF ItemInv, FreshIsUntouched
  <2>4. CacheCounts(w)'
    BY <1>1, <2>1, ClaimedType DEF CacheCounts
  <2>5. PlanIsSound(w)'
    BY <2>1 DEF PlanIsSound
  <2>6. Kept(w)'
    BY <1>1, <2>1, <2>2, ClaimedType DEF ItemInv, Kept
  <2> QED BY <2>3, <2>4, <2>5, <2>6 DEF ItemInv
<1>3. CASE Decide(w)
  <2>1. PICK p \in NextSteps(cache[w]) : Begin(w, IF p.phase = "Failed" THEN "fail" ELSE "apply", p)
    BY <1>3 DEF Decide
  <2>2. pc'[w] = (IF p.phase = "Failed" THEN "fail" ELSE "apply") /\ plan'[w] = p
    BY <1>1, <2>1 DEF Begin, TypeOK
  <2>3. /\ p.phase \in {"Pending", "Suspended", "Completed", "Failed"}
        /\ p.phase = "Completed" => cache[w].visits < MaxVisits
    BY <1>1, PlanTypes
  <2>4. /\ store[w].visits = cache[w].visits /\ store' = store /\ cache' = cache
        /\ creating' = creating /\ zombies' = zombies /\ cache[w].phase = "Routing"
    BY <1>1, <1>3 DEF Decide, ItemInv, CacheCounts
  <2>5. PlanIsSound(w)'
    BY <2>2, <2>3, <2>4 DEF PlanIsSound
  <2>6. store[w].phase \notin {"Absent", ""}
    BY <1>1, <2>4 DEF ItemInv, FreshIsUntouched
  <2> QED BY <2>2, <2>4, <2>5, <2>6, MoveKeeps
<1>4. CASE \/ ClaimOverBudget(w) \/ RunningTimeout(w) \/ TimeoutUnchecked(w)
           \/ SuspendTimeout(w) \/ SuspendMet(w)
  <2>1. /\ pc'[w] \in {"fail", "resume"} /\ store' = store /\ cache' = cache
        /\ creating' = creating /\ zombies' = zombies
        /\ cache[w].phase \in {"Pending", "Running", "Suspended"}
    BY <1>1, <1>4 DEF ClaimOverBudget, RunningTimeout, TimeoutUnchecked,
      SuspendTimeout, SuspendMet, Begin, TypeOK
  <2>2. PlanIsSound(w)'
    BY <2>1 DEF PlanIsSound
  <2>3. store[w].phase \notin {"Absent", ""}
    BY <1>1, <2>1 DEF ItemInv, FreshIsUntouched
  <2> QED BY <2>1, <2>2, <2>3, MoveKeeps
<1> QED BY <1>2, <1>3, <1>4 DEF Reconcile, Progress

\* The four writes that end a reconcile; each may find nothing left to do.
LEMMA ReconcileWriteKeeps ==
  ASSUME IInv, NEW w \in Workitems, Write(w)
  PROVE  ItemInv(w)'
<1>1. /\ TypeOK /\ ItemInv(w) /\ cache[w] \in Item /\ store[w] \in Item /\ plan[w] \in Plan
  BY DEF IInv, TypeOK
<1>2. /\ pc'[w] = "idle" /\ cache' = cache /\ zombies' = zombies /\ creating' = creating
  BY <1>1 DEF Write, Revert, Apply, Resume, Fail, End, Begin, TypeOK
<1>3. CASE store' = store
  <2>1. PlanIsSound(w)'
    BY <1>2 DEF PlanIsSound
  <2>2. store[w].phase \in {"Absent", ""} => w \notin zombies'
    BY <1>1, <1>2 DEF ItemInv, FreshIsUntouched
  <2> QED BY <1>2, <1>3, <2>1, <2>2, MoveKeeps
<1>4. CASE Revert(w) /\ store' # store
  <2> DEFINE item == [cache[w] EXCEPT !.phase = "Pending", !.assigned = FALSE]
  <2>1. Update(w, item) /\ cache[w].phase = "Running" /\ store[w] = cache[w]
    BY <1>4 DEF Revert, InSync
  <2>2. /\ item \in Item /\ item.phase = "Pending" /\ item.ri = cache[w].ri
        /\ item.visits = cache[w].visits
    BY <1>1 DEF Item, Phase
  <2>3. item.ri = NoInstruction
    BY <1>1, <2>1, <2>2 DEF ItemInv, Kept
  <2> HIDE DEF item
  <2> QED BY <1>2, <2>1, <2>2, <2>3, WriteKeeps
<1>5. CASE Apply(w) /\ store' # store
  <2> DEFINE item == Routed(cache[w], plan[w])
  <2>1. /\ Update(w, item) /\ cache[w].phase = "Routing" /\ store[w] = cache[w] /\ pc[w] = "apply"
    BY <1>5 DEF Apply, InSync
  <2>2. /\ item \in Item /\ item.phase = plan[w].phase /\ item.ri = NoInstruction
        /\ item.visits = cache[w].visits
    BY <1>1, RoutedType
  <2>3. /\ plan[w].phase \in {"Pending", "Suspended", "Completed"}
        /\ plan[w].phase = "Completed" => cache[w].visits < MaxVisits
    BY <1>1, <2>1 DEF ItemInv, PlanIsSound
  <2> HIDE DEF item
  <2> QED BY <1>2, <2>1, <2>2, <2>3, WriteKeeps
<1>6. CASE Resume(w) /\ store' # store
  <2> DEFINE item == [cache[w] EXCEPT !.phase = "Pending", !.cond = FALSE, !.timed = FALSE]
  <2>1. Update(w, item) /\ cache[w].phase = "Suspended" /\ store[w] = cache[w]
    BY <1>6 DEF Resume, InSync
  <2>2. /\ item \in Item /\ item.phase = "Pending" /\ item.ri = cache[w].ri
        /\ item.visits = cache[w].visits
    BY <1>1 DEF Item, Phase
  <2>3. item.ri = NoInstruction
    BY <1>1, <2>1, <2>2 DEF ItemInv, Kept
  <2> HIDE DEF item
  <2> QED BY <1>2, <2>1, <2>2, <2>3, WriteKeeps
<1>7. CASE Fail(w) /\ store' # store
  <2> DEFINE item == [cache[w] EXCEPT !.phase = "Failed", !.reason = plan[w].reason,
                                      !.ri = NoInstruction, !.assigned = FALSE]
  <2>1. Update(w, item) /\ store[w] = cache[w] /\ pc[w] = "fail"
    BY <1>7 DEF Fail, InSync
  <2>2. /\ item \in Item /\ item.phase = "Failed" /\ item.ri = NoInstruction
        /\ item.visits = cache[w].visits
    BY <1>1, AbsentType DEF Item, Phase, Plan
  <2>3. cache[w].phase \notin {"Absent", ""}
    BY <1>1, <2>1 DEF ItemInv, FreshIsUntouched
  <2> HIDE DEF item
  <2> QED BY <1>2, <2>1, <2>2, <2>3, WriteKeeps
<1> QED BY <1>3, <1>4, <1>5, <1>6, <1>7 DEF Write

LEMMA HandlerKeeps ==
  ASSUME IInv, NEW w \in Workitems, Handler(w)
  PROVE  ItemInv(w)'
<1>1. TypeOK /\ ItemInv(w)
  BY DEF IInv
<1>2. store' = store /\ cache' = cache /\ creating' = creating
  BY DEF Handler, Assign, AssignFails, HandlerReturns, HandlerErrs, InactivityTimeout,
    BeginAwait, EndAwait, ZombieExits
<1>3. CASE ZombieExits(w)
  <2>1. pc' = pc /\ plan' = plan /\ zombies' = zombies \ {w}
    BY <1>3 DEF ZombieExits
  <2>2. PlanIsSound(w)'
    BY <1>1, <1>2, <2>1 DEF ItemInv, PlanIsSound
  <2>3. store[w].phase \in {"Absent", ""} => pc'[w] = "idle"
    BY <1>1, <2>1 DEF ItemInv, FreshIsUntouched
  <2> QED BY <1>2, <2>1, <2>2, <2>3, MoveKeeps
<1>4. CASE ~ZombieExits(w)
  <2>1. /\ pc[w] \in {"dispatch", "process", "await"}
        /\ \/ pc'[w] = "idle"
           \/ pc'[w] \in {"process", "revert", "await"} /\ plan'[w] = plan[w]
    BY <1>1, <1>4 DEF Handler, Assign, AssignFails, HandlerReturns, HandlerErrs, InactivityTimeout,
      BeginAwait, EndAwait, Goto, End, Begin, TypeOK
  <2>2. PlanIsSound(w)'
    BY <2>1 DEF PlanIsSound
  <2>3. store[w].phase \notin {"Absent", ""}
    BY <1>1, <2>1 DEF ItemInv, FreshIsUntouched
  <2> QED BY <1>2, <2>1, <2>2, <2>3, MoveKeeps
<1> QED BY <1>3, <1>4

\* Calls may write a second item, so they are about every item at once.
LEMMA CallKeeps ==
  ASSUME IInv, NEW w \in Workitems, Call(w)
  PROVE  \A x \in Workitems : ItemInv(x)'
<1>1. TypeOK /\ \A x \in Workitems : ItemInv(x)
  BY DEF IInv
<1>2. ASSUME NEW c \in Workitems, NEW item \in Item, Update(c, item),
             UNCHANGED <<cache, pc, plan, zombies, creating>>,
             cache[c].phase \notin {"Absent", ""}, item.phase \notin {"Absent", ""},
             item.visits = cache[c].visits, item.phase # "Completed",
             item.phase = "Routing" <=> item.ri # NoInstruction,
             pc[c] \in {"dispatch", "process", "await", "revert"} =>
               item.phase \in {"Running", "Routing"} /\ item.assignee = store[c].assignee
      PROVE  \A x \in Workitems : ItemInv(x)'
  <2>1. ItemInv(c)'
    BY <1>2, WriteKeeps
  <2>2. ASSUME NEW x \in Workitems, x # c PROVE Untouched(x)
    BY <1>1, <1>2, <2>2 DEF Update, Untouched, TypeOK
  <2> QED BY <1>1, <2>1, <2>2, UntouchedKeeps
<1>3. ASSUME NEW c \in Workitems, NEW ri \in Instruction, ri.type # "none",
             Update(c, [cache[c] EXCEPT !.ri = ri, !.phase = "Routing"]),
             UNCHANGED <<cache, pc, plan, zombies, creating>>,
             cache[c].phase \notin {"Absent", ""}
      PROVE  \A x \in Workitems : ItemInv(x)'
  <2> DEFINE item == [cache[c] EXCEPT !.ri = ri, !.phase = "Routing"]
  <2>0. cache[c] \in Item /\ store[c] = cache[c]
    BY <1>1, <1>3 DEF TypeOK, Update, InSync
  <2>1. /\ item \in Item /\ item.phase = "Routing" /\ item.ri = ri
        /\ item.visits = cache[c].visits /\ item.assignee = store[c].assignee
    BY <2>0 DEF Item, Phase
  <2>2. ri # NoInstruction
    <3>1. NoInstruction.type = "none"
      BY DEF NoInstruction
    <3> QED BY <1>3, <3>1
  <2>3. Update(c, item)
    BY <1>3
  <2> HIDE DEF item
  <2> QED BY <1>2, <1>3, <2>1, <2>2, <2>3
<1>4. ASSUME NEW ri \in Submittable, SubmitResult(w, ri) PROVE \A x \in Workitems : ItemInv(x)'
  <2>1. ri \in Instruction /\ ri.type # "none"
    BY ConstantsAssumption
  <2>2. cache[w].phase \notin {"Absent", ""}
    BY <1>1, <1>4 DEF SubmitResult, MayCall, Update, InSync, ItemInv, FreshIsUntouched
  <2> QED BY <1>3, <1>4, <2>1, <2>2 DEF SubmitResult
<1>5. ASSUME NEW c \in Workitems, NEW ri \in Routable, RouteChild(w, c, ri)
      PROVE  \A x \in Workitems : ItemInv(x)'
  <2>1. ri \in Instruction /\ ri.type # "none"
    BY ConstantsAssumption
  <2> QED BY <1>3, <1>5, <2>1 DEF RouteChild
<1>6. CASE ResumeWorkitem(w)
  <2> DEFINE item == [cache[w] EXCEPT !.phase = "Pending", !.cond = FALSE, !.timed = FALSE,
                                      !.ri = NoInstruction]
  <2>0. cache[w] \in Item /\ store[w] = cache[w] /\ cache[w].phase = "Suspended"
    BY <1>1, <1>6 DEF TypeOK, ResumeWorkitem, Update, InSync
  <2>1. /\ item \in Item /\ item.phase = "Pending" /\ item.ri = NoInstruction
        /\ item.visits = cache[w].visits
    BY <2>0, AbsentType DEF Item, Phase
  <2>2. Update(w, item) /\ UNCHANGED <<cache, pc, plan, zombies, creating>>
    BY <1>6 DEF ResumeWorkitem
  <2>3. pc[w] \notin {"dispatch", "process", "await", "revert"}
    BY <1>1, <2>0 DEF ItemInv, Kept
  <2> HIDE DEF item
  <2> QED BY <1>2, <2>0, <2>1, <2>2, <2>3
<1>7. ASSUME NEW c \in Workitems, NEW parent \in Workitems \cup {None}, Create(c, parent)
      PROVE  \A x \in Workitems : ItemInv(x)'
  <2>1. ASSUME NEW x \in Workitems, x # c PROVE Untouched(x)
    BY <1>1, <1>7, <2>1 DEF Create, Untouched, TypeOK
  <2>2. /\ store[c] = Absent /\ cache[c] = Absent /\ pc[c] = "idle" /\ c \notin zombies
    BY <1>1, <1>7 DEF Create, ItemInv, FreshIsUntouched
  <2>3. /\ store'[c] = [Absent EXCEPT !.phase = "", !.parent = parent]
        /\ UNCHANGED <<cache, pc, plan, zombies>>
    BY <1>1, <1>7 DEF Create, TypeOK
  <2>4. /\ store'[c].phase = "" /\ store'[c].visits = 0 /\ store'[c].ri = NoInstruction
        /\ Absent.visits = 0 /\ Absent.phase = "Absent"
    BY <2>3 DEF Absent
  <2>5. FreshIsUntouched(c)'
    BY <2>2, <2>3, <2>4 DEF FreshIsUntouched
  <2>6. CacheCounts(c)' /\ PlanIsSound(c)'
    BY <2>2, <2>3, <2>4 DEF CacheCounts, PlanIsSound
  <2>7. Kept(c)'
    BY <2>2, <2>3, <2>4, ConstantsAssumption DEF Kept
  <2> QED BY <1>1, <2>1, <2>5, <2>6, <2>7, UntouchedKeeps DEF ItemInv
<1>8. CASE InitStatus(w)
  <2>1. PICK n \in Nodes \cup {None} :
          store' = [store EXCEPT ![w] = [@ EXCEPT !.phase = "Pending", !.assignee = n]]
    BY <1>8, ConstantsAssumption DEF InitStatus
  <2>2. /\ UNCHANGED <<cache, pc, plan, zombies>> /\ w \notin creating'
        /\ creating' = creating \ {w} /\ store[w].phase = ""
    BY <1>1, <1>8 DEF InitStatus, ItemInv, FreshIsUntouched
  <2>3. ASSUME NEW x \in Workitems, x # w PROVE Untouched(x)
    BY <1>1, <2>1, <2>2, <2>3 DEF Untouched, TypeOK
  <2>4. store[w] \in Item
    BY <1>1 DEF TypeOK
  <2>5. /\ store'[w].phase = "Pending" /\ store'[w].visits = store[w].visits
        /\ store'[w].ri = store[w].ri
    BY <1>1, <2>1, <2>4 DEF TypeOK, Item
  <2>6. pc[w] = "idle" /\ w \notin zombies /\ store[w].ri = NoInstruction
    BY <1>1, <2>2 DEF ItemInv, FreshIsUntouched, Kept
  <2>7. FreshIsUntouched(w)'
    BY <2>2, <2>5 DEF FreshIsUntouched
  <2>8. CacheCounts(w)' /\ PlanIsSound(w)'
    BY <1>1, <2>2, <2>5, <2>6 DEF ItemInv, CacheCounts, PlanIsSound
  <2>9. Kept(w)'
    BY <1>1, <2>2, <2>5, <2>6 DEF ItemInv, Kept
  <2> QED BY <1>1, <2>3, <2>7, <2>8, <2>9, UntouchedKeeps DEF ItemInv
<1>9. CASE CreateFails(w)
  <2>1. /\ UNCHANGED <<store, cache, pc, plan, zombies>> /\ creating' = creating \ {w}
    BY <1>9 DEF CreateFails
  <2> QED BY <1>1, <2>1 DEF ItemInv, FreshIsUntouched, CacheCounts, PlanIsSound, Kept
<1> QED BY <1>4, <1>5, <1>6, <1>7, <1>8, <1>9 DEF Call, CreateWorkitem, CreateChild

LEMMA CrashKeeps ==
  ASSUME IInv, Crash
  PROVE  \A x \in Workitems : ItemInv(x)'
<1> SUFFICES ASSUME NEW x \in Workitems PROVE ItemInv(x)'
  OBVIOUS
<1>1. ItemInv(x) /\ TypeOK
  BY DEF IInv
<1>2. /\ store' = store /\ cache'[x] = store[x] /\ pc'[x] = "idle" /\ x \notin creating'
      /\ x \in zombies' => x \in zombies \/ pc[x] \in {"process", "await"}
  BY <1>1 DEF Crash, TypeOK
<1>3. FreshIsUntouched(x)'
  BY <1>1, <1>2 DEF ItemInv, FreshIsUntouched
<1>4. CacheCounts(x)' /\ PlanIsSound(x)'
  BY <1>2 DEF CacheCounts, PlanIsSound
<1>5. Kept(x)'
  BY <1>1, <1>2 DEF ItemInv, Kept
<1> QED BY <1>3, <1>4, <1>5 DEF ItemInv

LEMMA NextKeeps == IInv /\ [Next]_vars => IInv'
<1> SUFFICES ASSUME IInv, [Next]_vars PROVE IInv'
  OBVIOUS
<1>1. TypeOK'
  BY NextType DEF IInv
<1>2. CASE UNCHANGED vars
  BY <1>2, UntouchedKeeps, <1>1 DEF vars, IInv, Untouched
<1>3. CASE Crash
  BY <1>1, <1>3, CrashKeeps DEF IInv
<1>4. ASSUME NEW w \in Workitems, Informer(w) \/ Reconcile(w) \/ Write(w) \/ Handler(w)
      PROVE  IInv'
  <2>1. ItemInv(w)'
    BY <1>4, InformerKeeps, ReconcileKeeps, ReconcileWriteKeeps, HandlerKeeps
  <2>2. \A x \in Workitems : x # w => Untouched(x)
    BY <1>4, OthersUntouched DEF IInv
  <2> QED BY <1>1, <2>1, <2>2, UntouchedKeeps DEF IInv
<1>5. ASSUME NEW w \in Workitems, Call(w) PROVE IInv'
  BY <1>1, <1>5, CallKeeps DEF IInv
<1> QED BY <1>2, <1>3, <1>4, <1>5 DEF Next

THEOREM Invariance == Spec => []IInv
<1>1. Init => IInv
  BY InitType, InitItem DEF IInv
<1> QED BY <1>1, NextKeeps, PTL DEF Spec

-----------------------------------------------------------------------------
(* What follows *)

\* No item is dispatched beyond its budget and completing leaves a visit to spare,
\* for every budget, from the two counts of the reconciler and the scheduler.
THEOREM BudgetHolds == Spec => []WithinBudget
<1>1. IInv => WithinBudget
  BY DEF IInv, ItemInv, Kept, WithinBudget
<1> QED BY <1>1, Invariance, PTL

\* A phase of Routing and an instruction come and go together, so the reconciler
\* neither drops an item in Routing nor processes an instruction twice.
THEOREM RoutingPaired == Spec => []RoutingIffInstruction
<1>1. IInv => RoutingIffInstruction
  BY DEF IInv, ItemInv, Kept, RoutingIffInstruction
<1> QED BY <1>1, Invariance, PTL

\* No stale read lets another writer move an item away from the node whose
\* handler the operator is waiting for.
THEOREM HandlerKeepsItem == Spec => []HandlerOwnsItem
<1>1. IInv => HandlerOwnsItem
  BY DEF IInv, ItemInv, Kept, HandlerOwnsItem
<1> QED BY <1>1, Invariance, PTL

-----------------------------------------------------------------------------
(* What a step does to the objects *)

\* Every way the store changes: a claim; a write based on the latest version,
\* which keeps visits and parent; a creation; a first status.
LEMMA StoreSteps ==
  ASSUME IInv, Next, NEW x \in Workitems
  PROVE  \/ store'[x] = store[x]
         \/ store[x].phase = "Absent" /\ store'[x].visits = 0
         \/ /\ store'[x].visits \in {store[x].visits, store[x].visits + 1}
            /\ store'[x].parent = store[x].parent
            /\ store[x].phase \notin Terminal \/ ~Obedient
<1> DEFINE Goal ==
      \/ store'[x] = store[x]
      \/ store[x].phase = "Absent" /\ store'[x].visits = 0
      \/ /\ store'[x].visits \in {store[x].visits, store[x].visits + 1}
         /\ store'[x].parent = store[x].parent
         /\ store[x].phase \notin Terminal \/ ~Obedient
<1> SUFFICES Goal
  OBVIOUS
<1>1. TypeOK /\ ItemInv(x) /\ cache[x] \in Item /\ store[x] \in Item /\ plan[x] \in Plan
  BY DEF IInv, TypeOK
<1>2. ASSUME NEW w \in Workitems, NEW item, Update(w, item),
             item.visits \in {store[w].visits, store[w].visits + 1},
             item.parent = store[w].parent,
             store[w].phase \notin Terminal \/ ~Obedient
      PROVE  Goal
  BY <1>1, <1>2 DEF Update, TypeOK
<1> HIDE DEF Goal
<1>3. CASE store' = store
  BY <1>3 DEF Goal
<1>4. ASSUME NEW w \in Workitems, Claim(w) PROVE Goal
  <2>1. cache[w] \in Item /\ store[w] = cache[w] /\ cache[w].phase = "Pending"
    BY <1>1, <1>4 DEF Claim, Update, InSync, TypeOK
  <2> QED BY <1>2, <1>4, <2>1, ClaimedType DEF Claim, Terminal
<1>5. ASSUME NEW w \in Workitems, Write(w), store' # store PROVE Goal
  <2>1. cache[w] \in Item /\ plan[w] \in Plan
    BY <1>1 DEF TypeOK
  <2>2. store[w] = cache[w] /\ cache[w].phase \notin Terminal
    BY <1>5 DEF Write, Revert, Apply, Resume, Fail, CanFail, InSync, Terminal
  <2>3. CASE Revert(w)
    <3> DEFINE item == [cache[w] EXCEPT !.phase = "Pending", !.assigned = FALSE]
    <3>1. item.visits = cache[w].visits /\ item.parent = cache[w].parent
      BY <2>1 DEF Item
    <3>2. Update(w, item)
      BY <1>5, <2>3 DEF Revert
    <3> HIDE DEF item
    <3> QED BY <1>2, <2>2, <3>1, <3>2
  <2>4. CASE Apply(w)
    BY <1>2, <1>5, <2>1, <2>2, <2>4, RoutedType DEF Apply
  <2>5. CASE Resume(w)
    <3> DEFINE item == [cache[w] EXCEPT !.phase = "Pending", !.cond = FALSE, !.timed = FALSE]
    <3>1. item.visits = cache[w].visits /\ item.parent = cache[w].parent
      BY <2>1 DEF Item
    <3>2. Update(w, item)
      BY <1>5, <2>5 DEF Resume
    <3> HIDE DEF item
    <3> QED BY <1>2, <2>2, <3>1, <3>2
  <2>6. CASE Fail(w)
    <3> DEFINE item == [cache[w] EXCEPT !.phase = "Failed", !.reason = plan[w].reason,
                                        !.ri = NoInstruction, !.assigned = FALSE]
    <3>1. item.visits = cache[w].visits /\ item.parent = cache[w].parent
      BY <2>1 DEF Item
    <3>2. Update(w, item)
      BY <1>5, <2>6 DEF Fail
    <3> HIDE DEF item
    <3> QED BY <1>2, <2>2, <3>1, <3>2
  <2> QED BY <1>5, <2>3, <2>4, <2>5, <2>6 DEF Write
<1>6. ASSUME NEW c \in Workitems, NEW ri, Update(c, [cache[c] EXCEPT !.ri = ri, !.phase = "Routing"]),
             store[c].phase \notin Terminal \/ ~Obedient
      PROVE  Goal
  <2> DEFINE item == [cache[c] EXCEPT !.ri = ri, !.phase = "Routing"]
  <2>1. cache[c] \in Item /\ store[c] = cache[c]
    BY <1>1, <1>6 DEF TypeOK, Update, InSync
  <2>2. item.visits = cache[c].visits /\ item.parent = cache[c].parent
    BY <2>1 DEF Item
  <2>3. Update(c, item)
    BY <1>6
  <2> HIDE DEF item
  <2> QED BY <1>2, <1>6, <2>1, <2>2, <2>3
<1>7. ASSUME NEW w \in Workitems, NEW ri \in Submittable, SubmitResult(w, ri) PROVE Goal
  BY <1>6, <1>7 DEF SubmitResult, Terminal
<1>8. ASSUME NEW w \in Workitems, NEW c \in Workitems, NEW ri \in Routable, RouteChild(w, c, ri)
      PROVE  Goal
  BY <1>6, <1>8 DEF RouteChild, Update, InSync, Terminal
<1>9. ASSUME NEW w \in Workitems, ResumeWorkitem(w) PROVE Goal
  <2> DEFINE item == [cache[w] EXCEPT !.phase = "Pending", !.cond = FALSE, !.timed = FALSE,
                                      !.ri = NoInstruction]
  <2>1. cache[w] \in Item /\ store[w] = cache[w] /\ store[w].phase = "Suspended"
    BY <1>1, <1>9 DEF TypeOK, ResumeWorkitem, Update, InSync
  <2>2. item.visits = cache[w].visits /\ item.parent = cache[w].parent
    BY <2>1 DEF Item
  <2>3. Update(w, item)
    BY <1>9 DEF ResumeWorkitem
  <2> HIDE DEF item
  <2> QED BY <1>2, <2>1, <2>2, <2>3 DEF Terminal
<1>10. ASSUME NEW c \in Workitems, NEW parent, Create(c, parent) PROVE Goal
  <2>1. [Absent EXCEPT !.phase = "", !.parent = parent].visits = 0
    BY DEF Absent
  <2> QED BY <1>1, <1>10, <2>1 DEF Create, TypeOK, Goal
<1>11. ASSUME NEW w \in Workitems, InitStatus(w) PROVE Goal
  <2>1. PICK n : store' = [store EXCEPT ![w] = [@ EXCEPT !.phase = "Pending", !.assignee = n]]
    BY <1>11 DEF InitStatus
  <2>2. store[w] \in Item /\ store[w].phase = ""
    BY <1>11 DEF IInv, TypeOK, InitStatus, ItemInv, FreshIsUntouched
  <2>3. /\ [store[w] EXCEPT !.phase = "Pending", !.assignee = n].visits = store[w].visits
        /\ [store[w] EXCEPT !.phase = "Pending", !.assignee = n].parent = store[w].parent
    BY <2>2 DEF Item
  <2> QED BY <1>1, <2>1, <2>2, <2>3 DEF TypeOK, Terminal, Goal
<1>12. ASSUME NEW w \in Workitems, Reconcile(w), ~Claim(w) PROVE store' = store
  BY <1>12 DEF Reconcile, Progress, ClaimOverBudget, RunningTimeout, TimeoutUnchecked,
    Decide, SuspendTimeout, SuspendMet
<1>13. ASSUME NEW w \in Workitems, Informer(w) \/ Handler(w) \/ CreateFails(w) PROVE store' = store
  BY <1>13 DEF Informer, Handler, Assign, AssignFails, HandlerReturns, HandlerErrs,
    InactivityTimeout, BeginAwait, EndAwait, ZombieExits, CreateFails
<1>14. CASE Crash
  BY <1>3, <1>14 DEF Crash
<1>15. ASSUME NEW w \in Workitems, Call(w) PROVE Goal
  BY <1>3, <1>7, <1>8, <1>9, <1>10, <1>11, <1>13, <1>15 DEF Call, CreateWorkitem, CreateChild
<1> QED BY <1>3, <1>4, <1>5, <1>12, <1>13, <1>14, <1>15 DEF Next

\* No writer rolls an object back to a version it read earlier.
THEOREM NoUpdateIsLost == Spec => NoLostUpdate
<1>1. IInv /\ [Next]_vars =>
        [\A w \in Workitems :
           /\ store'[w].visits >= store[w].visits
           /\ store[w].phase # "Absent" => store'[w].parent = store[w].parent]_store
  <2> SUFFICES ASSUME IInv, Next, NEW w \in Workitems
               PROVE  /\ store'[w].visits >= store[w].visits
                      /\ store[w].phase # "Absent" => store'[w].parent = store[w].parent
    BY DEF vars
  <2>1. store[w].visits \in Nat /\ (store[w].phase = "Absent" => store[w].visits = 0)
    <3>1. Absent.visits = 0
      BY DEF Absent
    <3> QED BY <3>1 DEF IInv, TypeOK, Item, ItemInv, FreshIsUntouched
  <2> QED BY <2>1, StoreSteps
<1> QED BY <1>1, Invariance, PTL DEF Spec, NoLostUpdate

\* Completed and Failed are final as long as no handler outlives its assignment,
\* whatever stale version the other writers hold.
THEOREM TerminalStays ==
  ASSUME Obedient
  PROVE  Spec => TerminalIsFinal
<1>1. IInv /\ [Next]_vars =>
        [\A w \in Workitems :
           store[w].phase \in Terminal => store'[w].phase = store[w].phase]_store
  <2> SUFFICES ASSUME IInv, Next, NEW w \in Workitems, store[w].phase \in Terminal
               PROVE  store'[w].phase = store[w].phase
    BY DEF vars
  <2> QED BY StoreSteps DEF Terminal
<1> QED BY <1>1, Invariance, PTL DEF Spec, TerminalIsFinal

-----------------------------------------------------------------------------
(* Roots: no one but the reconciler changes an instruction that is pending  *)

\* What CalculateNextStep answers when the thrash guard lets it through.
Accepted(item) == Suspensions(item) \cup Moves(item) \cup Completions(item)

\* A cache that shows a root in Routing while it is in Routing shows its present
\* instruction, not one of an earlier visit; so what was decided on the cached
\* version is what the present version asks for.
PlanIsCurrent(w) ==
  store[w].parent = None /\ store[w].phase = "Routing" =>
    /\ cache[w].phase = "Routing" => cache[w] = store[w]
    /\ pc[w] = "apply" => plan[w] \in Accepted(store[w])

RootInv == IInv /\ zombies = {} /\ \A w \in Workitems : PlanIsCurrent(w)

\* A decision that is not a failure is one the instruction asks for.
LEMMA DecisionIsAccepted ==
  ASSUME NEW item, NEW p \in NextSteps(item), p.phase # "Failed"
  PROVE  p \in Accepted(item)
<1>1. FailPlan("THRASH_BUDGET_EXCEEDED").phase = "Failed"
  BY DEF FailPlan, NoPlan
<1> QED BY <1>1 DEF NextSteps, Guarded, Accepted

\* What an accepted decision says of the instruction it was made on.
LEMMA AcceptedFollows ==
  ASSUME NEW item, NEW p \in Accepted(item)
  PROVE  \/ p.phase = "Completed" /\ item.ri.type = "complete" /\ MayComplete(item)
         \/ p.phase = "Suspended" /\ item.ri.type = "suspend"
         \/ p.phase = "Pending" /\ p.assignee = item.ri.target
BY DEF Accepted, Suspensions, Moves, Completions, NoPlan

LEMMA InitRoots == Init => RootInv
<1> SUFFICES ASSUME Init PROVE RootInv
  OBVIOUS
<1>1. IInv
  BY InitType, InitItem DEF IInv
<1>2. \A w \in Workitems : store[w].phase = "Absent"
  BY DEF Init, Absent
<1> QED BY <1>1, <1>2 DEF RootInv, PlanIsCurrent, Init

LEMMA NextKeepsRoots ==
  ASSUME Obedient, RootInv, [Next]_vars
  PROVE  RootInv'
<1>1. IInv' /\ IInv /\ TypeOK /\ zombies = {}
  BY NextKeeps DEF RootInv, IInv
<1> DEFINE Goal == zombies' = {} /\ \A x \in Workitems : PlanIsCurrent(x)'
<1> SUFFICES Goal
  BY <1>1 DEF RootInv
<1>2. ASSUME NEW x \in Workitems, store'[x].phase # "Routing" PROVE PlanIsCurrent(x)'
  BY <1>2 DEF PlanIsCurrent
<1>3. ASSUME NEW x \in Workitems, store'[x] = store[x], cache'[x] \in {cache[x], store[x]},
             pc'[x] = "apply" => pc[x] = "apply" /\ plan'[x] = plan[x]
      PROVE  PlanIsCurrent(x)'
  <2>1. PlanIsCurrent(x)
    BY DEF RootInv
  <2>2. Accepted(store[x])' = Accepted(store[x])
    BY <1>3 DEF Accepted, Suspensions, Moves, Completions, MayComplete
  <2> QED BY <1>3, <2>1, <2>2 DEF PlanIsCurrent
<1>4. ASSUME NEW w \in Workitems, PlanIsCurrent(w)', zombies' = {},
             \A x \in Workitems : x # w => Untouched(x)
      PROVE  Goal
  BY <1>3, <1>4 DEF Untouched
<1> HIDE DEF Goal
<1>5. CASE UNCHANGED vars
  BY <1>1, <1>3, <1>5 DEF vars, Goal
<1>6. CASE Crash
  BY <1>1, <1>3, <1>6 DEF Crash, TypeOK, Goal
<1>7. ASSUME NEW w \in Workitems, Informer(w) PROVE Goal
  <2>1. PlanIsCurrent(w)' /\ zombies' = {}
    BY <1>1, <1>3, <1>7 DEF Informer, TypeOK
  <2> QED BY <1>1, <1>4, <1>7, <2>1, OthersUntouched
<1>8. ASSUME NEW w \in Workitems, Reconcile(w) PROVE Goal
  <2>1. zombies' = {} /\ cache' = cache
    BY <1>1, <1>8 DEF Reconcile, Progress, Claim, ClaimOverBudget, RunningTimeout, TimeoutUnchecked,
      Decide, SuspendTimeout, SuspendMet
  <2>2. ASSUME Claim(w) PROVE PlanIsCurrent(w)'
    <3>1. store'[w].phase = "Running"
      BY <1>1, <2>2, ClaimedType DEF Claim, Update, TypeOK
    <3> QED BY <1>2, <3>1
  <2>3. ASSUME \/ ClaimOverBudget(w) \/ RunningTimeout(w) \/ TimeoutUnchecked(w)
               \/ SuspendTimeout(w) \/ SuspendMet(w)
        PROVE  PlanIsCurrent(w)'
    <3>1. store' = store /\ pc'[w] \in {"fail", "resume"}
      BY <1>1, <2>3 DEF ClaimOverBudget, RunningTimeout, TimeoutUnchecked,
        SuspendTimeout, SuspendMet, Begin, TypeOK
    <3> QED BY <1>3, <2>1, <3>1
  <2>4. ASSUME Decide(w) PROVE PlanIsCurrent(w)'
    <3>1. store' = store /\ cache[w].phase = "Routing"
      BY <2>4 DEF Decide
    <3>2. PICK p \in NextSteps(cache[w]) : Begin(w, IF p.phase = "Failed" THEN "fail" ELSE "apply", p)
      BY <2>4 DEF Decide
    <3>3. pc'[w] = (IF p.phase = "Failed" THEN "fail" ELSE "apply") /\ plan'[w] = p
      BY <1>1, <3>2 DEF Begin, TypeOK
    <3>4. pc'[w] = "apply" => plan'[w] \in Accepted(cache[w])
      BY <3>3, DecisionIsAccepted
    <3>5. PlanIsCurrent(w) /\ Accepted(store[w])' = Accepted(store[w])
      BY <3>1 DEF RootInv, Accepted, Suspensions, Moves, Completions, MayComplete
    <3> QED BY <2>1, <3>1, <3>4, <3>5 DEF PlanIsCurrent
  <2>5. PlanIsCurrent(w)'
    BY <1>8, <2>2, <2>3, <2>4 DEF Reconcile, Progress
  <2> QED BY <1>1, <1>4, <1>8, <2>1, <2>5, OthersUntouched
<1>9. ASSUME NEW w \in Workitems, Write(w) PROVE Goal
  <2>1. /\ cache' = cache /\ zombies' = {} /\ pc'[w] = "idle"
        /\ cache[w] \in Item /\ plan[w] \in Plan
    BY <1>1, <1>9 DEF Write, Revert, Apply, Resume, Fail, End, Begin, TypeOK
  <2>2. ASSUME store'[w] = store[w] PROVE PlanIsCurrent(w)'
    BY <1>3, <2>1, <2>2
  <2>3. ASSUME store'[w] # store[w] PROVE PlanIsCurrent(w)'
    <3>1. ASSUME Apply(w) PROVE store'[w].phase # "Routing"
      <4>1. store'[w] = Routed(cache[w], plan[w]) /\ PlanIsSound(w) /\ pc[w] = "apply"
        BY <1>1, <2>3, <3>1 DEF Apply, Update, TypeOK, IInv, ItemInv
      <4> QED BY <2>1, <4>1, RoutedType DEF PlanIsSound
    <3>2. ASSUME ~Apply(w) PROVE store'[w].phase # "Routing"
      <4>1. \/ store'[w] = [cache[w] EXCEPT !.phase = "Pending", !.assigned = FALSE]
            \/ store'[w] = [cache[w] EXCEPT !.phase = "Pending", !.cond = FALSE, !.timed = FALSE]
            \/ store'[w] = [cache[w] EXCEPT !.phase = "Failed", !.reason = plan[w].reason,
                                            !.ri = NoInstruction, !.assigned = FALSE]
        BY <1>1, <1>9, <2>3, <3>2 DEF Write, Revert, Resume, Fail, Update, TypeOK
      <4> QED BY <2>1, <4>1 DEF Item
    <3>3. store'[w].phase # "Routing"
      BY <3>1, <3>2
    <3> QED BY <1>2, <3>3
  <2> QED BY <1>1, <1>4, <1>9, <2>1, <2>2, <2>3, OthersUntouched
<1>10. ASSUME NEW w \in Workitems, Handler(w) PROVE Goal
  <2>1. /\ store' = store /\ cache' = cache
        /\ pc'[w] = "apply" => pc[w] = "apply" /\ plan'[w] = plan[w]
    BY <1>1, <1>10 DEF Handler, Assign, AssignFails, HandlerReturns, HandlerErrs, InactivityTimeout,
      BeginAwait, EndAwait, ZombieExits, Goto, End, Begin, TypeOK
  <2>2. zombies' = {}
    BY <1>1, <1>10 DEF Handler, Assign, AssignFails, HandlerReturns, HandlerErrs, InactivityTimeout,
      BeginAwait, EndAwait, ZombieExits
  <2> QED BY <1>1, <1>3, <1>4, <1>10, <2>1, <2>2, OthersUntouched
<1>11. ASSUME NEW w \in Workitems, Call(w) PROVE Goal
  <2>0. ASSUME NEW c \in Workitems, NEW item, store' = [store EXCEPT ![c] = item],
               UNCHANGED <<cache, pc, plan, zombies>>, PlanIsCurrent(c)'
        PROVE  Goal
    <3>1. ASSUME NEW x \in Workitems, x # c PROVE PlanIsCurrent(x)'
      BY <1>1, <1>3, <2>0, <3>1 DEF TypeOK
    <3> QED BY <1>1, <2>0, <3>1 DEF Goal
  <2>1. ASSUME NEW ri \in Submittable, SubmitResult(w, ri) PROVE Goal
    <3>1. cache[w].phase = "Running" /\ pc[w] = "process"
      BY <1>1, <2>1 DEF SubmitResult, MayCall, Update, InSync
    <3>2. PlanIsCurrent(w)'
      BY <2>1, <3>1 DEF SubmitResult, PlanIsCurrent
    <3> QED BY <2>0, <2>1, <3>2 DEF SubmitResult, Update
  <2>2. ASSUME NEW c \in Workitems, NEW ri \in Routable, RouteChild(w, c, ri) PROVE Goal
    <3>1. cache[c] \in Item /\ cache[c].parent # None
      BY <1>1, <2>2, ConstantsAssumption DEF RouteChild, TypeOK
    <3>2. store'[c].parent # None
      BY <1>1, <2>2, <3>1 DEF RouteChild, Update, TypeOK, Item
    <3>3. PlanIsCurrent(c)'
      BY <3>2 DEF PlanIsCurrent
    <3> QED BY <2>0, <2>2, <3>3 DEF RouteChild, Update
  <2>3. CASE ResumeWorkitem(w)
    <3>1. cache[w] \in Item
      BY <1>1 DEF TypeOK
    <3>2. store'[w].phase = "Pending"
      BY <1>1, <2>3, <3>1 DEF ResumeWorkitem, Update, TypeOK, Item
    <3> QED BY <1>2, <2>0, <2>3, <3>2 DEF ResumeWorkitem, Update
  <2>4. ASSUME NEW c \in Workitems, NEW parent, Create(c, parent) PROVE Goal
    <3>1. store'[c].phase = ""
      BY <1>1, <2>4 DEF Create, Absent, TypeOK
    <3> QED BY <1>2, <2>0, <2>4, <3>1 DEF Create
  <2>5. CASE InitStatus(w)
    <3>1. PICK n : store' = [store EXCEPT ![w] = [@ EXCEPT !.phase = "Pending", !.assignee = n]]
      BY <2>5 DEF InitStatus
    <3>2. store[w] \in Item
      BY <1>1 DEF TypeOK
    <3>3. store'[w].phase = "Pending"
      BY <1>1, <3>1, <3>2 DEF TypeOK, Item
    <3>4. PlanIsCurrent(w)'
      BY <1>2, <3>3
    <3> QED BY <2>0, <2>5, <3>1, <3>4 DEF InitStatus
  <2>6. CASE CreateFails(w)
    BY <1>1, <1>3, <2>6 DEF CreateFails, Goal
  <2> QED BY <1>11, <2>1, <2>2, <2>3, <2>4, <2>5, <2>6 DEF Call, CreateWorkitem, CreateChild
<1> QED BY <1>5, <1>6, <1>7, <1>8, <1>9, <1>10, <1>11 DEF Next

\* The route of a root is decided on the instruction that is written out later,
\* for every lag of the cache and every crash.
THEOREM RoutesAreCurrent ==
  ASSUME Obedient
  PROVE  Spec => []RootInv
BY InitRoots, NextKeepsRoots, PTL DEF Spec

\* How an item leaves Routing, or completes: failed, moved on by the pending
\* decision, or, while it is not in Routing, put back to Pending or claimed.
LEMMA LeavesRouting ==
  ASSUME IInv, Obedient, zombies = {}, Next, NEW w \in Workitems, store'[w] # store[w]
  PROVE  \/ store'[w].phase = "Failed"
         \/ store'[w].phase = "Routing"
         \/ store[w].phase # "Routing" /\ store'[w].phase # "Completed"
         \/ /\ pc[w] = "apply" /\ store[w].phase = "Routing"
            /\ store'[w] = Routed(store[w], plan[w])
<1> DEFINE Goal ==
         \/ store'[w].phase = "Failed"
         \/ store'[w].phase = "Routing"
         \/ store[w].phase # "Routing" /\ store'[w].phase # "Completed"
         \/ /\ pc[w] = "apply" /\ store[w].phase = "Routing"
            /\ store'[w] = Routed(store[w], plan[w])
<1> SUFFICES Goal
  OBVIOUS
<1>1. TypeOK /\ cache[w] \in Item /\ store[w] \in Item /\ plan[w] \in Plan
  BY DEF IInv, TypeOK
<1>0. ASSUME NEW x \in Workitems, NEW item, store' = [store EXCEPT ![x] = item],
             \/ item.phase \in {"Failed", "Routing"}
             \/ item.phase = "Pending" /\ store[x].phase # "Routing"
      PROVE  Goal
  BY <1>1, <1>0 DEF TypeOK
<1>2. ASSUME NEW x \in Workitems, cache[x].phase # "Routing",
             Revert(x) \/ Resume(x) \/ ResumeWorkitem(x)
      PROVE  Goal
  <2>1. cache[x] \in Item
    BY <1>1 DEF TypeOK
  <2>2. /\ [cache[x] EXCEPT !.phase = "Pending", !.assigned = FALSE].phase = "Pending"
        /\ [cache[x] EXCEPT !.phase = "Pending", !.cond = FALSE, !.timed = FALSE].phase = "Pending"
        /\ [cache[x] EXCEPT !.phase = "Pending", !.cond = FALSE, !.timed = FALSE,
                            !.ri = NoInstruction].phase = "Pending"
    BY <2>1 DEF Item
  <2> HIDE DEF Goal
  <2>3. CASE Revert(x)
    BY <1>0, <1>2, <2>2, <2>3 DEF Revert, Update, InSync
  <2>4. CASE Resume(x)
    BY <1>0, <1>2, <2>2, <2>4 DEF Resume, Update, InSync
  <2>5. CASE ResumeWorkitem(x)
    BY <1>0, <1>2, <2>2, <2>5 DEF ResumeWorkitem, Update, InSync
  <2> QED BY <1>2, <2>3, <2>4, <2>5
<1>3. ASSUME NEW x \in Workitems, Claim(x) PROVE Goal
  BY <1>1, <1>3, ClaimedType DEF Claim, Update, InSync, TypeOK
<1>4. ASSUME NEW x \in Workitems, Write(x) PROVE Goal
  <2>1. CASE Revert(x) \/ Resume(x)
    <3>1. CASE cache[x].phase = "Routing"
      BY <2>1, <3>1 DEF Revert, Resume
    <3> QED BY <1>2, <2>1, <3>1
  <2>2. CASE Apply(x)
    BY <1>1, <2>2 DEF Apply, Update, InSync, TypeOK
  <2>3. CASE Fail(x)
    <3>1. cache[x] \in Item
      BY <1>1 DEF TypeOK
    <3>2. [cache[x] EXCEPT !.phase = "Failed", !.reason = plan[x].reason,
                           !.ri = NoInstruction, !.assigned = FALSE].phase = "Failed"
      BY <3>1 DEF Item
    <3> HIDE DEF Goal
    <3>3. CASE store' = store
      BY <3>3 DEF Goal
    <3> QED BY <1>0, <2>3, <3>2, <3>3 DEF Fail, Update
  <2> QED BY <1>4, <2>1, <2>2, <2>3 DEF Write
<1>5. ASSUME NEW x \in Workitems, NEW ri, Update(x, [cache[x] EXCEPT !.ri = ri, !.phase = "Routing"])
      PROVE  Goal
  BY <1>1, <1>5 DEF Update, TypeOK, Item
<1>6. ASSUME NEW x \in Workitems, NEW parent, Create(x, parent) PROVE Goal
  BY <1>1, <1>6 DEF Create, Absent, TypeOK
<1>7. ASSUME NEW x \in Workitems, InitStatus(x) PROVE Goal
  <2>1. PICK n : store' = [store EXCEPT ![x] = [@ EXCEPT !.phase = "Pending", !.assignee = n]]
    BY <1>7 DEF InitStatus
  <2>2. store[x].phase = "" /\ store[x] \in Item
    BY <1>7 DEF InitStatus, IInv, TypeOK, ItemInv, FreshIsUntouched
  <2> QED BY <1>1, <2>1, <2>2 DEF TypeOK, Item
<1>8. ASSUME NEW x \in Workitems, Call(x) PROVE Goal
  <2>1. CASE ResumeWorkitem(x)
    BY <1>2, <2>1 DEF ResumeWorkitem
  <2> QED BY <1>5, <1>6, <1>7, <1>8, <2>1
    DEF Call, SubmitResult, CreateWorkitem, CreateFails, CreateChild, RouteChild
<1>9. ASSUME NEW x \in Workitems, Informer(x) \/ Handler(x) \/ Crash PROVE Goal
  BY <1>9 DEF Informer, Handler, Assign, AssignFails, HandlerReturns, HandlerErrs,
    InactivityTimeout, BeginAwait, EndAwait, ZombieExits, Crash
<1>10. ASSUME NEW x \in Workitems, Reconcile(x), ~Claim(x) PROVE Goal
  BY <1>10 DEF Reconcile, Progress, ClaimOverBudget, RunningTimeout, TimeoutUnchecked,
    Decide, SuspendTimeout, SuspendMet
<1> HIDE DEF Goal
<1> QED BY <1>3, <1>4, <1>8, <1>9, <1>10 DEF Next

\* A root leaves Routing the way its last accepted instruction says, or fails, for
\* handlers that do not outlive their assignment: the two reads of reconcileRouting
\* never join a decision with an instruction it was not made for.
THEOREM InstructionIsFollowed ==
  ASSUME Obedient
  PROVE  Spec => FollowsInstruction
<1>1. RootInv /\ [Next]_vars =>
        [\A w \in Workitems :
           LET old == store[w]  new == store'[w]
           IN  (old.parent = None /\ old.phase = "Routing" /\ new.phase # "Routing") =>
                 \/ new.phase = "Failed"
                 \/ new.phase = "Completed" /\ old.ri.type = "complete"
                 \/ new.phase = "Suspended" /\ old.ri.type = "suspend"
                 \/ new.phase = "Pending" /\ new.assignee = old.ri.target]_store
  <2> SUFFICES ASSUME RootInv, Next, NEW w \in Workitems, store[w].parent = None,
                      store[w].phase = "Routing", store'[w].phase # "Routing",
                      store'[w].phase # "Failed"
               PROVE  \/ store'[w].phase = "Completed" /\ store[w].ri.type = "complete"
                      \/ store'[w].phase = "Suspended" /\ store[w].ri.type = "suspend"
                      \/ store'[w].phase = "Pending" /\ store'[w].assignee = store[w].ri.target
    BY DEF vars
  <2>1. store[w] \in Item /\ plan[w] \in Plan
    BY DEF RootInv, IInv, TypeOK
  <2>2. pc[w] = "apply" /\ store'[w] = Routed(store[w], plan[w])
    BY LeavesRouting DEF RootInv
  <2>3. plan[w] \in Accepted(store[w])
    BY <2>2 DEF RootInv, PlanIsCurrent
  <2>4. store'[w].phase = plan[w].phase
    BY <2>1, <2>2, RoutedType
  <2>5. plan[w].phase = "Pending" => store'[w].assignee = plan[w].assignee
    BY <2>1, <2>2 DEF Routed, Item
  <2> QED BY <2>3, <2>4, <2>5, AcceptedFollows
<1>2. Spec => []RootInv
  BY RoutesAreCurrent
<1> QED BY <1>1, <1>2, PTL DEF Spec, FollowsInstruction

\* A root completes only out of a node that is bound to an exit, although the
\* binding is looked at on one version and the completion written on another.
THEOREM RootsCompleteAtExit ==
  ASSUME Obedient
  PROVE  Spec => RootCompletesAtExit
<1>1. RootInv /\ [Next]_vars =>
        [\A w \in Workitems :
           (store[w].phase # "Completed" /\ store'[w].phase = "Completed"
              /\ store[w].parent = None) => store[w].assignee \in ExitNodes]_store
  <2> SUFFICES ASSUME RootInv, Next, NEW w \in Workitems, store[w].phase # "Completed",
                      store'[w].phase = "Completed", store[w].parent = None
               PROVE  store[w].assignee \in ExitNodes
    BY DEF vars
  <2>1. store[w] \in Item /\ plan[w] \in Plan
    BY DEF RootInv, IInv, TypeOK
  <2>2. /\ pc[w] = "apply" /\ store'[w] = Routed(store[w], plan[w])
        /\ store[w].phase = "Routing"
    BY LeavesRouting DEF RootInv
  <2>3. plan[w] \in Accepted(store[w])
    BY <2>2 DEF RootInv, PlanIsCurrent
  <2>4. plan[w].phase = "Completed"
    BY <2>1, <2>2, RoutedType
  <2> QED BY <2>3, <2>4, AcceptedFollows DEF MayComplete
<1>2. Spec => []RootInv
  BY RoutesAreCurrent
<1> QED BY <1>1, <1>2, PTL DEF Spec, RootCompletesAtExit
=============================================================================
