------------------------- MODULE LawLibrary_proofs -------------------------
(***************************************************************************)
(* No law outlives its resource in the Library, for any contents, number   *)
(* of edits, petitions, faults and restarts.  The invariant ties together  *)
(* the four places that know of the resource: the API server, the          *)
(* informer's cache, the reconciler's copy and the Library's row.          *)
(***************************************************************************)
EXTENDS LawLibrary, TLAPS

\* A copy that says the law is to be mirrored.
InForce(c) == c # NoLaw /\ ~c.deleting /\ c.finalizer
Kept == cr # NoLaw /\ cr.finalizer
Mirroring == {"validate", "look", "create", "update"}
Retiring == {"retire", "remove"}

\* What is not marked stale is the stored resource.
Fresh ==
  /\ "cache" \notin stale => cache = cr
  /\ worker # Idle /\ "copy" \notin stale => worker.copy = cr
  /\ On("finalize") /\ "copy" \notin stale => "cache" \notin stale

\* A copy may be behind the API server, but not so far that it shows a law in
\* force whose finalizer is gone, or a deleted one that is in force again.
Behind ==
  /\ InForce(cache) => Kept
  /\ cache # NoLaw /\ cache.deleting => ~InForce(cr)

\* What the reconciler's position says.
Position ==
  /\ worker.call \in Mirroring => Kept
  /\ worker.call \in Retiring => ~InForce(cache) /\ ~InForce(cr)
  /\ On("remove") => row = NoLaw
  /\ On("finalize") => ~worker.copy.deleting

Recorded == (row # NoLaw \/ petition.call = "head") => versions # <<>>

Inv == TypeOK /\ Fresh /\ Behind /\ Position /\ Recorded /\ LibraryFollowsCluster

-----------------------------------------------------------------------------
(* Types of the parts.                                                     *)

LEMMA ResourceParts ==
  ASSUME NEW c \in Resource
  PROVE  c # NoLaw /\ c.spec \in Specs /\ c.deleting \in BOOLEAN /\ c.finalizer \in BOOLEAN
<1>1. DOMAIN c = {"spec", "deleting", "finalizer", "status"}
  BY DEF Resource
<1>2. DOMAIN NoLaw = {"absent"}
  BY DEF NoLaw
<1> QED  BY <1>1, <1>2 DEF Resource

LEMMA ResourceMarks ==
  ASSUME NEW c \in Resource
  PROVE  /\ [c EXCEPT !.finalizer = TRUE] \in Resource
         /\ [c EXCEPT !.finalizer = TRUE].finalizer = TRUE
         /\ [c EXCEPT !.finalizer = TRUE].deleting = c.deleting
         /\ [c EXCEPT !.deleting = TRUE] \in Resource
         /\ [c EXCEPT !.deleting = TRUE].deleting = TRUE
         /\ [c EXCEPT !.deleting = TRUE].finalizer = c.finalizer
  BY DEF Resource

LEMMA ResourceEdits ==
  ASSUME NEW c \in Resource, NEW s \in Specs
  PROVE  /\ [c EXCEPT !.spec = s] \in Resource
         /\ [c EXCEPT !.spec = s].finalizer = c.finalizer
         /\ [c EXCEPT !.spec = s].deleting = c.deleting
  BY DEF Resource

LEMMA ResourceReports ==
  ASSUME NEW c \in Resource, NEW r \in Reasons, NEW o \in Specs
  PROVE  /\ [c EXCEPT !.status = [reason |-> r, of |-> o]] \in Resource
         /\ [c EXCEPT !.status = [reason |-> r, of |-> o]].finalizer = c.finalizer
         /\ [c EXCEPT !.status = [reason |-> r, of |-> o]].deleting = c.deleting
  BY DEF Resource

LEMMA WorkerParts ==
  ASSUME NEW w \in Working \cup {Idle}
  PROVE  /\ w.call \in Calls
         /\ w # Idle <=> w.call # "idle"
         /\ w # Idle => w.copy \in Resource
         /\ w.call = "status" => w.reason \in Reasons
  BY DEF Working, Idle, Calls

LEMMA WorkerMoves ==
  ASSUME NEW c \in Resource, NEW call \in Calls \ {"idle", "status"}
  PROVE  /\ [call |-> call, copy |-> c] \in Working
         /\ [call |-> call, copy |-> c].call = call
         /\ [call |-> call, copy |-> c].copy = c
  BY DEF Working

LEMMA WorkerReports ==
  ASSUME NEW c \in Resource, NEW r \in Reasons
  PROVE  LET w == [call |-> "status", copy |-> c, reason |-> r] IN
         w \in Working /\ w.call = "status" /\ w.copy = c /\ w # Idle
<1> DEFINE w == [call |-> "status", copy |-> c, reason |-> r]
<1>1. w \in Working /\ w.call = "status" /\ w.copy = c
  BY DEF Working
<1> QED  BY <1>1, WorkerParts

LEMMA LawParts ==
  ASSUME NEW law \in Law
  PROVE  RowOf(law) \in Row /\ RowOf(law) # NoLaw /\ law.kinds \subseteq Kinds
  BY DEF Law, Row, RowOf, NoLaw

LEMMA FaultCounts == TypeOK /\ (Fault \/ UNCHANGED faults) => faults' \in 0..MaxFaults
  BY LibraryAssumption DEF TypeOK, Fault

\* What the Library's operations leave well typed.
LEMMA LibraryOperations ==
  ASSUME TypeOK, NEW law \in Law,
         CreateLaw(law) \/ UpdateLaw(law) \/ RetireLaw \/ UNCHANGED libraryVars
  PROVE  /\ row' \in Row \cup {NoLaw} /\ scope' \subseteq Kinds /\ versions' \in Seq(Law)
         /\ versions # <<>> => versions' # <<>>
<1>1. RowOf(law) \in Row /\ law.kinds \subseteq Kinds
  BY LawParts
<1>2. Append(versions, law) \in Seq(Law) /\ Append(versions, law) # <<>>
  BY DEF TypeOK
<1> QED  BY <1>1, <1>2 DEF TypeOK, CreateLaw, UpdateLaw, RetireLaw, libraryVars

LEMMA InitInv == Init => Inv
<1> SUFFICES ASSUME Init PROVE Inv
  OBVIOUS
<1> USE DEF Init
<1>1. TypeOK
  <2>1. NoPetition \in Hearing
    BY DEF Hearing
  <2>2. <<>> \in Seq(Law)
    OBVIOUS
  <2>3. 0 \in 0..MaxEdits /\ 0 \in 0..MaxPetitions /\ 0 \in 0..MaxFaults
    BY LibraryAssumption
  <2> QED  BY <2>1, <2>2, <2>3 DEF TypeOK
<1>2. worker.call = "idle" /\ petition.call = "idle"
  BY DEF Idle, NoPetition
<1> QED  BY <1>1, <1>2 DEF Inv, Fresh, Behind, Position, Recorded, LibraryFollowsCluster,
            InForce, On, Mirroring, Retiring

-----------------------------------------------------------------------------
(* The users and the informer.                                             *)

LEMMA UserSteps == Inv /\ User => Inv'
<1> SUFFICES ASSUME Inv, User PROVE Inv'
  OBVIOUS
<1> USE LibraryAssumption DEF Inv
<1>1. ASSUME NEW s \in Specs, CreateResource(s) PROVE Inv'
  <2>1. cr' \in Resource /\ ~cr'.finalizer
    BY <1>1 DEF CreateResource, Write, Resource
  <2>2. TypeOK'
    BY <1>1, <2>1 DEF CreateResource, Write, TypeOK
  <2> QED  BY <1>1, <2>1, <2>2 DEF CreateResource, Write, Fresh, Behind, Position, Recorded,
              LibraryFollowsCluster, InForce, Kept, On
<1>2. ASSUME NEW s \in Specs, EditResource(s) PROVE Inv'
  <2>1. cr \in Resource
    BY <1>2 DEF TypeOK, EditResource
  <2>2. cr' \in Resource /\ cr' # NoLaw /\ cr'.finalizer = cr.finalizer /\ cr'.deleting = cr.deleting
    BY <1>2, <2>1, ResourceEdits, ResourceParts DEF EditResource, Write
  <2>3. TypeOK'
    BY <1>2, <2>2 DEF EditResource, Write, TypeOK
  <2> QED  BY <1>2, <2>2, <2>3 DEF EditResource, Write, Fresh, Behind, Position, Recorded,
              LibraryFollowsCluster, InForce, Kept, On
<1>3. CASE DeleteResource
  <2>1. cr \in Resource /\ cr # NoLaw
    BY <1>3 DEF TypeOK, DeleteResource
  <2>2. CASE cr.finalizer
    <3>1. cr' \in Resource /\ cr' # NoLaw /\ cr'.finalizer /\ cr'.deleting
      BY <1>3, <2>1, <2>2, ResourceMarks, ResourceParts DEF DeleteResource, Write
    <3>2. TypeOK'
      BY <1>3, <3>1 DEF DeleteResource, Write, TypeOK, petitionVars
    <3> QED  BY <1>3, <3>1, <3>2 DEF DeleteResource, Write, Fresh, Behind, Position, Recorded,
                LibraryFollowsCluster, InForce, Kept, On, petitionVars
  <2>3. CASE ~cr.finalizer
    <3>1. cr' = NoLaw
      BY <1>3, <2>3 DEF DeleteResource, Write
    <3>2. TypeOK'
      BY <1>3, <3>1 DEF DeleteResource, Write, TypeOK, petitionVars
    <3> QED  BY <1>3, <2>3, <3>1, <3>2 DEF DeleteResource, Write, Fresh, Behind, Position, Recorded,
                LibraryFollowsCluster, InForce, Kept, On, petitionVars
  <2> QED  BY <2>2, <2>3
<1>4. ASSUME NEW k \in Kinds, Govern(k) PROVE Inv'
  BY <1>4 DEF Govern, petitionVars, TypeOK, Fresh, Behind, Position, Recorded,
     LibraryFollowsCluster, InForce, Kept, On
<1> QED  BY <1>1, <1>2, <1>3, <1>4 DEF User

LEMMA CacheEventStep == Inv /\ CacheEvent => Inv'
  BY DEF Inv, CacheEvent, petitionVars, TypeOK, Fresh, Behind, Position, Recorded,
     LibraryFollowsCluster, InForce, Kept, On

LEMMA RestartStep == Inv /\ Restart => Inv'
<1> SUFFICES ASSUME Inv, Restart PROVE Inv'
  OBVIOUS
<1>1. worker' = Idle /\ worker'.call = "idle"
  BY DEF Restart, Idle
<1>2. TypeOK'
  BY FaultCounts, <1>1 DEF Inv, TypeOK, Restart, libraryVars, petitionVars
<1> QED  BY <1>1, <1>2 DEF Inv, Restart, libraryVars, petitionVars, Fresh, Behind, Position,
            Recorded, LibraryFollowsCluster, InForce, Kept, On, Mirroring, Retiring

-----------------------------------------------------------------------------
(* The law-applicator.                                                     *)

LEMMA ApplicatorSteps == Inv /\ Applicator => Inv'
<1> SUFFICES ASSUME Inv, Applicator PROVE Inv'
  OBVIOUS
<1> USE LibraryAssumption DEF Inv
<1> DEFINE Beside == UNCHANGED <<cr, cache, known, stale, queued, worker>>
<1>0. ASSUME Beside, TypeOK', Recorded', row' # NoLaw => row # NoLaw
      PROVE  Inv'
  BY <1>0 DEF Fresh, Behind, Position, LibraryFollowsCluster, InForce, Kept, On
<1>1. CASE Hear
  <2>1. petition'.call \in {"retire", "read"} /\ petition' \in Hearing
    BY <1>1 DEF Hear, Hearing
  <2> QED  BY <1>0, <1>1, <2>1 DEF Hear, clusterVars, libraryVars, TypeOK, Recorded
<1>2. CASE ApplyRetire
  <2>1. petition' \in Hearing /\ petition'.call = "idle"
    BY <1>2 DEF ApplyRetire, Hearing, NoPetition
  <2> QED  BY <1>0, <1>2, <2>1 DEF ApplyRetire, RetireLaw, clusterVars, libraryVars, TypeOK, Recorded
<1>3. CASE ReadRow
  <2>1. petition.tier \in Tiers
    BY <1>3 DEF ReadRow, TypeOK, Hearing, NoPetition
  <2>2. petition' \in Hearing /\ (petition'.call = "head" => row # NoLaw)
    BY <1>3, <2>1 DEF ReadRow, TypeOK, Hearing, NoPetition, Row
  <2> QED  BY <1>0, <1>3, <2>2 DEF ReadRow, clusterVars, libraryVars, TypeOK, Recorded
<1>4. CASE ReadHead
  <2>1. petition.row \in Row
    BY <1>4 DEF ReadHead, TypeOK, Hearing, NoPetition
  <2>2. Last(versions) \in Law
    BY <1>4 DEF ReadHead, TypeOK, Recorded, Last
  <2>3. petition'.law \in Law /\ petition' = [call |-> "write", law |-> petition'.law]
    BY <1>4, <2>1, <2>2 DEF ReadHead, Law, Row
  <2>4. petition' \in Hearing /\ petition'.call = "write"
    BY <2>3 DEF Hearing
  <2> QED  BY <1>0, <1>4, <2>4 DEF ReadHead, clusterVars, libraryVars, TypeOK, Recorded
<1>5. CASE WriteBack
  <2>1. petition.law \in Law
    BY <1>5 DEF WriteBack, TypeOK, Hearing, NoPetition
  <2>2. petition' \in Hearing /\ petition'.call = "idle"
    BY <1>5 DEF WriteBack, Hearing, NoPetition
  <2>3. UpdateLaw(petition.law) \/ UNCHANGED libraryVars
    BY <1>5 DEF WriteBack
  <2>4. row' # NoLaw => row # NoLaw
    BY <2>3 DEF UpdateLaw, libraryVars
  <2> QED  BY <1>0, <1>5, <2>1, <2>2, <2>3, <2>4, LibraryOperations
              DEF WriteBack, clusterVars, TypeOK, Recorded
<1>6. CASE PetitionFails
  <2>1. petition' \in Hearing /\ petition'.call = "idle"
    BY <1>6 DEF PetitionFails, Hearing, NoPetition
  <2> QED  BY <1>0, <1>6, <2>1 DEF PetitionFails, clusterVars, libraryVars, TypeOK, Recorded
<1> QED  BY <1>1, <1>2, <1>3, <1>4, <1>5, <1>6 DEF Applicator

-----------------------------------------------------------------------------
(* The reconciler.                                                         *)

LEMMA StartStep == Inv /\ Start => Inv'
<1> SUFFICES ASSUME Inv, Start PROVE Inv'
  OBVIOUS
<1> USE DEF Inv
<1>1. CASE worker' = Idle
  <2>1. worker'.call = "idle"
    BY <1>1 DEF Idle
  <2>2. TypeOK'
    BY <1>1 DEF Start, clusterVars, libraryVars, petitionVars, TypeOK
  <2> QED  BY <1>1, <2>1, <2>2 DEF Start, clusterVars, libraryVars, petitionVars, Fresh, Behind,
              Position, Recorded, LibraryFollowsCluster, InForce, Kept, On, Mirroring, Retiring
<1>2. CASE worker' # Idle
  <2>1. cache \in Resource /\ (cache.deleting => cache.finalizer)
    BY <1>2 DEF Start, TypeOK
  <2>2. FirstCall(cache) \in Calls \ {"idle", "status"}
    BY DEF FirstCall, Calls
  <2>3. worker' = [call |-> FirstCall(cache), copy |-> cache]
    BY <1>2 DEF Start
  <2>4. worker'.call = FirstCall(cache) /\ worker'.copy = cache /\ worker' \in Working
    BY <2>1, <2>2, <2>3, WorkerMoves
  <2>5. TypeOK'
    BY <2>4 DEF Start, clusterVars, libraryVars, petitionVars, TypeOK
  <2>6. Fresh'
    BY <2>4 DEF Start, clusterVars, Fresh, On
  <2>7. Position'
    BY <2>1, <2>4, ResourceParts DEF Start, clusterVars, libraryVars, Behind, Position, FirstCall,
       InForce, Kept, On, Mirroring, Retiring
  <2> QED  BY <2>5, <2>6, <2>7 DEF Start, clusterVars, libraryVars, petitionVars, Behind, Recorded,
              LibraryFollowsCluster, InForce, Kept
<1> QED  BY <1>1, <1>2

LEMMA AddFinalizerStep == Inv /\ AddFinalizer => Inv'
<1> SUFFICES ASSUME Inv, AddFinalizer PROVE Inv'
  OBVIOUS
<1> USE DEF Inv
<1>1. worker \in Working /\ worker # Idle /\ worker.copy \in Resource
  BY WorkerParts DEF AddFinalizer, On, TypeOK
<1>2. CASE Conflicts("copy") /\ Errs /\ UNCHANGED <<cr, stale>>
  <2>1. worker' = Idle /\ worker'.call = "idle"
    BY <1>2 DEF Errs, Idle
  <2>2. faults' \in 0..MaxFaults
    BY <1>2, FaultCounts DEF Conflicts
  <2> QED  BY <1>2, <2>1, <2>2 DEF AddFinalizer, Errs, libraryVars, petitionVars, TypeOK, Fresh,
              Behind, Position, Recorded, LibraryFollowsCluster, InForce, Kept, On, Mirroring, Retiring
<1>3. CASE "copy" \notin stale /\ cr' = [worker.copy EXCEPT !.finalizer = TRUE] /\ stale' = {"cache"}
           /\ worker' = [call |-> "validate", copy |-> cr'] /\ UNCHANGED <<queued, faults>>
  <2>1. cache = cr /\ worker.copy = cr /\ ~cr.deleting
    BY <1>1, <1>3 DEF AddFinalizer, Fresh, Position, On
  <2>2. cr' \in Resource /\ cr' # NoLaw /\ cr'.finalizer /\ ~cr'.deleting
    BY <1>1, <1>3, <2>1, ResourceMarks, ResourceParts
  <2>3. worker' \in Working /\ worker'.call = "validate" /\ worker'.copy = cr'
    BY <1>3, <2>2, WorkerMoves DEF Calls
  <2>4. TypeOK'
    BY <1>3, <2>2, <2>3 DEF AddFinalizer, libraryVars, petitionVars, TypeOK
  <2> QED  BY <1>3, <2>1, <2>2, <2>3, <2>4 DEF AddFinalizer, libraryVars, petitionVars, Fresh,
              Behind, Position, Recorded, LibraryFollowsCluster, InForce, Kept, On, Mirroring, Retiring
<1> QED  BY <1>2, <1>3 DEF AddFinalizer

LEMMA GoesOn ==
  ASSUME worker.copy \in Resource, NEW call \in Calls \ {"idle", "status"}, Goes(call)
  PROVE  worker' \in Working /\ worker'.copy = worker.copy /\ worker'.call = call
  BY WorkerMoves DEF Goes

LEMMA ReportsBack ==
  ASSUME worker.copy \in Resource, NEW r \in Reasons, Reports(r)
  PROVE  worker' \in Working /\ worker'.copy = worker.copy /\ worker'.call = "status"
  BY WorkerReports DEF Reports

\* A step that ends the reconcile with an error.
LEMMA ErrorStep ==
  ASSUME Inv, Errs, Conflicts("copy") \/ Conflicts("cache"),
         UNCHANGED <<cr, cache, known, stale, libraryVars, petitionVars, edits>>
  PROVE  Inv'
<1>1. worker' = Idle /\ worker'.call = "idle"
  BY DEF Errs, Idle
<1>2. faults' \in 0..MaxFaults
  BY FaultCounts DEF Conflicts, Inv
<1> QED  BY <1>1, <1>2 DEF Errs, libraryVars, petitionVars, Inv, TypeOK, Fresh, Behind, Position,
            Recorded, LibraryFollowsCluster, InForce, Kept, On, Mirroring, Retiring

\* A step that calls the Librarian and goes on with the same copy.
LEMMA CallStep ==
  ASSUME Inv, UNCHANGED <<clusterVars, stale, queued, petitionVars, edits>>,
         Fault \/ UNCHANGED faults,
         NEW law \in Law, CreateLaw(law) \/ UpdateLaw(law) \/ RetireLaw \/ UNCHANGED libraryVars,
         row' # NoLaw => Kept,
         worker' \in Working, worker'.copy = worker.copy, worker # Idle,
         worker'.call # "finalize", worker'.call \in Mirroring => Kept,
         worker'.call \in Retiring => worker.call \in Retiring,
         worker'.call = "remove" => row' = NoLaw
  PROVE  Inv'
<1>1. /\ row' \in Row \cup {NoLaw} /\ scope' \subseteq Kinds /\ versions' \in Seq(Law)
      /\ versions # <<>> => versions' # <<>>
  BY LibraryOperations DEF Inv
<1>2. TypeOK'
  BY <1>1, FaultCounts DEF Inv, TypeOK, clusterVars, petitionVars
<1>3. Recorded'
  <2>1. row # NoLaw => versions # <<>>
    BY DEF Inv, Recorded
  <2>2. row' # NoLaw => versions' # <<>>
    BY <1>1, <2>1 DEF CreateLaw, UpdateLaw, RetireLaw, libraryVars, Inv, TypeOK
  <2> QED  BY <1>1, <2>2 DEF Inv, Recorded, petitionVars
<1> QED  BY <1>2, <1>3 DEF Inv, clusterVars, Fresh, Behind, Position, LibraryFollowsCluster,
            InForce, Kept, On

LEMMA ValidateStep == Inv /\ (ValidateAppliesTo \/ Look) => Inv'
<1> SUFFICES ASSUME Inv, ValidateAppliesTo \/ Look PROVE Inv'
  OBVIOUS
<1>1. worker # Idle /\ worker.copy \in Resource /\ worker.call \in {"validate", "look"}
  BY WorkerParts DEF Inv, TypeOK, ValidateAppliesTo, Look, On
<1>2. worker.copy.spec \in Law /\ Kept
  BY <1>1, ResourceParts, LibraryAssumption DEF Inv, Position, Mirroring
<1>3. worker' \in Working /\ worker'.copy = worker.copy
      /\ worker'.call \in {"look", "status", "create", "update"}
  <2>1. {"look", "create", "update"} \subseteq Calls \ {"idle", "status"} /\ "ValidationFailed" \in Reasons
    BY DEF Calls, Reasons
  <2>2. Goes("look") \/ Goes("create") \/ Goes("update") \/ Reports("ValidationFailed")
    BY DEF ValidateAppliesTo, Look
  <2> QED  BY <1>1, <2>1, <2>2, GoesOn, ReportsBack
<1>4. UNCHANGED <<clusterVars, stale, queued, libraryVars, petitionVars, edits, faults>>
  BY DEF ValidateAppliesTo, Look
<1>5. row' # NoLaw => Kept
  BY <1>2
<1> QED  BY <1>1, <1>2, <1>3, <1>4, <1>5, CallStep DEF Retiring

LEMMA ReplicateStep == Inv /\ (Create \/ Update) => Inv'
<1> SUFFICES ASSUME Inv, Create \/ Update PROVE Inv'
  OBVIOUS
<1> DEFINE law == worker.copy.spec
<1>1. worker # Idle /\ worker.copy \in Resource /\ worker.call \in {"create", "update"}
  BY WorkerParts DEF Inv, TypeOK, Create, Update, Replicate, On
<1>2. law \in Law /\ Kept
  BY <1>1, ResourceParts, LibraryAssumption DEF Inv, Position, Mirroring
<1>3. worker' \in Working /\ worker'.copy = worker.copy /\ worker'.call = "status"
  <2>1. {"Reconciled", "SyncFailed"} \subseteq Reasons
    BY DEF Reasons
  <2>2. Reports("Reconciled") \/ Reports("SyncFailed")
    BY DEF Create, Update, Replicate
  <2> QED  BY <1>1, <2>1, <2>2, ReportsBack
<1>4. CreateLaw(law) \/ UpdateLaw(law) \/ UNCHANGED libraryVars
  BY DEF Create, Update, Replicate
<1>5. Fault \/ UNCHANGED faults
  BY DEF Create, Update, Replicate
<1>6. UNCHANGED <<clusterVars, stale, queued, petitionVars, edits>>
  BY DEF Create, Update, Replicate
<1> HIDE DEF law
<1> QED  BY <1>1, <1>2, <1>3, <1>4, <1>5, <1>6, CallStep DEF Mirroring, Retiring

LEMMA RetireStep == Inv /\ Retire => Inv'
<1> SUFFICES ASSUME Inv, Retire PROVE Inv'
  OBVIOUS
<1>1. worker # Idle /\ worker.copy \in Resource /\ worker.call = "retire"
  BY WorkerParts DEF Inv, TypeOK, Retire, On
<1>2. worker.copy.spec \in Law
  BY <1>1, ResourceParts, LibraryAssumption
<1>3. worker' \in Working /\ worker'.copy = worker.copy /\ worker'.call \in {"remove", "status"}
  <2>1. "remove" \in Calls \ {"idle", "status"} /\ "RetireFailed" \in Reasons
    BY DEF Calls, Reasons
  <2>2. Goes("remove") \/ Reports("RetireFailed")
    BY DEF Retire
  <2> QED  BY <1>1, <2>1, <2>2, GoesOn, ReportsBack
<1>4. worker'.call = "remove" => row' = NoLaw
  BY <1>1, WorkerReports DEF Retire, Reports, Reasons, RetireLaw
<1>5. RetireLaw \/ UNCHANGED libraryVars
  BY DEF Retire
<1>6. row' # NoLaw => Kept
  BY <1>5 DEF RetireLaw, libraryVars, Inv, LibraryFollowsCluster, Kept
<1>7. Fault \/ UNCHANGED faults
  BY DEF Retire
<1>8. UNCHANGED <<clusterVars, stale, queued, petitionVars, edits>>
  BY DEF Retire
<1> QED  BY <1>1, <1>2, <1>3, <1>4, <1>5, <1>6, <1>7, <1>8, CallStep DEF Mirroring, Retiring

LEMMA RemoveFinalizerStep == Inv /\ RemoveFinalizer => Inv'
<1> SUFFICES ASSUME Inv, RemoveFinalizer PROVE Inv'
  OBVIOUS
<1>1. CASE Conflicts("copy") /\ Errs /\ UNCHANGED <<cr, stale>>
  BY <1>1, ErrorStep DEF RemoveFinalizer
<1>2. CASE Write(NoLaw) /\ worker' = Idle /\ UNCHANGED <<queued, faults>>
  <2>1. worker'.call = "idle"
    BY <1>2 DEF Idle
  <2>2. row = NoLaw /\ ~InForce(cache)
    BY DEF RemoveFinalizer, Inv, Position, On, Retiring
  <2>3. TypeOK'
    BY <1>2 DEF RemoveFinalizer, Write, Inv, TypeOK, libraryVars, petitionVars
  <2> QED  BY <1>2, <2>1, <2>2, <2>3 DEF RemoveFinalizer, Write, libraryVars, petitionVars, Inv, Fresh,
              Behind, Position, Recorded, LibraryFollowsCluster, InForce, Kept, On, Mirroring, Retiring
<1> QED  BY <1>1, <1>2 DEF RemoveFinalizer

LEMMA PersistStatusStep == Inv /\ PersistStatus => Inv'
<1> SUFFICES ASSUME Inv, PersistStatus PROVE Inv'
  OBVIOUS
<1>1. worker # Idle /\ worker.copy \in Resource /\ worker.reason \in Reasons
  BY WorkerParts DEF Inv, TypeOK, PersistStatus, On
<1>2. worker.copy.spec \in Specs
  BY <1>1, ResourceParts
<1> DEFINE status == [reason |-> worker.reason, of |-> worker.copy.spec]
<1>3. CASE Conflicts("cache") /\ Errs /\ UNCHANGED <<cr, stale>>
  BY <1>3, ErrorStep DEF PersistStatus
<1>4. CASE worker' = Idle /\ UNCHANGED <<cr, stale, faults>> /\ queued' \in BOOLEAN
  <2>1. worker'.call = "idle"
    BY <1>4 DEF Idle
  <2> QED  BY <1>4, <2>1 DEF PersistStatus, libraryVars, petitionVars, Inv, TypeOK, Fresh,
              Behind, Position, Recorded, LibraryFollowsCluster, InForce, Kept, On, Mirroring, Retiring
<1>5. CASE /\ cache # NoLaw /\ "cache" \notin stale /\ worker' = Idle /\ queued' \in BOOLEAN
           /\ Write([cr EXCEPT !.status = status]) /\ UNCHANGED faults
  <2>1. worker'.call = "idle"
    BY <1>5 DEF Idle
  <2>2. cr \in Resource
    BY <1>5 DEF Inv, Fresh, TypeOK
  <2>3. cr' \in Resource /\ cr' # NoLaw /\ cr # NoLaw
        /\ cr'.finalizer = cr.finalizer /\ cr'.deleting = cr.deleting
    BY <1>1, <1>2, <1>5, <2>2, ResourceReports, ResourceParts DEF Write
  <2>4. TypeOK'
    BY <1>5, <2>3 DEF PersistStatus, Write, libraryVars, petitionVars, Inv, TypeOK
  <2> QED  BY <1>5, <2>1, <2>3, <2>4 DEF PersistStatus, Write, libraryVars, petitionVars, Inv, Fresh,
              Behind, Position, Recorded, LibraryFollowsCluster, InForce, Kept, On, Mirroring, Retiring
<1>6. (queued \/ worker.reason \in Retried) \in BOOLEAN
  OBVIOUS
<1> QED  BY <1>3, <1>4, <1>5, <1>6 DEF PersistStatus

-----------------------------------------------------------------------------
(* The theorems.                                                           *)

LEMMA Invariance == Spec => []Inv
<1>1. Inv /\ [Next]_vars => Inv'
  <2> SUFFICES ASSUME Inv, [Next]_vars PROVE Inv'
    OBVIOUS
  <2>1. CASE UNCHANGED vars
    BY <2>1 DEF vars, Inv, TypeOK, Fresh, Behind, Position, Recorded, LibraryFollowsCluster,
       InForce, Kept, On
  <2> QED  BY <2>1, UserSteps, CacheEventStep, RestartStep, ApplicatorSteps, StartStep,
              AddFinalizerStep, ValidateStep, ReplicateStep, RetireStep, RemoveFinalizerStep,
              PersistStatusStep DEF Next, Reconciler
<1> QED  BY <1>1, InitInv, PTL DEF Spec

\* Every reachable state of the law's mirror is well typed: the resource, its
\* copies, the Library's tables and what a petition has read of them.
THEOREM TypeCorrect == Spec => []TypeOK
<1> QED  BY Invariance, PTL DEF Inv

\* A law is in the Library only while its resource exists with the finalizer,
\* whatever the reconciler's copies, its restarts, lost answers and the late
\* write-backs of petitions.
THEOREM NoLawOutlivesItsResource == Spec => []LibraryFollowsCluster
<1> QED  BY Invariance, PTL DEF Inv
=============================================================================
