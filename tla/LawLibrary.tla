----------------------------- MODULE LawLibrary -----------------------------
(***************************************************************************)
(* One law on its way from the cluster into the Library and out again.     *)
(* The operator's Law reconciler mirrors the custom resource into the      *)
(* Librarian's SQLite tables and holds the resource with a finalizer until *)
(* the law is retired; it works on a cached copy, answers of the API       *)
(* server and of the Librarian may fail or be lost, and the operator may   *)
(* die between any two calls.  Beside it the law-applicator retires and    *)
(* demotes laws by petition, reading the law in two queries and writing it *)
(* back in a third.                                                        *)
(*                                                                         *)
(* The Library keeps the law's goal and tier in a row, its scope in a      *)
(* table, and everything in versions it never deletes: what it serves is   *)
(* the row's goal and tier with the newest version's representations.      *)
(***************************************************************************)
EXTENDS Integers, Sequences, SequencesExt

CONSTANTS
  Goals, Tiers, Reps, Kinds,  \* what a law is made of; Kinds: GovernedArtefacts
  Specs,                      \* the laws users write into the resource
  MaxEdits,                   \* creations and edits of the resource
  MaxPetitions,               \* petitions the law-applicator handles
  MaxFaults                   \* failed calls, lost answers, operator restarts

Law == [goal : Goals, tier : Tiers, reps : Reps, kinds : SUBSET Kinds]
Row == [goal : Goals, tier : Tiers]
NoLaw == [absent |-> TRUE]

ASSUME LibraryAssumption ==
  /\ Specs \subseteq Law
  /\ MaxEdits \in Nat /\ MaxPetitions \in Nat /\ MaxFaults \in Nat

VARIABLES
  cr,        \* the Law resource at the API server, or NoLaw
  cache,     \* the operator's informer copy of it
  known,     \* the GovernedArtefacts that exist
  stale,     \* which of "cache" and "copy" is not the stored resource
  queued,    \* the resource waits in the work queue
  worker,    \* the reconciler: its next call and the copy it works on
  row,       \* the law's row in the table laws, or NoLaw
  scope,     \* its rows in law_applies_to
  versions,  \* its rows in law_versions, oldest first
  petition,  \* the law-applicator: its next call and what it has read
  heard,     \* what petitions did to the law since the last edit
  edits, petitions, faults

clusterVars == <<cr, cache, known>>
libraryVars == <<row, scope, versions>>
petitionVars == <<petition, heard, petitions>>
vars == <<cr, cache, known, stale, queued, worker, row, scope, versions,
          petition, heard, edits, petitions, faults>>

Reasons == {"Reconciled", "SyncFailed", "ValidationFailed", "RetireFailed"}
NoStatus == [reason |-> "Unset"]
Resource == [spec : Specs, deleting : BOOLEAN, finalizer : BOOLEAN,
             status : [reason : Reasons, of : Specs] \cup {NoStatus}]

Calls == {"idle", "finalize", "validate", "look", "create", "update",
          "retire", "remove", "status"}
Idle == [call |-> "idle"]
Working == [call : Calls \ {"idle", "status"}, copy : Resource]
           \cup [call : {"status"}, copy : Resource, reason : Reasons]

NoPetition == [call |-> "idle"]
Hearing == [call : {"retire"}] \cup [call : {"read"}, tier : Tiers]
           \cup [call : {"head"}, row : Row]
           \cup [call : {"write"}, law : Law] \cup {NoPetition}

TypeOK ==
  /\ cr \in Resource \cup {NoLaw} /\ cache \in Resource \cup {NoLaw}
  /\ known \subseteq Kinds
  /\ stale \subseteq {"cache", "copy"} /\ queued \in BOOLEAN
  /\ worker \in Working \cup {Idle}
  /\ row \in Row \cup {NoLaw} /\ scope \subseteq Kinds /\ versions \in Seq(Law)
  /\ petition \in Hearing /\ heard \subseteq {"retired", "changed"}
  /\ edits \in 0..MaxEdits /\ petitions \in 0..MaxPetitions /\ faults \in 0..MaxFaults

Init ==
  /\ cr = NoLaw /\ cache = NoLaw /\ known = {} /\ stale = {} /\ queued = FALSE
  /\ worker = Idle
  /\ row = NoLaw /\ scope = {} /\ versions = <<>>
  /\ petition = NoPetition /\ heard = {}
  /\ edits = 0 /\ petitions = 0 /\ faults = 0

Fault == faults < MaxFaults /\ faults' = faults + 1

-----------------------------------------------------------------------------
(* The Library's tables.  Each operation is one transaction: what it       *)
(* leaves, or nothing when it fails.  The connections of the pool enforce  *)
(* foreign keys or not, depending on which of them was set up first.       *)

Seen(law) == \E i \in DOMAIN versions : versions[i] = law
RowOf(law) == [goal |-> law.goal, tier |-> law.tier]
Held == [goal |-> row.goal, tier |-> row.tier,
         reps |-> Last(versions).reps, kinds |-> Last(versions).kinds]

\* createLaw: three plain inserts, each with a primary key.
MayCreate(law) == row = NoLaw /\ scope \cap law.kinds = {} /\ ~Seen(law)
CreateLaw(law) ==
  /\ MayCreate(law)
  /\ row' = RowOf(law) /\ scope' = scope \cup law.kinds
  /\ versions' = Append(versions, law)

\* UpdateLaw does not ask whether its UPDATE found the row, and leaves a
\* version that is there already where it is.
MayRefuse(law) == row = NoLaw /\ law.kinds # {}
UpdateLawUpserts(law) ==
  /\ row' = RowOf(law) /\ scope' = law.kinds
  /\ versions' = IF Seen(law) THEN versions ELSE Append(versions, law)
UpdateLawKeepsTier(law) ==
  /\ row' = IF row = NoLaw THEN NoLaw ELSE [row EXCEPT !.goal = law.goal]
  /\ scope' = law.kinds
  /\ versions' = IF Seen(law) THEN versions ELSE Append(versions, law)
UpdateLaw(law) ==
  /\ row' = IF row = NoLaw THEN NoLaw ELSE RowOf(law)
  /\ scope' = law.kinds
  /\ versions' = IF Seen(law) THEN versions ELSE Append(versions, law)

\* RetireLaw is undone when it finds no row.
RetireLaw == row # NoLaw /\ row' = NoLaw /\ scope' = {} /\ UNCHANGED versions

-----------------------------------------------------------------------------
(* The API server: every write makes all copies stale, and the informer's  *)
(* event about it puts the resource into the work queue.                   *)

Write(resource) == cr' = resource /\ stale' = {"cache", "copy"}

CreateResource(spec) ==
  /\ cr = NoLaw /\ edits < MaxEdits
  /\ Write([spec |-> spec, deleting |-> FALSE, finalizer |-> FALSE, status |-> NoStatus])
  /\ edits' = edits + 1 /\ heard' = {}
  /\ UNCHANGED <<cache, known, queued, worker, row, scope, versions, petition, petitions, faults>>

EditResource(spec) ==
  /\ cr # NoLaw /\ ~cr.deleting /\ cr.spec # spec /\ edits < MaxEdits
  /\ Write([cr EXCEPT !.spec = spec])
  /\ edits' = edits + 1 /\ heard' = {}
  /\ UNCHANGED <<cache, known, queued, worker, row, scope, versions, petition, petitions, faults>>

\* Without a finalizer the API server removes the resource at once.
DeleteResource ==
  /\ cr # NoLaw /\ ~cr.deleting
  /\ Write(IF cr.finalizer THEN [cr EXCEPT !.deleting = TRUE] ELSE NoLaw)
  /\ UNCHANGED <<cache, known, queued, worker, row, scope, versions, petitionVars, edits, faults>>

Govern(kind) ==
  /\ kind \notin known /\ known' = known \cup {kind}
  /\ UNCHANGED <<cr, cache, stale, queued, worker, row, scope, versions, petitionVars, edits, faults>>

CacheEvent ==
  /\ "cache" \in stale
  /\ cache' = cr /\ stale' = stale \ {"cache"} /\ queued' = TRUE
  /\ UNCHANGED <<cr, known, worker, row, scope, versions, petitionVars, edits, faults>>

-----------------------------------------------------------------------------
(* The reconciler.                                                         *)

On(call) == worker.call = call
Goes(call) == worker' = [call |-> call, copy |-> worker.copy]
Reports(reason) == worker' = [call |-> "status", copy |-> worker.copy, reason |-> reason]
\* A reconcile that ends in an error comes again.
Errs == worker' = Idle /\ queued' = TRUE

FirstCallSyncs(resource) == IF resource.deleting THEN "retire" ELSE "validate"
FirstCallDeaf(resource) == IF resource.finalizer THEN "validate" ELSE "finalize"
FirstCall(resource) ==
  IF resource.deleting THEN "retire"
  ELSE IF resource.finalizer THEN "validate" ELSE "finalize"

Start ==
  /\ On("idle") /\ queued /\ queued' = FALSE
  /\ stale' = IF "cache" \in stale THEN stale \cup {"copy"} ELSE stale \ {"copy"}
  /\ worker' = IF cache = NoLaw \/ (cache.deleting /\ ~cache.finalizer) THEN Idle
               ELSE [call |-> FirstCall(cache), copy |-> cache]
  /\ UNCHANGED <<clusterVars, libraryVars, petitionVars, edits, faults>>

\* The API server refuses an update based on a copy that is not the stored
\* resource, and any call of it may fail.
Conflicts(copy) == Fault \/ (copy \in stale /\ UNCHANGED faults)
AddFinalizer ==
  /\ On("finalize")
  /\ \/ /\ "copy" \notin stale
        /\ cr' = [worker.copy EXCEPT !.finalizer = TRUE] /\ stale' = {"cache"}
        /\ worker' = [call |-> "validate", copy |-> cr']
        /\ UNCHANGED <<queued, faults>>
     \/ /\ Conflicts("copy")
        /\ Errs /\ UNCHANGED <<cr, stale>>
  /\ UNCHANGED <<cache, known, libraryVars, petitionVars, edits>>

ValidateAppliesTo ==
  /\ On("validate")
  /\ IF worker.copy.spec.kinds \subseteq known THEN Goes("look")
     ELSE Reports("ValidationFailed")
  /\ UNCHANGED <<clusterVars, stale, queued, libraryVars, petitionVars, edits, faults>>

\* ReplicateLaw asks whether the law exists before it writes.
Look ==
  /\ On("look")
  /\ Goes(IF row = NoLaw THEN "create" ELSE "update")
  /\ UNCHANGED <<clusterVars, stale, queued, libraryVars, petitionVars, edits, faults>>

\* A call of the Librarian is done, refused, or lost with or without its effect.
Replicate(call, op, refused) ==
  /\ On(call)
  /\ \/ op /\ Reports("Reconciled") /\ UNCHANGED faults
     \/ refused /\ UNCHANGED libraryVars /\ Reports("SyncFailed") /\ UNCHANGED faults
     \/ Fault /\ (op \/ UNCHANGED libraryVars) /\ Reports("SyncFailed")
  /\ UNCHANGED <<clusterVars, stale, queued, petitionVars, edits>>

Create == LET law == worker.copy.spec IN Replicate("create", CreateLaw(law), ~MayCreate(law))
Update == LET law == worker.copy.spec IN Replicate("update", UpdateLaw(law), MayRefuse(law))

Retire ==
  /\ On("retire")
  /\ \/ RetireLaw /\ Goes("remove") /\ UNCHANGED faults
     \/ row = NoLaw /\ UNCHANGED libraryVars /\ Reports("RetireFailed") /\ UNCHANGED faults
     \/ Fault /\ (RetireLaw \/ UNCHANGED libraryVars) /\ Reports("RetireFailed")
  /\ UNCHANGED <<clusterVars, stale, queued, petitionVars, edits>>

RemoveFinalizer ==
  /\ On("remove")
  /\ \/ /\ "copy" \notin stale
        /\ Write(NoLaw) /\ worker' = Idle /\ UNCHANGED <<queued, faults>>
     \/ /\ Conflicts("copy")
        /\ Errs /\ UNCHANGED <<cr, stale>>
  /\ UNCHANGED <<cache, known, libraryVars, petitionVars, edits>>

\* persistStatus fetches the resource again, from the cache.  A failed sync or
\* retirement is tried again, a failed validation is not.
Retried == {"SyncFailed", "RetireFailed"}
PersistStatus ==
  /\ On("status")
  /\ LET status == [reason |-> worker.reason, of |-> worker.copy.spec] IN
     \/ /\ cache = NoLaw \/ (cache.status = status /\ "cache" \notin stale)
        /\ UNCHANGED <<cr, stale, faults>>
        /\ worker' = Idle /\ queued' = (queued \/ worker.reason \in Retried)
     \/ /\ cache # NoLaw /\ cache.status # status /\ "cache" \notin stale
        /\ Write([cr EXCEPT !.status = status]) /\ UNCHANGED faults
        /\ worker' = Idle /\ queued' = (queued \/ worker.reason \in Retried)
     \/ /\ cache # NoLaw /\ Conflicts("cache")
        /\ Errs /\ UNCHANGED <<cr, stale>>
  /\ UNCHANGED <<cache, known, libraryVars, petitionVars, edits>>

\* The operator dies and lists the resources anew when it is back.
Restart ==
  /\ Fault
  /\ worker' = Idle /\ cache' = cr /\ stale' = {} /\ queued' = (cr # NoLaw)
  /\ UNCHANGED <<cr, known, libraryVars, petitionVars, edits>>

-----------------------------------------------------------------------------
(* The law-applicator.  A handler that fails may be run again with the same *)
(* petition; one petition at a time names the law.                          *)

Hear ==
  /\ petition = NoPetition /\ petitions < MaxPetitions
  /\ petitions' = petitions + 1
  /\ \/ petition' = [call |-> "retire"]
     \/ \E t \in Tiers : petition' = [call |-> "read", tier |-> t]
  /\ UNCHANGED <<clusterVars, stale, queued, worker, libraryVars, heard, edits, faults>>

ApplyRetire ==
  /\ petition.call = "retire" /\ petition' = NoPetition
  /\ \/ RetireLaw /\ heard' = heard \cup {"retired"}
     \/ row = NoLaw /\ UNCHANGED <<libraryVars, heard>>
  /\ UNCHANGED <<clusterVars, stale, queued, worker, edits, petitions, faults>>

\* GetLaw reads the row and the newest version in two queries.
ReadRow ==
  /\ petition.call = "read"
  /\ petition' = IF row = NoLaw THEN NoPetition
                 ELSE [call |-> "head", row |-> [row EXCEPT !.tier = petition.tier]]
  /\ UNCHANGED <<clusterVars, stale, queued, worker, libraryVars, heard, edits, petitions, faults>>

ReadHead ==
  /\ petition.call = "head"
  /\ petition' = [call |-> "write",
                  law |-> [goal |-> petition.row.goal, tier |-> petition.row.tier,
                           reps |-> Last(versions).reps, kinds |-> Last(versions).kinds]]
  /\ UNCHANGED <<clusterVars, stale, queued, worker, libraryVars, heard, edits, petitions, faults>>

WriteBack ==
  /\ petition.call = "write" /\ petition' = NoPetition
  /\ \/ UpdateLaw(petition.law) /\ heard' = heard \cup {"changed"}
     \/ MayRefuse(petition.law) /\ UNCHANGED <<libraryVars, heard>>
  /\ UNCHANGED <<clusterVars, stale, queued, worker, edits, petitions, faults>>

PetitionFails ==
  /\ petition # NoPetition /\ petition' = NoPetition
  /\ UNCHANGED <<clusterVars, stale, queued, worker, libraryVars, heard, edits, petitions, faults>>

-----------------------------------------------------------------------------
User == (\E s \in Specs : CreateResource(s) \/ EditResource(s)) \/ DeleteResource
        \/ \E k \in Kinds : Govern(k)
Reconciler == \/ Start \/ AddFinalizer \/ ValidateAppliesTo \/ Look \/ Create \/ Update
              \/ Retire \/ RemoveFinalizer \/ PersistStatus
Applicator == Hear \/ ApplyRetire \/ ReadRow \/ ReadHead \/ WriteBack \/ PetitionFails

Next == User \/ CacheEvent \/ Reconciler \/ Restart \/ Applicator

Spec == Init /\ [][Next]_vars
\* The informer delivers and the work queue is served.
FairSpec == Spec /\ WF_vars(CacheEvent) /\ WF_vars(Reconciler)

-----------------------------------------------------------------------------
(* Properties.                                                             *)

\* The Library holds a law only while its resource exists and carries the
\* finalizer: no order of restarts, lost answers, stale copies and late
\* write-backs of petitions leaves or brings back a law that nobody can
\* delete any more.
LibraryFollowsCluster == row # NoLaw => cr # NoLaw /\ cr.finalizer

\* A law whose resource is deleted leaves the Library, whatever fails on the
\* way.  (The resource itself may stay for ever.)
DeletedLeaves == (cr # NoLaw /\ cr.deleting) ~> (row = NoLaw)

Wanted(spec) == cr # NoLaw /\ ~cr.deleting /\ cr.spec = spec
\* What the tables cannot take or do not serve: a law that was there before.
Recurs(spec) ==
  IF row = NoLaw THEN Seen(spec) \/ scope \cap spec.kinds # {}
  ELSE Seen(spec) /\ (Last(versions).reps # spec.reps \/ Last(versions).kinds # spec.kinds)
Rejected(spec) == cr.status = [reason |-> "ValidationFailed", of |-> spec]

\* An edit reaches the Library: what the resource says is what GetLaw answers
\* in the end, unless a petition changed the law since, its content was there
\* before, or it was rejected for an artefact that did not exist then.
Settles ==
  \A s \in Specs : Wanted(s) ~>
    \/ row # NoLaw /\ Held = s
    \/ ~Wanted(s) \/ heard # {} \/ Recurs(s) \/ Rejected(s)
=============================================================================
