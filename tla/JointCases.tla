------------------------------ MODULE JointCases ----------------------------
(***************************************************************************)
(* The derived store of joint cases                                          *)
(* (src/backend/app/telemetry/joint_case_store.py,                           *)
(* joint_case_migration.py): its write transactions, each an operator from   *)
(* the store before to the store after it.                                   *)
(*                                                                           *)
(* An anchor is a network incident; its number is its catalog sequence       *)
(* number and, because every discovery scans the catalog in that order, also *)
(* its registration_seq.  A projection is what it was built from: the        *)
(* revision of the network incident and the version of the SSH evidence.     *)
(* Identities of cycles and discoveries (uuid4) are only ever compared with  *)
(* the store's current one, so an identity is None, Now (that of the current *)
(* cycle or discovery) or Gone (that of an earlier one).                     *)
(***************************************************************************)
EXTENDS Integers, Sequences, FiniteSets

CONSTANTS
  Anchors,            \* network incidents: 1 .. n
  Unmapped,           \* anchors the catalog skips: source, destination or profile unmapped
  Refused,            \* <<anchor, revision>> whose evidence is not local TCP: its read is rejected
  RegistrationLimit,  \* StoreLimits.registration_limit
  RevisionLimit       \* StoreLimits.revision_limit

ASSUME JointCasesAssumption ==
  /\ IsFiniteSet(Anchors) /\ Anchors # {} /\ Anchors = 1 .. Cardinality(Anchors)
  /\ Unmapped \subseteq Anchors /\ Refused \subseteq Anchors \X Nat
  /\ RegistrationLimit \in Nat \ {0} /\ RevisionLimit \in Nat \ {0}

Outcomes == {"published", "unchanged", "failed", "not_eligible", "superseded"}
None == "none"
Now == "now"
Gone == "gone"
NoItem == "none"
Aged(id) == IF id = Now THEN Gone ELSE id

\* _SCHEMA: the tables as create leaves them.  `items` and `captured` are joint_cycle_items;
\* finishedLast: the cycle's finished_at is not before the discovery's.
NoRegistration == [requested |-> 0, state |-> "absent", error |-> "none"]
NoDiscovery == [id |-> None, target |-> 0, cursor |-> 0, complete |-> FALSE, error |-> "none"]
NoCycle == [id |-> None, items |-> [i \in Anchors |-> NoItem], captured |-> [i \in Anchors |-> 0],
            finishedLast |-> FALSE]
EmptyStore ==
  [regs |-> [i \in Anchors |-> NoRegistration],
   cases |-> [i \in Anchors |-> << >>],
   generation |-> 0,
   discovery |-> NoDiscovery,
   cycle |-> NoCycle,
   runtime |-> [pending |-> FALSE, discovered |-> FALSE, refresh |-> None, recovery |-> None,
                error |-> "none"]]

Registered(s) == {i \in Anchors : s.regs[i].state # "absent"}
ItemsIn(c, states) == {i \in Anchors : c.items[i] \in states}
Attempted(c) == ItemsIn(c, {"pending"}) = {}
AllRefreshed(c) == Attempted(c) /\ ItemsIn(c, {"failed", "superseded", "not_eligible"}) = {}
Current(s, i) == s.cases[i][Len(s.cases[i])]

\* JointCaseQuery._status: the error a reader of the store sees, the anchors in order.
StatusError(s) ==
  LET faulty == {i \in Anchors : s.regs[i].error # "none"}
  IN  IF s.runtime.error # "none" THEN s.runtime.error
      ELSE IF s.discovery.error # "none" THEN s.discovery.error
      ELSE IF faulty # {} THEN s.regs[CHOOSE i \in faulty : \A j \in faulty : i <= j].error
      ELSE "none"

-----------------------------------------------------------------------------
(* Registration. *)

\* _register: the requests of one page, [anchor -> revision]; a capacity error refuses all of them.
NewAnchors(s, asked) == (DOMAIN asked) \ Registered(s)
FitsRegistrations(s, asked) ==
  Cardinality(Registered(s)) + Cardinality(NewAnchors(s, asked)) <= RegistrationLimit
Register(s, asked) ==
  [s EXCEPT !.regs = [i \in Anchors |->
     IF i \in DOMAIN asked /\ asked[i] > s.regs[i].requested
     THEN [requested |-> asked[i], state |-> "pending", error |-> "none"]
     ELSE s.regs[i]]]

-----------------------------------------------------------------------------
(* Discovery of anchors in the catalog. *)

\* begin_discovery: resumes an unfinished discovery, else replaces the finished one.
BeginDiscovery(s, target) ==
  IF s.discovery.id # None /\ ~s.discovery.complete THEN s
  ELSE LET complete == target < 1
       IN  [s EXCEPT !.discovery = [id |-> Now, target |-> target, cursor |-> 0,
                                    complete |-> complete, error |-> "none"],
                     !.cycle.finishedLast = @ /\ ~complete,
                     !.runtime = [pending |-> @.pending, discovered |-> complete, refresh |-> None,
                                  recovery |-> Now, error |-> IF complete THEN "none" ELSE @.error]]

\* apply_discovery_page: registers the page's anchors and moves the cursor, unless another caller
\* moved it first.
ApplyPage(s, cursor, asked, next, complete) ==
  IF s.discovery.cursor # cursor \/ s.discovery.complete THEN s
  ELSE LET r == Register(s, asked)
       IN  [r EXCEPT !.discovery = [@ EXCEPT !.cursor = next, !.complete = complete,
                                             !.error = "none"],
                     !.cycle.finishedLast = @ /\ ~complete,
                     !.runtime = IF complete /\ (~@.pending \/ @.recovery = Now)
                                 THEN [@ EXCEPT !.discovered = TRUE, !.error = "none"] ELSE @]

\* _record_discovery_failure
DiscoveryFailure(s, code) ==
  [s EXCEPT !.runtime = [pending |-> TRUE, discovered |-> FALSE, refresh |-> None,
                         recovery |-> None, error |-> code]]

\* fail_discovery
FailDiscovery(s, cursor, code) ==
  IF s.discovery.cursor # cursor \/ s.discovery.complete THEN s
  ELSE DiscoveryFailure([s EXCEPT !.discovery.error = code], code)

-----------------------------------------------------------------------------
(* Refresh cycles. *)

(* Mutant of RecoveryComplete: any cycle on record will do. *)
RecoveryOfAnyCycle(s) ==
  /\ s.runtime.pending
  /\ s.discovery.complete /\ s.discovery.error = "none"
  /\ s.cycle.id # None /\ AllRefreshed(s.cycle)
  /\ \A i \in Registered(s) : s.regs[i].state = "fresh"
\* _recover_if_complete: the store is revalidated by a discovery and a cycle, both begun after
\* the failure, that left every registration fresh.
RecoveryComplete(s) ==
  /\ s.runtime.pending /\ s.runtime.discovered /\ s.runtime.error = "none"
  /\ s.discovery.complete /\ s.discovery.error = "none"
  /\ s.runtime.recovery = s.discovery.id
  /\ s.cycle.id # None /\ s.runtime.refresh = s.cycle.id /\ AllRefreshed(s.cycle)
  /\ \A i \in Registered(s) : s.regs[i].state = "fresh"
RecoverIfComplete(s) == IF RecoveryComplete(s) THEN [s EXCEPT !.runtime.pending = FALSE] ELSE s

\* begin_cycle: resumes an unfinished cycle, else freezes the registrations into a new one.
BeginCycle(s) ==
  IF s.cycle.id # None /\ ~Attempted(s.cycle) THEN s
  ELSE RecoverIfComplete(
         [s EXCEPT !.cycle = [id |-> Now,
                              items |-> [i \in Anchors |->
                                IF i \in Registered(s) THEN "pending" ELSE NoItem],
                              captured |-> [i \in Anchors |-> s.regs[i].requested],
                              finishedLast |-> TRUE],
                   !.runtime.refresh = IF s.runtime.pending /\ s.runtime.discovered
                                       THEN Now ELSE Aged(@)])

\* next_item
NextItem(s) == CHOOSE i \in ItemsIn(s.cycle, {"pending"}) :
                 \A j \in ItemsIn(s.cycle, {"pending"}) : i <= j

\* _finish of an item
FinishItem(s, i, outcome) ==
  RecoverIfComplete([s EXCEPT !.cycle.items[i] = outcome, !.cycle.finishedLast = TRUE])

\* _pending: the request changed since the cycle was frozen.
Superseded(s, i) == s.regs[i].requested # s.cycle.captured[i]

\* fail
FailItem(s, i, code) ==
  IF Superseded(s, i) THEN FinishItem(s, i, "superseded")
  ELSE FinishItem([s EXCEPT !.regs[i] = [@ EXCEPT !.state = "unavailable", !.error = code]],
                  i, "failed")

\* publish
HasCase(s, i) == s.cases[i] # << >>
Reject(s, i) ==
  FinishItem([s EXCEPT !.regs[i] = [@ EXCEPT !.state = IF HasCase(s, i) THEN "needs_review"
                                                       ELSE "not_eligible",
                                             !.error = "not_local_tcp"]],
             i, "not_eligible")
SameProjection(v, w) == v.network = w.network /\ v.ssh = w.ssh
Changed(s, i, value) == ~HasCase(s, i) \/ ~SameProjection(Current(s, i), value)
AddRevision(s, i, value) ==
  [s EXCEPT !.cases[i] = Append(@, [network |-> value.network, ssh |-> value.ssh,
                                    generation |-> s.generation + 1]),
            !.generation = @ + 1]
MarkFresh(s, i) == [s EXCEPT !.regs[i] = [@ EXCEPT !.state = "fresh", !.error = "none"]]
Publish(s, i, value) ==
  IF Superseded(s, i) THEN FinishItem(s, i, "superseded")
  ELSE IF <<i, value.network>> \in Refused THEN Reject(s, i)
  ELSE IF ~Changed(s, i, value) THEN FinishItem(MarkFresh(s, i), i, "unchanged")
  ELSE IF s.generation >= RevisionLimit THEN FailItem(s, i, "capacity")
  ELSE FinishItem(MarkFresh(AddRevision(s, i, value), i), i, "published")

-----------------------------------------------------------------------------
(* restore_store: a snapshot under a new identity, to be revalidated. *)

Restored(s) ==
  [s EXCEPT !.discovery = NoDiscovery,
            !.runtime = [@ EXCEPT !.pending = TRUE, !.discovered = FALSE, !.refresh = None,
                                  !.recovery = None]]

\* open and _validated_revisions: what opening or copying a store insists on.
SavedRevisions(s) == UNION {{<<i, r>> : r \in 1 .. Len(s.cases[i])} : i \in Anchors}
OpensCleanly(s) ==
  /\ Cardinality(Registered(s)) <= RegistrationLimit
  /\ s.generation <= RevisionLimit
  /\ Cardinality(SavedRevisions(s)) = s.generation
  /\ {s.cases[v[1]][v[2]].generation : v \in SavedRevisions(s)} = 1 .. s.generation
  /\ \A i \in Anchors : HasCase(s, i) => i \in Registered(s)
=============================================================================
