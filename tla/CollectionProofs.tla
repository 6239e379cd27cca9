-------------------------- MODULE CollectionProofs --------------------------
(***************************************************************************)
(* What is collected and packaged is not lost: the recovery packages on    *)
(* the control node and its peers (RecoveryStore), the entries of an SSH   *)
(* source (SshCollection) and of a network source (NetworkCollection), and *)
(* the lines of an HTTP log, across recovery packages too (HttpRecovery).  *)
(***************************************************************************)
EXTENDS SshCollection, RecoveryStore, NetworkCollection, HttpRecovery, DataLemmas

-----------------------------------------------------------------------------
(* The packages.  The inductive invariant.                                 *)

Holders(p) == {n \in Peers : p \in held[n]}
Whole(p) == {"SHA256SUMS", "manifest", "object"} \subseteq shelf[p]

(* What may be taken away: enough peers hold it and enough newer packages  *)
(* were built.                                                             *)
Expendable(p) == Cardinality(Holders(p)) >= Require /\ p + Keep =< published

Offers == [id : PackageIds, sums : BOOLEAN, confirmed : BOOLEAN]
Runs == [at : {"idle", "next", "fetch", "object", "ack"}, todo : SUBSET Offers]
Rotations == [todo : SUBSET PackageIds, left : SUBSET (1..4), records : SUBSET Peers]

ShelfTyped ==
  /\ shelf \in [PackageIds -> SUBSET PackageFiles]
  /\ confirmed \in [PackageIds -> SUBSET Peers]
  /\ published \in 0..MaxPackages
  /\ held \in [Peers -> SUBSET PackageIds]
  /\ puller \in [Peers -> Runs]
  /\ rotation \in Rotations

(* A package that is not whole is expendable; what was never built is not  *)
(* there.                                                                  *)
ShelfSafe ==
  \A p \in PackageIds :
    /\ p =< published => Whole(p) \/ Expendable(p)
    /\ p > published => shelf[p] = {}

(* A peer's confirmation says that it holds the package.                   *)
ConfirmedIsHeld == \A p \in PackageIds : confirmed[p] \subseteq Holders(p)

(* A run treats an entry while it is not between two, and confirms what it *)
(* holds.                                                                  *)
RunSafe(run, holds) ==
  /\ run.at \in {"fetch", "object", "ack"} => run.todo # {}
  /\ run.at = "ack" => First(run.todo).id \in holds
RunsSafe == \A n \in Peers : RunSafe(puller[n], held[n])

(* A rotation works on what its scan found: that stays expendable.         *)
RotationSafe ==
  /\ \A p \in rotation.todo : Expendable(p)
  /\ rotation.left # {} => rotation.todo # {}

ShelfInv == ShelfTyped /\ ShelfSafe /\ ConfirmedIsHeld /\ RunsSafe /\ RotationSafe

-----------------------------------------------------------------------------
(* The entry a run treats is one of those it has to treat.                 *)
LEMMA FirstOffer ==
    ASSUME NEW todo \in SUBSET Offers, todo # {}
    PROVE  First(todo) \in todo /\ First(todo).id \in PackageIds
  <1> DEFINE ids == {e.id : e \in todo}
  <1>1. \A e \in todo : e.id \in PackageIds
    BY DEF Offers
  <1>2. ids \in SUBSET Nat /\ ids # {}
    BY <1>1 DEF PackageIds
  <1> HIDE DEF ids
  <1>3. PICK x \in ids : \A y \in ids : x =< y
    BY <1>2, LeastNat
  <1>4. PICK e \in todo : e.id = x
    BY <1>3 DEF ids
  <1>5. \A f \in todo : e.id =< f.id
    BY <1>3, <1>4 DEF ids
  <1>6. First(todo) \in todo
    BY <1>5 DEF First
  <1>7. QED
    BY <1>1, <1>6

(* The package a rotation works on is one of those it has to remove.       *)
LEMMA RotatedPackage ==
    ASSUME NEW todo \in SUBSET PackageIds, todo # {}
    PROVE  Max(todo) \in todo /\ Max(todo) \in PackageIds
  <1>1. /\ todo \in SUBSET Int /\ MaxPackages \in Nat
        /\ \A x \in todo : x =< MaxPackages
    BY RecoveryStoreAssumption DEF PackageIds
  <1>2. Max(todo) \in todo
    BY <1>1, MaxOfBounded
  <1>3. QED
    BY <1>2

(* The holders of a package are a finite set that only grows.              *)
LEMMA HoldersGrow ==
    ASSUME NEW p \in PackageIds, \A n \in Peers : held[n] \subseteq held'[n]
    PROVE  /\ IsFiniteSet(Holders(p)) /\ Cardinality(Holders(p)) \in Nat
           /\ Holders(p) \subseteq Holders(p)'
           /\ Cardinality(Holders(p)') \in Nat
           /\ Cardinality(Holders(p)) =< Cardinality(Holders(p)')
  <1>1. /\ Holders(p) \in SUBSET Peers /\ Holders(p)' \in SUBSET Peers
        /\ Holders(p) \in SUBSET Holders(p)'
    BY DEF Holders
  <1>2. IsFiniteSet(Holders(p)) /\ IsFiniteSet(Holders(p)')
    BY <1>1, FS_Subset, RecoveryStoreAssumption
  <1>3. Cardinality(Holders(p)) =< Cardinality(Holders(p)')
    BY <1>1, <1>2, FS_Subset
  <1>4. QED
    BY <1>1, <1>2, <1>3, FS_CardinalityType

LEMMA ExpendableKept ==
    ASSUME NEW p \in PackageIds, published \in Nat, published' \in Nat, published =< published',
           \A n \in Peers : held[n] \subseteq held'[n], Expendable(p)
    PROVE  Expendable(p)'
  <1>1. p \in Nat /\ Keep \in Nat /\ Require \in Nat
    BY RecoveryStoreAssumption DEF PackageIds
  <1>2. QED
    BY <1>1, HoldersGrow DEF Expendable

LEMMA ShelfInitInv == ShelfInit => ShelfInv
  <1> SUFFICES ASSUME ShelfInit PROVE ShelfInv
    OBVIOUS
  <1>1. ShelfTyped
    <2>1. Resting \in Runs /\ NoRotation \in Rotations
      BY DEF Resting, Runs, NoRotation, Rotations
    <2>2. QED
      BY <2>1, RecoveryStoreAssumption DEF ShelfInit, ShelfTyped
  <1>2. ShelfSafe
    BY RecoveryStoreAssumption DEF ShelfInit, ShelfSafe, PackageIds
  <1>3. ConfirmedIsHeld /\ RunsSafe /\ RotationSafe
    BY DEF ShelfInit, ConfirmedIsHeld, RunsSafe, RunSafe, RotationSafe, Resting, NoRotation
  <1>4. QED
    BY <1>1, <1>2, <1>3 DEF ShelfInv

-----------------------------------------------------------------------------
(* A run of a peer that changes nothing but itself.                        *)
LEMMA RunInv ==
    ASSUME ShelfInv, NEW n \in Peers, NEW run \in Runs, RunSafe(run, held[n]),
           puller' = [puller EXCEPT ![n] = run],
           UNCHANGED <<shelf, confirmed, published, held, rotation>>
    PROVE  ShelfInv'
  <1>1. ShelfTyped'
    BY DEF ShelfInv, ShelfTyped
  <1>2. ShelfSafe' /\ ConfirmedIsHeld' /\ RotationSafe'
    BY DEF ShelfInv, ShelfSafe, ConfirmedIsHeld, RotationSafe, Whole, Expendable, Holders
  <1>3. RunsSafe'
    BY DEF ShelfInv, RunsSafe, ShelfTyped
  <1>4. QED
    BY <1>1, <1>2, <1>3 DEF ShelfInv

LEMMA RestingSafe ==
    /\ Resting \in Runs
    /\ \A holds : RunSafe(Resting, holds)
  BY DEF Resting, Runs, RunSafe

(* The run of a peer, before a step, is well formed.                       *)
LEMMA RunTyped ==
    ASSUME ShelfInv, NEW n \in Peers
    PROVE  /\ puller[n] \in Runs /\ puller[n].todo \in SUBSET Offers
           /\ RunSafe(puller[n], held[n])
           /\ \A step \in {"next", "fetch", "object", "ack"} :
                [at |-> step, todo |-> puller[n].todo] \in Runs
           /\ [at |-> "next", todo |-> puller[n].todo \ {Treated(n)}] \in Runs
  BY DEF ShelfInv, ShelfTyped, RunsSafe, Runs

LEMMA StartPullInv ==
    ASSUME ShelfInv, NEW n \in Peers, StartPull(n)
    PROVE  ShelfInv'
  <1> DEFINE todo == {Entry(n, p) : p \in Listed}
  <1>1. \A p \in PackageIds : Entry(n, p) \in Offers
    BY DEF Entry, Offers
  <1>2. Listed \subseteq PackageIds
    BY DEF Listed
  <1>3. todo \in SUBSET Offers
    BY <1>1, <1>2
  <1> HIDE DEF todo
  <1>4. [at |-> "next", todo |-> todo] \in Runs /\ RunSafe([at |-> "next", todo |-> todo], held[n])
    BY <1>3 DEF Runs, RunSafe
  <1>5. QED
    BY <1>4, RunInv DEF StartPull, todo

LEMMA NextEntryInv ==
    ASSUME ShelfInv, NEW n \in Peers, NextEntry(n)
    PROVE  ShelfInv'
  <1>1. UNCHANGED <<shelf, confirmed, published, held, rotation>>
    BY DEF NextEntry
  <1>2. CASE GiveUp(n)
    BY <1>1, <1>2, RunInv, RestingSafe DEF GiveUp
  <1>3. CASE Done(n)
    <2>1. RunSafe([at |-> "next", todo |-> puller[n].todo \ {Treated(n)}], held[n])
      BY DEF RunSafe
    <2>2. QED
      BY <1>1, <1>3, <2>1, RunInv, RunTyped DEF Done
  <1>4. CASE puller[n].todo # {} /\ Turn(n, "fetch")
    <2>1. RunSafe([at |-> "fetch", todo |-> puller[n].todo], held[n])
      BY <1>4 DEF RunSafe
    <2>2. QED
      BY <1>1, <1>4, <2>1, RunInv, RunTyped DEF Turn
  <1>5. CASE puller[n].todo # {} /\ Treated(n).id \in held[n] /\ Turn(n, "ack")
    <2>1. RunSafe([at |-> "ack", todo |-> puller[n].todo], held[n])
      BY <1>5 DEF RunSafe, Treated
    <2>2. QED
      BY <1>1, <1>5, <2>1, RunInv, RunTyped DEF Turn
  <1>6. QED
    BY <1>2, <1>3, <1>4, <1>5 DEF NextEntry

LEMMA FetchSumsInv ==
    ASSUME ShelfInv, NEW n \in Peers, FetchSums(n)
    PROVE  ShelfInv'
  <1>1. UNCHANGED <<shelf, confirmed, published, held, rotation>> /\ puller[n].at = "fetch"
    BY DEF FetchSums, At
  <1>2. CASE GiveUp(n)
    BY <1>1, <1>2, RunInv, RestingSafe DEF GiveUp
  <1>3. CASE Turn(n, "object")
    <2>1. RunSafe([at |-> "object", todo |-> puller[n].todo], held[n])
      BY <1>1, RunTyped DEF RunSafe
    <2>2. QED
      BY <1>1, <1>3, <2>1, RunInv, RunTyped DEF Turn
  <1>4. QED
    BY <1>2, <1>3 DEF FetchSums

(* The copy is in place before the confirmation is asked for.              *)
LEMMA FetchObjectInv ==
    ASSUME ShelfInv, NEW n \in Peers, FetchObject(n)
    PROVE  ShelfInv'
  <1> DEFINE p == Treated(n).id
             run == [at |-> "ack", todo |-> puller[n].todo]
  <1>1. UNCHANGED <<shelf, confirmed, published, rotation>> /\ puller[n].at = "object"
    BY DEF FetchObject, At
  <1>2. puller[n].todo # {} /\ p \in PackageIds
    BY <1>1, RunTyped, FirstOffer DEF RunSafe, Treated
  <1>3. CASE GiveUp(n) /\ UNCHANGED held
    BY <1>1, <1>3, RunInv, RestingSafe DEF GiveUp
  <1>4. CASE held' = [held EXCEPT ![n] = @ \cup {p}] /\ Turn(n, "ack")
    <2> HIDE DEF p
    <2>1. /\ held' \in [Peers -> SUBSET PackageIds]
          /\ \A m \in Peers : held[m] \subseteq held'[m]
          /\ p \in held'[n]
      BY <1>2, <1>4 DEF ShelfInv, ShelfTyped
    <2>2. puller' = [puller EXCEPT ![n] = run] /\ run \in Runs
      BY <1>4, RunTyped DEF Turn
    <2>3. ShelfTyped'
      BY <1>1, <2>1, <2>2 DEF ShelfInv, ShelfTyped
    <2>4. \A q \in PackageIds : Holders(q) \subseteq Holders(q)' /\ (Expendable(q) => Expendable(q)')
      BY <1>1, <2>1, ExpendableKept, HoldersGrow DEF ShelfInv, ShelfTyped
    <2>5. ShelfSafe'
      BY <1>1, <2>4 DEF ShelfInv, ShelfSafe, Whole
    <2>6. ConfirmedIsHeld'
      BY <1>1, <2>4 DEF ShelfInv, ConfirmedIsHeld
    <2>7. RotationSafe'
      BY <1>1, <2>4 DEF ShelfInv, RotationSafe, ShelfTyped, Rotations
    <2>8. RunSafe(run, held'[n])
      BY <1>2, <2>1 DEF RunSafe, Treated, p
    <2>9. RunsSafe'
      <3>1. ASSUME NEW m \in Peers PROVE RunSafe(puller'[m], held'[m])
        <4>1. CASE m = n
          BY <2>2, <2>8, <4>1 DEF ShelfInv, ShelfTyped
        <4>2. CASE m # n
          <5>1. puller'[m] = puller[m] /\ held[m] \subseteq held'[m]
            BY <2>1, <2>2, <4>2 DEF ShelfInv, ShelfTyped
          <5>2. QED
            BY <5>1 DEF ShelfInv, RunsSafe, RunSafe
        <4>3. QED
          BY <4>1, <4>2
      <3>2. QED
        BY <3>1 DEF RunsSafe
    <2>10. QED
      BY <2>3, <2>5, <2>6, <2>7, <2>9 DEF ShelfInv
  <1>5. QED
    BY <1>3, <1>4 DEF FetchObject

LEMMA AcknowledgeInv ==
    ASSUME ShelfInv, NEW n \in Peers, Acknowledge(n)
    PROVE  ShelfInv'
  <1> DEFINE p == Treated(n).id
             run == [at |-> "next", todo |-> puller[n].todo \ {Treated(n)}]
  <1>1. UNCHANGED <<published, held, rotation>> /\ puller[n].at = "ack"
    BY DEF Acknowledge, At
  <1>2. puller[n].todo # {} /\ p \in PackageIds /\ p \in held[n]
    BY <1>1, RunTyped, FirstOffer DEF RunSafe, Treated
  <1>3. CASE GiveUp(n) /\ UNCHANGED <<confirmed, shelf>>
    BY <1>1, <1>3, RunInv, RestingSafe DEF GiveUp
  <1>4. CASE /\ HasManifest(p)
             /\ confirmed' = [confirmed EXCEPT ![p] = @ \cup {n}]
             /\ shelf' = [shelf EXCEPT ![p] = @ \cup {"confirmations"}]
             /\ Done(n)
    <2> HIDE DEF p
    <2>1. puller' = [puller EXCEPT ![n] = run] /\ run \in Runs /\ RunSafe(run, held[n])
      BY <1>4, RunTyped DEF Done, RunSafe
    <2>2. ShelfTyped'
      BY <1>1, <1>2, <1>4, <2>1 DEF ShelfInv, ShelfTyped, PackageFiles
    <2>3. \A q \in PackageIds : /\ shelf[q] \subseteq shelf'[q]
                                /\ q # p => shelf'[q] = shelf[q]
      BY <1>2, <1>4 DEF ShelfInv, ShelfTyped
    <2>4. \A q \in PackageIds : Expendable(q)' = Expendable(q) /\ Holders(q)' = Holders(q)
      BY <1>1 DEF Expendable, Holders
    <2>5. p =< published
      <3>1. shelf[p] # {}
        BY <1>4 DEF HasManifest
      <3>2. p \in Nat /\ published \in Nat
        BY <1>2 DEF ShelfInv, ShelfTyped, PackageIds
      <3>3. QED
        BY <1>2, <3>1, <3>2 DEF ShelfInv, ShelfSafe
    <2>6. ShelfSafe'
      BY <1>1, <2>3, <2>4, <2>5 DEF ShelfInv, ShelfSafe, Whole, ShelfTyped, PackageIds
    <2>7. ConfirmedIsHeld'
      BY <1>2, <1>4, <2>4 DEF ShelfInv, ShelfTyped, ConfirmedIsHeld, Holders
    <2>8. RunsSafe'
      BY <1>1, <2>1 DEF ShelfInv, ShelfTyped, RunsSafe
    <2>9. RotationSafe'
      BY <1>1, <2>4 DEF ShelfInv, RotationSafe, ShelfTyped, Rotations
    <2>10. QED
      BY <2>2, <2>6, <2>7, <2>8, <2>9 DEF ShelfInv
  <1>5. QED
    BY <1>3, <1>4 DEF Acknowledge

LEMMA PullFailsInv ==
    ASSUME ShelfInv, NEW n \in Peers, PullFails(n)
    PROVE  ShelfInv'
  BY RunInv, RestingSafe DEF PullFails, GiveUp

-----------------------------------------------------------------------------
LEMMA PublishPackageInv ==
    ASSUME ShelfInv, PublishPackage
    PROVE  ShelfInv'
  <1>1. /\ published \in Nat /\ published' = published + 1 /\ published' \in 0..MaxPackages
        /\ published' \in PackageIds
    BY RecoveryStoreAssumption DEF ShelfInv, ShelfTyped, PublishPackage, PackageIds
  <1>2. UNCHANGED <<confirmed, held, puller, rotation>>
    BY DEF PublishPackage
  <1>3. /\ shelf' \in [PackageIds -> SUBSET PackageFiles]
        /\ shelf'[published'] = PackageFiles
        /\ \A q \in PackageIds : q # published' => shelf'[q] = shelf[q]
    BY <1>1 DEF ShelfInv, ShelfTyped, PublishPackage
  <1>4. ShelfTyped'
    BY <1>1, <1>2, <1>3 DEF ShelfInv, ShelfTyped
  <1>5. \A q \in PackageIds : Holders(q)' = Holders(q) /\ (Expendable(q) => Expendable(q)')
    BY <1>1, <1>2, ExpendableKept DEF Holders
  <1>6. ASSUME NEW q \in PackageIds
        PROVE  /\ q =< published' => Whole(q)' \/ Expendable(q)'
               /\ q > published' => shelf'[q] = {}
    <2>1. q \in Nat
      BY DEF PackageIds
    <2>2. CASE q = published'
      BY <1>1, <1>3, <2>1, <2>2 DEF Whole, PackageFiles
    <2>3. CASE q # published'
      BY <1>1, <1>3, <1>5, <2>1, <2>3 DEF ShelfInv, ShelfSafe, Whole
    <2>4. QED
      BY <2>2, <2>3
  <1>7. ShelfSafe'
    BY <1>6 DEF ShelfSafe
  <1>8. ConfirmedIsHeld' /\ RunsSafe' /\ RotationSafe'
    BY <1>2, <1>5
       DEF ShelfInv, ShelfTyped, Rotations, ConfirmedIsHeld, RunsSafe, RotationSafe
  <1>9. QED
    BY <1>4, <1>7, <1>8 DEF ShelfInv

(* A package the scan finds removable has enough holders, and Keep readable*)
(* packages that were built after it.                                      *)
LEMMA RemovableIsExpendable ==
    ASSUME ShelfInv, NEW p \in Removable
    PROVE  p \in PackageIds /\ Expendable(p)
  <1> DEFINE newer == {q \in ReadableIds : q > p}
  <1>1. /\ p \in PackageIds /\ p \in ReadableIds /\ p \notin Newest(Keep)
        /\ Cardinality(confirmed[p]) >= Require
    BY DEF Removable, ReadableIds
  <1>2. ReadableIds \subseteq 1..published
    <2>1. ASSUME NEW q \in ReadableIds
          PROVE  q \in 1..published
      <3>1. q \in PackageIds /\ shelf[q] # {} /\ published \in Nat
        BY DEF ReadableIds, HasManifest, ShelfInv, ShelfTyped
      <3>2. ~(q > published)
        BY <3>1 DEF ShelfInv, ShelfSafe
      <3>3. QED
        BY <3>1, <3>2 DEF PackageIds
    <2>2. QED
      BY <2>1
  <1>3. p \in 1..published /\ published \in Nat
    BY <1>1, <1>2 DEF ShelfInv, ShelfTyped
  <1>4. newer \in SUBSET ((p + 1)..published)
    <2>1. ASSUME NEW q \in newer
          PROVE  q \in (p + 1)..published
      <3>1. q \in 1..published /\ q > p
        BY <1>2
      <3>2. QED
        BY <1>3, <3>1
    <2>2. QED
      BY <2>1
  <1>5. Cardinality(newer) =< published - p /\ Cardinality(newer) \in Nat
    <2>1. IsFiniteSet((p + 1)..published) /\ Cardinality((p + 1)..published) = published - p
      BY <1>3, FS_Interval
    <2>2. IsFiniteSet(newer) /\ Cardinality(newer) =< Cardinality((p + 1)..published)
      <3> HIDE DEF newer
      <3> QED
        BY <1>4, <2>1, FS_Subset
    <2>3. Cardinality(newer) \in Nat
      BY <2>2, FS_CardinalityType
    <2>4. QED
      BY <2>1, <2>2, <2>3
  <1>6. ~(Cardinality(newer) < Keep)
    BY <1>1 DEF Newest
  <1>7. p + Keep =< published
    <2> HIDE DEF newer
    <2> QED
      BY <1>3, <1>5, <1>6, RecoveryStoreAssumption
  <1>8. Cardinality(Holders(p)) >= Require
    <2>1. confirmed[p] \in SUBSET Holders(p)
      BY <1>1 DEF ShelfInv, ConfirmedIsHeld
    <2>2. Holders(p) \in SUBSET Peers
      BY DEF Holders
    <2>3. IsFiniteSet(Holders(p)) /\ IsFiniteSet(confirmed[p])
      BY <2>1, <2>2, FS_Subset, RecoveryStoreAssumption
    <2>4. Cardinality(confirmed[p]) =< Cardinality(Holders(p))
      BY <2>1, <2>3, FS_Subset
    <2>5. Cardinality(confirmed[p]) \in Nat /\ Cardinality(Holders(p)) \in Nat
      BY <2>3, FS_CardinalityType
    <2>6. QED
      BY <1>1, <2>4, <2>5, RecoveryStoreAssumption
  <1>9. QED
    BY <1>1, <1>7, <1>8 DEF Expendable

(* A step of the rotation that changes nothing but itself.                 *)
LEMMA RotateInv ==
    ASSUME ShelfInv, rotation' \in Rotations,
           \A p \in rotation'.todo : Expendable(p),
           rotation'.left # {} => rotation'.todo # {},
           UNCHANGED <<shelf, confirmed, published, held, puller>>
    PROVE  ShelfInv'
  <1>1. ShelfTyped'
    BY DEF ShelfInv, ShelfTyped
  <1>2. ShelfSafe' /\ ConfirmedIsHeld' /\ RunsSafe'
    BY DEF ShelfInv, ShelfSafe, ConfirmedIsHeld, RunsSafe, Whole, Expendable, Holders
  <1>3. RotationSafe'
    BY DEF RotationSafe, Expendable, Holders
  <1>4. QED
    BY <1>1, <1>2, <1>3 DEF ShelfInv

LEMMA NoRotationFields ==
    ASSUME NEW todo \in SUBSET PackageIds
    PROVE  /\ [NoRotation EXCEPT !.todo = todo] \in Rotations
           /\ [NoRotation EXCEPT !.todo = todo].todo = todo
           /\ [NoRotation EXCEPT !.todo = todo].left = {}
           /\ NoRotation \in Rotations /\ NoRotation.todo = {} /\ NoRotation.left = {}
  BY DEF NoRotation, Rotations

LEMMA RotationTyped ==
    ASSUME ShelfInv
    PROVE  /\ rotation \in Rotations /\ rotation.todo \in SUBSET PackageIds
           /\ rotation.left \in SUBSET (1..4) /\ rotation.records \in SUBSET Peers
           /\ \A p \in rotation.todo : Expendable(p)
           /\ rotation.left # {} => rotation.todo # {}
  BY DEF ShelfInv, ShelfTyped, Rotations, RotationSafe

LEMMA PruneScanInv ==
    ASSUME ShelfInv, PruneScan
    PROVE  ShelfInv'
  <1>1. Removable \in SUBSET PackageIds /\ \A p \in Removable : Expendable(p)
    BY RemovableIsExpendable
  <1>2. QED
    BY <1>1, NoRotationFields, RotateInv DEF PruneScan

LEMMA PruneOpenInv ==
    ASSUME ShelfInv, PruneOpen
    PROVE  ShelfInv'
  <1> DEFINE p == Max(rotation.todo)
             rest == rotation.todo \ {p}
             opened == [todo |-> rotation.todo, records |-> confirmed[p],
                        left |-> {i \in DOMAIN FileOrder : FileOrder[i] \in shelf[p]}]
  <1>1. p \in rotation.todo /\ p \in PackageIds
    BY RotationTyped, RotatedPackage DEF PruneOpen
  <1>2. UNCHANGED <<shelf, confirmed, published, held, puller>> /\ rotation.todo # {}
    BY DEF PruneOpen
  <1>3. CASE rotation' = [NoRotation EXCEPT !.todo = rest]
    <2>1. rest \in SUBSET PackageIds /\ \A q \in rest : Expendable(q)
      BY RotationTyped
    <2> HIDE DEF rest
    <2>2. QED
      BY <1>2, <1>3, <2>1, NoRotationFields, RotateInv
  <1>4. CASE rotation' = opened
    <2>1. DOMAIN FileOrder = 1..4
      BY DEF FileOrder
    <2>2. confirmed[p] \in SUBSET Peers
      BY <1>1 DEF ShelfInv, ShelfTyped
    <2> HIDE DEF p
    <2>3. opened \in Rotations /\ opened.todo = rotation.todo
      BY <2>1, <2>2, RotationTyped DEF Rotations
    <2> HIDE DEF opened
    <2>4. QED
      BY <1>2, <1>4, <2>3, RotationTyped, RotateInv
  <1>5. QED
    BY <1>3, <1>4 DEF PruneOpen

(* A file goes only from an expendable package.                            *)
LEMMA PruneFileInv ==
    ASSUME ShelfInv, PruneFile
    PROVE  ShelfInv'
  <1> DEFINE p == Max(rotation.todo)
             f == FileOrder[Min(rotation.left)]
             left == rotation.left \ {Min(rotation.left)}
             todo == rotation.todo \ {p}
  <1>1. p \in rotation.todo /\ p \in PackageIds
    BY RotationTyped, RotatedPackage DEF PruneFile
  <1>2. UNCHANGED <<published, held, puller>>
    BY DEF PruneFile
  <1>3. \/ shelf' = shelf
        \/ shelf' = [shelf EXCEPT ![p] = @ \ {f}]
    BY Zenon DEF PruneFile
  <1>4. \/ confirmed' = confirmed
        \/ confirmed' = [confirmed EXCEPT ![p] = @ \ rotation.records]
    BY Zenon DEF PruneFile
  <1>5. \/ rotation' = NoRotation
        \/ rotation' = [rotation EXCEPT !.left = left]
        \/ rotation' = [NoRotation EXCEPT !.todo = todo]
    BY Zenon DEF PruneFile
  <1>6. Expendable(p) /\ todo \in SUBSET PackageIds /\ todo \subseteq rotation.todo
        /\ left \in SUBSET (1..4)
    BY <1>1, RotationTyped
  <1> HIDE DEF p, f, left, todo
  <1>7. /\ shelf' \in [PackageIds -> SUBSET PackageFiles]
        /\ \A q \in PackageIds : shelf'[q] \subseteq shelf[q] /\ (q # p => shelf'[q] = shelf[q])
    BY <1>1, <1>3 DEF ShelfInv, ShelfTyped
  <1>8. /\ confirmed' \in [PackageIds -> SUBSET Peers]
        /\ \A q \in PackageIds : confirmed'[q] \subseteq confirmed[q]
    BY <1>1, <1>4 DEF ShelfInv, ShelfTyped
  <1>9. rotation' \in Rotations /\ rotation'.todo \subseteq rotation.todo
    <2>1. CASE rotation' = NoRotation
      BY <2>1, NoRotationFields
    <2>2. CASE rotation' = [rotation EXCEPT !.left = left]
      BY <1>6, <2>2, RotationTyped DEF Rotations
    <2>3. CASE rotation' = [NoRotation EXCEPT !.todo = todo]
      BY <1>6, <2>3, NoRotationFields
    <2>4. QED
      BY <1>5, <2>1, <2>2, <2>3
  <1>10. rotation'.left # {} => rotation'.todo # {}
    <2>1. CASE rotation' = [rotation EXCEPT !.left = left]
      <3>1. rotation'.todo = rotation.todo
        BY <2>1, RotationTyped DEF Rotations
      <3>2. QED
        BY <1>1, <3>1
    <2>2. CASE rotation' = NoRotation \/ rotation' = [NoRotation EXCEPT !.todo = todo]
      BY <1>6, <2>2, NoRotationFields
    <2>3. QED
      BY <1>5, <2>1, <2>2
  <1>11. ShelfTyped'
    BY <1>2, <1>7, <1>8, <1>9 DEF ShelfInv, ShelfTyped
  <1>12. \A q \in PackageIds : Expendable(q)' = Expendable(q) /\ Holders(q)' = Holders(q)
    BY <1>2 DEF Expendable, Holders
  <1>13. ShelfSafe'
    BY <1>1, <1>2, <1>6, <1>7, <1>12 DEF ShelfInv, ShelfSafe, Whole
  <1>14. ConfirmedIsHeld' /\ RunsSafe'
    BY <1>2, <1>8, <1>12 DEF ShelfInv, ConfirmedIsHeld, RunsSafe
  <1>15. RotationSafe'
    BY <1>9, <1>10, <1>12, RotationTyped DEF RotationSafe
  <1>16. QED
    BY <1>11, <1>13, <1>14, <1>15 DEF ShelfInv

LEMMA ShelfStepInv == ShelfInv /\ [ShelfNext]_shelfVars => ShelfInv'
  <1> SUFFICES ASSUME ShelfInv, [ShelfNext]_shelfVars PROVE ShelfInv'
    OBVIOUS
  <1>1. CASE PublishPackage \/ Prune
    BY <1>1, PublishPackageInv, PruneScanInv, PruneOpenInv, PruneFileInv DEF Prune
  <1>2. CASE PruneFails
    <2>1. rotation' = NoRotation /\ UNCHANGED <<shelf, confirmed, published, held, puller>>
      BY <1>2 DEF PruneFails
    <2>2. QED
      BY <2>1, NoRotationFields, RotateInv
  <1>3. ASSUME NEW n \in Peers, Pull(n) \/ PullFails(n)
        PROVE  ShelfInv'
    BY <1>3, StartPullInv, NextEntryInv, FetchSumsInv, FetchObjectInv, AcknowledgeInv,
       PullFailsInv DEF Pull
  <1>4. CASE UNCHANGED shelfVars
    BY <1>4 DEF shelfVars, ShelfInv, ShelfTyped, ShelfSafe, ConfirmedIsHeld, RunsSafe,
                RotationSafe, Whole, Expendable, Holders
  <1>5. QED
    BY <1>1, <1>2, <1>3, <1>4 DEF ShelfNext

(* For any number of peers and packages and any --keep and                 *)
(* --require-confirmations: a package is whole on the control node or held *)
(* by enough peers, and the newest ones are whole there, however prune,    *)
(* pulls and new packages overlap and wherever they are cut short (prune,  *)
(* collect, action_ack).                                                   *)
THEOREM PackagesSafe == ShelfSpec => []PackagesAreSafe
  <1>1. ShelfInv => PackagesAreSafe
    <2> SUFFICES ASSUME ShelfInv, NEW p \in 1..published
                 PROVE  /\ Whole(p) \/ Cardinality(Holders(p)) >= Require
                        /\ p + Keep > published => Whole(p)
      BY DEF PackagesAreSafe, RotationLeavesCopies, KeepFloorHolds, Whole, Holders
    <2>1. p \in PackageIds /\ published \in Nat /\ Keep \in Nat
      BY RecoveryStoreAssumption DEF ShelfInv, ShelfTyped, PackageIds
    <2>2. Whole(p) \/ Expendable(p)
      BY <2>1 DEF ShelfInv, ShelfSafe
    <2>3. QED
      BY <2>1, <2>2 DEF Expendable
  <1>2. QED
    BY <1>1, ShelfInitInv, ShelfStepInv, PTL DEF ShelfSpec

-----------------------------------------------------------------------------
(* SSH collection.  The inductive invariant.                               *)

(* Entries are written in the order of time, and only old ones are dropped.*)
JournalInOrder ==
    /\ \A e \in Entries : written[e] =< now
    /\ \A e, f \in Entries : e =< f => written[e] =< written[f]
    /\ \A e \in Entries : e < oldest => written[e] + Retention =< now

(* What is known of everything up to an entry the collector may go on from.*)
Settled(c) ==
    /\ c \in 0 .. Len(written)
    /\ \A e \in 1 .. c : Accounted(e)
    /\ c # NoEntry => c \in stored

(* The API's last record is a stored one.                                  *)
LastEventIsStored ==
    /\ lastEvent # NoTime => \E f \in stored : written[f] = lastEvent
    /\ stored # {} => lastEvent # NoTime

(* What a batch leaves out it has either reached before, or the API will   *)
(* see from its codes that it lies before the window and its records.      *)
IsReset(b) == "coverage_start" \in b.codes \/ "retention_gap" \in b.codes
BeforeWindow(b, e) ==
    written[e] < b.at - Window /\ \A f \in b.records : written[e] < written[f]
Explained(b, e) ==
    \/ e \in b.records
    \/ IsReset(b) /\ BeforeWindow(b, e)
    \/ ~IsReset(b) /\ Accounted(e)

SaysCaughtUp(b) == "page_full" \notin b.codes /\ "source_error" \notin b.codes

BatchSound(b) ==
    /\ b.records \subseteq Entries /\ b.at =< now /\ b.next \in 0 .. Len(written)
    /\ \A f \in b.records : f =< b.next
    /\ b.next # NoEntry => b.next \in b.records \cup stored
    /\ \A e \in 1 .. b.next : Explained(b, e)
    /\ "retention_gap" \in b.codes => stored # {}
    /\ SaysCaughtUp(b) => \A e \in Entries : written[e] < b.at => Explained(b, e)

(* The spool and the network hold sound batches; one whose receipt the API *)
(* keeps, or whose answer has come, is settled.                            *)
BatchesSound ==
    /\ pending # NoBatch => BatchSound(pending)
    /\ late # NoBatch => BatchSound(late)
    /\ pending # NoBatch /\ (pending.id \in batches \/ phase \in {"acked", "committed"})
         => Settled(pending.next)
    /\ pending # NoBatch /\ late.id = pending.id => late = pending

SshInv ==
    /\ TypeOK
    /\ JournalInOrder /\ Settled(cursor) /\ LastEventIsStored /\ asOf =< now
    /\ BatchesSound
    /\ SshCollectionIsSound

-----------------------------------------------------------------------------
LEMMA ElementOfSeq ==
    ASSUME NEW S, NEW s \in Seq(S)
    PROVE  \A i \in 1..Len(s) : s[i] \in S
  OBVIOUS

LEMMA SshShapes ==
    ASSUME TypeOK
    PROVE  /\ now \in Nat /\ now =< MaxTime /\ Len(written) \in Nat /\ Len(written) =< MaxEntries
           /\ oldest \in Nat /\ oldest >= 1 /\ oldest =< Len(written) + 1
           /\ cursor \in Nat /\ cursor =< Len(written)
           /\ \A e \in Entries : e \in Nat /\ e >= 1 /\ e =< Len(written)
           /\ \A e \in Entries : written[e] \in Nat /\ written[e] =< MaxTime
           /\ Window \in Nat /\ Retention \in Nat /\ ExportLag \in Nat
           /\ MaxTime \in Nat /\ MaxEntries \in Nat
           /\ stored \subseteq Entries
           /\ lastEvent \in Int /\ lastEvent >= NoTime /\ lastEvent =< MaxTime
           /\ asOf \in Int
  <1>1. Window \in Nat /\ Retention \in Nat /\ ExportLag \in Nat /\ MaxTime \in Nat /\ MaxEntries \in Nat
    BY CollectionAssumption
  <1>2. written \in Seq(0 .. MaxTime) /\ Len(written) =< MaxEntries /\ Len(written) \in Nat
    BY DEF TypeOK
  <1>3. now \in Nat /\ now =< MaxTime
    BY <1>1 DEF TypeOK
  <1>4. oldest \in Nat /\ oldest >= 1 /\ oldest =< Len(written) + 1
    BY <1>2 DEF TypeOK
  <1>5. cursor \in Nat /\ cursor =< Len(written)
    BY <1>2 DEF TypeOK
  <1>a. Entries = 1..Len(written)
    BY <1>2 DEF Entries
  <1>6. \A e \in Entries : e \in Nat /\ e >= 1 /\ e =< Len(written)
    BY <1>2, <1>a
  <1>7. \A e \in Entries : written[e] \in 0 .. MaxTime
    <2>1. \A e \in 1..Len(written) : written[e] \in 0 .. MaxTime
      BY <1>2, ElementOfSeq
    <2>2. QED
      BY <1>a, <2>1
  <1>8. \A e \in Entries : written[e] \in Nat /\ written[e] =< MaxTime
    BY <1>1, <1>7
  <1>9. stored \subseteq Entries
    BY DEF TypeOK
  <1>10. lastEvent \in Int /\ lastEvent >= NoTime /\ lastEvent =< MaxTime
    BY <1>1 DEF TypeOK, Times, NoTime
  <1>11. asOf \in Int
    BY <1>1 DEF TypeOK, Times, NoTime
  <1>12. QED
    BY <1>1, <1>2, <1>3, <1>4, <1>5, <1>6, <1>8, <1>9, <1>10, <1>11

LEMMA SshShapesAfter ==
    ASSUME TypeOK'
    PROVE  /\ now' \in Nat /\ Len(written') \in Nat
           /\ Entries' = 1 .. Len(written')
           /\ \A e \in Entries' : written'[e] \in Nat
  BY CollectionAssumption DEF TypeOK, Entries

LEMMA BatchShape ==
    ASSUME NEW b \in Batches
    PROVE  /\ b # NoBatch /\ b.id \in BatchIds /\ b.id # 0
           /\ b.records \subseteq Nat /\ b.at \in Nat /\ b.next \in Nat
           /\ b.at =< MaxTime /\ b.next =< MaxEntries /\ b.codes \subseteq Codes
  BY CollectionAssumption DEF Batches, NoBatch, BatchIds

(* What is accounted for stays so: nothing stored and no gap is taken back,*)
(* and what was written keeps its time.                                    *)
LEMMA AccountedKept ==
    ASSUME NEW e, written'[e] = written[e], stored \subseteq stored', gaps \subseteq gaps',
           Accounted(e)
    PROVE  Accounted(e)'
  BY DEF Accounted, InGap

(* A step of the journal or of the API that only adds.                     *)
Grows ==
    /\ now =< now' /\ Len(written) =< Len(written')
    /\ \A e \in Entries : written'[e] = written[e]
    /\ \A e \in Entries' : e \notin Entries => written'[e] >= now
    /\ stored \subseteq stored' /\ gaps \subseteq gaps'

LEMMA SettledKept ==
    ASSUME TypeOK, TypeOK', Grows, NEW c, Settled(c)
    PROVE  Settled(c)'
  <1>1. c \in 0 .. Len(written') /\ 1 .. c \subseteq Entries
    <2>1. Len(written) \in Nat /\ Len(written') \in Nat /\ Len(written) =< Len(written')
      BY SshShapes, SshShapesAfter DEF Grows
    <2>2. QED
      BY <2>1 DEF Settled, Entries
  <1>2. \A e \in 1 .. c : Accounted(e)'
    BY <1>1, AccountedKept DEF Settled, Grows
  <1>3. QED
    BY <1>1, <1>2 DEF Settled, Grows

LEMMA BatchKept ==
    ASSUME TypeOK, TypeOK', Grows, NEW b \in Batches, BatchSound(b)
    PROVE  BatchSound(b)'
  <1>1. /\ b.records \subseteq Entries /\ 1 .. b.next \subseteq Entries
        /\ Entries \subseteq Entries' /\ b.next \in 0 .. Len(written')
        /\ now \in Nat /\ now' \in Nat /\ b.at \in Nat /\ b.at =< now
    <2>1. /\ Len(written) \in Nat /\ Len(written') \in Nat /\ Len(written) =< Len(written')
          /\ now \in Nat /\ now' \in Nat /\ b.at \in Nat
      BY SshShapes, SshShapesAfter, BatchShape DEF Grows
    <2>2. QED
      BY <2>1 DEF BatchSound, Entries
  <1>2. ASSUME NEW e \in Entries, Explained(b, e)
        PROVE  Explained(b, e)'
    <2>1. CASE e \in b.records
      BY <2>1 DEF Explained
    <2>2. CASE IsReset(b) /\ BeforeWindow(b, e)
      <3>1. BeforeWindow(b, e)'
        BY <1>1, <2>2 DEF BeforeWindow, Grows
      <3>2. QED
        BY <2>2, <3>1 DEF Explained, IsReset
    <2>3. CASE ~IsReset(b) /\ Accounted(e)
      BY <2>3, AccountedKept DEF Explained, IsReset, Grows
    <2>4. QED
      BY <1>2, <2>1, <2>2, <2>3 DEF Explained
  <1>3. b.records \subseteq Entries' /\ b.at =< now'
    BY <1>1 DEF Grows
  <1>4. b.next # NoEntry => b.next \in b.records \cup stored'
    BY DEF BatchSound, Grows
  <1>5. \A e \in 1 .. b.next : Explained(b, e)'
    BY <1>1, <1>2 DEF BatchSound
  <1>6. "retention_gap" \in b.codes => stored' # {}
    BY DEF BatchSound, Grows
  <1>7. ASSUME SaysCaughtUp(b), NEW e \in Entries', written'[e] < b.at
        PROVE  Explained(b, e)'
    <2>1. e \in Entries
      <3>1. CASE e \notin Entries
        <4>1. written'[e] >= now /\ written'[e] \in Int
          BY <3>1, SshShapesAfter DEF Grows
        <4>2. QED
          BY <1>1, <1>7, <4>1
      <3>2. QED
        BY <3>1
    <2>2. written[e] < b.at
      BY <1>7, <2>1 DEF Grows
    <2>3. QED
      BY <1>2, <1>7, <2>1, <2>2 DEF BatchSound
  <1>8. \A f \in b.records : f =< b.next
    BY DEF BatchSound
  <1>9. QED
    BY <1>1, <1>3, <1>4, <1>5, <1>6, <1>7, <1>8 DEF BatchSound, SaysCaughtUp

-----------------------------------------------------------------------------
(* A new batch at the API.                                                 *)

ApiTyped ==
    /\ batches \subseteq BatchIds /\ stored \subseteq Entries
    /\ lastEvent \in Times /\ coverage \in Times /\ asOf \in Times
    /\ gaps \subseteq Gaps /\ open \subseteq {"source_error", "catching_up"}
    /\ caughtUp \in BOOLEAN

IsNew(b) ==
    /\ b.id \notin batches /\ BatchSound(b)
    /\ batches' = batches \cup {b.id} /\ stored' = stored \cup b.records
    /\ lastEvent' = Max({lastEvent} \cup RecordTimes(b))
    /\ RecordBatch(b)
    /\ UNCHANGED journal

LEMMA RecordTimesShape ==
    ASSUME SshInv, NEW b \in Batches, BatchSound(b)
    PROVE  /\ RecordTimes(b) \subseteq Nat
           /\ \A t \in RecordTimes(b) : t =< now
           /\ \A f \in b.records : written[f] \in RecordTimes(b)
           /\ \A t \in RecordTimes(b) : \E f \in b.records : t = written[f]
  BY SshShapes DEF SshInv, JournalInOrder, BatchSound, RecordTimes

LEMMA LastEventNext ==
    ASSUME SshInv, NEW b \in Batches, IsNew(b)
    PROVE  /\ lastEvent' \in {lastEvent} \cup RecordTimes(b)
           /\ lastEvent' \in Int
           /\ \A t \in {lastEvent} \cup RecordTimes(b) : t =< lastEvent'
           /\ lastEvent' \in Times
  <1> DEFINE S == {lastEvent} \cup RecordTimes(b)
  <1>1. RecordTimes(b) \subseteq Nat /\ \A t \in RecordTimes(b) : t =< now
    BY RecordTimesShape DEF IsNew
  <1>2. now \in Nat /\ now =< MaxTime /\ MaxTime \in Nat /\ lastEvent \in Int
        /\ lastEvent =< MaxTime /\ lastEvent >= NoTime
    BY SshShapes DEF SshInv
  <1>3. S \in SUBSET Int /\ S # {} /\ \A x \in S : x =< MaxTime /\ x >= NoTime
    <2>1. ASSUME NEW x \in RecordTimes(b)
          PROVE  x \in Int /\ x =< MaxTime /\ x >= NoTime
      <3>1. x \in Nat /\ x =< now
        BY <1>1
      <3>2. QED
        BY <1>2, <3>1 DEF NoTime
    <2>2. QED
      BY <1>2, <2>1
  <1> HIDE DEF S
  <1>4. Max(S) \in S /\ \A y \in S : y =< Max(S)
    <2>1. MaxTime \in Int /\ S \in SUBSET Int /\ S # {} /\ \A x \in S : x =< MaxTime
      BY <1>2, <1>3
    <2>2. QED
      BY <2>1, MaxOfBounded
  <1>5. lastEvent' = Max(S)
    BY DEF IsNew, S
  <1>6. QED
    BY <1>2, <1>3, <1>4, <1>5 DEF S, Times, NoTime

(* Coverage starts after everything the first batch leaves out.            *)
LEMMA CoverageStartBounds ==
    ASSUME SshInv, NEW b \in Batches, BatchSound(b)
    PROVE  /\ CoverageStart(b) \in Nat /\ CoverageStart(b) =< now
           /\ \A e \in Entries : BeforeWindow(b, e) => written[e] < CoverageStart(b)
  <1>1. now \in Nat /\ b.at \in Nat /\ b.at =< now /\ Window \in Nat
        /\ \A e \in Entries : written[e] \in Nat
    BY SshShapes, BatchShape DEF SshInv, BatchSound
  <1>2. CASE b.records = {}
    <2>1. CoverageStart(b) = now
      BY <1>2 DEF CoverageStart
    <2>2. QED
      BY <1>1, <2>1 DEF BeforeWindow
  <1>3. CASE b.records # {}
    <2>1. CoverageStart(b) = Min(RecordTimes(b))
      BY <1>3 DEF CoverageStart
    <2>2. RecordTimes(b) # {}
      BY <1>3 DEF RecordTimes
    <2>3. Min(RecordTimes(b)) \in RecordTimes(b)
      BY <2>2, RecordTimesShape, MinOfNats
    <2>4. PICK f \in b.records : CoverageStart(b) = written[f]
      BY <2>1, <2>3, RecordTimesShape
    <2>5. QED
      BY <1>1, <2>1, <2>3, <2>4, RecordTimesShape DEF BeforeWindow
  <1>4. QED
    BY <1>2, <1>3

LEMMA IngestExplains ==
    ASSUME SshInv, NEW b \in Batches, IsNew(b), NEW e \in Entries, Explained(b, e)
    PROVE  Accounted(e)'
  <1>1. /\ stored \subseteq stored' /\ b.records \subseteq stored'
        /\ gaps' = gaps \cup NewGaps(b) /\ written' = written
    BY DEF IsNew, RecordBatch, journal
  <1>2. ASSUME Accounted(e) PROVE Accounted(e)'
    BY <1>1, <1>2, AccountedKept
  <1>3. ASSUME NEW g \in NewGaps(b), g.from =< written[e], written[e] < g.to
        PROVE  Accounted(e)'
    BY <1>1, <1>3 DEF Accounted, InGap
  <1>4. CASE e \in b.records
    BY <1>1, <1>4 DEF Accounted
  <1>5. CASE IsReset(b) /\ BeforeWindow(b, e)
    <2>1. /\ written[e] \in Nat /\ lastEvent \in Int /\ lastEvent >= NoTime
          /\ b.at \in Nat /\ Window \in Nat
      BY SshShapes, BatchShape DEF SshInv
    <2>2. CASE lastEvent = NoTime
      <3>1. "coverage_start" \in b.codes
        BY <1>5, <2>2 DEF IsReset, IsNew, BatchSound, SshInv, LastEventIsStored
      <3>2. [kind |-> "coverage_start", from |-> NoTime, to |-> CoverageStart(b)] \in NewGaps(b)
        BY <2>2, <3>1 DEF NewGaps
      <3>3. written[e] < CoverageStart(b)
        BY <1>5, CoverageStartBounds DEF IsNew
      <3>4. NoTime =< written[e]
        BY <2>1 DEF NoTime
      <3>5. QED
        BY <1>3, <3>2, <3>3, <3>4
    <2>3. CASE lastEvent # NoTime /\ written[e] < lastEvent
      <3>1. PICK f \in stored : written[f] = lastEvent
        BY <2>3 DEF SshInv, LastEventIsStored
      <3>2. f \in Entries /\ f \in Nat /\ e \in Nat
        BY SshShapes DEF SshInv
      <3>3. e < f
        <4>1. CASE f =< e
          <5>1. written[f] =< written[e]
            BY <3>2, <4>1 DEF SshInv, JournalInOrder
          <5>2. QED
            BY <2>1, <2>3, <3>1, <5>1
        <4>2. QED
          BY <3>2, <4>1
      <3>4. Accounted(e)
        BY <3>3 DEF SshInv, SshCollectionIsSound, NothingSkippedSilently
      <3>5. QED
        BY <1>2, <3>4
    <2>4. CASE lastEvent # NoTime /\ ~(written[e] < lastEvent)
      <3>1. lastEvent =< written[e] /\ written[e] < b.at - RecoveryWindow
            /\ b.at - RecoveryWindow > lastEvent
        BY <1>5, <2>1, <2>4 DEF BeforeWindow, RecoveryWindow
      <3>2. PICK kind \in {"cursor_lost", "retention_gap"} : Reset(kind, b.at) \subseteq NewGaps(b)
        BY <1>5, <2>4 DEF IsReset, NewGaps
      <3>3. [kind |-> kind, from |-> lastEvent, to |-> b.at - RecoveryWindow] \in NewGaps(b)
        BY <2>4, <3>1, <3>2 DEF Reset
      <3>4. QED
        BY <1>3, <3>1, <3>3
    <2>5. QED
      BY <2>2, <2>3, <2>4
  <1>6. CASE ~IsReset(b) /\ Accounted(e)
    BY <1>2, <1>6
  <1>7. QED
    BY <1>4, <1>5, <1>6 DEF Explained

LEMMA IngestTyped ==
    ASSUME SshInv, NEW b \in Batches, IsNew(b)
    PROVE  ApiTyped'
  <1>1. /\ now \in Nat /\ now =< MaxTime /\ MaxTime \in Nat /\ lastEvent \in Int
        /\ lastEvent >= NoTime /\ b.at \in Nat /\ b.at =< MaxTime /\ Window \in Nat
        /\ Entries' = Entries
    BY SshShapes, BatchShape DEF SshInv, IsNew, journal, Entries
  <1>2. CoverageStart(b) \in Nat /\ CoverageStart(b) =< now
    BY CoverageStartBounds DEF IsNew
  <1>3. batches' \subseteq BatchIds /\ stored' \subseteq Entries'
    BY <1>1, BatchShape, SshShapes DEF IsNew, SshInv, TypeOK, BatchSound
  <1>4. lastEvent' \in Times /\ asOf' \in Times /\ coverage' \in Times
    <2>1. coverage' \in {coverage, CoverageStart(b)} /\ asOf' = b.at
      BY DEF IsNew, RecordBatch
    <2>2. coverage \in Times /\ CoverageStart(b) \in Times /\ b.at \in Times
      BY <1>1, <1>2 DEF SshInv, TypeOK, Times, NoTime
    <2>3. QED
      BY <2>1, <2>2, LastEventNext
  <1>5. open' \subseteq {"source_error", "catching_up"} /\ caughtUp' \in BOOLEAN
    BY DEF IsNew, RecordBatch
  <1>6. ASSUME NEW kind \in {"cursor_lost", "retention_gap"}
        PROVE  Reset(kind, b.at) \subseteq Gaps
    <2>1. CASE lastEvent # NoTime /\ b.at - RecoveryWindow > lastEvent
      <3>1. lastEvent \in Times /\ b.at - RecoveryWindow \in Times
        BY <1>1, <2>1 DEF Times, NoTime, RecoveryWindow
      <3>2. [kind |-> kind, from |-> lastEvent, to |-> b.at - RecoveryWindow] \in Gaps
        BY <1>1, <2>1, <3>1 DEF Gaps, RecoveryWindow
      <3>3. QED
        BY <2>1, <3>2 DEF Reset
    <2>2. CASE ~(lastEvent # NoTime /\ b.at - RecoveryWindow > lastEvent)
      BY <2>2 DEF Reset
    <2>3. QED
      BY <2>1, <2>2
  <1>7. [kind |-> "coverage_start", from |-> NoTime, to |-> CoverageStart(b)] \in Gaps
    BY <1>1, <1>2 DEF Gaps, Times, NoTime
  <1>8. NewGaps(b) \subseteq Gaps
    BY <1>6, <1>7 DEF NewGaps
  <1>9. gaps' \subseteq Gaps
    BY <1>8 DEF IsNew, RecordBatch, SshInv, TypeOK
  <1>10. QED
    BY <1>3, <1>4, <1>5, <1>9 DEF ApiTyped

(* A new batch is taken in: everything it brings or explains is accounted  *)
(* for, and what the API says of the source stays true.                    *)
LEMMA IngestNew ==
    ASSUME SshInv, NEW b \in Batches, IsNew(b)
    PROVE  /\ ApiTyped' /\ Grows
           /\ LastEventIsStored' /\ asOf' =< now' /\ SshCollectionIsSound'
           /\ Settled(b.next)'
  <1>1. /\ stored' = stored \cup b.records /\ gaps \subseteq gaps'
        /\ written' = written /\ now' = now /\ Entries' = Entries
        /\ caughtUp' = SaysCaughtUp(b) /\ asOf' = b.at
    BY DEF IsNew, RecordBatch, journal, Entries, SaysCaughtUp
  <1>2. /\ now \in Nat /\ Len(written) \in Nat
        /\ \A e \in Entries : written[e] \in Nat /\ e \in Nat
        /\ Entries = 1 .. Len(written) /\ stored \subseteq Entries
        /\ b.records \subseteq Entries
    BY SshShapes DEF SshInv, IsNew, BatchSound, Entries
  <1>3. Grows
    BY <1>1, <1>2 DEF Grows
  <1>4. \A e \in 1 .. b.next : Accounted(e)'
    <2>1. 1 .. b.next \subseteq Entries
      BY <1>2 DEF IsNew, BatchSound
    <2>2. QED
      BY <2>1, IngestExplains DEF IsNew, BatchSound
  <1>5. Settled(b.next)'
    BY <1>1, <1>4 DEF Settled, IsNew, BatchSound
  <1>6. LastEventIsStored'
    <2>1. lastEvent' # NoTime => \E f \in stored' : written'[f] = lastEvent'
      BY <1>1, LastEventNext, RecordTimesShape DEF SshInv, LastEventIsStored, IsNew
    <2>2. ASSUME stored' # {} PROVE lastEvent' # NoTime
      <3>1. CASE stored # {}
        <4>1. lastEvent # NoTime /\ lastEvent \in Int /\ lastEvent >= NoTime
          BY <3>1, SshShapes DEF SshInv, LastEventIsStored
        <4>2. lastEvent =< lastEvent' /\ lastEvent' \in Int
          BY LastEventNext
        <4>3. QED
          BY <4>1, <4>2 DEF NoTime
      <3>2. CASE b.records # {}
        <4>1. PICK f \in b.records : TRUE
          BY <3>2
        <4>2. written[f] \in RecordTimes(b) /\ written[f] \in Nat
          BY <1>2, RecordTimesShape DEF IsNew
        <4>3. written[f] =< lastEvent' /\ lastEvent' \in Int
          BY <4>2, LastEventNext
        <4>4. QED
          BY <4>2, <4>3 DEF NoTime
      <3>3. QED
        BY <1>1, <2>2, <3>1, <3>2
    <2>3. QED
      BY <2>1, <2>2 DEF LastEventIsStored
  <1>7. asOf' =< now'
    BY <1>1 DEF IsNew, BatchSound
  <1>8. NothingSkippedSilently'
    <2>1. ASSUME NEW e \in Entries, NEW f \in stored', e < f
          PROVE  Accounted(e)'
      <3>1. CASE f \in stored
        <4>1. Accounted(e)
          BY <2>1, <3>1 DEF SshInv, SshCollectionIsSound, NothingSkippedSilently
        <4>2. QED
          BY <1>1, <4>1, AccountedKept
      <3>2. CASE f \in b.records
        <4>1. f =< b.next /\ f \in Nat /\ e \in Nat /\ e >= 1 /\ b.next \in Nat
          BY <1>2, <3>2, BatchShape DEF IsNew, BatchSound
        <4>2. e \in 1 .. b.next
          BY <2>1, <4>1
        <4>3. QED
          BY <1>4, <4>2
      <3>3. QED
        BY <1>1, <3>1, <3>2
    <2>2. QED
      BY <1>1, <2>1 DEF NothingSkippedSilently
  <1>9. CaughtUpMeansRead'
    <2>1. ASSUME caughtUp', NEW e \in Entries, written[e] < b.at
          PROVE  Accounted(e)'
      <3>1. Explained(b, e)
        BY <1>1, <2>1 DEF IsNew, BatchSound
      <3>2. QED
        BY <3>1, IngestExplains
    <2>2. QED
      BY <1>1, <2>1 DEF CaughtUpMeansRead
  <1>10. QED
    BY <1>3, <1>5, <1>6, <1>7, <1>8, <1>9, IngestTyped DEF SshCollectionIsSound

-----------------------------------------------------------------------------
(* The journal moves on.                                                   *)
LEMMA JournalStep ==
    ASSUME SshInv, TypeOK', Grows, JournalInOrder', UNCHANGED <<collector, late, api>>
    PROVE  SshInv'
  <1>1. UNCHANGED <<cursor, pending, phase, late, batches, stored, lastEvent, gaps, caughtUp, asOf>>
    BY DEF collector, api
  <1>2. /\ now \in Nat /\ now' \in Nat /\ asOf \in Int /\ asOf =< now /\ TypeOK
        /\ stored \subseteq Entries
    BY SshShapes, SshShapesAfter DEF SshInv
  <1>3. Settled(cursor)'
    BY <1>1, <1>2, SettledKept DEF SshInv
  <1>4. LastEventIsStored' /\ asOf' =< now'
    BY <1>1, <1>2 DEF SshInv, LastEventIsStored, Grows
  <1>5. BatchesSound'
    <2>1. pending # NoBatch => pending \in Batches
      BY <1>2 DEF TypeOK
    <2>2. late # NoBatch => late \in Batches
      BY <1>2 DEF TypeOK
    <2>3. pending' # NoBatch => BatchSound(pending)'
      BY <1>1, <1>2, <2>1, BatchKept DEF SshInv, BatchesSound
    <2>4. late' # NoBatch => BatchSound(late)'
      BY <1>1, <1>2, <2>2, BatchKept DEF SshInv, BatchesSound
    <2>5. pending' # NoBatch /\ (pending'.id \in batches' \/ phase' \in {"acked", "committed"})
            => Settled(pending.next)'
      BY <1>1, <1>2, SettledKept DEF SshInv, BatchesSound
    <2>6. QED
      BY <1>1, <2>3, <2>4, <2>5 DEF SshInv, BatchesSound
  <1>6. NothingSkippedSilently'
    <2>1. ASSUME NEW e \in Entries', NEW f \in stored, e < f
          PROVE  Accounted(e)'
      <3>1. e \in Entries
        BY <1>2, <2>1, SshShapes, SshShapesAfter DEF Entries
      <3>2. QED
        BY <2>1, <3>1, AccountedKept DEF Grows, SshInv, SshCollectionIsSound, NothingSkippedSilently
    <2>2. QED
      BY <1>1, <2>1 DEF NothingSkippedSilently
  <1>7. CaughtUpMeansRead'
    <2>1. ASSUME caughtUp, NEW e \in Entries', written'[e] < asOf
          PROVE  Accounted(e)'
      <3>1. written'[e] \in Nat
        BY SshShapesAfter
      <3>2. e \in Entries
        BY <1>2, <2>1, <3>1 DEF Grows
      <3>3. written'[e] = written[e]
        BY <3>2 DEF Grows
      <3>4. Accounted(e)
        BY <2>1, <3>2, <3>3 DEF SshInv, SshCollectionIsSound, CaughtUpMeansRead
      <3>5. QED
        BY <3>3, <3>4, AccountedKept DEF Grows
    <2>2. QED
      BY <1>1, <2>1 DEF CaughtUpMeansRead
  <1>8. QED
    BY <1>3, <1>4, <1>5, <1>6, <1>7 DEF SshInv, SshCollectionIsSound

LEMMA SshTickInv == ASSUME SshInv, Tick PROVE SshInv'
  <1>1. /\ now' = now + 1 /\ UNCHANGED <<written, oldest, collector, late, api, faults>>
        /\ now < MaxTime
    BY DEF Tick
  <1>2. TypeOK /\ now \in Nat /\ Retention \in Nat /\ MaxTime \in Nat
        /\ \A e \in Entries : written[e] \in Nat
    BY SshShapes DEF SshInv
  <1>3. TypeOK'
    BY <1>1, <1>2 DEF TypeOK, collector, api, Entries
  <1>4. Grows
    BY <1>1, <1>2, SshShapes DEF Grows, api, Entries
  <1>5. JournalInOrder'
    BY <1>1, <1>2 DEF SshInv, JournalInOrder, Entries
  <1>6. QED
    BY <1>1, <1>3, <1>4, <1>5, JournalStep

LEMMA SshLogInv == ASSUME SshInv, Log PROVE SshInv'
  <1>1. /\ written' = Append(written, now) /\ UNCHANGED <<now, oldest, collector, late, api, faults>>
        /\ Len(written) < MaxEntries
    BY DEF Log
  <1>2. /\ TypeOK /\ now \in 0 .. MaxTime /\ Len(written) \in Nat /\ MaxEntries \in Nat
        /\ written \in Seq(0 .. MaxTime)
    BY SshShapes DEF SshInv, TypeOK
  <1>3. /\ written' \in Seq(0 .. MaxTime) /\ Len(written') = Len(written) + 1
        /\ \A e \in Entries : written'[e] = written[e]
        /\ written'[Len(written) + 1] = now
        /\ Entries' = Entries \cup {Len(written) + 1}
    <2>1. /\ written' \in Seq(0 .. MaxTime) /\ Len(written') = Len(written) + 1
          /\ \A e \in 1 .. Len(written) : written'[e] = written[e]
          /\ written'[Len(written) + 1] = now
      BY <1>1, <1>2
    <2>2. 1 .. (Len(written) + 1) = 1 .. Len(written) \cup {Len(written) + 1}
      BY <1>2
    <2>3. QED
      BY <2>1, <2>2 DEF Entries
  <1>4. TypeOK'
    <2>1. stored' \subseteq Entries' /\ cursor' \in 0 .. Len(written')
          /\ oldest' \in 1 .. (Len(written') + 1)
      <3>1. oldest \in Nat /\ oldest >= 1 /\ oldest =< Len(written) + 1
            /\ cursor \in Nat /\ cursor =< Len(written) /\ stored \subseteq Entries
        BY <1>2, SshShapes
      <3>2. oldest' = oldest /\ cursor' = cursor /\ stored' = stored
        BY <1>1 DEF collector, api
      <3>3. QED
        BY <1>2, <1>3, <3>1, <3>2
    <2>2. Len(written') =< MaxEntries
      BY <1>1, <1>2, <1>3
    <2>3. QED
      BY <1>1, <1>2, <1>3, <2>1, <2>2 DEF TypeOK, collector, api
  <1>5. Grows
    <2>1. now' = now /\ stored' = stored /\ gaps' = gaps /\ now \in Nat
      BY <1>1, <1>2 DEF api
    <2>2. Len(written) =< Len(written')
      BY <1>2, <1>3
    <2>3. \A e \in Entries' : e \notin Entries => written'[e] = now
      BY <1>3
    <2>4. QED
      BY <1>3, <2>1, <2>2, <2>3 DEF Grows
  <1>6. JournalInOrder'
    <2>1. /\ oldest \in Nat /\ oldest =< Len(written) + 1
          /\ \A e \in Entries : written[e] =< now /\ e \in Nat /\ e =< Len(written)
      BY <1>2, SshShapes DEF SshInv, JournalInOrder
    <2>2. \A e \in Entries' : written'[e] =< now'
      <3>1. now' = now /\ now \in Nat
        BY <1>1, <1>2
      <3>2. QED
        BY <1>3, <2>1, <3>1
    <2>3. ASSUME NEW e \in Entries', NEW f \in Entries', e =< f
          PROVE  written'[e] =< written'[f]
      <3>1. CASE f \in Entries
        <4>1. e \in Entries
          BY <1>2, <1>3, <2>1, <2>3, <3>1
        <4>2. QED
          BY <1>3, <2>3, <3>1, <4>1 DEF SshInv, JournalInOrder
      <3>2. CASE f = Len(written) + 1
        BY <1>1, <1>3, <2>2, <3>2
      <3>3. QED
        BY <1>3, <3>1, <3>2
    <2>4. ASSUME NEW e \in Entries', e < oldest'
          PROVE  written'[e] + Retention =< now'
      <3>1. e \in Entries
        BY <1>1, <1>2, <1>3, <2>1, <2>4
      <3>2. QED
        BY <1>1, <1>3, <2>4, <3>1 DEF SshInv, JournalInOrder
    <2>5. QED
      BY <2>2, <2>3, <2>4 DEF JournalInOrder
  <1>7. QED
    BY <1>1, <1>4, <1>5, <1>6, JournalStep

LEMMA SshVacuumInv == ASSUME SshInv, Vacuum PROVE SshInv'
  <1>1. /\ oldest \in Entries /\ now - written[oldest] >= Retention /\ oldest' = oldest + 1
        /\ UNCHANGED <<now, written, collector, late, api, faults>>
    BY DEF Vacuum
  <1>2. /\ TypeOK /\ now \in Nat /\ Retention \in Nat /\ Len(written) \in Nat
        /\ \A e \in Entries : written[e] \in Nat /\ e \in Nat /\ e >= 1 /\ e =< Len(written)
    BY SshShapes DEF SshInv
  <1>3. TypeOK'
    BY <1>1, <1>2 DEF TypeOK, collector, api, Entries
  <1>4. Grows
    BY <1>1, <1>2 DEF Grows, api, Entries
  <1>5. JournalInOrder'
    <2>1. ASSUME NEW e \in Entries, e < oldest + 1
          PROVE  written[e] + Retention =< now
      <3>1. CASE e < oldest
        BY <3>1 DEF SshInv, JournalInOrder
      <3>2. CASE e = oldest
        BY <1>1, <1>2, <3>2
      <3>3. QED
        BY <1>1, <1>2, <2>1, <3>1, <3>2
    <2>2. QED
      BY <1>1, <2>1 DEF SshInv, JournalInOrder, Entries
  <1>6. QED
    BY <1>1, <1>3, <1>4, <1>5, JournalStep

-----------------------------------------------------------------------------
(* A step of the collector: the spool, the cursor and the network change,  *)
(* what the API keeps does not.                                            *)
LEMMA SshCollectorStep ==
    ASSUME SshInv, TypeOK', UNCHANGED <<journal, stored, lastEvent, gaps, caughtUp, asOf>>,
           Settled(cursor'),
           pending' # NoBatch => BatchSound(pending'),
           late' # NoBatch => BatchSound(late'),
           pending' # NoBatch /\ (pending'.id \in batches' \/ phase' \in {"acked", "committed"})
             => Settled(pending'.next),
           pending' # NoBatch /\ late'.id = pending'.id => late' = pending'
    PROVE  SshInv'
  <1>1. UNCHANGED <<now, written, oldest, Entries>>
    BY DEF journal, Entries
  <1>2. JournalInOrder' /\ LastEventIsStored' /\ asOf' =< now' /\ SshCollectionIsSound'
    <2>1. JournalInOrder'
      BY <1>1 DEF SshInv, JournalInOrder
    <2>2. LastEventIsStored' /\ asOf' =< now'
      BY <1>1 DEF SshInv, LastEventIsStored
    <2>3. QED
      BY <1>1, <2>1, <2>2 DEF SshInv, SshCollectionIsSound, NothingSkippedSilently,
             CaughtUpMeansRead, Accounted, InGap
  <1>3. \A e : Accounted(e)' <=> Accounted(e)
    BY <1>1 DEF Accounted, InGap
  <1>4. Settled(cursor)'
    BY <1>1, <1>3 DEF Settled
  <1>5. ASSUME pending' # NoBatch PROVE BatchSound(pending)'
    BY <1>1, <1>3, <1>5 DEF BatchSound, Explained, IsReset, BeforeWindow, SaysCaughtUp
  <1>6. ASSUME late' # NoBatch PROVE BatchSound(late)'
    BY <1>1, <1>3, <1>6 DEF BatchSound, Explained, IsReset, BeforeWindow, SaysCaughtUp
  <1>7. ASSUME pending' # NoBatch,
               pending'.id \in batches' \/ phase' \in {"acked", "committed"}
        PROVE  Settled(pending.next)'
    BY <1>1, <1>3, <1>7 DEF Settled
  <1>8. QED
    BY <1>2, <1>4, <1>5, <1>6, <1>7 DEF SshInv, BatchesSound

LEMMA SshRunInv ==
    ASSUME SshInv, UNCHANGED <<journal, cursor, pending, late, api>>,
           phase' \in {"idle", "run"}, faults' \in 0 .. MaxFaults
    PROVE  SshInv'
  <1>1. UNCHANGED <<now, written, oldest, Entries, batches, stored, lastEvent, coverage, gaps, open,
                    caughtUp, asOf>>
    BY DEF journal, api, Entries
  <1>2. TypeOK'
    BY <1>1 DEF SshInv, TypeOK
  <1>3. QED
    BY <1>1, <1>2, SshCollectorStep DEF SshInv, BatchesSound, journal

LEMMA SshStartRunInv == ASSUME SshInv, StartRun PROVE SshInv'
  BY SshRunInv DEF StartRun, SshInv, TypeOK

LEMMA FaultTyped ==
    ASSUME SshInv, Fault
    PROVE  faults' \in 0 .. MaxFaults
  BY CollectionAssumption DEF Fault, SshInv, TypeOK

LEMMA SshAbortInv == ASSUME SshInv, Abort PROVE SshInv'
  BY SshRunInv, FaultTyped DEF Abort

LEMMA SshTimesOutInv == ASSUME SshInv, SendTimesOut PROVE SshInv'
  <1>1. UNCHANGED <<now, written, oldest, Entries, batches, stored, lastEvent, coverage, gaps, open,
                    caughtUp, asOf, cursor, pending>>
        /\ late' = pending /\ phase' = "idle" /\ pending # NoBatch /\ faults' \in 0 .. MaxFaults
    BY FaultTyped DEF SendTimesOut, journal, api, Entries
  <1>2. TypeOK'
    BY <1>1 DEF SshInv, TypeOK
  <1>3. QED
    BY <1>1, <1>2, SshCollectorStep DEF SshInv, BatchesSound, journal

LEMMA SshCommitInv == ASSUME SshInv, CommitCursor PROVE SshInv'
  <1>1. UNCHANGED <<now, written, oldest, Entries, batches, stored, lastEvent, coverage, gaps, open,
                    caughtUp, asOf, late, pending, faults>>
        /\ cursor' = pending.next /\ phase = "acked" /\ phase' = "committed"
    BY DEF CommitCursor, journal, api, Entries
  <1>2. pending # NoBatch /\ Settled(pending.next)
    BY <1>1 DEF SshInv, TypeOK, BatchesSound
  <1>3. TypeOK'
    BY <1>1, <1>2 DEF SshInv, TypeOK, Settled
  <1>4. QED
    BY <1>1, <1>2, <1>3, SshCollectorStep DEF SshInv, BatchesSound, journal

LEMMA SshUnlinkInv == ASSUME SshInv, Unlink PROVE SshInv'
  <1>1. UNCHANGED <<now, written, oldest, Entries, batches, stored, lastEvent, coverage, gaps, open,
                    caughtUp, asOf, late, cursor, faults>>
        /\ pending' = NoBatch /\ phase' \in {"run", "idle"}
    BY DEF Unlink, journal, api, Entries
  <1>2. TypeOK'
    BY <1>1 DEF SshInv, TypeOK
  <1>3. QED
    BY <1>1, <1>2, SshCollectorStep DEF SshInv, BatchesSound, journal

LEMMA SshWipeInv == ASSUME SshInv, Wipe PROVE SshInv'
  <1>1. UNCHANGED <<now, written, oldest, Entries, batches, stored, lastEvent, coverage, gaps, open,
                    caughtUp, asOf, late, phase>>
        /\ pending' = NoBatch /\ cursor' = NoEntry /\ phase = "idle" /\ faults' \in 0 .. MaxFaults
    BY FaultTyped DEF Wipe, journal, api, Entries
  <1>2. Settled(cursor') /\ cursor' \in 0 .. Len(written)
    <2>1. Len(written) \in Nat
      BY SshShapes DEF SshInv
    <2>2. 0 \in 0 .. Len(written) /\ 1 .. 0 = {}
      BY <2>1
    <2>3. QED
      BY <1>1, <2>2 DEF Settled, NoEntry
  <1>3. TypeOK'
    BY <1>1, <1>2 DEF SshInv, TypeOK
  <1>4. QED
    BY <1>1, <1>2, <1>3, SshCollectorStep DEF SshInv, BatchesSound, journal

LEMMA SshDroppedInv ==
    ASSUME SshInv, late' = NoBatch, UNCHANGED <<journal, collector, faults, api>>
    PROVE  SshInv'
  <1>1. UNCHANGED <<now, written, oldest, Entries, batches, stored, lastEvent, coverage, gaps, open,
                    caughtUp, asOf, cursor, pending, phase>>
    BY DEF journal, api, collector, Entries
  <1>2. TypeOK'
    BY <1>1 DEF SshInv, TypeOK
  <1>3. ASSUME pending # NoBatch PROVE late'.id # pending.id
    BY <1>3, BatchShape DEF SshInv, TypeOK, NoBatch
  <1>4. QED
    BY <1>1, <1>2, <1>3, SshCollectorStep DEF SshInv, BatchesSound, journal

-----------------------------------------------------------------------------
(* A request reaches the API, in the run or after it was given up.         *)

(* What is left to see, after Ingest, of the batches on their way.         *)
LEMMA IngestStep ==
    ASSUME SshInv, NEW b \in Batches, BatchSound(b), Ingest(b),
           UNCHANGED <<journal, cursor, pending, faults>>,
           late' = NoBatch \/ late' = late,
           phase' = phase \/ phase' = "acked",
           phase' = "acked" => phase = "acked" \/ b = pending,
           b = pending \/ b = late,
           pending # NoBatch \/ phase' = phase
    PROVE  SshInv'
  <1>1. UNCHANGED <<now, written, oldest, Entries>>
    BY DEF journal, Entries
  <1>2. ApiTyped'
    <2>1. CASE b.id \in batches
      <3>1. UNCHANGED <<batches, stored, lastEvent, coverage, gaps, open, caughtUp, asOf, Entries>>
        BY <1>1, <2>1 DEF Ingest, api
      <3>2. QED
        BY <3>1 DEF SshInv, TypeOK, ApiTyped
    <2>2. CASE b.id \notin batches
      BY <2>2, IngestNew DEF Ingest, IsNew
    <2>3. QED
      BY <2>1, <2>2
  <1>3. TypeOK'
    <2>1. /\ now' \in 0 .. MaxTime /\ written' \in Seq(0 .. MaxTime) /\ Len(written') =< MaxEntries
          /\ oldest' \in 1 .. (Len(written') + 1) /\ cursor' \in 0 .. Len(written')
          /\ faults' \in 0 .. MaxFaults
      BY <1>1 DEF SshInv, TypeOK
    <2>2. /\ pending' \in Batches \cup {NoBatch} /\ late' \in Batches \cup {NoBatch}
          /\ (pending' # NoBatch /\ pending'.records # {} => pending'.next = Max(pending'.records))
      BY DEF SshInv, TypeOK
    <2>3. phase' \in {"idle", "run", "acked", "committed"}
          /\ (phase' \in {"acked", "committed"} => pending' # NoBatch)
      BY DEF SshInv, TypeOK
    <2>4. QED
      BY <1>2, <2>1, <2>2, <2>3 DEF TypeOK, ApiTyped
  <1>4. Grows /\ LastEventIsStored' /\ asOf' =< now' /\ SshCollectionIsSound'
    <2>1. CASE b.id \in batches
      <3>1. UNCHANGED <<stored, lastEvent, gaps, caughtUp, asOf>>
        BY <2>1 DEF Ingest, api
      <3>2. Grows
        BY <1>1, <3>1, SshShapes DEF Grows, SshInv
      <3>3. QED
        BY <1>1, <3>1, <3>2 DEF SshInv, LastEventIsStored, SshCollectionIsSound,
               NothingSkippedSilently, CaughtUpMeansRead, Accounted, InGap
    <2>2. CASE b.id \notin batches
      BY <2>2, IngestNew DEF Ingest, IsNew
    <2>3. QED
      BY <2>1, <2>2
  <1>5. JournalInOrder'
    BY <1>1 DEF SshInv, JournalInOrder
  <1>6. Settled(cursor)'
    BY <1>3, <1>4, SettledKept DEF SshInv
  <1>7. pending' # NoBatch => BatchSound(pending)'
    BY <1>3, <1>4, BatchKept DEF SshInv, TypeOK, BatchesSound
  <1>8. late' # NoBatch => BatchSound(late)'
    BY <1>3, <1>4, BatchKept DEF SshInv, TypeOK, BatchesSound
  <1>9. pending # NoBatch /\ late'.id = pending.id => late' = pending
    <2>1. pending # NoBatch => pending.id # NoBatch.id
      BY BatchShape DEF SshInv, TypeOK, NoBatch
    <2>2. QED
      BY <2>1 DEF SshInv, BatchesSound
  <1>10. ASSUME pending # NoBatch, pending.id \in batches' \/ phase' \in {"acked", "committed"}
         PROVE  Settled(pending.next)'
    <2>1. CASE pending.id \in batches \/ phase \in {"acked", "committed"}
      <3>1. Settled(pending.next)
        BY <1>10, <2>1 DEF SshInv, BatchesSound
      <3>2. QED
        BY <1>3, <1>4, <3>1, SettledKept DEF SshInv
    <2>2. CASE pending.id \notin batches /\ phase \notin {"acked", "committed"}
      <3>1. b = pending
        <4>1. CASE phase' = "acked"
          BY <2>2, <4>1
        <4>2. CASE pending.id \in batches'
          <5>1. batches' = batches \/ batches' = batches \cup {b.id}
            BY DEF Ingest, api
          <5>2. b.id = pending.id
            BY <2>2, <4>2, <5>1
          <5>3. QED
            BY <1>10, <5>2 DEF SshInv, BatchesSound
        <4>3. QED
          BY <1>10, <2>2, <4>1, <4>2
      <3>2. IsNew(b)
        BY <2>2, <3>1 DEF Ingest, IsNew
      <3>3. QED
        BY <3>1, <3>2, IngestNew
    <2>3. QED
      BY <2>1, <2>2
  <1>11. QED
    BY <1>3, <1>4, <1>5, <1>6, <1>7, <1>8, <1>9, <1>10 DEF SshInv, BatchesSound

LEMMA SshSendInv == ASSUME SshInv, Send PROVE SshInv'
  <1>1. pending \in Batches /\ BatchSound(pending)
    BY DEF Send, SshInv, TypeOK, BatchesSound
  <1>2. QED
    BY <1>1, IngestStep DEF Send, Acknowledges

LEMMA SshLateInv == ASSUME SshInv, LateRequest PROVE SshInv'
  <1>1. late \in Batches /\ BatchSound(late)
    BY DEF LateRequest, SshInv, TypeOK, BatchesSound
  <1>2. CASE Ingest(late)
    <2>1. UNCHANGED <<journal, cursor, pending, phase, faults>> /\ late' = NoBatch
      BY DEF LateRequest, collector
    <2>2. QED
      BY <1>1, <1>2, <2>1, IngestStep DEF SshInv, TypeOK
  <1>3. CASE UNCHANGED api
    BY <1>3, SshDroppedInv DEF LateRequest
  <1>4. QED
    BY <1>2, <1>3 DEF LateRequest

-----------------------------------------------------------------------------
(* The next batch.                                                         *)

(* The oldest n records leave out nothing that precedes one they take, and *)
(* are all of them when there are no more than n.                          *)
LEMMA FirstOfClosed ==
    ASSUME NEW S \in SUBSET Nat, IsFiniteSet(S), NEW n \in Nat,
           NEW e \in FirstOf(S, n), NEW f \in S, f =< e
    PROVE  f \in FirstOf(S, n)
  <1> DEFINE below(x) == {g \in S : g =< x}
  <1>1. e \in S /\ Cardinality(below(e)) =< n
    BY DEF FirstOf
  <1>2. below(f) \subseteq below(e) /\ below(e) \subseteq S
    <2>1. e \in Nat /\ f \in Nat /\ f =< e
      BY <1>1
    <2>2. ASSUME NEW g \in S, g =< f PROVE g =< e
      <3>1. g \in Nat
        OBVIOUS
      <3>2. QED
        BY <2>1, <2>2, <3>1
    <2>3. QED
      BY <2>2
  <1>3. /\ IsFiniteSet(below(e)) /\ IsFiniteSet(below(f))
        /\ Cardinality(below(f)) =< Cardinality(below(e))
    <2>1. IsFiniteSet(below(e))
      BY <1>2, FS_Subset
    <2>2. QED
      BY <1>2, <2>1, FS_Subset
  <1>4. Cardinality(below(e)) \in Nat /\ Cardinality(below(f)) \in Nat
    BY <1>3, FS_CardinalityType
  <1>5. Cardinality(below(f)) =< n
    BY <1>1, <1>3, <1>4
  <1>6. QED
    BY <1>5 DEF FirstOf

LEMMA FirstOfAll ==
    ASSUME NEW S \in SUBSET Nat, IsFiniteSet(S), NEW n \in Nat, Cardinality(S) =< n
    PROVE  FirstOf(S, n) = S
  <1>1. ASSUME NEW e \in S
        PROVE  Cardinality({f \in S : f =< e}) =< n
    <2>1. {f \in S : f =< e} \subseteq S
      OBVIOUS
    <2> DEFINE below == {f \in S : f =< e}
    <2> HIDE DEF below
    <2>2. below \in SUBSET S
      BY <2>1 DEF below
    <2>3. IsFiniteSet(below) /\ Cardinality(below) =< Cardinality(S)
      BY <2>2, FS_Subset
    <2>4. Cardinality(below) \in Nat /\ Cardinality(S) \in Nat
      BY <2>3, FS_CardinalityType
    <2>5. Cardinality(below) =< n
      BY <2>3, <2>4
    <2>6. QED
      BY <2>5 DEF below
  <1>2. QED
    BY <1>1 DEF FirstOf

LEMMA FreshId ==
    ASSUME TypeOK
    PROVE  Fresh \in BatchIds /\ Fresh # late.id
  <1>1. BatchIds \ {late.id} \in SUBSET Nat /\ BatchIds \ {late.id} # {}
    BY DEF BatchIds
  <1>2. Fresh \in BatchIds \ {late.id}
    BY <1>1, MinOfNats DEF Fresh
  <1>3. QED
    BY <1>2

LEMMA SpoolStep ==
    ASSUME SshInv, phase = "run", NEW b \in Batches, BatchSound(b), b.id = Fresh,
           b.records # {} => b.next = Max(b.records), Spool(b),
           UNCHANGED <<journal, cursor, phase, late, stored, lastEvent, coverage, gaps, open,
                       caughtUp, asOf>>,
           faults' \in 0 .. MaxFaults
    PROVE  SshInv'
  <1>1. UNCHANGED <<now, written, oldest, Entries>>
        /\ pending' = b /\ batches' = batches \cap {late.id}
    BY DEF journal, Entries, Spool
  <1>2. b.id \notin batches' /\ b.id # late.id
    BY <1>1, FreshId DEF SshInv
  <1>3. TypeOK'
    BY <1>1 DEF SshInv, TypeOK
  <1>4. QED
    BY <1>1, <1>2, <1>3, SshCollectorStep DEF SshInv, BatchesSound

LEMMA SshSourceErrorInv == ASSUME SshInv, SourceError PROVE SshInv'
  <1> DEFINE b == [id |-> Fresh, records |-> {}, at |-> now, next |-> cursor,
                   codes |-> {"source_error"}]
  <1>1. /\ b.id = Fresh /\ b.records = {} /\ b.at = now /\ b.next = cursor
        /\ b.codes = {"source_error"}
    OBVIOUS
  <1>2. /\ now \in 0 .. MaxTime /\ cursor \in 0 .. MaxEntries /\ cursor \in 0 .. Len(written)
        /\ now \in Nat
    <2>1. cursor \in Nat /\ cursor =< Len(written) /\ Len(written) \in Nat
          /\ Len(written) =< MaxEntries /\ MaxEntries \in Nat /\ now \in Nat
      BY SshShapes DEF SshInv
    <2>2. QED
      BY <2>1 DEF SshInv, TypeOK
  <1>3. b \in Batches
    BY <1>2, FreshId DEF SshInv, Batches, Codes
  <1>4. Spool(b) /\ UNCHANGED <<journal, cursor, phase, late, stored, lastEvent, coverage, gaps,
                                open, caughtUp, asOf>> /\ phase = "run" /\ Fault
    BY DEF SourceError
  <1> HIDE DEF b
  <1>5. BatchSound(b)
    BY <1>1, <1>2 DEF SshInv, Settled, BatchSound, Explained, IsReset, SaysCaughtUp
  <1>6. QED
    BY <1>1, <1>3, <1>4, <1>5, FaultTyped, SpoolStep

(* What BuildPending spools.                                               *)
Exported(lag, n) ==
    [id |-> Fresh, records |-> FirstOf(Readable(lag), n), at |-> now,
     next |-> IF FirstOf(Readable(lag), n) # {} THEN Max(FirstOf(Readable(lag), n))
              ELSE IF ValidCursor THEN cursor ELSE NoEntry,
     codes |-> (IF cursor = NoEntry THEN {"coverage_start"}
                ELSE IF ~ValidCursor THEN {"retention_gap"} ELSE {})
               \cup (IF MoreWaiting(n, Readable(lag)) THEN {"page_full"} ELSE {})]

LEMMA ReadableShape ==
    ASSUME TypeOK, NEW lag \in 0 .. ExportLag, NEW n \in 0 .. Page
    PROVE  /\ Readable(lag) \subseteq Entries /\ Readable(lag) \in SUBSET Nat
           /\ IsFiniteSet(Readable(lag)) /\ Cardinality(Readable(lag)) \in Nat
           /\ FirstOf(Readable(lag), n) \subseteq Readable(lag)
           /\ FirstOf(Readable(lag), n) # {} =>
                /\ Max(FirstOf(Readable(lag), n)) \in FirstOf(Readable(lag), n)
                /\ \A e \in FirstOf(Readable(lag), n) : e =< Max(FirstOf(Readable(lag), n))
  <1>1. /\ Len(written) \in Nat /\ oldest \in Nat /\ oldest >= 1
    BY SshShapes
  <1>2. Readable(lag) \subseteq 1 .. Len(written)
    BY <1>1 DEF Readable
  <1>3. IsFiniteSet(1 .. Len(written))
    BY <1>1, FS_Interval
  <1>4. IsFiniteSet(Readable(lag)) /\ Cardinality(Readable(lag)) \in Nat
    BY <1>2, <1>3, FS_Subset, FS_CardinalityType
  <1>5. FirstOf(Readable(lag), n) \subseteq Readable(lag)
    BY DEF FirstOf
  <1>6. /\ FirstOf(Readable(lag), n) \in SUBSET Int
        /\ \A e \in FirstOf(Readable(lag), n) : e =< Len(written)
    BY <1>1, <1>2, <1>5
  <1>7. ASSUME FirstOf(Readable(lag), n) # {}
        PROVE  /\ Max(FirstOf(Readable(lag), n)) \in FirstOf(Readable(lag), n)
               /\ \A e \in FirstOf(Readable(lag), n) : e =< Max(FirstOf(Readable(lag), n))
    <2>1. Len(written) \in Int
      BY <1>1
    <2>2. QED
      BY <1>6, <1>7, <2>1, MaxOfBounded
  <1>8. Readable(lag) \in SUBSET Nat
    BY <1>1, <1>2
  <1>9. QED
    BY <1>2, <1>4, <1>5, <1>7, <1>8 DEF Entries

LEMMA ExportedFields ==
    ASSUME NEW lag, NEW n
    PROVE  /\ Exported(lag, n).id = Fresh
           /\ Exported(lag, n).records = FirstOf(Readable(lag), n)
           /\ Exported(lag, n).at = now
           /\ Exported(lag, n).next =
                IF FirstOf(Readable(lag), n) # {} THEN Max(FirstOf(Readable(lag), n))
                ELSE IF ValidCursor THEN cursor ELSE NoEntry
           /\ Exported(lag, n).codes =
                (IF cursor = NoEntry THEN {"coverage_start"}
                 ELSE IF ~ValidCursor THEN {"retention_gap"} ELSE {})
                \cup (IF MoreWaiting(n, Readable(lag)) THEN {"page_full"} ELSE {})
  BY DEF Exported

LEMMA ExportedTyped ==
    ASSUME SshInv, NEW lag \in 0 .. ExportLag, NEW n \in 0 .. Page
    PROVE  Exported(lag, n) \in Batches
  <1> DEFINE records == FirstOf(Readable(lag), n)
             next == IF records # {} THEN Max(records)
                     ELSE IF ValidCursor THEN cursor ELSE NoEntry
             codes == (IF cursor = NoEntry THEN {"coverage_start"}
                       ELSE IF ~ValidCursor THEN {"retention_gap"} ELSE {})
                      \cup (IF MoreWaiting(n, Readable(lag)) THEN {"page_full"} ELSE {})
  <1>1. /\ Len(written) \in Nat /\ Len(written) =< MaxEntries /\ MaxEntries \in Nat
        /\ cursor \in Nat /\ cursor =< Len(written)
        /\ \A e \in Entries : e \in Nat /\ e >= 1 /\ e =< Len(written)
    BY SshShapes DEF SshInv
  <1>2. records \subseteq Entries /\ (records # {} => Max(records) \in records)
    BY ReadableShape DEF SshInv
  <1>3. Exported(lag, n) = [id |-> Fresh, records |-> records, at |-> now, next |-> next,
                            codes |-> codes]
    BY DEF Exported
  <1>4. codes \subseteq Codes
    BY DEF Codes
  <1> HIDE DEF records, codes
  <1>5. records \subseteq 1 .. MaxEntries /\ next \in 0 .. MaxEntries
    BY <1>1, <1>2 DEF NoEntry
  <1> HIDE DEF next
  <1>6. QED
    BY <1>3, <1>4, <1>5, FreshId DEF Batches, SshInv, TypeOK

(* What an export without a valid cursor does not read lies before what it *)
(* does: it is older than the window, or was dropped when it was.          *)
LEMMA UnreadBeforeWindow ==
    ASSUME SshInv, ~ValidCursor, NEW lag \in 0 .. ExportLag, NEW e \in Entries,
           e \notin Readable(lag)
    PROVE  /\ written[e] < now - Window
           /\ \A f \in Readable(lag) : written[e] < written[f]
  <1>1. /\ now \in Nat /\ oldest \in Nat /\ Len(written) \in Nat /\ Window \in Nat /\ lag \in Nat
        /\ Retention \in Nat /\ ExportLag \in Nat /\ lag =< ExportLag
        /\ \A f \in Entries : written[f] \in Nat
        /\ e \in Nat /\ e =< Len(written) /\ Retention > Window + ExportLag
    BY SshShapes, RetentionAssumption DEF SshInv
  <1>2. written[e] < now - lag - Window
    <2>1. CASE e < oldest
      <3>1. written[e] + Retention =< now
        BY <2>1 DEF SshInv, JournalInOrder
      <3>2. QED
        BY <1>1, <3>1
    <2>2. CASE e >= oldest
      <3>1. e \in oldest .. Len(written)
        BY <1>1, <2>2
      <3>2. ~(written[e] >= now - lag - Window)
        BY <3>1 DEF Readable
      <3>3. QED
        BY <1>1, <3>2
    <2>3. QED
      BY <1>1, <2>1, <2>2
  <1>3. ASSUME NEW f \in Readable(lag)
        PROVE  written[e] < written[f]
    <2>1. f \in Entries /\ written[f] >= now - lag - Window
      <3>1. oldest >= 1
        BY SshShapes DEF SshInv
      <3>2. f \in oldest .. Len(written)
        BY DEF Readable
      <3>3. f \in Entries
        BY <1>1, <3>1, <3>2 DEF Entries
      <3>4. QED
        BY <3>3 DEF Readable
    <2>2. QED
      BY <1>1, <1>2, <2>1
  <1>4. written[e] < now - Window
    BY <1>1, <1>2
  <1>5. QED
    BY <1>3, <1>4

LEMMA ExportedSound ==
    ASSUME SshInv, NEW lag \in 0 .. ExportLag, NEW n \in 0 .. Page,
           n =< Cardinality(Readable(lag))
    PROVE  BatchSound(Exported(lag, n))
  <1> DEFINE b == Exported(lag, n)
             entries == Readable(lag)
             records == FirstOf(entries, n)
  <1>1. /\ b.records = records /\ b.at = now
        /\ b.next = IF records # {} THEN Max(records) ELSE IF ValidCursor THEN cursor ELSE NoEntry
        /\ b.codes = (IF cursor = NoEntry THEN {"coverage_start"}
                      ELSE IF ~ValidCursor THEN {"retention_gap"} ELSE {})
                     \cup (IF MoreWaiting(n, entries) THEN {"page_full"} ELSE {})
    BY ExportedFields
  <1>2. /\ entries \subseteq Entries /\ entries \in SUBSET Nat /\ IsFiniteSet(entries)
        /\ Cardinality(entries) \in Nat /\ records \subseteq entries
        /\ records # {} => Max(records) \in records /\ \A e \in records : e =< Max(records)
    BY ReadableShape DEF SshInv
  <1>3. /\ Len(written) \in Nat /\ cursor \in Nat /\ cursor =< Len(written) /\ now \in Nat
        /\ oldest \in Nat /\ n \in Nat
        /\ \A e \in Entries : e \in Nat /\ e >= 1 /\ e =< Len(written)
        /\ stored \subseteq Entries
    BY SshShapes, CollectionAssumption DEF SshInv
  <1>4. IsReset(b) <=> ~ValidCursor
    BY <1>1 DEF IsReset, ValidCursor
  <1>5. ASSUME NEW e \in Entries, e \in entries => e \in records
        PROVE  Explained(b, e)
    <2>1. CASE e \in entries
      BY <1>1, <1>5, <2>1 DEF Explained
    <2>2. CASE e \notin entries /\ ValidCursor
      <3>1. e =< cursor
        <4>1. ASSUME e > cursor PROVE FALSE
          <5>1. cursor >= oldest
            BY <2>2 DEF ValidCursor
          <5>2. e \in oldest .. Len(written)
            BY <1>3, <4>1, <5>1
          <5>3. QED
            BY <2>2, <4>1, <5>2 DEF Readable
        <4>2. QED
          BY <1>3, <4>1
      <3>2. e \in 1 .. cursor
        BY <1>3, <3>1
      <3>3. QED
        BY <1>4, <2>2, <3>2 DEF SshInv, Settled, Explained
    <2>3. CASE e \notin entries /\ ~ValidCursor
      <3>1. BeforeWindow(b, e)
        <4>1. written[e] < now - Window /\ \A f \in entries : written[e] < written[f]
          BY <2>3, UnreadBeforeWindow
        <4>2. QED
          BY <1>1, <1>2, <4>1 DEF BeforeWindow
      <3>2. QED
        BY <1>4, <2>3, <3>1 DEF Explained
    <2>4. QED
      BY <2>1, <2>2, <2>3
  <1> HIDE DEF b, entries, records
  <1>6. b.records \subseteq Entries /\ b.at =< now
    BY <1>1, <1>2, <1>3
  <1>7. /\ b.next \in 0 .. Len(written)
        /\ \A f \in b.records : f =< b.next
        /\ b.next # NoEntry => b.next \in b.records \cup stored
    <2>1. CASE records # {}
      <3>1. b.next = Max(records) /\ Max(records) \in Entries
        BY <1>1, <1>2, <2>1
      <3>2. b.next \in 0 .. Len(written)
        BY <1>3, <3>1
      <3>3. QED
        BY <1>1, <1>2, <2>1, <3>1, <3>2
    <2>2. CASE records = {}
      <3>1. b.next = cursor \/ b.next = NoEntry
        BY <1>1, <2>2
      <3>2. b.next \in 0 .. Len(written)
        BY <1>3, <3>1 DEF NoEntry
      <3>3. QED
        BY <1>1, <2>2, <3>1, <3>2 DEF SshInv, Settled
    <2>3. QED
      BY <2>1, <2>2
  <1>8. ASSUME NEW e \in 1 .. b.next
        PROVE  Explained(b, e)
    <2>1. e \in Entries
      BY <1>3, <1>7 DEF Entries
    <2>2. CASE records # {}
      <3>1. b.next = Max(records) /\ Max(records) \in records /\ e =< Max(records)
        BY <1>1, <1>2, <2>2
      <3>2. e \in entries => e \in records
        BY <1>2, <1>3, <3>1, FirstOfClosed DEF records
      <3>3. QED
        BY <1>5, <2>1, <3>2
    <2>3. CASE records = {}
      <3>1. ValidCursor /\ e \in 1 .. cursor
        BY <1>1, <2>3 DEF NoEntry
      <3>2. QED
        BY <1>4, <3>1 DEF SshInv, Settled, Explained
    <2>4. QED
      BY <2>2, <2>3
  <1>9. "retention_gap" \in b.codes => stored # {}
    BY <1>1 DEF SshInv, Settled
  <1>10. ASSUME SaysCaughtUp(b), NEW e \in Entries
         PROVE  Explained(b, e)
    <2>1. ~(n < Cardinality(entries))
      BY <1>1, <1>10 DEF SaysCaughtUp, MoreWaiting
    <2>2. Cardinality(entries) =< n
      BY <1>2, <1>3, <2>1
    <2>3. records = entries
      BY <1>2, <1>3, <2>2, FirstOfAll DEF records
    <2>4. QED
      BY <1>5, <2>3
  <1>11. BatchSound(b)
    BY <1>6, <1>7, <1>8, <1>9, <1>10 DEF BatchSound
  <1>12. QED
    BY <1>11 DEF b

LEMMA SshBuildInv == ASSUME SshInv, BuildPending PROVE SshInv'
  <1>1. PICK lag \in 0 .. ExportLag, n \in 0 .. Page :
          n =< Cardinality(Readable(lag)) /\ Spool(Exported(lag, n))
    BY DEF BuildPending, Exported
  <1>2. /\ UNCHANGED <<journal, cursor, phase, late, stored, lastEvent, coverage, gaps, open,
                        caughtUp, asOf, faults>>
        /\ phase = "run"
    BY DEF BuildPending
  <1>3. faults' \in 0 .. MaxFaults
    BY <1>2 DEF SshInv, TypeOK
  <1> DEFINE b == Exported(lag, n)
  <1>4. b \in Batches /\ BatchSound(b)
    BY <1>1, ExportedTyped, ExportedSound
  <1>5. b.id = Fresh /\ (b.records # {} => b.next = Max(b.records))
    BY ExportedFields
  <1> HIDE DEF b
  <1>6. Spool(b)
    BY <1>1 DEF b
  <1>7. QED
    BY <1>2, <1>3, <1>4, <1>5, <1>6, SpoolStep

-----------------------------------------------------------------------------
LEMMA SshInitInv == Init => SshInv
  <1> SUFFICES ASSUME Init PROVE SshInv
    OBVIOUS
  <1>1. /\ now = 0 /\ written = <<>> /\ oldest = 1 /\ cursor = 0 /\ pending = NoBatch /\ late = NoBatch
        /\ phase = "idle" /\ batches = {} /\ stored = {} /\ gaps = {} /\ open = {} /\ caughtUp = FALSE
        /\ lastEvent = NoTime /\ coverage = NoTime /\ asOf = NoTime /\ faults = 0
    BY DEF Init, NoEntry
  <1>2. Len(written) = 0 /\ Entries = {} /\ 1 .. cursor = {}
    BY <1>1 DEF Entries
  <1>3. /\ MaxTime \in Nat /\ MaxEntries \in Nat /\ MaxFaults \in Nat
    BY CollectionAssumption
  <1>4. written \in Seq(0 .. MaxTime)
    BY <1>1
  <1>5. NoTime \in Times /\ asOf =< now
    BY <1>1, <1>3 DEF Times, NoTime
  <1>6. now \in 0 .. MaxTime /\ faults \in 0 .. MaxFaults /\ Len(written) =< MaxEntries
        /\ oldest \in 1 .. (Len(written) + 1) /\ cursor \in 0 .. Len(written)
    BY <1>1, <1>2, <1>3
  <1>7. TypeOK
    BY <1>1, <1>2, <1>4, <1>5, <1>6 DEF TypeOK
  <1>8. JournalInOrder /\ Settled(cursor) /\ LastEventIsStored /\ SshCollectionIsSound
    BY <1>1, <1>2, <1>6 DEF JournalInOrder, Settled, NoEntry, LastEventIsStored, SshCollectionIsSound,
           NothingSkippedSilently, CaughtUpMeansRead
  <1>9. QED
    BY <1>1, <1>5, <1>7, <1>8 DEF SshInv, BatchesSound

LEMMA SshStepInv == SshInv /\ [Next]_vars => SshInv'
  <1> SUFFICES ASSUME SshInv, [Next]_vars PROVE SshInv'
    OBVIOUS
  <1>1. CASE Tick BY <1>1, SshTickInv
  <1>2. CASE Log BY <1>2, SshLogInv
  <1>3. CASE Vacuum BY <1>3, SshVacuumInv
  <1>4. CASE StartRun BY <1>4, SshStartRunInv
  <1>5. CASE BuildPending BY <1>5, SshBuildInv
  <1>6. CASE SourceError BY <1>6, SshSourceErrorInv
  <1>7. CASE Send BY <1>7, SshSendInv
  <1>8. CASE SendTimesOut BY <1>8, SshTimesOutInv
  <1>9. CASE LateRequest BY <1>9, SshLateInv
  <1>10. CASE CommitCursor BY <1>10, SshCommitInv
  <1>11. CASE Unlink BY <1>11, SshUnlinkInv
  <1>12. CASE Abort BY <1>12, SshAbortInv
  <1>13. CASE Wipe BY <1>13, SshWipeInv
  <1>14. CASE UNCHANGED vars
    <2>1. UNCHANGED <<journal, cursor, pending, phase, late, stored, lastEvent, gaps, caughtUp, asOf,
                      batches, coverage, open, faults, now, written, oldest, Entries>>
      BY <1>14 DEF vars, collector, api, journal, Entries
    <2>2. TypeOK'
      BY <2>1 DEF SshInv, TypeOK
    <2>3. QED
      BY <2>1, <2>2, SshCollectorStep DEF SshInv, BatchesSound
  <1>15. QED
    BY <1>1, <1>2, <1>3, <1>4, <1>5, <1>6, <1>7, <1>8, <1>9, <1>10, <1>11, <1>12, <1>13, <1>14
       DEF Next

(* The state of the collection of one SSH source keeps its types, the      *)
(* recorded gaps are intervals and the spooled batches end where their     *)
(* cursor says (collect_page, record_batch).                               *)
THEOREM SshCollectionTypes == Spec => []TypeOK
  <1>1. SshInv => TypeOK
    BY DEF SshInv
  <1>2. QED
    BY <1>1, SshInitInv, SshStepInv, PTL DEF Spec

(* Nothing the journal held is passed over in silence, and a source shown  *)
(* as caught up was read to the time of its last batch, for every window,  *)
(* page size, retention and number of faults (collect_page's commit order, *)
(* record_batch's resets, local_export's oldest records first).            *)
THEOREM SshCollectionSound == Spec => []SshCollectionIsSound
  <1>1. SshInv => SshCollectionIsSound
    BY DEF SshInv
  <1>2. QED
    BY <1>1, SshInitInv, SshStepInv, PTL DEF Spec

-----------------------------------------------------------------------------
(* Network collection.  The inductive invariant.                           *)

NetBatches == [id : Nat \ {0}, before : Nat, after : Nat, entries : Seq(Nat),
               reports : SUBSET Reports, caughtUp : BOOLEAN, seen : Nat]
NetPages == [reports : SUBSET Reports, valid : BOOLEAN, entries : Seq(Nat),
             limited : BOOLEAN, seen : Nat]
NetPhases == {"idle", "reading", "exported", "spooled", "waiting", "acked", "committed"}

NetTyped ==
  /\ netBatches \in Seq(NetBatches) /\ receipts \in Seq(Nat)
  /\ top \in Nat /\ low \in Nat /\ recent \in Nat /\ rulesOK \in BOOLEAN
  /\ page \in NetPages /\ netPhase \in NetPhases
  /\ state \in [cursor : Nat, last : Nat]
  /\ netPending \in NetBatches \cup {NoPending}
  /\ requests \subseteq NetBatches
  /\ orphans \in Nat /\ lost \in BOOLEAN /\ netFaults \in Nat

(* The entries of a page follow each other in the journal, after c.        *)
FollowEachOther(entries, c) ==
  \A i \in 1..Len(entries) : entries[i] = entries[1] + i - 1 /\ entries[i] > c

LosesCursor(b) == "journal_cursor_unavailable" \in b.reports

(* A batch starts where its cursor was unless it reports that the journal  *)
(* lost it, and has read what it says it has.                              *)
NetBatchSound(b) ==
  /\ FollowEachOther(b.entries, b.before)
  /\ b.after = IF b.entries = <<>> THEN b.before ELSE b.entries[Len(b.entries)]
  /\ b.before # None /\ ~LosesCursor(b) /\ b.entries # <<>> => b.entries[1] = b.before + 1
  /\ b.caughtUp => ~LosesCursor(b)
  /\ b.caughtUp => \A r \in PageStart(b)..b.seen : r \in ToSet(b.entries)

(* Each committed batch starts where the one before it ended.              *)
AfterOf(k) == IF k = 0 THEN None ELSE netBatches[k].after
IdOf(k) == IF k = 0 THEN None ELSE netBatches[k].id
StoreSound ==
  /\ \A k \in 1..Len(netBatches) :
       /\ NetBatchSound(netBatches[k])
       /\ netBatches[k].before = AfterOf(k - 1)
       /\ ToSet(netBatches[k].entries) \subseteq ToSet(receipts)
  /\ \A r \in ToSet(receipts) : r =< Checkpoint
  /\ Checkpoint # None => \E k \in 1..Len(netBatches) : netBatches[k].entries # <<>>

(* The page in the making: what was read is right as long as the cursor is *)
(* in the journal, or was known to be gone before the read.                *)
Drifted == "profile_drift" \in page.reports
PageSound ==
  /\ netPhase \in {"reading", "exported"} =>
       /\ netPending = NoPending
       /\ page.valid => state.cursor # None
       /\ ~page.valid => state.cursor =< low
       /\ ~Drifted /\ ~page.valid /\ state.cursor # None => LosesCursor(page)
       /\ ~Drifted /\ page.valid => ~LosesCursor(page)
  /\ netPhase = "reading" => ~Drifted
  /\ netPhase = "exported" /\ ~Drifted =>
       /\ FollowEachOther(page.entries, state.cursor)
       /\ page.valid /\ state.cursor > low =>
            /\ page.entries # <<>> => page.entries[1] = state.cursor + 1
            /\ ~page.limited =>
                 \A r \in (state.cursor + 1)..page.seen : r \in ToSet(page.entries)
       /\ ~page.limited /\ page.entries # <<>> =>
            \A r \in page.entries[1]..page.seen : r \in ToSet(page.entries)

(* What is under way is sound too, and there is a batch where one is       *)
(* treated.                                                                *)
WaySound ==
  /\ netPending # NoPending => NetBatchSound(netPending)
  /\ \A b \in requests : NetBatchSound(b)
  /\ netPhase \in {"spooled", "waiting", "acked", "committed"} => netPending # NoPending

(* The files of a collector that lost none are those of the last batch, or *)
(* it is about to be sent, or its answer about to be kept.                 *)
HighestId == Len(netBatches) + (MaxBatches + 1) * netFaults
StateIsOf(k) == state.cursor = AfterOf(k) /\ state.last = IdOf(k)
LastIsPending == netBatches # <<>> /\ netBatches[Len(netBatches)] = netPending
FilesSound ==
  /\ \A k \in 1..Len(netBatches) : netBatches[k].id =< HighestId
  /\ \A b \in requests : b = netPending \/ \E k \in 1..Len(netBatches) : netBatches[k] = b
  /\ netPending = NoPending => StateIsOf(Len(netBatches))
  /\ netPending # NoPending /\ ~LastIsPending =>
       /\ StateIsOf(Len(netBatches)) /\ netPending.before = Checkpoint
       /\ \A k \in 1..Len(netBatches) : netBatches[k].id # netPending.id
       /\ netPending.id =< HighestId + 1
  /\ LastIsPending => StateIsOf(Len(netBatches)) \/ StateIsOf(Len(netBatches) - 1)
  /\ netPhase \in {"acked", "committed"} => LastIsPending
  /\ netPhase = "committed" => StateIsOf(Len(netBatches))

(* Where the state is about to be written there is room for it.            *)
RoomLeft ==
  /\ SpoolBounded
  /\ netPhase \in {"waiting", "acked"} => SpoolUsage + StateSize =< MaxSpool

NetInv ==
  /\ NetTyped /\ StoreSound /\ PageSound /\ WaySound /\ RoomLeft
  /\ ~lost => FilesSound
  /\ NetNothingSkippedSilently
-----------------------------------------------------------------------------
LEMMA CardInterval == ASSUME NEW n \in Nat PROVE Cardinality(1..n) = n
  BY FS_Interval
-----------------------------------------------------------------------------
(* A batch of new records is stored as it is.                              *)
LEMMA AllFresh ==
  ASSUME NEW b, b.entries \in Seq(Nat),
         \A i \in 1..Len(b.entries) : b.entries[i] \notin ToSet(receipts)
  PROVE  FreshEntries(b) = b.entries
  <1> DEFINE n == Len(b.entries)
             fresh == {i \in DOMAIN b.entries : b.entries[i] \notin ToSet(receipts)}
             Rank(i) == Cardinality({j \in fresh : j =< i})
  <1>1. n \in Nat /\ DOMAIN b.entries = 1..n /\ fresh = 1..n
    OBVIOUS
  <1>2. Cardinality(fresh) = n
    BY <1>1, CardInterval
  <1>3. ASSUME NEW i \in 1..n
        PROVE  Rank(i) = i
    <2>1. {j \in fresh : j =< i} = 1..i
      BY <1>1
    <2>2. Cardinality(1..i) = i
      BY <1>1, CardInterval
    <2>3. QED
      BY <2>1, <2>2, Zenon
  <1>4. ASSUME NEW k \in 1..n
        PROVE  (CHOOSE i \in fresh : Rank(i) = k) = k
    BY <1>1, <1>3
  <1>5. FreshEntries(b) = [k \in 1..n |-> b.entries[CHOOSE i \in fresh : Rank(i) = k]]
    BY <1>2 DEF FreshEntries
  <1>6. FreshEntries(b) = [k \in 1..n |-> b.entries[k]]
    BY <1>4, <1>5
  <1>7. QED
    BY <1>1, <1>6
-----------------------------------------------------------------------------
LEMMA NetShapes ==
  ASSUME NetTyped
  PROVE  /\ Len(netBatches) \in Nat /\ Len(receipts) \in Nat
         /\ \A k \in 1..Len(netBatches) : netBatches[k] \in NetBatches
         /\ netBatches # <<>> <=> Len(netBatches) > 0
         /\ top \in Nat /\ low \in Nat /\ recent \in Nat
         /\ state.cursor \in Nat /\ state.last \in Nat
         /\ orphans \in Nat /\ netFaults \in Nat
         /\ netPending # NoPending => netPending \in NetBatches
         /\ \A b \in requests : b \in NetBatches
         /\ MaxBatches \in Nat /\ MaxSpool \in Nat /\ MaxRecords \in Nat
         /\ ValidFrom \in Nat /\ MaxPageEntries \in Nat /\ MaxPageEntries > 0
  <1>1. Len(netBatches) \in Nat /\ Len(receipts) \in Nat
    BY DEF NetTyped
  <1>2. \A k \in 1..Len(netBatches) : netBatches[k] \in NetBatches
    BY DEF NetTyped
  <1>3. netBatches # <<>> <=> Len(netBatches) > 0
    BY DEF NetTyped
  <1>4. QED
    BY <1>1, <1>2, <1>3, NetworkCollectionAssumption, NetworkStoreAssumption DEF NetTyped

LEMMA NetBatchShape ==
  ASSUME NEW b \in NetBatches
  PROVE  /\ b # NoPending /\ b.id \in Nat /\ b.id > 0 /\ b.before \in Nat /\ b.after \in Nat
         /\ b.entries \in Seq(Nat) /\ Len(b.entries) \in Nat
         /\ \A i \in 1..Len(b.entries) : b.entries[i] \in Nat
         /\ b.entries = <<>> <=> Len(b.entries) = 0
         /\ b.reports \subseteq Reports /\ b.caughtUp \in BOOLEAN /\ b.seen \in Nat
  <1>1. /\ b.id \in Nat \ {0} /\ b.before \in Nat /\ b.after \in Nat /\ b.entries \in Seq(Nat)
        /\ b.reports \subseteq Reports /\ b.caughtUp \in BOOLEAN /\ b.seen \in Nat
    BY DEF NetBatches
  <1>2. b # NoPending
    BY <1>1 DEF NoPending, None
  <1>3. QED
    BY <1>1, <1>2

(* What the chain of batches says of a checkpoint.                         *)
LEMMA CheckpointIs ==
  ASSUME NetTyped
  PROVE  Checkpoint = AfterOf(Len(netBatches)) /\ Checkpoint \in Nat
  <1>1. CASE netBatches = <<>>
    BY <1>1 DEF Checkpoint, AfterOf, None
  <1>2. CASE netBatches # <<>>
    <2>1. Len(netBatches) > 0 /\ Len(netBatches) \in 1..Len(netBatches)
      BY <1>2, NetShapes
    <2>2. Checkpoint = netBatches[Len(netBatches)].after
      BY <1>2 DEF Checkpoint, Last
    <2>3. QED
      BY <2>1, <2>2, NetShapes, NetBatchShape DEF AfterOf
  <1>3. QED
    BY <1>1, <1>2

LEMMA ProductGrows ==
  ASSUME NEW a \in Nat, NEW m \in Nat, NEW n \in Nat, n =< m
  PROVE  a * n \in Nat /\ a * m \in Nat /\ a * n =< a * m
  <1>1. PICK d \in Nat : m = n + d
    <2>1. m - n \in Nat /\ m = n + (m - n)
      OBVIOUS
    <2>2. QED
      BY <2>1
  <1>2. a * n \in Nat /\ a * d \in Nat /\ a * m \in Nat
    OBVIOUS
  <1>3. a * (n + d) = a * n + a * d
    OBVIOUS
  <1>4. QED
    BY <1>1, <1>2, <1>3

-----------------------------------------------------------------------------
(* The parts of the invariant that a step leaves alone.                    *)

LEMMA StoreKept ==
  ASSUME UNCHANGED <<netBatches, receipts>>, StoreSound, NetNothingSkippedSilently
  PROVE  StoreSound' /\ NetNothingSkippedSilently'
  <1>1. /\ Checkpoint' = Checkpoint /\ NetCoverageStart' = NetCoverageStart
        /\ \A r : SkippedWithReport(r)' <=> SkippedWithReport(r)
    BY DEF Checkpoint, NetCoverageStart, SkippedWithReport
  <1>2. NetNothingSkippedSilently'
    BY <1>1 DEF NetNothingSkippedSilently
  <1>3. \A k : AfterOf(k)' = AfterOf(k)
    BY DEF AfterOf
  <1>4. StoreSound'
    BY <1>1, <1>3 DEF StoreSound
  <1>5. QED
    BY <1>2, <1>4

(* The collector's files stay, its phase is no later than what they say,   *)
(* and nothing but the pending batch is sent.                              *)
LEMMA FilesKept ==
  ASSUME NetTyped, NetTyped', FilesSound,
         UNCHANGED <<netBatches, state, netPending>>,
         requests' \subseteq requests \cup {netPending},
         netFaults =< netFaults',
         netPhase' \in {"acked", "committed"} => LastIsPending,
         netPhase' = "committed" => netPhase = "committed"
  PROVE  FilesSound'
  <1>1. HighestId \in Nat /\ HighestId' \in Nat /\ HighestId =< HighestId'
    <2>1. /\ netFaults \in Nat /\ netFaults' \in Nat /\ Len(netBatches) \in Nat /\ MaxBatches + 1 \in Nat
      BY NetShapes, NetworkStoreAssumption DEF NetTyped
    <2>2. (MaxBatches + 1) * netFaults =< (MaxBatches + 1) * netFaults'
      BY <2>1, ProductGrows
    <2>3. (MaxBatches + 1) * netFaults \in Nat /\ (MaxBatches + 1) * netFaults' \in Nat
      BY <2>1, ProductGrows
    <2>4. QED
      BY <2>1, <2>2, <2>3 DEF HighestId
  <1>2. /\ Checkpoint' = Checkpoint /\ LastIsPending' = LastIsPending
        /\ \A k : StateIsOf(k)' = StateIsOf(k)
    BY DEF Checkpoint, LastIsPending, StateIsOf, AfterOf, IdOf
  <1>3. \A k \in 1..Len(netBatches)' : netBatches'[k].id =< HighestId'
    <2>1. SUFFICES ASSUME NEW k \in 1..Len(netBatches)
                   PROVE  netBatches[k].id =< HighestId'
      OBVIOUS
    <2>2. netBatches[k].id =< HighestId
      BY DEF FilesSound
    <2>3. netBatches[k].id \in Nat
      BY NetShapes, NetBatchShape
    <2>4. QED
      BY <1>1, <2>2, <2>3
  <1>4. netPending' # NoPending /\ ~LastIsPending' =>
          /\ StateIsOf(Len(netBatches))' /\ netPending'.before = Checkpoint'
          /\ \A k \in 1..Len(netBatches)' : netBatches'[k].id # netPending'.id
          /\ netPending'.id =< HighestId' + 1
    <2>1. SUFFICES ASSUME netPending # NoPending, ~LastIsPending
                   PROVE  /\ StateIsOf(Len(netBatches)) /\ netPending.before = Checkpoint
                          /\ \A k \in 1..Len(netBatches) : netBatches[k].id # netPending.id
                          /\ netPending.id =< HighestId' + 1
      BY <1>2
    <2>2. /\ StateIsOf(Len(netBatches)) /\ netPending.before = Checkpoint
          /\ \A k \in 1..Len(netBatches) : netBatches[k].id # netPending.id
          /\ netPending.id =< HighestId + 1
      BY <2>1 DEF FilesSound
    <2>3. netPending.id \in Nat
      BY <2>1, NetShapes, NetBatchShape
    <2>4. netPending.id =< HighestId' + 1
      BY <1>1, <2>2, <2>3
    <2>5. QED
      BY <2>2, <2>4
  <1>5. \A b \in requests' : b = netPending' \/ \E k \in 1..Len(netBatches)' : netBatches'[k] = b
    BY DEF FilesSound
  <1>6. netPending' = NoPending => StateIsOf(Len(netBatches))'
    BY <1>2 DEF FilesSound
  <1>7. LastIsPending' => StateIsOf(Len(netBatches))' \/ StateIsOf(Len(netBatches) - 1)'
    BY <1>2 DEF FilesSound
  <1>8. /\ netPhase' \in {"acked", "committed"} => LastIsPending'
        /\ netPhase' = "committed" => StateIsOf(Len(netBatches))'
    BY <1>2 DEF FilesSound
  <1>9. QED
    BY <1>3, <1>4, <1>5, <1>6, <1>7, <1>8 DEF FilesSound

LEMMA WayKept ==
  ASSUME WaySound, netPending' = netPending,
         requests' \subseteq requests \cup {netPending},
         netPending = NoPending => requests' \subseteq requests,
         netPhase' \in {"spooled", "waiting", "acked", "committed"} => netPending # NoPending
  PROVE  WaySound'
  BY DEF WaySound

(* A page in the making stays sound while the journal loses records.       *)
LEMMA PageKept ==
  ASSUME NetTyped, NetTyped', PageSound,
         UNCHANGED <<page, netPhase, state, netPending>>, low =< low'
  PROVE  PageSound'
  <1>1. low \in Nat /\ low' \in Nat /\ state.cursor \in Nat
    BY NetShapes DEF NetTyped
  <1>2. /\ ~page.valid /\ state.cursor =< low => state.cursor =< low'
        /\ state.cursor > low' => state.cursor > low
    BY <1>1
  <1>3. QED
    BY <1>2 DEF PageSound, Drifted, LosesCursor, FollowEachOther

LEMMA PageLeft ==
  ASSUME netPhase' \notin {"reading", "exported"}
  PROVE  PageSound'
  BY DEF PageSound

LEMMA RoomKept ==
  ASSUME RoomLeft, UNCHANGED <<state, netPending, orphans>>,
         netPhase' \in {"waiting", "acked"} => SpoolUsage + StateSize =< MaxSpool
  PROVE  RoomLeft'
  <1>1. SpoolUsage' = SpoolUsage
    BY DEF SpoolUsage
  <1>2. QED
    BY <1>1 DEF RoomLeft, SpoolBounded

(* A step that leaves the store and the files alone.                       *)
LEMMA NetQuietStep ==
  ASSUME NetInv, NetTyped', PageSound',
         UNCHANGED <<netBatches, receipts, state, netPending, orphans, lost>>,
         requests' \subseteq requests \cup {netPending},
         netPending = NoPending => requests' \subseteq requests,
         netFaults =< netFaults',
         netPhase' \in {"spooled", "waiting", "acked", "committed"} => netPending # NoPending,
         netPhase' \in {"acked", "committed"} => (~lost => LastIsPending),
         netPhase' = "committed" => netPhase = "committed",
         netPhase' \in {"waiting", "acked"} => SpoolUsage + StateSize =< MaxSpool
  PROVE  NetInv'
  <1>1. StoreSound' /\ NetNothingSkippedSilently'
    BY StoreKept DEF NetInv
  <1>2. WaySound'
    BY WayKept DEF NetInv
  <1>3. RoomLeft'
    BY RoomKept DEF NetInv
  <1>4. ~lost' => FilesSound'
    BY FilesKept DEF NetInv
  <1>5. QED
    BY <1>1, <1>2, <1>3, <1>4 DEF NetInv

-----------------------------------------------------------------------------
(* The host, the collector's steps before and after a request.             *)

LEMMA NetHostInv ==
  ASSUME NetInv, NetLog \/ Age \/ NetVacuum \/ RulesChange
  PROVE  NetInv'
  <1>1. /\ UNCHANGED <<netBatches, receipts, state, netPending, orphans, lost, requests, page, netPhase>>
        /\ top' \in Nat /\ low' \in Nat /\ low =< low' /\ recent' \in Nat /\ rulesOK' \in BOOLEAN
        /\ netFaults' \in Nat /\ netFaults =< netFaults'
    <2>1. top \in Nat /\ low \in Nat /\ recent \in Nat /\ rulesOK \in BOOLEAN /\ netFaults \in Nat
      BY DEF NetInv, NetTyped
    <2>2. CASE NetLog
      BY <2>1, <2>2 DEF NetLog, storeVars, fileVars
    <2>3. CASE Age
      BY <2>1, <2>3 DEF Age, storeVars, fileVars
    <2>4. CASE NetVacuum
      BY <2>1, <2>4 DEF NetVacuum, storeVars, fileVars
    <2>5. CASE RulesChange
      BY <2>1, <2>5 DEF RulesChange, NetFault, storeVars, fileVars
    <2>6. QED
      BY <2>2, <2>3, <2>4, <2>5
  <1>2. NetTyped'
    BY <1>1 DEF NetInv, NetTyped
  <1>3. PageSound'
    BY <1>1, <1>2, PageKept DEF NetInv
  <1>4. /\ netPhase' \in {"spooled", "waiting", "acked", "committed"} => netPending # NoPending
        /\ netPhase' \in {"acked", "committed"} => (~lost => LastIsPending)
        /\ netPhase' \in {"waiting", "acked"} => SpoolUsage + StateSize =< MaxSpool
    BY <1>1 DEF NetInv, WaySound, FilesSound, RoomLeft
  <1>5. QED
    BY <1>1, <1>2, <1>3, <1>4, NetQuietStep

LEMMA NetResumeInv == ASSUME NetInv, Resume PROVE NetInv'
  <1>1. /\ UNCHANGED <<netBatches, receipts, state, netPending, orphans, lost, requests, netFaults>>
        /\ UNCHANGED <<top, low, recent, rulesOK, page>>
        /\ netPending # NoPending /\ netPhase' = "spooled"
    BY DEF Resume, storeVars, hostVars, fileVars
  <1>2. NetTyped'
    BY <1>1 DEF NetInv, NetTyped, NetPhases
  <1>3. PageSound'
    BY <1>1, PageLeft
  <1>4. netFaults =< netFaults'
    BY <1>1 DEF NetInv, NetTyped
  <1>5. QED
    BY <1>1, <1>2, <1>3, <1>4, NetQuietStep

LEMMA NetPostInv == ASSUME NetInv, Post PROVE NetInv'
  <1>1. /\ UNCHANGED <<netBatches, receipts, state, netPending, orphans, lost, netFaults>>
        /\ UNCHANGED <<top, low, recent, rulesOK, page>>
        /\ netPhase = "spooled" /\ netPhase' = "waiting"
        /\ requests' = requests \cup {netPending}
        /\ SpoolUsage + StateSize =< MaxSpool
    BY DEF Post, Reserve, storeVars, hostVars, fileVars
  <1>2. netPending # NoPending
    BY <1>1 DEF NetInv, WaySound
  <1>3. NetTyped'
    BY <1>1, <1>2 DEF NetInv, NetTyped, NetPhases
  <1>4. PageSound'
    BY <1>1, PageLeft
  <1>5. netFaults =< netFaults'
    BY <1>1 DEF NetInv, NetTyped
  <1>6. QED
    BY <1>1, <1>2, <1>3, <1>4, <1>5, NetQuietStep

-----------------------------------------------------------------------------
(* The exporter.                                                           *)

LEMMA NetFetchInv == ASSUME NetInv, Fetch PROVE NetInv'
  <1> DEFINE c == state.cursor
             v == c # None /\ CursorExists(c)
             R == IF ~rulesOK THEN {"profile_drift"}
                  ELSE (IF c = None THEN {"coverage_start"}
                        ELSE IF ~v THEN {"journal_cursor_unavailable"} ELSE {})
                       \cup (IF ~v /\ recent < ValidFrom THEN {"profile_boundary"} ELSE {})
  <1>1. /\ UNCHANGED <<netBatches, receipts, state, netPending, orphans, lost, requests, netFaults>>
        /\ UNCHANGED <<top, low, recent, rulesOK>>
        /\ netPending = NoPending
        /\ netPhase' = IF rulesOK THEN "reading" ELSE "exported"
    BY DEF Fetch, storeVars, hostVars, fileVars
  <1>2. page' = [reports |-> R, valid |-> v, entries |-> <<>>, limited |-> FALSE, seen |-> 0]
    BY DEF Fetch, NoPage
  <1>3. v \in BOOLEAN /\ R \subseteq Reports /\ c \in Nat /\ low \in Nat
    BY NetShapes DEF Reports, NetInv
  <1>4. page' \in NetPages
    BY <1>2, <1>3 DEF NetPages
  <1>5. NetTyped'
    BY <1>1, <1>4 DEF NetInv, NetTyped, NetPhases
  <1>6. PageSound'
    <2>1. page'.valid = v /\ page'.reports = R
      BY <1>2
    <2>2. page'.valid => state'.cursor # None
      BY <1>1, <2>1
    <2>3. ~page'.valid => state'.cursor =< low'
      <3>1. ~v => c =< low
        BY <1>3 DEF CursorExists, None
      <3>2. QED
        BY <1>1, <2>1, <3>1, Zenon
    <2>4. ~rulesOK => Drifted'
      BY <2>1 DEF Drifted
    <2>5. rulesOK => ~Drifted'
      BY <2>1 DEF Drifted
    <2>6. ~Drifted' /\ ~page'.valid /\ state'.cursor # None => LosesCursor(page)'
      BY <1>1, <2>1, <2>4 DEF LosesCursor
    <2>7. ~Drifted' /\ page'.valid => ~LosesCursor(page)'
      BY <1>1, <2>1, <2>4 DEF LosesCursor
    <2>8. QED
      BY <1>1, <2>2, <2>3, <2>4, <2>5, <2>6, <2>7 DEF PageSound
  <1>7. netFaults =< netFaults'
    BY <1>1 DEF NetInv, NetTyped
  <1>8. netPhase' \in {"reading", "exported"}
    BY <1>1
  <1>9. QED
    BY <1>1, <1>5, <1>6, <1>7, <1>8, NetQuietStep

(* What can be read is a stretch of the journal up to its end.             *)
LEMMA ReadableStretch ==
  ASSUME NetTyped, NEW c \in Nat, NEW valid \in BOOLEAN
  PROVE  \E m \in Nat : /\ NetReadable(c, valid) = (m + 1)..top
                        /\ m >= low /\ (valid => m >= c) /\ (valid /\ c > low => m = c)
  <1>1. top \in Nat /\ low \in Nat /\ recent \in Nat /\ ValidFrom \in Nat
    BY NetShapes
  <1>2. CASE valid
    <2> DEFINE m == IF c > low THEN c ELSE low
    <2>1. m \in Nat /\ m >= low /\ m >= c /\ (c > low => m = c)
      BY <1>1
    <2>2. NetReadable(c, valid) = {r \in 1..top : r > low /\ r > c}
      BY <1>2 DEF NetReadable
    <2>3. {r \in 1..top : r > low /\ r > c} = (m + 1)..top
      BY <1>1
    <2>4. QED
      BY <2>1, <2>2, <2>3
  <1>3. CASE ~valid
    <2> DEFINE a == IF recent > low THEN recent ELSE low
               m == IF ValidFrom > a + 1 THEN ValidFrom - 1 ELSE a
    <2>1. a \in Nat /\ a >= low /\ a >= recent
      BY <1>1
    <2>2. m \in Nat /\ m >= low
      BY <1>1, <2>1
    <2>3. NetReadable(c, valid) = {r \in 1..top : r > low /\ r > recent /\ r >= ValidFrom}
      BY <1>3 DEF NetReadable
    <2>4. {r \in 1..top : r > low /\ r > recent /\ r >= ValidFrom} = (m + 1)..top
      BY <1>1
    <2>5. QED
      BY <1>3, <2>2, <2>3, <2>4
  <1>4. QED
    BY <1>2, <1>3

(* A page is the beginning of that stretch, and all of it where the page   *)
(* is not full.                                                            *)
LEMMA PageRead ==
  ASSUME NetTyped, ReadPage
  PROVE  \E m, n \in Nat :
           /\ page' = [page EXCEPT !.entries = [i \in 1..n |-> m + i], !.limited = (n = MaxPageEntries),
                                   !.seen = top, !.reports = page'.reports]
           /\ page'.reports \in {page.reports, page.reports \cup {"profile_boundary"}}
           /\ n # MaxPageEntries => m + n >= top
           /\ m >= low /\ (page.valid => m >= state.cursor)
           /\ page.valid /\ state.cursor > low => m = state.cursor
  <1> DEFINE all == NetReadable(state.cursor, page.valid)
             size == Cardinality(all)
             n == IF size < MaxPageEntries THEN size ELSE MaxPageEntries
             first == IF all = {} THEN 1 ELSE CHOOSE r \in all : \A s \in all : r =< s
             entries == [i \in 1..n |-> first + i - 1]
             extra == IF \E i \in 1..n : entries[i] < ValidFrom THEN {"profile_boundary"} ELSE {}
  <1>1. page' = [page EXCEPT !.entries = entries, !.limited = (n = MaxPageEntries),
                             !.seen = top, !.reports = page.reports \cup extra]
    BY DEF ReadPage
  <1>2. /\ page \in NetPages /\ page.valid \in BOOLEAN /\ state.cursor \in Nat /\ top \in Nat
        /\ MaxPageEntries \in Nat /\ MaxPageEntries > 0
    BY NetShapes DEF NetTyped, NetPages
  <1>3. PICK m \in Nat :
          /\ all = (m + 1)..top
          /\ m >= low /\ (page.valid => m >= state.cursor)
          /\ page.valid /\ state.cursor > low => m = state.cursor
    <2>1. PICK c \in Nat, v \in BOOLEAN : c = state.cursor /\ v = page.valid
      BY <1>2
    <2>2. PICK m \in Nat : /\ NetReadable(c, v) = (m + 1)..top
                           /\ m >= low /\ (v => m >= c) /\ (v /\ c > low => m = c)
      BY ReadableStretch
    <2>3. NetReadable(state.cursor, page.valid) = NetReadable(c, v)
      BY <2>1
    <2> HIDE DEF all
    <2>4. all = (m + 1)..top
      BY <2>2, <2>3 DEF all
    <2>5. QED
      BY <2>1, <2>2, <2>4
  <1>4. size = IF m + 1 > top THEN 0 ELSE top - m
    <2>1. Cardinality((m + 1)..top) = IF m + 1 > top THEN 0 ELSE top - (m + 1) + 1
      BY <1>2, FS_Interval
    <2>2. QED
      BY <1>2, <1>3, <2>1
  <1> HIDE DEF all, size
  <1>5. n \in Nat /\ (n # MaxPageEntries => m + n >= top)
    BY <1>2, <1>4
  <1>6. entries = [i \in 1..n |-> m + i]
    <2>1. CASE n = 0
      BY <2>1
    <2>2. CASE n # 0
      <3>1. all # {} /\ m + 1 \in all /\ \A s \in all : m + 1 =< s
        BY <1>2, <1>3, <1>4, <1>5, <2>2
      <3>2. first = m + 1
        <4>1. \A r \in all : (\A s \in all : r =< s) => r = m + 1
          BY <1>2, <1>3, <3>1
        <4>2. QED
          BY <3>1, <4>1
      <3> HIDE DEF first
      <3>3. \A i \in 1..n : first + i - 1 = m + i
        BY <1>5, <3>2
      <3>4. QED
        BY <3>3
    <2>3. QED
      BY <2>1, <2>2
  <1>7. page.reports \cup extra \in {page.reports, page.reports \cup {"profile_boundary"}}
    OBVIOUS
  <1>8. page'.reports = page.reports \cup extra
    <2> HIDE DEF entries, n, extra
    <2>1. QED
      BY <1>1, <1>2 DEF NetPages
  <1> HIDE DEF n, first, entries, extra
  <1>9. page' = [page EXCEPT !.entries = [i \in 1..n |-> m + i], !.limited = (n = MaxPageEntries),
                             !.seen = top, !.reports = page'.reports]
    BY <1>1, <1>6, <1>8
  <1>10. QED
    BY <1>3, <1>5, <1>7, <1>8, <1>9

LEMMA NetReadPageInv == ASSUME NetInv, ReadPage PROVE NetInv'
  <1>1. /\ UNCHANGED <<netBatches, receipts, state, netPending, orphans, lost, requests, netFaults>>
        /\ UNCHANGED <<top, low, recent, rulesOK>>
        /\ netPhase = "reading" /\ netPhase' = "exported"
    BY DEF ReadPage, storeVars, hostVars, fileVars
  <1>2. PICK m \in Nat, n \in Nat :
          /\ page' = [page EXCEPT !.entries = [i \in 1..n |-> m + i], !.limited = (n = MaxPageEntries),
                                  !.seen = top, !.reports = page'.reports]
          /\ page'.reports \in {page.reports, page.reports \cup {"profile_boundary"}}
          /\ n # MaxPageEntries => m + n >= top
          /\ m >= low /\ (page.valid => m >= state.cursor)
          /\ page.valid /\ state.cursor > low => m = state.cursor
    BY PageRead DEF NetInv
  <1> DEFINE entries == [i \in 1..n |-> m + i]
             rs == page'.reports
  <1>3. entries \in Seq(Nat) /\ Len(entries) = n /\ DOMAIN entries = 1..n
        /\ \A i \in 1..n : entries[i] = m + i
    OBVIOUS
  <1> HIDE DEF entries, rs
  <1>4. page \in NetPages /\ page.reports \subseteq Reports /\ page.valid \in BOOLEAN /\ top \in Nat
        /\ low \in Nat /\ state.cursor \in Nat
    BY NetShapes DEF NetInv, NetTyped, NetPages
  <1>5. rs \subseteq Reports
    BY <1>2, <1>4 DEF rs, Reports
  <1>6. page' = [page EXCEPT !.entries = entries, !.limited = (n = MaxPageEntries),
                             !.seen = top, !.reports = rs]
    BY <1>2 DEF entries, rs
  <1>7. /\ page' \in NetPages
        /\ page'.entries = entries /\ page'.limited = (n = MaxPageEntries)
        /\ page'.seen = top /\ page'.valid = page.valid
    BY <1>3, <1>4, <1>5, <1>6 DEF NetPages
  <1>8. NetTyped'
    BY <1>1, <1>7 DEF NetInv, NetTyped, NetPhases
  <1>9. Drifted' = Drifted /\ LosesCursor(page)' = LosesCursor(page)
    BY <1>2 DEF Drifted, LosesCursor
  <1>10. /\ netPending = NoPending /\ ~Drifted
         /\ page.valid => state.cursor # None
         /\ ~page.valid => state.cursor =< low
         /\ ~Drifted /\ ~page.valid /\ state.cursor # None => LosesCursor(page)
         /\ ~Drifted /\ page.valid => ~LosesCursor(page)
    BY <1>1 DEF NetInv, PageSound
  <1>11. m >= state.cursor
    BY <1>2, <1>4, <1>10
  <1>13. FollowEachOther(page'.entries, state'.cursor)
    <2>1. \A i \in 1..n : entries[i] = entries[1] + i - 1 /\ entries[i] > state.cursor
      <3>1. SUFFICES ASSUME NEW i \in 1..n
                     PROVE  entries[i] = entries[1] + i - 1 /\ entries[i] > state.cursor
        OBVIOUS
      <3>2. 1 \in 1..n /\ i \in Nat /\ i >= 1
        OBVIOUS
      <3>3. entries[i] = m + i /\ entries[1] = m + 1
        BY <1>3, <3>2
      <3>4. QED
        BY <1>4, <1>11, <3>2, <3>3
    <2>2. QED
      BY <1>1, <1>3, <1>7, <2>1 DEF FollowEachOther
  <1>14. n # MaxPageEntries => \A r \in (m + 1)..top : r \in ToSet(entries)
    <2>1. SUFFICES ASSUME n # MaxPageEntries, NEW r \in (m + 1)..top
                   PROVE  r \in ToSet(entries)
      OBVIOUS
    <2>2. r - m \in 1..n /\ m + (r - m) = r
      BY <1>2, <1>4, <2>1
    <2>3. QED
      BY <1>3, <2>2 DEF ToSet
  <1>15. page'.entries # <<>> => page'.entries[1] = m + 1
    <2>1. page'.entries # <<>> => n > 0
      BY <1>3, <1>7
    <2>2. QED
      BY <1>3, <1>7, <2>1
  <1>16. page'.valid /\ state'.cursor > low' =>
           /\ page'.entries # <<>> => page'.entries[1] = state'.cursor + 1
           /\ ~page'.limited =>
                \A r \in (state'.cursor + 1)..page'.seen : r \in ToSet(page'.entries)
    <2>1. SUFFICES ASSUME page.valid, state.cursor > low
                   PROVE  /\ page'.entries # <<>> => page'.entries[1] = state.cursor + 1
                          /\ n # MaxPageEntries => \A r \in (state.cursor + 1)..top : r \in ToSet(entries)
      BY <1>1, <1>7
    <2>2. m = state.cursor
      BY <1>2, <2>1
    <2>3. QED
      BY <1>14, <1>15, <2>2
  <1>17. ~page'.limited /\ page'.entries # <<>> =>
           \A r \in page'.entries[1]..page'.seen : r \in ToSet(page'.entries)
    BY <1>7, <1>14, <1>15
  <1>18. PageSound'
    <2>1. netPhase' \in {"reading", "exported"} =>
            /\ netPending' = NoPending
            /\ page'.valid => state'.cursor # None
            /\ ~page'.valid => state'.cursor =< low'
            /\ ~Drifted' /\ ~page'.valid /\ state'.cursor # None => LosesCursor(page)'
            /\ ~Drifted' /\ page'.valid => ~LosesCursor(page)'
      BY <1>1, <1>7, <1>9, <1>10
    <2>2. QED
      BY <1>1, <1>13, <1>16, <1>17, <2>1 DEF PageSound
  <1>19. netFaults =< netFaults'
    BY <1>1 DEF NetInv, NetTyped
  <1>20. QED
    BY <1>1, <1>8, <1>18, <1>19, NetQuietStep

(* The page as it is handed over.                                          *)
NewId == 1 + Len(netBatches) + (MaxBatches + 1) * netFaults
Void(rs) == [id |-> NewId, before |-> state.cursor, after |-> state.cursor, entries |-> <<>>,
             reports |-> rs, caughtUp |-> FALSE, seen |-> 0]

LEMMA NewIdIs ==
  ASSUME NetTyped
  PROVE  NewId = HighestId + 1 /\ HighestId \in Nat
  <1>1. Len(netBatches) \in Nat /\ netFaults \in Nat /\ MaxBatches + 1 \in Nat
    BY NetShapes, NetworkStoreAssumption
  <1>2. (MaxBatches + 1) * netFaults \in Nat
    BY <1>1, ProductGrows
  <1>3. QED
    BY <1>1, <1>2 DEF NewId, HighestId

LEMMA VoidSound ==
  ASSUME NetTyped, NEW rs \in SUBSET Reports
  PROVE  Void(rs) \in NetBatches /\ NetBatchSound(Void(rs))
  <1>1. NewId \in Nat \ {0} /\ state.cursor \in Nat
    BY NewIdIs, NetShapes
  <1>2. Void(rs) \in NetBatches
    BY <1>1 DEF Void, NetBatches
  <1>3. NetBatchSound(Void(rs))
    <2>1. /\ Void(rs).entries = <<>> /\ Void(rs).caughtUp = FALSE
          /\ Void(rs).after = Void(rs).before
      BY DEF Void
    <2>2. FollowEachOther(Void(rs).entries, Void(rs).before)
      BY <2>1 DEF FollowEachOther
    <2>3. QED
      BY <2>1, <2>2 DEF NetBatchSound
  <1>4. QED
    BY <1>2, <1>3

(* A page that was neither drifted nor lost its cursor says what was read. *)
Full(p, rs, atEnd) ==
  [id |-> NewId, before |-> state.cursor,
   after |-> IF p.entries = <<>> THEN state.cursor ELSE Last(p.entries),
   entries |-> p.entries, reports |-> rs, caughtUp |-> atEnd,
   seen |-> IF atEnd THEN p.seen ELSE 0]

LEMMA FinishedIs ==
  \/ FinishedPage = Void({"profile_drift"})
  \/ FinishedPage = Void({"journal_cursor_unavailable"})
  \/ /\ ~Drifted /\ ~CursorGone(state.cursor)
     /\ FinishedPage = Full(page, page.reports \cup (IF page.limited THEN {"catching_up"} ELSE {}),
                            ~page.limited /\ ~LosesCursor(page))
  <1>1. CASE Drifted \/ ~rulesOK
    BY <1>1 DEF FinishedPage, Void, NewId, Drifted
  <1>2. CASE ~Drifted /\ rulesOK /\ CursorGone(state.cursor)
    BY <1>2 DEF FinishedPage, Void, NewId, Drifted
  <1>3. CASE ~Drifted /\ rulesOK /\ ~CursorGone(state.cursor)
    BY <1>3 DEF FinishedPage, Full, NewId, Drifted, LosesCursor
  <1>4. QED
    BY <1>1, <1>2, <1>3

LEMMA FullSound ==
  ASSUME NetTyped, PageSound, netPhase = "exported", ~Drifted, ~CursorGone(state.cursor),
         NEW rs \in SUBSET Reports, NEW atEnd \in BOOLEAN,
         atEnd => ~page.limited /\ ~LosesCursor(page),
         "journal_cursor_unavailable" \in rs <=> LosesCursor(page)
  PROVE  Full(page, rs, atEnd) \in NetBatches /\ NetBatchSound(Full(page, rs, atEnd))
  <1> DEFINE b == Full(page, rs, atEnd)
  <1>1. /\ NewId \in Nat \ {0} /\ state.cursor \in Nat /\ low \in Nat
        /\ page.entries \in Seq(Nat) /\ page.seen \in Nat
        /\ page.valid \in BOOLEAN /\ page.limited \in BOOLEAN
    BY NewIdIs, NetShapes DEF NetTyped, NetPages
  <1>2. page.entries # <<>> => Last(page.entries) \in Nat /\ Last(page.entries) = page.entries[Len(page.entries)]
    BY <1>1 DEF Last
  <1>3. b \in NetBatches
    BY <1>1, <1>2 DEF Full, NetBatches
  <1>4. /\ b.entries = page.entries /\ b.before = state.cursor /\ b.caughtUp = atEnd
        /\ b.reports = rs
        /\ b.after = IF page.entries = <<>> THEN state.cursor ELSE page.entries[Len(page.entries)]
        /\ b.seen = IF atEnd THEN page.seen ELSE 0
    BY <1>2 DEF Full
  <1> HIDE DEF b
  <1>5. /\ FollowEachOther(page.entries, state.cursor)
        /\ page.valid /\ state.cursor > low =>
             /\ page.entries # <<>> => page.entries[1] = state.cursor + 1
             /\ ~page.limited =>
                  \A r \in (state.cursor + 1)..page.seen : r \in ToSet(page.entries)
        /\ ~page.limited /\ page.entries # <<>> =>
             \A r \in page.entries[1]..page.seen : r \in ToSet(page.entries)
        /\ page.valid => state.cursor # None
        /\ ~page.valid /\ state.cursor # None => LosesCursor(page)
    BY DEF PageSound
  <1>6. page.valid => state.cursor > low
    BY DEF CursorGone, CursorExists
  <1>7. LosesCursor(b) <=> LosesCursor(page)
    BY <1>4 DEF LosesCursor
  <1>8. ASSUME b.before # None, ~LosesCursor(b)
        PROVE  /\ page.valid
               /\ page.entries # <<>> => page.entries[1] = state.cursor + 1
    BY <1>4, <1>5, <1>6, <1>7, <1>8
  <1>9. ASSUME b.caughtUp, NEW r \in PageStart(b)..b.seen
        PROVE  r \in ToSet(b.entries)
    <2>1. atEnd /\ ~page.limited /\ ~LosesCursor(page) /\ b.seen = page.seen
      BY <1>4, <1>9
    <2>2. CASE b.before # None
      <3>1. PageStart(b) = state.cursor + 1
        BY <1>4, <2>2 DEF PageStart
      <3>2. QED
        BY <1>4, <1>5, <1>6, <1>7, <1>8, <1>9, <2>1, <2>2, <3>1
    <2>3. CASE b.before = None /\ b.entries = <<>>
      <3>1. PageStart(b) = b.seen + 1
        BY <2>3 DEF PageStart
      <3>2. b.seen \in Nat
        BY <1>1, <2>1
      <3>3. QED
        BY <1>9, <3>1, <3>2
    <2>4. CASE b.before = None /\ b.entries # <<>>
      <3>1. PageStart(b) = page.entries[1]
        BY <1>1, <1>4, <2>4 DEF PageStart
      <3>2. QED
        BY <1>4, <1>5, <1>9, <2>1, <2>4, <3>1
    <2>5. QED
      BY <2>2, <2>3, <2>4
  <1>10. NetBatchSound(b)
    <2>1. b.caughtUp => ~LosesCursor(b)
      BY <1>4, <1>7
    <2>2. FollowEachOther(b.entries, b.before)
      BY <1>4, <1>5
    <2>3. QED
      BY <1>4, <1>8, <1>9, <2>1, <2>2 DEF NetBatchSound
  <1>11. QED
    BY <1>3, <1>10 DEF b

LEMMA FinishedSound ==
  ASSUME NetTyped, PageSound, netPhase = "exported"
  PROVE  /\ FinishedPage \in NetBatches /\ NetBatchSound(FinishedPage)
         /\ FinishedPage.before = state.cursor /\ FinishedPage.id = HighestId + 1
  <1>1. CASE FinishedPage = Void({"profile_drift"})
    <2>1. {"profile_drift"} \in SUBSET Reports
      BY DEF Reports
    <2>2. QED
      BY <1>1, <2>1, VoidSound, NewIdIs DEF Void
  <1>2. CASE FinishedPage = Void({"journal_cursor_unavailable"})
    <2>1. {"journal_cursor_unavailable"} \in SUBSET Reports
      BY DEF Reports
    <2>2. QED
      BY <1>2, <2>1, VoidSound, NewIdIs DEF Void
  <1>3. CASE /\ ~Drifted /\ ~CursorGone(state.cursor)
             /\ FinishedPage = Full(page, page.reports \cup (IF page.limited THEN {"catching_up"} ELSE {}),
                                    ~page.limited /\ ~LosesCursor(page))
    <2> DEFINE rs == page.reports \cup (IF page.limited THEN {"catching_up"} ELSE {})
               atEnd == ~page.limited /\ ~LosesCursor(page)
    <2>1. page.reports \subseteq Reports
      BY DEF NetTyped, NetPages
    <2>2. rs \in SUBSET Reports /\ atEnd \in BOOLEAN
      BY <2>1 DEF Reports
    <2>3. "journal_cursor_unavailable" \in rs <=> LosesCursor(page)
      BY DEF LosesCursor
    <2>4. FinishedPage = Full(page, rs, atEnd)
      BY <1>3
    <2>5. atEnd => ~page.limited /\ ~LosesCursor(page)
      OBVIOUS
    <2> HIDE DEF rs, atEnd
    <2>6. Full(page, rs, atEnd) \in NetBatches /\ NetBatchSound(Full(page, rs, atEnd))
      BY <1>3, <2>2, <2>3, <2>5, FullSound
    <2>7. Full(page, rs, atEnd).before = state.cursor /\ Full(page, rs, atEnd).id = HighestId + 1
      BY NewIdIs DEF Full
    <2>8. QED
      BY <2>4, <2>6, <2>7
  <1>4. QED
    BY <1>1, <1>2, <1>3, FinishedIs

-----------------------------------------------------------------------------
(* The collector's files.                                                  *)

LEMMA NetSpoolInv == ASSUME NetInv, SpoolPage PROVE NetInv'
  <1>1. PICK b \in NetBatches : b = FinishedPage
    BY FinishedSound DEF NetInv, SpoolPage
  <1>2. /\ NetBatchSound(b) /\ b.before = state.cursor /\ b.id = HighestId + 1
    BY <1>1, FinishedSound DEF NetInv, SpoolPage
  <1>3. /\ UNCHANGED <<netBatches, receipts, state, orphans, lost, requests, netFaults>>
        /\ UNCHANGED <<top, low, recent, rulesOK>>
        /\ netPhase = "exported" /\ netPhase' = "spooled" /\ page' = NoPage
        /\ netPending' = b
        /\ SpoolUsage + (PendingSize + StateSize) =< MaxSpool
    BY <1>1 DEF SpoolPage, Reserve, storeVars, hostVars
  <1>4. netPending = NoPending
    BY <1>3 DEF NetInv, PageSound
  <1>5. NetTyped'
    <2>1. NoPage \in NetPages
      BY DEF NoPage, NetPages
    <2>2. QED
      BY <1>3, <2>1 DEF NetInv, NetTyped, NetPhases
  <1>6. StoreSound' /\ NetNothingSkippedSilently'
    BY <1>3, StoreKept DEF NetInv
  <1>7. PageSound'
    BY <1>3, PageLeft
  <1>8. b # NoPending /\ b.id \in Nat
    BY NetBatchShape
  <1>9. WaySound'
    BY <1>2, <1>3, <1>8 DEF NetInv, WaySound
  <1>10. RoomLeft'
    <2>1. SpoolUsage \in Nat /\ SpoolUsage' = SpoolUsage + PendingSize /\ MaxSpool \in Nat
      <3>1. orphans \in Nat /\ MaxSpool \in Nat
        BY NetShapes DEF NetInv
      <3>2. QED
        BY <1>3, <1>4, <1>8, <3>1 DEF SpoolUsage, PendingSize, StateSize
    <2>2. QED
      BY <1>3, <2>1 DEF RoomLeft, SpoolBounded, PendingSize, StateSize
  <1>11. ASSUME ~lost PROVE FilesSound'
    <2>1. FilesSound
      BY <1>11 DEF NetInv
    <2>2. HighestId' = HighestId /\ HighestId \in Nat
      BY <1>3, NewIdIs DEF HighestId, NetInv
    <2>3. /\ Checkpoint' = Checkpoint /\ \A k : StateIsOf(k)' = StateIsOf(k)
      BY <1>3 DEF Checkpoint, StateIsOf, AfterOf, IdOf
    <2>4. StateIsOf(Len(netBatches)) /\ state.cursor = Checkpoint
      BY <1>4, <2>1, CheckpointIs DEF FilesSound, StateIsOf, NetInv
    <2>5. \A k \in 1..Len(netBatches) : netBatches[k].id =< HighestId /\ netBatches[k].id # b.id
      <3>1. SUFFICES ASSUME NEW k \in 1..Len(netBatches)
                     PROVE  netBatches[k].id =< HighestId /\ netBatches[k].id # b.id
        OBVIOUS
      <3>2. netBatches[k].id =< HighestId /\ netBatches[k].id \in Nat
        BY <2>1, NetShapes, NetBatchShape DEF FilesSound, NetInv
      <3>3. QED
        BY <1>2, <2>2, <3>2
    <2>6. ~LastIsPending'
      <3>1. SUFFICES ASSUME netBatches # <<>>, netBatches[Len(netBatches)] = b
                     PROVE  FALSE
        BY <1>3 DEF LastIsPending
      <3>2. Len(netBatches) \in 1..Len(netBatches)
        BY <3>1, NetShapes DEF NetInv
      <3>3. QED
        BY <2>5, <3>1, <3>2
    <2>7. b.id =< HighestId + 1
      BY <1>2, <2>2
    <2>8. \A c \in requests : \E k \in 1..Len(netBatches) : netBatches[k] = c
      BY <1>4, <2>1, NetShapes, NetBatchShape DEF FilesSound, NetInv
    <2>9. QED
      BY <1>2, <1>3, <1>8, <2>2, <2>3, <2>4, <2>5, <2>6, <2>7, <2>8 DEF FilesSound
  <1>12. QED
    BY <1>3, <1>5, <1>6, <1>7, <1>9, <1>10, <1>11 DEF NetInv

LEMMA NetCommitStateInv == ASSUME NetInv, CommitState PROVE NetInv'
  <1>1. /\ UNCHANGED <<netBatches, receipts, netPending, orphans, lost, requests, netFaults>>
        /\ UNCHANGED <<top, low, recent, rulesOK, page>>
        /\ netPhase = "acked" /\ netPhase' = "committed"
        /\ state' = [cursor |-> netPending.after, last |-> netPending.id]
    BY DEF CommitState, storeVars, hostVars
  <1>2. netPending # NoPending /\ netPending \in NetBatches
    BY <1>1, NetShapes DEF NetInv, WaySound
  <1>3. netPending.after \in Nat /\ netPending.id \in Nat
    BY <1>2, NetBatchShape
  <1>4. NetTyped'
    BY <1>1, <1>3 DEF NetInv, NetTyped, NetPhases
  <1>5. StoreSound' /\ NetNothingSkippedSilently'
    BY <1>1, StoreKept DEF NetInv
  <1>6. PageSound'
    BY <1>1, PageLeft
  <1>7. WaySound'
    BY <1>1, <1>2 DEF NetInv, WaySound
  <1>8. RoomLeft'
    <2>1. SpoolUsage \in Nat /\ SpoolUsage' \in Nat /\ SpoolUsage' =< SpoolUsage + StateSize /\ MaxSpool \in Nat
      <3>1. orphans \in Nat /\ MaxSpool \in Nat
        BY NetShapes DEF NetInv
      <3>2. QED
        BY <1>1, <3>1 DEF SpoolUsage, PendingSize, StateSize
    <2>2. SpoolUsage + StateSize =< MaxSpool
      BY <1>1 DEF NetInv, RoomLeft
    <2>3. QED
      BY <1>1, <2>1, <2>2 DEF RoomLeft, SpoolBounded, StateSize
  <1>9. ASSUME ~lost PROVE FilesSound'
    <2>1. FilesSound /\ LastIsPending
      BY <1>1, <1>9 DEF NetInv, FilesSound
    <2>2. HighestId' = HighestId /\ LastIsPending' /\ Len(netBatches)' = Len(netBatches)
      BY <1>1, <2>1 DEF HighestId, LastIsPending
    <2>3. StateIsOf(Len(netBatches))'
      <3>1. Len(netBatches) # 0
        BY <2>1, NetShapes DEF NetInv, LastIsPending
      <3>2. QED
        BY <1>1, <2>1, <3>1 DEF StateIsOf, AfterOf, IdOf, LastIsPending
    <2>4. /\ \A k \in 1..Len(netBatches)' : netBatches'[k].id =< HighestId'
          /\ \A b \in requests' : b = netPending' \/ \E k \in 1..Len(netBatches)' : netBatches'[k] = b
      BY <1>1, <2>1, <2>2 DEF FilesSound
    <2>5. QED
      BY <1>1, <1>2, <2>2, <2>3, <2>4 DEF FilesSound
  <1>10. QED
    BY <1>1, <1>4, <1>5, <1>6, <1>7, <1>8, <1>9 DEF NetInv

LEMMA NetUnlinkInv == ASSUME NetInv, UnlinkPending PROVE NetInv'
  <1>1. /\ UNCHANGED <<netBatches, receipts, state, orphans, lost, requests, netFaults>>
        /\ UNCHANGED <<top, low, recent, rulesOK, page>>
        /\ netPhase = "committed" /\ netPhase' = "idle" /\ netPending' = NoPending
    BY DEF UnlinkPending, storeVars, hostVars
  <1>2. NetTyped'
    BY <1>1 DEF NetInv, NetTyped, NetPhases
  <1>3. StoreSound' /\ NetNothingSkippedSilently'
    BY <1>1, StoreKept DEF NetInv
  <1>4. PageSound'
    BY <1>1, PageLeft
  <1>5. WaySound'
    BY <1>1 DEF NetInv, WaySound
  <1>6. RoomLeft'
    <2>1. SpoolUsage \in Nat /\ SpoolUsage' \in Nat /\ SpoolUsage' =< SpoolUsage /\ MaxSpool \in Nat
      <3>1. orphans \in Nat /\ MaxSpool \in Nat
        BY NetShapes DEF NetInv
      <3>2. QED
        BY <1>1, <3>1 DEF SpoolUsage, PendingSize, StateSize
    <2>2. SpoolUsage =< MaxSpool
      BY DEF NetInv, RoomLeft, SpoolBounded
    <2>3. QED
      BY <1>1, <2>1, <2>2 DEF RoomLeft, SpoolBounded
  <1>7. ASSUME ~lost PROVE FilesSound'
    <2>1. FilesSound /\ LastIsPending /\ StateIsOf(Len(netBatches))
      BY <1>1, <1>7 DEF NetInv, FilesSound
    <2>2. /\ HighestId' = HighestId /\ Len(netBatches)' = Len(netBatches)
          /\ StateIsOf(Len(netBatches))'
      BY <1>1, <2>1 DEF HighestId, StateIsOf, AfterOf, IdOf
    <2>3. Len(netBatches) \in 1..Len(netBatches) /\ netBatches[Len(netBatches)] = netPending
      BY <2>1, NetShapes DEF NetInv, LastIsPending
    <2>4. ~LastIsPending'
      <3>1. netBatches[Len(netBatches)] # NoPending
        BY <2>3, NetShapes, NetBatchShape DEF NetInv
      <3>2. QED
        BY <1>1, <3>1 DEF LastIsPending
    <2>5. /\ \A k \in 1..Len(netBatches)' : netBatches'[k].id =< HighestId'
      BY <1>1, <2>1, <2>2 DEF FilesSound
    <2>6. \A b \in requests : \E k \in 1..Len(netBatches) : netBatches[k] = b
      BY <2>1, <2>3 DEF FilesSound
    <2>7. QED
      BY <1>1, <2>2, <2>4, <2>5, <2>6 DEF FilesSound
  <1>8. QED
    BY <1>1, <1>2, <1>3, <1>4, <1>5, <1>6, <1>7 DEF NetInv

LEMMA NetAbortInv == ASSUME NetInv, NetAbort PROVE NetInv'
  <1>1. /\ UNCHANGED <<netBatches, receipts, state, netPending, lost, requests>>
        /\ UNCHANGED <<top, low, recent, rulesOK>>
        /\ netPhase' = "idle" /\ page' = NoPage
    BY DEF NetAbort, storeVars, hostVars
  <1>2. /\ orphans \in Nat /\ netFaults \in Nat /\ netFaults' = netFaults + 1
    BY NetShapes DEF NetInv, NetAbort, NetFault
  <1>3. \/ orphans' = orphans
        \/ orphans' = orphans + PendingSize /\ SpoolUsage + (PendingSize + StateSize) =< MaxSpool
        \/ orphans' = orphans + StateSize /\ SpoolUsage + StateSize =< MaxSpool
    BY DEF NetAbort, Reserve, NetInv, RoomLeft
  <1>4. orphans' \in Nat
    BY <1>2, <1>3 DEF PendingSize, StateSize
  <1>5. NetTyped'
    <2>1. NoPage \in NetPages
      BY DEF NoPage, NetPages
    <2>2. netFaults' \in Nat
      BY <1>2
    <2>3. QED
      BY <1>1, <1>4, <2>1, <2>2 DEF NetInv, NetTyped, NetPhases
  <1>6. StoreSound' /\ NetNothingSkippedSilently'
    BY <1>1, StoreKept DEF NetInv
  <1>7. PageSound'
    BY <1>1, PageLeft
  <1>8. WaySound'
    BY <1>1 DEF NetInv, WaySound
  <1>9. RoomLeft'
    <2>1. SpoolUsage \in Nat /\ SpoolUsage' = SpoolUsage + (orphans' - orphans) /\ MaxSpool \in Nat
      <3>1. orphans \in Nat /\ MaxSpool \in Nat
        BY NetShapes DEF NetInv
      <3>2. QED
        BY <1>1, <1>2, <1>4, <3>1 DEF SpoolUsage, PendingSize, StateSize
    <2>2. SpoolUsage =< MaxSpool
      BY DEF NetInv, RoomLeft, SpoolBounded
    <2>3. QED
      BY <1>1, <1>2, <1>3, <2>1, <2>2 DEF RoomLeft, SpoolBounded, PendingSize, StateSize
  <1>10. ASSUME ~lost PROVE FilesSound'
    <2>1. netFaults =< netFaults'
      BY <1>2
    <2>2. QED
      BY <1>1, <1>5, <1>10, <2>1, FilesKept DEF NetInv
  <1>11. QED
    BY <1>1, <1>5, <1>6, <1>7, <1>8, <1>9, <1>10 DEF NetInv

LEMMA NetLoseInv == ASSUME NetInv, LoseState PROVE NetInv'
  <1>1. /\ UNCHANGED <<netBatches, receipts, requests, top, low, recent, rulesOK, page, netPhase>>
        /\ netPhase = "idle" /\ state' = NoState /\ netPending' = NoPending /\ orphans' = 0
        /\ lost' = TRUE /\ netFaults' = netFaults + 1
    BY DEF LoseState, NetFault, storeVars, hostVars
  <1>2. NetTyped'
    BY <1>1, NetShapes DEF NetInv, NetTyped, NoState, None
  <1>3. StoreSound' /\ NetNothingSkippedSilently'
    BY <1>1, StoreKept DEF NetInv
  <1>4. PageSound'
    BY <1>1, PageLeft
  <1>5. WaySound'
    BY <1>1 DEF NetInv, WaySound
  <1>6. RoomLeft'
    <2>1. SpoolUsage' = 0 /\ MaxSpool \in Nat
      BY <1>1, NetShapes DEF NetInv, SpoolUsage
    <2>2. QED
      BY <1>1, <2>1 DEF RoomLeft, SpoolBounded
  <1>7. QED
    BY <1>1, <1>2, <1>3, <1>4, <1>5, <1>6 DEF NetInv

-----------------------------------------------------------------------------
(* The store takes in a batch.                                             *)

LEMMA InSequence ==
  ASSUME NEW S, NEW s \in Seq(S), NEW x
  PROVE  x \in ToSet(s) <=> \E i \in 1..Len(s) : s[i] = x
  <1>1. DOMAIN s = 1..Len(s)
    OBVIOUS
  <1>2. QED
    BY <1>1 DEF ToSet

LEMMA StretchRead ==
  ASSUME NEW entries \in Seq(Nat), NEW c \in Nat, FollowEachOther(entries, c), entries # <<>>,
         NEW r \in entries[1]..entries[Len(entries)]
  PROVE  r \in ToSet(entries)
  <1>1. Len(entries) \in Nat /\ Len(entries) >= 1 /\ 1 \in 1..Len(entries) /\ entries[1] \in Nat
    OBVIOUS
  <1>2. entries[Len(entries)] = entries[1] + Len(entries) - 1
    BY <1>1 DEF FollowEachOther
  <1>3. r - entries[1] + 1 \in 1..Len(entries)
    BY <1>1, <1>2
  <1>4. PICK i \in 1..Len(entries) : i = r - entries[1] + 1
    BY <1>3
  <1>5. entries[i] = entries[1] + i - 1
    BY DEF FollowEachOther
  <1>6. entries[i] = r
    BY <1>1, <1>4, <1>5
  <1>7. QED
    BY <1>6, InSequence

LEMMA AppendedBatch ==
  ASSUME NetTyped, NEW b \in NetBatches, netBatches' = Append(netBatches, b)
  PROVE  /\ Len(netBatches') = Len(netBatches) + 1
         /\ \A k \in 1..Len(netBatches) : netBatches'[k] = netBatches[k]
         /\ netBatches'[Len(netBatches) + 1] = b
         /\ netBatches' \in Seq(NetBatches) /\ netBatches' # <<>>
         /\ Checkpoint' = b.after
         /\ \A k \in 0..Len(netBatches) : AfterOf(k)' = AfterOf(k)
         /\ \A k \in 0..Len(netBatches) : IdOf(k)' = IdOf(k)
  <1>1. netBatches \in Seq(NetBatches) /\ Len(netBatches) \in Nat
    BY NetShapes DEF NetTyped
  <1>2. /\ Len(netBatches') = Len(netBatches) + 1
        /\ \A k \in 1..Len(netBatches) : netBatches'[k] = netBatches[k]
        /\ netBatches'[Len(netBatches) + 1] = b
        /\ netBatches' \in Seq(NetBatches) /\ netBatches' # <<>>
    <2> HIDE DEF NetBatches
    <2>1. QED
      BY <1>1
  <1>3. Checkpoint' = b.after
    BY <1>2 DEF Checkpoint, Last
  <1>4. \A k \in 0..Len(netBatches) : AfterOf(k)' = AfterOf(k)
    BY <1>1, <1>2 DEF AfterOf
  <1>5. \A k \in 0..Len(netBatches) : IdOf(k)' = IdOf(k)
    BY <1>1, <1>2 DEF IdOf
  <1>6. QED
    BY <1>2, <1>3, <1>4, <1>5

(* Its records are new ones: they follow the checkpoint.                   *)
LEMMA CommitReceipts ==
  ASSUME NetTyped, StoreSound, NEW b \in NetBatches, NetBatchSound(b), b.before = Checkpoint,
         receipts' = receipts \o FreshEntries(b)
  PROVE  /\ receipts' \in Seq(Nat)
         /\ ToSet(receipts') = ToSet(receipts) \cup ToSet(b.entries)
  <1>1. /\ b.entries \in Seq(Nat) /\ Len(b.entries) \in Nat /\ Checkpoint \in Nat
        /\ \A i \in 1..Len(b.entries) : b.entries[i] \in Nat
    BY NetBatchShape, CheckpointIs
  <1>2. receipts \in Seq(Nat) /\ Len(receipts) \in Nat
    BY DEF NetTyped
  <1>3. ASSUME NEW i \in 1..Len(b.entries)
        PROVE  b.entries[i] \notin ToSet(receipts)
    <2>1. b.entries[i] > Checkpoint
      BY DEF NetBatchSound, FollowEachOther
    <2>2. b.entries[i] \in ToSet(receipts) => b.entries[i] =< Checkpoint
      BY DEF StoreSound
    <2>3. QED
      BY <1>1, <2>1, <2>2
  <1>4. receipts' = receipts \o b.entries
    BY <1>1, <1>3, AllFresh
  <1>5. /\ receipts' \in Seq(Nat) /\ Len(receipts') = Len(receipts) + Len(b.entries)
        /\ \A i \in 1..Len(receipts) : receipts'[i] = receipts[i]
        /\ \A i \in 1..Len(b.entries) : receipts'[Len(receipts) + i] = b.entries[i]
    BY <1>1, <1>2, <1>4
  <1>a. /\ \A x : x \in ToSet(receipts) <=> \E i \in 1..Len(receipts) : receipts[i] = x
        /\ \A x : x \in ToSet(b.entries) <=> \E i \in 1..Len(b.entries) : b.entries[i] = x
        /\ \A x : x \in ToSet(receipts') <=> \E i \in 1..Len(receipts') : receipts'[i] = x
    <2>1. \A x : x \in ToSet(receipts) <=> \E i \in 1..Len(receipts) : receipts[i] = x
      BY <1>2, InSequence
    <2>2. \A x : x \in ToSet(b.entries) <=> \E i \in 1..Len(b.entries) : b.entries[i] = x
      BY <1>1, InSequence
    <2>3. \A x : x \in ToSet(receipts') <=> \E i \in 1..Len(receipts') : receipts'[i] = x
      <3>1. receipts' \in Seq(Nat)
        BY <1>5
      <3>2. QED
        BY <3>1, InSequence
    <2>4. QED
      BY <2>1, <2>2, <2>3
  <1>6. ToSet(receipts) \subseteq ToSet(receipts')
    <2>1. 1..Len(receipts) \subseteq 1..Len(receipts')
      BY <1>1, <1>2, <1>5
    <2>2. QED
      BY <1>2, <1>5, <2>1, <1>a
  <1>7. ToSet(b.entries) \subseteq ToSet(receipts')
    <2>1. \A i \in 1..Len(b.entries) : Len(receipts) + i \in 1..Len(receipts')
      BY <1>1, <1>2, <1>5
    <2>2. SUFFICES ASSUME NEW i \in 1..Len(b.entries)
                   PROVE  b.entries[i] \in ToSet(receipts')
      BY <1>a
    <2>3. receipts'[Len(receipts) + i] = b.entries[i] /\ Len(receipts) + i \in 1..Len(receipts')
      BY <1>5, <2>1
    <2>4. QED
      BY <1>a, <2>3
  <1>8. ToSet(receipts') \subseteq ToSet(receipts) \cup ToSet(b.entries)
    <2>1. SUFFICES ASSUME NEW i \in 1..Len(receipts')
                   PROVE  receipts'[i] \in ToSet(receipts) \cup ToSet(b.entries)
      <3>1. \A x \in ToSet(receipts') : \E i \in 1..Len(receipts') : receipts'[i] = x
        BY <1>a
      <3>2. QED
        BY <3>1
    <2>2. CASE i =< Len(receipts)
      <3>1. i \in 1..Len(receipts)
        BY <1>2, <2>2
      <3>2. QED
        BY <1>2, <1>5, <3>1, <1>a
    <2>3. CASE i > Len(receipts)
      <3>1. i - Len(receipts) \in 1..Len(b.entries) /\ Len(receipts) + (i - Len(receipts)) = i
        BY <1>1, <1>2, <1>5, <2>3
      <3>2. receipts'[i] = b.entries[i - Len(receipts)]
        BY <1>5, <3>1
      <3>3. QED
        BY <1>1, <3>1, <3>2, <1>a
    <2>4. QED
      BY <1>2, <1>5, <2>2, <2>3
  <1>9. QED
    BY <1>5, <1>6, <1>7, <1>8

LEMMA CommitStoreSound ==
  ASSUME NetTyped, StoreSound, NEW b \in NetBatches, NetBatchSound(b), b.before = Checkpoint,
         netBatches' = Append(netBatches, b),
         ToSet(receipts') = ToSet(receipts) \cup ToSet(b.entries)
  PROVE  StoreSound'
  <1>0. PICK n \in Nat : n = Len(netBatches)
    BY NetShapes
  <1>1. n \in Nat /\ Checkpoint \in Nat /\ b.after \in Nat /\ Checkpoint = AfterOf(n)
    BY <1>0, CheckpointIs, NetBatchShape
  <1>2. /\ Len(netBatches') = n + 1 /\ netBatches'[n + 1] = b /\ Checkpoint' = b.after
        /\ \A k \in 1..n : netBatches'[k] = netBatches[k]
        /\ \A k \in 0..n : AfterOf(k)' = AfterOf(k)
    BY <1>0, AppendedBatch
  <1>3. /\ b.entries \in Seq(Nat) /\ Len(b.entries) \in Nat
        /\ \A i \in 1..Len(b.entries) : b.entries[i] \in Nat
        /\ b.entries = <<>> <=> Len(b.entries) = 0
    BY NetBatchShape
  <1>4. \A i \in 1..Len(b.entries) : b.entries[i] =< b.after /\ b.entries[i] > b.before
    <2>1. SUFFICES ASSUME NEW i \in 1..Len(b.entries)
                   PROVE  b.entries[i] =< b.after /\ b.entries[i] > b.before
      OBVIOUS
    <2>2. b.entries # <<>> /\ Len(b.entries) \in 1..Len(b.entries)
      BY <1>3
    <2>3. b.after = b.entries[Len(b.entries)] /\ b.entries[1] \in Nat
      BY <1>3, <2>2 DEF NetBatchSound
    <2>4. /\ b.entries[i] = b.entries[1] + i - 1 /\ b.entries[i] > b.before
          /\ b.entries[Len(b.entries)] = b.entries[1] + Len(b.entries) - 1
      BY <2>2 DEF NetBatchSound, FollowEachOther
    <2>5. QED
      BY <1>3, <2>3, <2>4
  <1>5. Checkpoint =< b.after
    <2>1. CASE b.entries = <<>>
      BY <1>1, <2>1 DEF NetBatchSound
    <2>2. CASE b.entries # <<>>
      <3>1. 1 \in 1..Len(b.entries) /\ b.entries[1] \in Nat
        BY <1>3, <2>2
      <3>2. b.entries[1] =< b.after /\ b.entries[1] > Checkpoint
        BY <1>4, <3>1
      <3>3. QED
        BY <1>1, <3>1, <3>2
    <2>3. QED
      BY <2>1, <2>2
  <1>6. ASSUME NEW k \in 1..(n + 1)
        PROVE  /\ NetBatchSound(netBatches'[k])
               /\ netBatches'[k].before = AfterOf(k - 1)'
               /\ ToSet(netBatches'[k].entries) \subseteq ToSet(receipts')
    <2>1. CASE k = n + 1
      <3>1. AfterOf(n)' = AfterOf(n) /\ k - 1 = n
        BY <1>1, <1>2, <2>1
      <3>2. netBatches'[k] = b /\ AfterOf(k - 1)' = Checkpoint
        BY <1>1, <1>2, <2>1, <3>1
      <3>3. QED
        BY <3>2
    <2>2. CASE k \in 1..n
      <3>1. k - 1 \in 0..n
        BY <1>1, <2>2
      <3>2. netBatches'[k] = netBatches[k] /\ AfterOf(k - 1)' = AfterOf(k - 1)
        BY <1>2, <2>2, <3>1
      <3>3. /\ NetBatchSound(netBatches[k])
            /\ netBatches[k].before = AfterOf(k - 1)
            /\ ToSet(netBatches[k].entries) \subseteq ToSet(receipts)
        BY <1>0, <2>2 DEF StoreSound
      <3>4. QED
        BY <3>2, <3>3
    <2>3. k = n + 1 \/ k \in 1..n
      BY <1>1
    <2>4. QED
      BY <2>1, <2>2, <2>3
  <1>7. \A r \in ToSet(receipts') : r =< Checkpoint'
    <2>1. SUFFICES ASSUME NEW r \in ToSet(receipts) \cup ToSet(b.entries)
                   PROVE  r =< b.after
      BY <1>2
    <2>2. CASE r \in ToSet(receipts)
      <3>1. r =< Checkpoint /\ r \in Nat
        BY <2>2 DEF StoreSound, NetTyped, ToSet
      <3>2. QED
        BY <1>1, <1>5, <3>1
    <2>3. CASE r \in ToSet(b.entries)
      BY <1>3, <1>4, <2>3 DEF ToSet
    <2>4. QED
      BY <2>2, <2>3
  <1>8. Checkpoint' # None => \E k \in 1..Len(netBatches') : netBatches'[k].entries # <<>>
    <2>1. CASE b.entries # <<>>
      <3>1. n + 1 \in 1..Len(netBatches')
        BY <1>1, <1>2
      <3>2. QED
        BY <1>2, <2>1, <3>1
    <2>2. CASE b.entries = <<>>
      <3>1. Checkpoint' = Checkpoint
        BY <1>2, <2>2 DEF NetBatchSound
      <3>2. Checkpoint # None => \E k \in 1..n : netBatches[k].entries # <<>>
        BY <1>0 DEF StoreSound
      <3>3. 1..n \subseteq 1..Len(netBatches')
        BY <1>1, <1>2
      <3>4. QED
        BY <1>2, <3>1, <3>2, <3>3
    <2>3. QED
      BY <2>1, <2>2
  <1>9. QED
    BY <1>2, <1>6, <1>7, <1>8 DEF StoreSound

(* Coverage starts at the first record of the first page that has any.     *)
CoverageStartOf(bs) ==
  LET full == {i \in DOMAIN bs : bs[i].entries # <<>>}
  IN IF full = {} THEN MaxRecords + 1
     ELSE Head(bs[CHOOSE i \in full : \A j \in full : i =< j].entries)

LEMMA CoverageStartIs ==
  ASSUME NEW bs \in Seq(NetBatches), NEW i \in 1..Len(bs), bs[i].entries # <<>>,
         \A j \in 1..Len(bs) : bs[j].entries # <<>> => i =< j
  PROVE  CoverageStartOf(bs) = bs[i].entries[1] /\ CoverageStartOf(bs) \in Nat
  <1> DEFINE full == {k \in DOMAIN bs : bs[k].entries # <<>>}
  <1>1. DOMAIN bs = 1..Len(bs) /\ Len(bs) \in Nat /\ bs[i] \in NetBatches
    <2> HIDE DEF NetBatches
    <2>1. QED
      OBVIOUS
  <1>2. i \in full /\ \A j \in full : i =< j
    BY <1>1
  <1>3. \A k \in full : (\A j \in full : k =< j) => k = i
    BY <1>1, <1>2
  <1>4. (CHOOSE k \in full : \A j \in full : k =< j) = i
    BY <1>2, <1>3
  <1>5. CoverageStartOf(bs) = Head(bs[i].entries)
    BY <1>2, <1>4 DEF CoverageStartOf
  <1>6. bs[i].entries \in Seq(Nat)
    BY <1>1, NetBatchShape
  <1>7. QED
    BY <1>5, <1>6

LEMMA NoCoverageYet ==
  ASSUME NEW bs \in Seq(NetBatches), \A k \in 1..Len(bs) : bs[k].entries = <<>>
  PROVE  CoverageStartOf(bs) = MaxRecords + 1
  <1>1. DOMAIN bs = 1..Len(bs)
    OBVIOUS
  <1>2. QED
    BY <1>1 DEF CoverageStartOf

LEMMA FirstFull ==
  ASSUME NetTyped, NEW k0 \in 1..Len(netBatches), netBatches[k0].entries # <<>>
  PROVE  \E i \in 1..Len(netBatches) :
           /\ netBatches[i].entries # <<>>
           /\ \A j \in 1..Len(netBatches) : netBatches[j].entries # <<>> => i =< j
  <1> DEFINE full == {k \in 1..Len(netBatches) : netBatches[k].entries # <<>>}
  <1>1. full \in SUBSET Nat /\ full # {}
    <2>1. k0 \in full
      OBVIOUS
    <2>2. \A k \in 1..Len(netBatches) : k \in Nat
      OBVIOUS
    <2>3. QED
      BY <2>1, <2>2
  <1>2. \E i \in full : \A j \in full : i =< j
    <2> HIDE DEF full
    <2>1. QED
      BY <1>1, LeastNat
  <1>3. QED
    BY <1>2

LEMMA CommitNothingSkipped ==
  ASSUME NetTyped, NetTyped', StoreSound, StoreSound', NetNothingSkippedSilently,
         NEW b \in NetBatches, NetBatchSound(b), b.before = Checkpoint,
         netBatches' = Append(netBatches, b),
         ToSet(receipts') = ToSet(receipts) \cup ToSet(b.entries)
  PROVE  NetNothingSkippedSilently'
  <1>1. PICK n \in Nat : n = Len(netBatches)
    BY NetShapes
  <1>2. /\ Len(netBatches') = n + 1 /\ netBatches'[n + 1] = b /\ Checkpoint' = b.after
        /\ \A k \in 1..n : netBatches'[k] = netBatches[k]
        /\ Checkpoint \in Nat /\ b.after \in Nat /\ MaxRecords \in Nat
    BY <1>1, AppendedBatch, CheckpointIs, NetBatchShape, NetShapes
  <1>3. DOMAIN netBatches = 1..n /\ DOMAIN netBatches' = 1..(n + 1)
    BY <1>1, <1>2 DEF NetTyped
  <1>a. /\ netBatches \in Seq(NetBatches) /\ netBatches' \in Seq(NetBatches)
        /\ NetCoverageStart = CoverageStartOf(netBatches)
        /\ NetCoverageStart' = CoverageStartOf(netBatches')
    BY DEF NetTyped, NetCoverageStart, CoverageStartOf
  <1>4. \A r : SkippedWithReport(r) => SkippedWithReport(r)'
    <2>1. 1..n \subseteq 1..(n + 1)
      OBVIOUS
    <2>2. QED
      BY <1>2, <1>3, <2>1 DEF SkippedWithReport
  <1>5. /\ b.entries \in Seq(Nat) /\ Len(b.entries) \in Nat
        /\ b.entries # <<>> => 1 \in 1..Len(b.entries) /\ b.entries[1] \in Nat
    BY NetBatchShape
  <1>6. \A r \in NetCoverageStart'..Checkpoint' : r \in ToSet(receipts') \/ SkippedWithReport(r)'
    <2>1. CASE \A k \in 1..n : netBatches[k].entries = <<>>
      <3>1. Checkpoint = None
        BY <1>1, <2>1 DEF StoreSound
      <3>2. CASE b.entries = <<>>
        <4>1. Checkpoint' = 0
          BY <1>2, <3>1, <3>2 DEF NetBatchSound, None
        <4>2. \A k \in 1..Len(netBatches') : netBatches'[k].entries = <<>>
          <5>1. \A k \in 1..(n + 1) : k = n + 1 \/ k \in 1..n
            OBVIOUS
          <5>2. QED
            BY <1>2, <2>1, <3>2, <5>1
        <4>3. NetCoverageStart' = MaxRecords + 1
          BY <1>a, <4>2, NoCoverageYet
        <4>4. QED
          BY <1>2, <4>1, <4>3
      <3>3. CASE b.entries # <<>>
        <4>1. NetCoverageStart' = b.entries[1]
          <5>1. n + 1 \in 1..Len(netBatches') /\ netBatches'[n + 1].entries # <<>>
            BY <1>2, <3>3
          <5>2. \A j \in 1..Len(netBatches') : netBatches'[j].entries # <<>> => n + 1 =< j
            <6>1. \A j \in 1..(n + 1) : j \in 1..n \/ n + 1 =< j
              OBVIOUS
            <6>2. QED
              BY <1>2, <2>1, <6>1
          <5>3. QED
            BY <1>a, <1>2, <5>1, <5>2, CoverageStartIs
        <4>2. b.after = b.entries[Len(b.entries)]
          BY <3>3 DEF NetBatchSound
        <4>3. \A r \in b.entries[1]..b.after : r \in ToSet(b.entries)
          BY <1>2, <1>5, <3>3, <4>2, StretchRead DEF NetBatchSound
        <4>4. QED
          BY <1>2, <4>1, <4>3
      <3>4. QED
        BY <3>2, <3>3
    <2>2. CASE \E k \in 1..n : netBatches[k].entries # <<>>
      <3>1. PICK i \in 1..n : /\ netBatches[i].entries # <<>>
                              /\ \A j \in 1..n : netBatches[j].entries # <<>> => i =< j
        BY <1>1, <2>2, FirstFull
      <3>2. NetCoverageStart = netBatches[i].entries[1] /\ NetCoverageStart \in Nat
        BY <1>a, <1>1, <3>1, CoverageStartIs
      <3>3. NetCoverageStart' = netBatches[i].entries[1]
        <4>1. i \in 1..Len(netBatches') /\ netBatches'[i].entries # <<>>
          BY <1>2, <3>1
        <4>2. \A j \in 1..Len(netBatches') : netBatches'[j].entries # <<>> => i =< j
          <5>1. \A j \in 1..(n + 1) : j \in 1..n \/ i =< j
            OBVIOUS
          <5>2. QED
            BY <1>2, <3>1, <5>1
        <4>3. QED
          BY <1>a, <1>2, <4>1, <4>2, CoverageStartIs
      <3>4. Checkpoint # None
        <4>1. netBatches[i] \in NetBatches /\ NetBatchSound(netBatches[i])
              /\ ToSet(netBatches[i].entries) \subseteq ToSet(receipts)
          BY <1>1, NetShapes DEF StoreSound
        <4>2. /\ 1 \in 1..Len(netBatches[i].entries) /\ netBatches[i].entries[1] \in Nat
              /\ netBatches[i].before \in Nat /\ netBatches[i].entries \in Seq(Nat)
          BY <3>1, <4>1, NetBatchShape
        <4>3. netBatches[i].entries[1] > netBatches[i].before
          BY <4>1, <4>2 DEF NetBatchSound, FollowEachOther
        <4>4. netBatches[i].entries[1] \in ToSet(netBatches[i].entries)
          BY <4>2, InSequence
        <4>5. netBatches[i].entries[1] =< Checkpoint
          BY <4>1, <4>4 DEF StoreSound
        <4>6. QED
          BY <1>2, <4>2, <4>3, <4>5 DEF None
      <3>5. ASSUME NEW r \in NetCoverageStart'..Checkpoint'
            PROVE  r \in ToSet(receipts') \/ SkippedWithReport(r)'
        <4>1. r \in Nat /\ r >= NetCoverageStart /\ r =< b.after
          BY <1>2, <3>2, <3>3
        <4>2. CASE r =< Checkpoint
          <5>1. r \in NetCoverageStart..Checkpoint
            BY <1>2, <3>2, <4>1, <4>2
          <5>2. QED
            BY <1>4, <5>1 DEF NetNothingSkippedSilently
        <4>3. CASE r > Checkpoint /\ LosesCursor(b)
          <5>1. n + 1 \in DOMAIN netBatches'
            BY <1>3
          <5>2. QED
            BY <1>2, <4>3, <5>1 DEF SkippedWithReport, LosesCursor
        <4>4. CASE r > Checkpoint /\ ~LosesCursor(b)
          <5>1. b.entries # <<>>
            BY <1>2, <4>1, <4>4 DEF NetBatchSound
          <5>2. b.after = b.entries[Len(b.entries)] /\ b.entries[1] = Checkpoint + 1
            BY <3>4, <4>4, <5>1 DEF NetBatchSound
          <5>3. r \in b.entries[1]..b.entries[Len(b.entries)]
            BY <1>2, <4>1, <4>4, <5>2
          <5>4. r \in ToSet(b.entries)
            BY <1>2, <1>5, <5>1, <5>3, StretchRead DEF NetBatchSound
          <5>5. QED
            BY <5>4
        <4>5. QED
          BY <1>2, <4>1, <4>2, <4>3, <4>4
      <3>6. QED
        BY <3>5
    <2>3. QED
      BY <2>1, <2>2
  <1>7. \A i \in DOMAIN netBatches' : netBatches'[i].caughtUp =>
           \A r \in PageStart(netBatches'[i])..netBatches'[i].seen : r \in ToSet(receipts')
    <2>1. SUFFICES ASSUME NEW i \in 1..Len(netBatches'), netBatches'[i].caughtUp,
                          NEW r \in PageStart(netBatches'[i])..netBatches'[i].seen
                   PROVE  r \in ToSet(receipts')
      BY <1>2, <1>3
    <2>2. NetBatchSound(netBatches'[i]) /\ ToSet(netBatches'[i].entries) \subseteq ToSet(receipts')
      BY DEF StoreSound
    <2>3. r \in ToSet(netBatches'[i].entries)
      BY <2>1, <2>2 DEF NetBatchSound
    <2>4. QED
      BY <2>2, <2>3
  <1>8. QED
    BY <1>6, <1>7 DEF NetNothingSkippedSilently

(* The files of the collector when its pending batch is taken in: no other *)
(* batch can be.                                                           *)
LEMMA CommitFiles ==
  ASSUME NetTyped, NetTyped', StoreSound, WaySound, FilesSound,
         NEW b \in requests, ~Replayed(b),
         netBatches' = Append(netBatches, b),
         UNCHANGED <<state, netPending, netFaults>>, requests' \subseteq requests,
         netPhase' = IF netPhase = "waiting" /\ b = netPending THEN "acked" ELSE netPhase
  PROVE  FilesSound'
  <1>1. PICK n \in Nat : n = Len(netBatches)
    BY NetShapes
  <1>2. b \in NetBatches
    BY NetShapes
  <1>3. /\ Len(netBatches') = n + 1 /\ netBatches'[n + 1] = b /\ netBatches' # <<>>
        /\ \A k \in 1..n : netBatches'[k] = netBatches[k]
        /\ \A k \in 0..n : AfterOf(k)' = AfterOf(k)
        /\ \A k \in 0..n : IdOf(k)' = IdOf(k)
    BY <1>1, <1>2, AppendedBatch
  <1>4. \A k \in 1..n : netBatches[k] # b
    <2>1. DOMAIN netBatches = 1..n
      BY <1>1 DEF NetTyped
    <2>2. QED
      BY <2>1 DEF Replayed
  <1>5. b = netPending /\ netPending # NoPending /\ ~LastIsPending
    <2>1. b = netPending
      BY <1>1, <1>4 DEF FilesSound
    <2>2. ~LastIsPending
      <3>1. SUFFICES ASSUME netBatches # <<>>, netBatches[Len(netBatches)] = netPending
                     PROVE  FALSE
        BY DEF LastIsPending
      <3>2. Len(netBatches) \in 1..n
        BY <1>1, <3>1, NetShapes
      <3>3. QED
        BY <1>1, <1>4, <2>1, <3>1, <3>2
    <2>3. QED
      BY <1>2, <2>1, <2>2, NetBatchShape
  <1>6. LastIsPending'
    BY <1>3, <1>5 DEF LastIsPending
  <1>7. StateIsOf(n) /\ netPending.id =< HighestId + 1
    BY <1>1, <1>5 DEF FilesSound
  <1>8. StateIsOf(n)'
    <2>1. n \in 0..n
      OBVIOUS
    <2>2. QED
      BY <1>3, <1>7, <2>1 DEF StateIsOf
  <1>9. StateIsOf(Len(netBatches) - 1)'
    <2>1. Len(netBatches') - 1 = n
      BY <1>3
    <2>2. QED
      BY <1>8, <2>1 DEF StateIsOf, AfterOf, IdOf
  <1>10. HighestId' = HighestId + 1 /\ HighestId \in Nat
    <2>1. (MaxBatches + 1) * netFaults \in Nat
      <3>1. netFaults \in Nat /\ MaxBatches + 1 \in Nat
        BY NetShapes, NetworkStoreAssumption
      <3>2. QED
        BY <3>1, ProductGrows
    <2>2. QED
      BY <1>1, <1>3, <2>1 DEF HighestId
  <1>11. \A k \in 1..Len(netBatches') : netBatches'[k].id =< HighestId'
    <2>1. SUFFICES ASSUME NEW k \in 1..(n + 1)
                   PROVE  netBatches'[k].id =< HighestId + 1
      BY <1>3, <1>10
    <2>2. CASE k = n + 1
      BY <1>3, <1>5, <1>7, <2>2
    <2>3. CASE k \in 1..n
      <3>1. netBatches'[k] = netBatches[k] /\ netBatches[k].id \in Nat /\ netBatches[k].id =< HighestId
        BY <1>1, <1>3, <2>3, NetShapes, NetBatchShape DEF FilesSound
      <3>2. QED
        BY <1>10, <3>1
    <2>4. k = n + 1 \/ k \in 1..n
      OBVIOUS
    <2>5. QED
      BY <2>2, <2>3, <2>4
  <1>12. \A c \in requests' : c = netPending' \/ \E k \in 1..Len(netBatches') : netBatches'[k] = c
    <2>1. 1..n \subseteq 1..Len(netBatches')
      BY <1>3
    <2>2. \A c \in requests : c = netPending \/ \E k \in 1..n : netBatches[k] = c
      BY <1>1 DEF FilesSound
    <2>3. QED
      BY <1>3, <2>1, <2>2
  <1>13. netPhase' # "committed"
    BY <1>5 DEF FilesSound
  <1>14. QED
    BY <1>5, <1>6, <1>9, <1>11, <1>12, <1>13 DEF FilesSound

LEMMA NetAnswerInv == ASSUME NetInv, NEW b \in requests, Answer(b) PROVE NetInv'
  <1>1. /\ UNCHANGED <<state, netPending, orphans, lost, netFaults>>
        /\ UNCHANGED <<top, low, recent, rulesOK, page>>
        /\ requests' = requests \ {b}
    BY DEF Answer, hostVars, fileVars
  <1>2. /\ b \in NetBatches /\ NetBatchSound(b)
        /\ netFaults \in Nat
    BY NetShapes DEF NetInv, WaySound
  <1>3. CASE Commit(b) /\ netPhase' = IF netPhase = "waiting" /\ b = netPending THEN "acked" ELSE netPhase
    <2>1. /\ ~Replayed(b) /\ b.before = Checkpoint
          /\ netBatches' = Append(netBatches, b) /\ receipts' = receipts \o FreshEntries(b)
      BY <1>3 DEF Commit
    <2>2. /\ receipts' \in Seq(Nat)
          /\ ToSet(receipts') = ToSet(receipts) \cup ToSet(b.entries)
      BY <1>2, <2>1, CommitReceipts DEF NetInv
    <2>3. netBatches' \in Seq(NetBatches)
      BY <1>2, <2>1, AppendedBatch DEF NetInv
    <2>4. NetTyped'
      <3>1. netPhase' \in NetPhases
        BY <1>3 DEF NetInv, NetTyped, NetPhases
      <3>2. QED
        BY <1>1, <2>2, <2>3, <3>1 DEF NetInv, NetTyped
    <2>5. StoreSound'
      BY <1>2, <2>1, <2>2, CommitStoreSound DEF NetInv
    <2>6. NetNothingSkippedSilently'
      BY <1>2, <2>1, <2>2, <2>4, <2>5, CommitNothingSkipped DEF NetInv
    <2>7. WaySound'
      BY <1>1, <1>3 DEF NetInv, WaySound
    <2>8. PageSound'
      <3>1. CASE netPhase' = netPhase
        <4>1. low =< low'
          BY <1>1 DEF NetInv, NetTyped
        <4>2. QED
          BY <1>1, <2>4, <3>1, <4>1, PageKept DEF NetInv
      <3>2. CASE netPhase' = "acked"
        BY <3>2, PageLeft
      <3>3. QED
        BY <1>3, <3>1, <3>2
    <2>9. RoomLeft'
      <3>1. netPhase' \in {"waiting", "acked"} => SpoolUsage + StateSize =< MaxSpool
        BY <1>3 DEF NetInv, RoomLeft
      <3>2. QED
        BY <1>1, <3>1, RoomKept DEF NetInv
    <2>10. ASSUME ~lost PROVE FilesSound'
      BY <1>1, <1>3, <2>1, <2>4, <2>10, CommitFiles DEF NetInv
    <2>11. QED
      BY <1>1, <2>4, <2>5, <2>6, <2>7, <2>8, <2>9, <2>10 DEF NetInv
  <1>4. ASSUME UNCHANGED storeVars,
               netPhase' \in {"idle", netPhase} \/ (netPhase' = "acked" /\ netPhase = "waiting"),
               netPhase' = "acked" /\ netPhase = "waiting" => b = netPending /\ Replayed(b)
        PROVE  NetInv'
    <2>1. UNCHANGED <<netBatches, receipts>>
      BY <1>4 DEF storeVars
    <2>2. NetTyped'
      <3>1. netPhase' \in NetPhases
        BY <1>4 DEF NetInv, NetTyped, NetPhases
      <3>2. QED
        BY <1>1, <2>1, <3>1 DEF NetInv, NetTyped
    <2>3. PageSound'
      <3>1. CASE netPhase' = netPhase
        <4>1. low =< low'
          BY <1>1 DEF NetInv, NetTyped
        <4>2. QED
          BY <1>1, <2>2, <3>1, <4>1, PageKept DEF NetInv
      <3>2. CASE netPhase' # netPhase
        BY <1>4, <3>2, PageLeft
      <3>3. QED
        BY <3>1, <3>2
    <2>4. netPhase' \in {"spooled", "waiting", "acked", "committed"} => netPending # NoPending
      BY <1>4 DEF NetInv, WaySound
    <2>5. netPhase' \in {"waiting", "acked"} => SpoolUsage + StateSize =< MaxSpool
      BY <1>4 DEF NetInv, RoomLeft
    <2>6. netPhase' \in {"acked", "committed"} => (~lost => LastIsPending)
      <3>1. SUFFICES ASSUME ~lost, netPhase' \in {"acked", "committed"}
                     PROVE  LastIsPending
        OBVIOUS
      <3>2. FilesSound
        BY <3>1 DEF NetInv
      <3>3. CASE netPhase' = netPhase
        BY <3>1, <3>2, <3>3 DEF FilesSound
      <3>4. CASE netPhase' # netPhase
        <4>1. b = netPending /\ Replayed(b)
          BY <1>4, <3>1, <3>4
        <4>2. \E k \in 1..Len(netBatches) : netBatches[k].id = netPending.id
          <5>1. DOMAIN netBatches = 1..Len(netBatches)
            BY DEF NetInv, NetTyped
          <5>2. QED
            BY <4>1, <5>1 DEF Replayed
        <4>3. netPending # NoPending
          BY <1>2, <4>1, NetBatchShape
        <4>4. QED
          BY <3>2, <4>2, <4>3 DEF FilesSound
      <3>5. QED
        BY <3>3, <3>4
    <2>7. netPhase' = "committed" => netPhase = "committed"
      BY <1>4
    <2>8. netFaults =< netFaults'
      BY <1>1, <1>2
    <2>9. requests' \subseteq requests
      BY <1>1
    <2>10. QED
      BY <1>1, <2>1, <2>2, <2>3, <2>4, <2>5, <2>6, <2>7, <2>8, <2>9, NetQuietStep
  <1>5. CASE Replay(b) /\ netPhase' = IF netPhase = "waiting" /\ b = netPending THEN "acked" ELSE netPhase
    BY <1>4, <1>5 DEF Replay
  <1>6. CASE Refuse(b) /\ netPhase' = IF netPhase = "waiting" /\ b = netPending THEN "idle" ELSE netPhase
    <2>1. netPhase' \in {"idle", netPhase} /\ UNCHANGED storeVars
      BY <1>6 DEF Refuse
    <2>2. netPhase' = "acked" => netPhase # "waiting"
      BY <1>6
    <2>3. QED
      BY <1>4, <2>1, <2>2
  <1>7. QED
    BY <1>3, <1>5, <1>6 DEF Answer

-----------------------------------------------------------------------------
LEMMA NetInitInv == NetInit => NetInv
  <1>1. SUFFICES ASSUME NetInit PROVE NetInv
    OBVIOUS
  <1>2. /\ netBatches = <<>> /\ receipts = <<>> /\ page = NoPage /\ netPhase = "idle"
        /\ state = NoState /\ netPending = NoPending /\ orphans = 0 /\ requests = {}
        /\ lost = FALSE /\ netFaults = 0 /\ top = 0 /\ low = 0 /\ recent = 0 /\ rulesOK = TRUE
    BY <1>1 DEF NetInit, StoreInit
  <1>3. NetTyped
    <2>1. NoPage \in NetPages
      BY DEF NoPage, NetPages
    <2>2. NoState \in [cursor : Nat, last : Nat]
      BY DEF NoState, None
    <2>3. netBatches \in Seq(NetBatches) /\ receipts \in Seq(Nat)
      BY <1>2
    <2>4. QED
      BY <1>2, <2>1, <2>2, <2>3 DEF NetTyped, NetPhases
  <1>4. Checkpoint = 0 /\ Len(netBatches) = 0 /\ ToSet(receipts) = {} /\ DOMAIN netBatches = {}
    BY <1>2 DEF Checkpoint, None, ToSet
  <1>5. StoreSound
    BY <1>4 DEF StoreSound, None
  <1>6. PageSound /\ WaySound
    BY <1>2 DEF PageSound, WaySound
  <1>7. RoomLeft
    <2>1. SpoolUsage = 0 /\ MaxSpool \in Nat
      BY <1>2, NetworkCollectionAssumption DEF SpoolUsage
    <2>2. QED
      BY <1>2, <2>1 DEF RoomLeft, SpoolBounded
  <1>8. FilesSound
    BY <1>2, <1>4 DEF FilesSound, StateIsOf, AfterOf, IdOf, NoState, LastIsPending
  <1>9. NetNothingSkippedSilently
    <2>1. NetCoverageStart = MaxRecords + 1 /\ MaxRecords \in Nat
      BY <1>4, NetworkStoreAssumption DEF NetCoverageStart
    <2>2. QED
      BY <1>4, <2>1 DEF NetNothingSkippedSilently
  <1>10. QED
    BY <1>3, <1>5, <1>6, <1>7, <1>8, <1>9 DEF NetInv

LEMMA NetStepInv == NetInv /\ [NetNext]_netVars => NetInv'
  <1> SUFFICES ASSUME NetInv, [NetNext]_netVars PROVE NetInv'
    OBVIOUS
  <1>1. CASE NetLog \/ Age \/ NetVacuum \/ RulesChange
    BY <1>1, NetHostInv
  <1>2. CASE NetCollectorStep
    BY <1>2, NetFetchInv, NetReadPageInv, NetSpoolInv, NetResumeInv, NetPostInv,
       NetCommitStateInv, NetUnlinkInv DEF NetCollectorStep
  <1>3. CASE NetAbort \/ LoseState
    BY <1>3, NetAbortInv, NetLoseInv
  <1>4. CASE StoreAnswers
    BY <1>4, NetAnswerInv DEF StoreAnswers
  <1>5. CASE UNCHANGED netVars
    <2>1. /\ UNCHANGED <<netBatches, receipts, state, netPending, orphans, lost, requests, netFaults>>
          /\ UNCHANGED <<top, low, recent, rulesOK, page, netPhase>>
      BY <1>5 DEF netVars, storeVars, hostVars, fileVars
    <2>2. NetTyped'
      BY <2>1 DEF NetInv, NetTyped
    <2>3. low =< low' /\ netFaults =< netFaults'
      BY <2>1 DEF NetInv, NetTyped
    <2>4. PageSound'
      BY <2>1, <2>2, <2>3, PageKept DEF NetInv
    <2>5. /\ netPhase' \in {"spooled", "waiting", "acked", "committed"} => netPending # NoPending
          /\ netPhase' \in {"acked", "committed"} => (~lost => LastIsPending)
          /\ netPhase' \in {"waiting", "acked"} => SpoolUsage + StateSize =< MaxSpool
      BY <2>1 DEF NetInv, WaySound, FilesSound, RoomLeft
    <2>6. QED
      BY <2>1, <2>2, <2>3, <2>4, <2>5, NetQuietStep
  <1>6. QED
    BY <1>1, <1>2, <1>3, <1>4, <1>5 DEF NetNext

(* A backup accepts what the invariant says of the files.                  *)
LEMMA FilesAreConsistent ==
  ASSUME NetInv, ~lost
  PROVE  CheckStates
  <1>1. FilesSound /\ NetTyped /\ StoreSound
    BY DEF NetInv
  <1>2. PICK n \in Nat : n = Len(netBatches)
    BY NetShapes DEF NetInv
  <1>3. /\ DOMAIN netBatches = 1..n /\ (netBatches # <<>> <=> n > 0)
        /\ Checkpoint = AfterOf(n)
        /\ \A k \in 1..n : netBatches[k].id > 0
    BY <1>1, <1>2, NetShapes, NetBatchShape, CheckpointIs DEF NetTyped
  <1>4. (IF netBatches = <<>> THEN None ELSE Last(netBatches).id) = IdOf(n)
    BY <1>2, <1>3 DEF IdOf, Last
  <1>5. ASSUME NEW k \in 0..n, StateIsOf(k) PROVE StateAcknowledged
    <2>1. CASE k = 0
      BY <1>5, <2>1 DEF StateIsOf, AfterOf, IdOf, StateAcknowledged
    <2>2. CASE k \in 1..n
      <3>1. state.last = netBatches[k].id /\ state.cursor = netBatches[k].after /\ netBatches[k].id > 0
        BY <1>3, <1>5, <2>2 DEF StateIsOf, AfterOf, IdOf
      <3>2. QED
        BY <1>3, <2>2, <3>1 DEF StateAcknowledged, None
    <2>3. QED
      BY <2>1, <2>2
  <1>6. n \in 0..n
    OBVIOUS
  <1>7. CASE netPending = NoPending
    <2>1. StateIsOf(n)
      BY <1>1, <1>2, <1>7 DEF FilesSound
    <2>2. QED
      BY <1>3, <1>4, <1>5, <1>6, <1>7, <2>1 DEF CheckStates, StateIsOf
  <1>8. CASE netPending # NoPending /\ ~LastIsPending
    <2>1. /\ StateIsOf(n) /\ netPending.before = Checkpoint
          /\ \A k \in 1..n : netBatches[k].id # netPending.id
      BY <1>1, <1>2, <1>8 DEF FilesSound
    <2>2. netPending.id \notin CommittedIds
      BY <1>3, <2>1 DEF CommittedIds
    <2>3. QED
      BY <1>3, <1>4, <1>5, <1>6, <1>8, <2>1, <2>2 DEF CheckStates, StateIsOf
  <1>9. CASE netPending # NoPending /\ LastIsPending
    <2>1. n \in 1..n /\ netBatches[n] = netPending /\ n - 1 \in 0..n
      BY <1>2, <1>3, <1>9 DEF LastIsPending
    <2>2. StateIsOf(n) \/ StateIsOf(n - 1)
      BY <1>1, <1>2, <1>9 DEF FilesSound
    <2>3. StateAcknowledged
      BY <1>5, <1>6, <2>1, <2>2
    <2>4. netPending.id \in CommittedIds /\ Replayed(netPending)
      BY <1>3, <2>1 DEF CommittedIds, Replayed
    <2>5. netPending.before = AfterOf(n - 1) /\ ToSet(netPending.entries) \subseteq ToSet(receipts)
      BY <1>1, <1>2, <2>1 DEF StoreSound
    <2>6. Checkpoint = netPending.after /\ IdOf(n) = netPending.id
      BY <1>3, <2>1 DEF AfterOf, IdOf
    <2>7. \/ state.cursor = netPending.before
          \/ state.last = netPending.id /\ state.cursor = netPending.after
      BY <1>3, <2>2, <2>5, <2>6 DEF StateIsOf
    <2>8. QED
      BY <1>4, <1>9, <2>3, <2>4, <2>5, <2>6, <2>7 DEF CheckStates
  <1>10. QED
    BY <1>7, <1>8, <1>9

(* Network collection is sound for every journal, quota and page size: no  *)
(* record is passed over in silence, the files and the store always agree, *)
(* and the state directory stays within its quota.                         *)
THEOREM NetCollectionSound == NetSpec => []NetCollectionIsSound
  <1>1. NetInv => NetCollectionIsSound
    <2>1. NetInv => NetNothingSkippedSilently /\ SpoolBounded
      BY DEF NetInv, RoomLeft
    <2>2. NetInv => BackupAlwaysConsistent
      BY FilesAreConsistent DEF BackupAlwaysConsistent
    <2>3. QED
      BY <2>1, <2>2 DEF NetCollectionIsSound
  <1>2. QED
    BY <1>1, NetInitInv, NetStepInv, PTL DEF NetSpec
-----------------------------------------------------------------------------
(* HTTP collection.  The inductive invariant.                              *)

HttpCursors == [ino : Nat, gen : Nat, offset : Nat, anchor : Nat]
HttpReports == {"rotation_gap", "file_truncated", "rotation_wait", "catching_up"}
HttpRecords == [gen : Nat, offset : Nat, line : Nat]
HttpSpools == [base : HttpCursors, next : HttpCursors, records : Seq(HttpRecords),
               reports : SUBSET HttpReports, caughtUp : BOOLEAN, from : Nat, seen : Nat]
LogFiles == [ino : Nat, lines : Seq(Nat)]

HttpTyped ==
  /\ logTop \in Nat /\ logCurrent \in LogFiles /\ logRotated \in LogFiles
  /\ logQuiet \in BOOLEAN /\ logInodes \in Nat /\ httpGens \in Nat
  /\ httpCursor \in HttpCursors /\ httpSpool \in HttpSpools
  /\ httpAt \in {"idle", "spooled", "posted", "acked", "saved"}
  /\ httpPosted \subseteq HttpSpools /\ httpRows \subseteq HttpRecords
  /\ httpDeclared \subseteq Nat /\ httpSeen \in Nat /\ httpFaults \in Nat

(* The log: lines are in order, a file holds the last lines of its time,   *)
(* and a new file has a new inode.                                         *)
InOrder(lines) == \A i, j \in 1..Len(lines) : i < j => lines[i] < lines[j]
LinesOf(file) == ToSet(file.lines)
UpToTop(S) == \A l \in S, m \in 1..logTop : l =< m => m \in S
LogSound ==
  /\ InOrder(logCurrent.lines) /\ InOrder(logRotated.lines)
  /\ \A l \in LinesOf(logCurrent) \cup LinesOf(logRotated) : l \in 1..logTop
  /\ \A l \in LinesOf(logRotated), m \in LinesOf(logCurrent) : l < m
  /\ logCurrent # NoFile => UpToTop(LinesOf(logCurrent))
  /\ logCurrent.ino =< logInodes /\ logRotated.ino =< logInodes
  /\ logCurrent.ino = 0 <=> logCurrent = NoFile
  /\ logCurrent = NoFile => logRotated.ino # 0
  /\ logCurrent # NoFile => logRotated.ino < logCurrent.ino
Joined == UpToTop(LinesOf(logRotated) \cup LinesOf(logCurrent))

(* What a collector at cursor c has yet to read.                           *)
RotatedOf(c) == c # NoCursor /\ logCurrent.ino # c.ino /\ logRotated.ino = c.ino
HandleOf(c) == IF RotatedOf(c) THEN logRotated ELSE logCurrent
ResumesAt(c) == c # NoCursor /\ HandleOf(c).ino = c.ino /\ AnchorsHold(c, HandleOf(c))
After(lines, start) == {lines[j] : j \in (start + 1)..Len(lines)}
Unread(c) ==
  After(HandleOf(c).lines, IF ResumesAt(c) THEN c.offset ELSE 0)
    \cup (IF RotatedOf(c) THEN LinesOf(logCurrent) ELSE {})

(* A cursor is where it was read, or its file was truncated since.         *)
CursorSound(c) ==
  /\ c # NoCursor => c.ino \in 1..logInodes
  /\ c.anchor =< logTop
  /\ c # NoCursor /\ HandleOf(c).ino = c.ino =>
       AnchorsHold(c, HandleOf(c)) \/ (c.offset > 0 /\ \A l \in LinesOf(HandleOf(c)) : l > c.anchor)

(* What a stored batch declares lost, and what the store knows of a line.  *)
Declares(b) == b.base = NoCursor \/ b.reports \cap {"rotation_gap", "file_truncated"} # {}
WillDeclare(b, l) == Declares(b) /\ l < b.from
Known(rows, declared, l) == l \in declared \/ \E r \in rows : r.line = l
Holds(b, l) == \E i \in 1..Len(b.records) : b.records[i].line = l

(* A store and the files of a collector that go together.                  *)
GoesOnAt(cur, spool) == IF spool = NoSpool THEN cur ELSE spool.next
RowsSound(cur, spool, rows) ==
  /\ \A r, s \in rows : r.line = s.line => r = s
  /\ \A r \in rows : r.line \in 1..logTop
  /\ \A r \in rows, l \in Unread(GoesOnAt(cur, spool)) : r.line < l
SpoolSound(spool, rows, declared) ==
  spool # NoSpool =>
    /\ CursorSound(spool.next) /\ spool.next.ino # 0
    /\ \A i, j \in 1..Len(spool.records) :
         i < j => spool.records[i].line < spool.records[j].line
    /\ \A i \in 1..Len(spool.records) : spool.records[i].line \in 1..logTop
    /\ \A i \in 1..Len(spool.records), l \in Unread(spool.next) : spool.records[i].line < l
    /\ \A r \in rows : \/ r \in ToSet(spool.records)
                       \/ \A i \in 1..Len(spool.records) : r.line < spool.records[i].line
    /\ ResumesAt(spool.next) =>
         \A l \in 1..logTop : Known(rows, declared, l) \/ Holds(spool, l) \/ WillDeclare(spool, l)
                                \/ l \in Unread(spool.next)
    /\ spool.from =< logTop + 1 /\ spool.seen =< logTop
    /\ \A l \in 1..spool.seen : Known(rows, declared, l) \/ Holds(spool, l) \/ WillDeclare(spool, l)
World(cur, spool, rows, declared, seen) ==
  /\ CursorSound(cur)
  /\ RowsSound(cur, spool, rows)
  /\ SpoolSound(spool, rows, declared)
  /\ spool = NoSpool /\ ResumesAt(cur) =>
       \A l \in 1..logTop : Known(rows, declared, l) \/ l \in Unread(cur)
  /\ \A l \in 1..seen : Known(rows, declared, l)

(* A batch that is in the store for good.                                  *)
Ingested(b, rows, declared) ==
  /\ ToSet(b.records) \subseteq rows
  /\ Declares(b) => \A l \in 1..logTop : l < b.from => l \in declared
  /\ \A l \in 1..b.seen : Known(rows, declared, l)
  /\ b.from =< logTop + 1

(* Lines are missing between the files only where the one that is read now *)
(* was truncated.                                                          *)
Truncated ==
  /\ logCurrent # NoFile /\ httpCursor.ino = logCurrent.ino
  /\ httpSpool # NoSpool => httpSpool.next.ino = logCurrent.ino

HttpInv ==
  /\ HttpTyped /\ LogSound
  /\ Joined \/ Truncated
  /\ World(httpCursor, httpSpool, httpRows, httpDeclared, httpSeen)
  /\ httpAt # "idle" => httpSpool # NoSpool
  /\ httpAt \in {"acked", "saved"} => Ingested(httpSpool, httpRows, httpDeclared)
  /\ httpAt = "saved" => httpCursor = httpSpool.next
  /\ \A b \in httpPosted : (b = httpSpool /\ httpSpool # NoSpool) \/ Ingested(b, httpRows, httpDeclared)
-----------------------------------------------------------------------------
LEMMA HttpShapes ==
  ASSUME HttpTyped
  PROVE  /\ logTop \in Nat /\ logInodes \in Nat
         /\ logCurrent.ino \in Nat /\ logCurrent.lines \in Seq(Nat) /\ Len(logCurrent.lines) \in Nat
         /\ logRotated.ino \in Nat /\ logRotated.lines \in Seq(Nat) /\ Len(logRotated.lines) \in Nat
  <1>1. /\ logCurrent.ino \in Nat /\ logCurrent.lines \in Seq(Nat)
        /\ logRotated.ino \in Nat /\ logRotated.lines \in Seq(Nat)
    BY DEF HttpTyped, LogFiles
  <1>2. QED
    BY <1>1 DEF HttpTyped

LEMMA CursorShape ==
  ASSUME NEW c \in HttpCursors
  PROVE  c.ino \in Nat /\ c.gen \in Nat /\ c.offset \in Nat /\ c.anchor \in Nat
  BY DEF HttpCursors

LEMMA NoneShapes ==
  /\ NoFile.ino = 0 /\ NoFile.lines = <<>> /\ NoFile \in LogFiles
  /\ NoCursor.ino = 0 /\ NoCursor.offset = 0 /\ NoCursor.anchor = 0 /\ NoCursor \in HttpCursors
  /\ NoSpool.next = NoCursor /\ NoSpool.records = <<>> /\ NoSpool \in HttpSpools
  <1>1. NoCursor \in HttpCursors
    BY DEF NoCursor, HttpCursors
  <1>2. NoSpool \in HttpSpools
    BY <1>1 DEF NoSpool, HttpSpools, HttpReports
  <1>3. QED
    BY <1>1, <1>2 DEF NoFile, NoCursor, NoSpool, LogFiles

(* The lines of a file after a position.                                   *)
LEMMA AfterAll ==
  ASSUME NEW lines \in Seq(Nat)
  PROVE  ToSet(lines) = After(lines, 0)
  BY DEF ToSet, After

LEMMA AfterAppend ==
  ASSUME NEW lines \in Seq(Nat), NEW x \in Nat, NEW start \in 0..Len(lines)
  PROVE  After(Append(lines, x), start) = After(lines, start) \cup {x}
  <1> DEFINE n == Len(lines)
             more == Append(lines, x)
  <1>1. n \in Nat /\ Len(more) = n + 1 /\ more[n + 1] = x /\ \A j \in 1..n : more[j] = lines[j]
    OBVIOUS
  <1> HIDE DEF more
  <1>2. After(more, start) = {more[j] : j \in (start + 1)..(n + 1)}
    BY <1>1 DEF After
  <1>3. (start + 1)..(n + 1) = ((start + 1)..n) \cup {n + 1}
    BY <1>1
  <1>4. \A j \in (start + 1)..n : more[j] = lines[j]
    BY <1>1
  <1>5. {more[j] : j \in (start + 1)..(n + 1)} = {lines[j] : j \in (start + 1)..n} \cup {x}
    BY <1>1, <1>3, <1>4
  <1>6. QED
    BY <1>2, <1>5 DEF After, more

LEMMA AfterEmpty == After(<<>>, 0) = {}
  BY DEF After

-----------------------------------------------------------------------------
(* What a step of the log may do to a cursor and to what lies after it.    *)
Moves(c) ==
  /\ CursorSound(c)'
  /\ ResumesAt(c)' => ResumesAt(c)
  /\ \A l \in Unread(c)' : l \in Unread(c) \/ l = logTop + 1
  /\ ResumesAt(c)' => \A l \in 1..logTop' : l \in Unread(c) \/ l > logTop => l \in Unread(c)'

(* A file that grows by a line: the cursor stays good or stays bad.        *)
LEMMA AnchorsGrow ==
  ASSUME NEW c \in HttpCursors, NEW f \in LogFiles, NEW g \in LogFiles, NEW x \in Nat,
         g.lines = Append(f.lines, x), c.anchor < x,
         AnchorsHold(c, f) \/ (c.offset > 0 /\ \A l \in LinesOf(f) : l > c.anchor)
  PROVE  /\ AnchorsHold(c, g) <=> AnchorsHold(c, f)
         /\ AnchorsHold(c, g) \/ (c.offset > 0 /\ \A l \in LinesOf(g) : l > c.anchor)
  <1>1. f.lines \in Seq(Nat) /\ g.lines \in Seq(Nat) /\ Len(f.lines) \in Nat
    BY DEF LogFiles
  <1>2. /\ Len(g.lines) = Len(f.lines) + 1 /\ g.lines[Len(f.lines) + 1] = x
        /\ \A j \in 1..Len(f.lines) : g.lines[j] = f.lines[j]
    BY <1>1
  <1>3. c.offset \in Nat /\ c.anchor \in Nat
    BY CursorShape
  <1>4. CASE AnchorsHold(c, f)
    BY <1>1, <1>2, <1>3, <1>4 DEF AnchorsHold
  <1>5. CASE ~AnchorsHold(c, f)
    <2>1. c.offset > 0 /\ \A l \in LinesOf(f) : l > c.anchor
      BY <1>5
    <2>2. LinesOf(f) = After(f.lines, 0) /\ LinesOf(g) = After(g.lines, 0)
      BY <1>1, AfterAll DEF LinesOf
    <2>3. LinesOf(g) = LinesOf(f) \cup {x}
      BY <1>1, <2>2, AfterAppend
    <2>4. \A l \in LinesOf(g) : l > c.anchor
      BY <1>3, <2>1, <2>3
    <2>5. ~AnchorsHold(c, g)
      <3>1. SUFFICES ASSUME c.offset =< Len(g.lines), g.lines[c.offset] = c.anchor PROVE FALSE
        BY <2>1 DEF AnchorsHold
      <3>2. g.lines[c.offset] \in LinesOf(g)
        BY <1>1, <1>2, <1>3, <2>1, <2>2, <3>1 DEF After
      <3>3. QED
        BY <1>3, <2>4, <3>1, <3>2
    <2>6. QED
      BY <1>5, <2>1, <2>4, <2>5
  <1>6. QED
    BY <1>4, <1>5

-----------------------------------------------------------------------------
(* The steps of the log.                                                   *)

LEMMA FileGrows ==
  ASSUME NEW f \in LogFiles, NEW x \in Nat
  PROVE  LET g == [f EXCEPT !.lines = Append(@, x)]
         IN  g \in LogFiles /\ g.ino = f.ino /\ g.lines = Append(f.lines, x)
  <1>1. f.lines \in Seq(Nat)
    BY DEF LogFiles
  <1>a. Append(f.lines, x) \in Seq(Nat)
    BY <1>1
  <1>2. PICK more \in Seq(Nat) : more = Append(f.lines, x)
    BY <1>a, Zenon
  <1>3. [f EXCEPT !.lines = more] \in LogFiles
    BY DEF LogFiles
  <1>4. [f EXCEPT !.lines = more].ino = f.ino /\ [f EXCEPT !.lines = more].lines = more
    BY DEF LogFiles
  <1>5. [f EXCEPT !.lines = Append(@, x)] = [f EXCEPT !.lines = more]
    BY <1>2
  <1>6. QED
    BY <1>2, <1>3, <1>4, <1>5

(* What is written goes to the end of one of the files.                    *)
LEMMA WriteShape ==
  ASSUME HttpTyped, LogSound, WriteLine
  PROVE  /\ logTop' = logTop + 1 /\ logInodes' = logInodes
         /\ logCurrent' \in LogFiles /\ logRotated' \in LogFiles
         /\ logCurrent'.ino = logCurrent.ino /\ logRotated'.ino = logRotated.ino
         /\ \/ /\ logCurrent = NoFile /\ logCurrent' = logCurrent
               /\ logRotated'.lines = Append(logRotated.lines, logTop + 1)
            \/ /\ logCurrent # NoFile /\ logCurrent' # NoFile /\ logRotated' = logRotated
               /\ logCurrent'.lines = Append(logCurrent.lines, logTop + 1)
  <1>1. logCurrent \in LogFiles /\ logRotated \in LogFiles /\ logTop \in Nat
    BY DEF HttpTyped
  <1>n. logTop + 1 \in Nat
    BY <1>1
  <1>2. CASE logCurrent = NoFile
    <2>1. logCurrent' = logCurrent /\ logRotated' = [logRotated EXCEPT !.lines = Append(@, logTop + 1)]
      BY <1>2 DEF WriteLine
    <2>2. /\ logRotated' \in LogFiles /\ logRotated'.ino = logRotated.ino
          /\ logRotated'.lines = Append(logRotated.lines, logTop + 1)
      BY <1>1, <1>n, <2>1, FileGrows
    <2>3. QED
      BY <1>1, <1>2, <2>1, <2>2 DEF WriteLine
  <1>3. CASE logCurrent # NoFile
    <2>1. logRotated' = logRotated /\ logCurrent' = [logCurrent EXCEPT !.lines = Append(@, logTop + 1)]
      BY <1>3 DEF WriteLine
    <2>2. /\ logCurrent' \in LogFiles /\ logCurrent'.ino = logCurrent.ino
          /\ logCurrent'.lines = Append(logCurrent.lines, logTop + 1)
      BY <1>1, <1>n, <2>1, FileGrows
    <2>3. logCurrent' # NoFile
      BY <1>3, <2>2, NoneShapes DEF LogSound
    <2>4. QED
      BY <1>1, <1>3, <2>1, <2>2, <2>3 DEF WriteLine
  <1>4. QED
    BY <1>2, <1>3

LEMMA LinesGrow ==
  ASSUME NEW f \in LogFiles, NEW g \in LogFiles, NEW x \in Nat, g.lines = Append(f.lines, x)
  PROVE  LinesOf(g) = LinesOf(f) \cup {x}
  <1>1. f.lines \in Seq(Nat) /\ g.lines \in Seq(Nat) /\ 0 \in 0..Len(f.lines)
    BY DEF LogFiles
  <1>2. LinesOf(f) = After(f.lines, 0) /\ LinesOf(g) = After(g.lines, 0)
    BY <1>1, AfterAll DEF LinesOf
  <1>3. QED
    BY <1>1, <1>2, AfterAppend

LEMMA WriteMoves ==
  ASSUME HttpTyped, LogSound, WriteLine, NEW c \in HttpCursors, CursorSound(c)
  PROVE  Moves(c)
  <1>1. /\ logTop \in Nat /\ logCurrent \in LogFiles /\ logRotated \in LogFiles
        /\ logCurrent.ino \in Nat /\ logRotated.ino \in Nat
    BY HttpShapes DEF HttpTyped
  <1>2. /\ c.ino \in Nat /\ c.offset \in Nat /\ c.anchor \in Nat
        /\ c.anchor =< logTop /\ (c # NoCursor => c.ino \in 1..logInodes)
    BY CursorShape DEF CursorSound
  <1>w. /\ logTop' = logTop + 1 /\ logInodes' = logInodes
        /\ logCurrent' \in LogFiles /\ logRotated' \in LogFiles
        /\ logCurrent'.ino = logCurrent.ino /\ logRotated'.ino = logRotated.ino
    BY WriteShape
  <1>r. RotatedOf(c)' = RotatedOf(c)
    BY <1>w DEF RotatedOf
  <1>h. HandleOf(c) \in LogFiles /\ HandleOf(c)' \in LogFiles /\ HandleOf(c)'.ino = HandleOf(c).ino
    BY <1>1, <1>w, <1>r DEF HandleOf
  <1>l. HandleOf(c).lines \in Seq(Nat)
    BY <1>h DEF LogFiles
  <1>a. /\ c # NoCursor => c.ino \in 1..logInodes'
        /\ c.anchor =< logTop'
    BY <1>1, <1>2, <1>w
  <1>3. CASE HandleOf(c)' = HandleOf(c)
    <2>1. ResumesAt(c)' = ResumesAt(c) /\ CursorSound(c)'
      BY <1>3, <1>a DEF ResumesAt, CursorSound
    <2>2. PICK start : start = (IF ResumesAt(c) THEN c.offset ELSE 0)
      OBVIOUS
    <2>3. Unread(c)' = After(HandleOf(c).lines, start) \cup (IF RotatedOf(c) THEN LinesOf(logCurrent') ELSE {})
      BY <1>3, <1>r, <2>1, <2>2 DEF Unread, LinesOf
    <2>4. Unread(c) = After(HandleOf(c).lines, start) \cup (IF RotatedOf(c) THEN LinesOf(logCurrent) ELSE {})
      BY <2>2 DEF Unread
    <2>5. CASE RotatedOf(c)
      <3>1. HandleOf(c) = logRotated /\ HandleOf(c)' = logRotated'
        BY <1>r, <2>5 DEF HandleOf
      <3>2. logRotated'.lines # Append(logRotated.lines, logTop + 1)
        <4>1. logRotated.lines \in Seq(Nat)
          BY HttpShapes
        <4>2. Len(Append(logRotated.lines, logTop + 1)) # Len(logRotated.lines)
          BY <4>1
        <4>3. QED
          BY <1>3, <3>1, <4>2
      <3>3. logCurrent'.lines = Append(logCurrent.lines, logTop + 1)
        BY <3>2, WriteShape
      <3>4. LinesOf(logCurrent') = LinesOf(logCurrent) \cup {logTop + 1}
        BY <1>1, <1>w, <3>3, LinesGrow
      <3>5. Unread(c)' = Unread(c) \cup {logTop + 1}
        BY <2>3, <2>4, <2>5, <3>4
      <3>6. QED
        BY <1>1, <1>w, <2>1, <3>5 DEF Moves
    <2>6. CASE ~RotatedOf(c)
      <3>1. HandleOf(c) = logCurrent /\ HandleOf(c)' = logCurrent'
        BY <1>r, <2>6 DEF HandleOf
      <3>2. logCurrent'.lines # Append(logCurrent.lines, logTop + 1)
        <4>1. logCurrent.lines \in Seq(Nat)
          BY HttpShapes
        <4>2. Len(Append(logCurrent.lines, logTop + 1)) # Len(logCurrent.lines)
          BY <4>1
        <4>3. QED
          BY <1>3, <3>1, <4>2
      <3>3. logCurrent = NoFile
        BY <3>2, WriteShape
      <3>4. ~ResumesAt(c)
        BY <1>2, <3>1, <3>3, NoneShapes DEF ResumesAt
      <3>5. Unread(c)' = Unread(c)
        BY <2>3, <2>4, <2>6
      <3>6. QED
        BY <2>1, <3>4, <3>5 DEF Moves
    <2>7. QED
      BY <2>5, <2>6
  <1>4. CASE HandleOf(c)'.lines = Append(HandleOf(c).lines, logTop + 1)
    <2>1. ASSUME c # NoCursor, HandleOf(c).ino = c.ino
          PROVE  /\ AnchorsHold(c, HandleOf(c)') <=> AnchorsHold(c, HandleOf(c))
                 /\ \/ AnchorsHold(c, HandleOf(c)')
                    \/ c.offset > 0 /\ \A l \in LinesOf(HandleOf(c)') : l > c.anchor
      <3>1. AnchorsHold(c, HandleOf(c)) \/ (c.offset > 0 /\ \A l \in LinesOf(HandleOf(c)) : l > c.anchor)
        BY <2>1 DEF CursorSound
      <3>2. logTop + 1 \in Nat /\ c.anchor < logTop + 1
        BY <1>1, <1>2
      <3>3. QED
        BY <1>4, <1>h, <3>1, <3>2, AnchorsGrow
    <2>2. ResumesAt(c)' = ResumesAt(c)
      BY <1>h, <2>1 DEF ResumesAt, AnchorsHold
    <2>3. CursorSound(c)'
      BY <1>a, <1>h, <2>1 DEF CursorSound, AnchorsHold, LinesOf
    <2>4. PICK start : start = (IF ResumesAt(c) THEN c.offset ELSE 0)
      OBVIOUS
    <2>5. start \in 0..Len(HandleOf(c).lines)
      BY <1>2, <1>l, <2>4 DEF ResumesAt, AnchorsHold
    <2>6. After(HandleOf(c)'.lines, start) = After(HandleOf(c).lines, start) \cup {logTop + 1}
      BY <1>1, <1>4, <1>l, <2>5, AfterAppend
    <2>7. (IF RotatedOf(c) THEN LinesOf(logCurrent') ELSE {}) = (IF RotatedOf(c) THEN LinesOf(logCurrent) ELSE {})
      <3>1. CASE RotatedOf(c)
        <4>1. HandleOf(c) = logRotated /\ HandleOf(c)' = logRotated'
          BY <1>r, <3>1 DEF HandleOf
        <4>2. Len(Append(logRotated.lines, logTop + 1)) # Len(logRotated.lines)
          BY <1>l, <4>1
        <4>3. logRotated' # logRotated
          BY <1>4, <4>1, <4>2
        <4>4. logCurrent' = logCurrent
          BY <4>3, WriteShape
        <4>5. QED
          BY <4>4
      <3>2. QED
        BY <3>1
    <2>8. Unread(c)' = Unread(c) \cup {logTop + 1}
      BY <1>r, <2>2, <2>4, <2>6, <2>7 DEF Unread, LinesOf
    <2>9. QED
      BY <1>1, <1>w, <2>2, <2>3, <2>8 DEF Moves
  <1>5. HandleOf(c)' = HandleOf(c) \/ HandleOf(c)'.lines = Append(HandleOf(c).lines, logTop + 1)
    BY <1>r, WriteShape DEF HandleOf
  <1>6. QED
    BY <1>3, <1>4, <1>5

LEMMA RotateMoves ==
  ASSUME HttpTyped, LogSound, RotateLog, NEW c \in HttpCursors, CursorSound(c)
  PROVE  Moves(c)
  <1>1. /\ logTop \in Nat /\ logTop' = logTop /\ logInodes' = logInodes
        /\ logCurrent # NoFile /\ logRotated' = logCurrent /\ logCurrent' = NoFile
    BY DEF RotateLog, HttpTyped
  <1>2. /\ logCurrent'.ino = 0 /\ logCurrent.ino # 0 /\ logRotated'.ino = logCurrent.ino
        /\ LinesOf(logCurrent') = {}
    BY <1>1, NoneShapes DEF LogSound, LinesOf, ToSet
  <1>3. /\ c.ino \in Nat /\ (c # NoCursor => c.ino \in 1..logInodes) /\ c.anchor =< logTop
        /\ (c = NoCursor => c.ino = 0)
    BY CursorShape, NoneShapes DEF CursorSound
  <1>4. CASE c.ino = logCurrent.ino
    <2>1. c # NoCursor
      BY <1>2, <1>3, <1>4
    <2>2. ~RotatedOf(c) /\ HandleOf(c) = logCurrent /\ RotatedOf(c)' /\ HandleOf(c)' = logCurrent
      BY <1>1, <1>2, <1>3, <1>4, <2>1 DEF RotatedOf, HandleOf
    <2>3. ResumesAt(c)' = ResumesAt(c) /\ CursorSound(c)'
      BY <1>1, <1>3, <2>2 DEF ResumesAt, CursorSound
    <2>4. Unread(c)' = Unread(c)
      BY <1>2, <2>2, <2>3 DEF Unread, LinesOf
    <2>5. QED
      BY <1>1, <2>3, <2>4 DEF Moves
  <1>5. CASE c.ino # logCurrent.ino
    <2>1. ~RotatedOf(c)' /\ HandleOf(c)' = NoFile
      BY <1>1, <1>2, <1>5 DEF RotatedOf, HandleOf
    <2>2. ~ResumesAt(c)'
      BY <1>3, <2>1, NoneShapes DEF ResumesAt
    <2>3. CursorSound(c)'
      BY <1>1, <1>3, <2>1, NoneShapes DEF CursorSound
    <2>4. Unread(c)' = {}
      BY <2>1, <2>2, NoneShapes, AfterEmpty DEF Unread
    <2>5. QED
      BY <2>2, <2>3, <2>4 DEF Moves
  <1>6. QED
    BY <1>4, <1>5

LEMMA ReopenMoves ==
  ASSUME HttpTyped, LogSound, ReopenLog, NEW c \in HttpCursors, CursorSound(c)
  PROVE  Moves(c)
  <1>1. /\ logTop \in Nat /\ logTop' = logTop /\ logInodes \in Nat /\ logInodes' = logInodes + 1
        /\ logCurrent = NoFile /\ logCurrent' = [ino |-> logInodes + 1, lines |-> <<>>]
        /\ logRotated' = logRotated
    BY DEF ReopenLog, HttpTyped
  <1>2. /\ logCurrent.ino = 0 /\ logCurrent.lines = <<>> /\ logCurrent'.ino = logInodes + 1
        /\ logCurrent'.lines = <<>> /\ LinesOf(logCurrent') = {} /\ LinesOf(logCurrent) = {}
    BY <1>1, NoneShapes DEF LinesOf, ToSet
  <1>3. /\ c.ino \in Nat /\ (c # NoCursor => c.ino \in 1..logInodes) /\ c.anchor =< logTop
    BY CursorShape DEF CursorSound
  <1>4. c # NoCursor => c.ino # logCurrent.ino /\ c.ino # logCurrent'.ino /\ c.ino \in 1..logInodes'
    BY <1>1, <1>2, <1>3
  <1>5. RotatedOf(c)' = RotatedOf(c)
    BY <1>1, <1>4 DEF RotatedOf
  <1>6. CASE RotatedOf(c)
    <2>1. HandleOf(c)' = HandleOf(c)
      BY <1>1, <1>5, <1>6 DEF HandleOf
    <2>2. ResumesAt(c)' = ResumesAt(c) /\ CursorSound(c)'
      BY <1>1, <1>3, <1>4, <2>1 DEF ResumesAt, CursorSound
    <2>3. Unread(c)' = Unread(c)
      BY <1>2, <1>5, <2>1, <2>2 DEF Unread, LinesOf
    <2>4. QED
      BY <1>1, <2>2, <2>3 DEF Moves
  <1>7. CASE ~RotatedOf(c)
    <2>1. HandleOf(c)' = logCurrent'
      BY <1>5, <1>7 DEF HandleOf
    <2>2. ~ResumesAt(c)'
      BY <1>4, <2>1 DEF ResumesAt
    <2>3. CursorSound(c)'
      BY <1>1, <1>3, <1>4, <2>1 DEF CursorSound
    <2>4. Unread(c)' = {}
      BY <1>2, <1>5, <1>7, <2>1, <2>2, AfterEmpty DEF Unread
    <2>5. QED
      BY <2>2, <2>3, <2>4 DEF Moves
  <1>8. QED
    BY <1>6, <1>7

(* A log that does not change.                                             *)
LEMMA StillMoves ==
  ASSUME HttpTyped, UNCHANGED <<logTop, logCurrent, logRotated, logInodes>>,
         NEW c \in HttpCursors, CursorSound(c)
  PROVE  Moves(c)
  <1>1. logTop \in Nat
    BY DEF HttpTyped
  <1>2. RotatedOf(c)' = RotatedOf(c) /\ HandleOf(c)' = HandleOf(c)
    BY DEF RotatedOf, HandleOf
  <1>3. ResumesAt(c)' = ResumesAt(c) /\ CursorSound(c)'
    BY <1>2 DEF ResumesAt, CursorSound
  <1>4. Unread(c)' = Unread(c)
    BY <1>2, <1>3 DEF Unread, LinesOf
  <1>5. QED
    BY <1>1, <1>3, <1>4 DEF Moves

LEMMA TruncateMoves ==
  ASSUME HttpTyped, LogSound, TruncateLog, NEW c \in HttpCursors, c = httpCursor, CursorSound(c)
  PROVE  Moves(c)
  <1>1. /\ logTop \in Nat /\ logTop' = logTop /\ logInodes' = logInodes /\ logRotated' = logRotated
        /\ logCurrent \in LogFiles /\ logCurrent.ino = c.ino /\ c.offset > 0
        /\ logCurrent' = [logCurrent EXCEPT !.lines = <<>>]
    BY DEF TruncateLog, HttpTyped
  <1>2. logCurrent'.ino = logCurrent.ino /\ logCurrent'.lines = <<>>
    BY <1>1 DEF LogFiles
  <1>3. ~RotatedOf(c)' /\ HandleOf(c)' = logCurrent'
    BY <1>1, <1>2 DEF RotatedOf, HandleOf
  <1>4. ~ResumesAt(c)'
    BY <1>1, <1>2, <1>3, CursorShape DEF ResumesAt, AnchorsHold
  <1>5. LinesOf(logCurrent') = {}
    BY <1>2 DEF LinesOf, ToSet
  <1>6. CursorSound(c)'
    BY <1>1, <1>3, <1>5 DEF CursorSound, LinesOf
  <1>7. Unread(c)' = {}
    BY <1>2, <1>3, <1>4, AfterEmpty DEF Unread
  <1>8. QED
    BY <1>4, <1>6, <1>7 DEF Moves

-----------------------------------------------------------------------------
(* The log stays sound and, without truncation, in one piece.              *)
LEMMA AppendInOrder ==
  ASSUME NEW lines \in Seq(Nat), NEW x \in Nat, InOrder(lines), \A l \in ToSet(lines) : l < x
  PROVE  InOrder(Append(lines, x))
  <1>1. /\ Len(lines) \in Nat /\ Len(Append(lines, x)) = Len(lines) + 1
        /\ Append(lines, x)[Len(lines) + 1] = x
        /\ \A i \in 1..Len(lines) : Append(lines, x)[i] = lines[i] /\ lines[i] \in ToSet(lines)
    BY DEF ToSet
  <1>2. ASSUME NEW i \in 1..(Len(lines) + 1), NEW j \in 1..(Len(lines) + 1), i < j
        PROVE  Append(lines, x)[i] < Append(lines, x)[j]
    <2>1. i \in 1..Len(lines)
      BY <1>1, <1>2
    <2>2. CASE j \in 1..Len(lines)
      <3>1. lines[i] < lines[j]
        BY <1>2, <2>1, <2>2 DEF InOrder
      <3>2. QED
        BY <1>1, <2>1, <2>2, <3>1
    <2>3. CASE j = Len(lines) + 1
      BY <1>1, <2>1, <2>3
    <2>4. QED
      BY <1>1, <2>2, <2>3
  <1>3. QED
    BY <1>1, <1>2 DEF InOrder

LEMMA WriteLog ==
  ASSUME HttpTyped, LogSound, WriteLine
  PROVE  LogSound' /\ (Joined => Joined')
  <1>1. /\ logTop \in Nat /\ logTop + 1 \in Nat
        /\ logCurrent \in LogFiles /\ logRotated \in LogFiles
        /\ logCurrent.ino \in Nat /\ logRotated.ino \in Nat /\ logInodes \in Nat
        /\ logCurrent.lines \in Seq(Nat) /\ logRotated.lines \in Seq(Nat)
    BY HttpShapes DEF HttpTyped
  <1>2. /\ logTop' = logTop + 1 /\ logInodes' = logInodes
        /\ logCurrent' \in LogFiles /\ logRotated' \in LogFiles
        /\ logCurrent'.ino = logCurrent.ino /\ logRotated'.ino = logRotated.ino
    BY WriteShape
  <1>3. \A l \in LinesOf(logCurrent) \cup LinesOf(logRotated) : l \in 1..logTop /\ l < logTop + 1
    BY <1>1 DEF LogSound
  <1>4. /\ logCurrent.ino =< logInodes /\ logRotated.ino =< logInodes
        /\ (logCurrent.ino = 0 <=> logCurrent = NoFile)
        /\ (logCurrent = NoFile => logRotated.ino # 0)
        /\ (logCurrent # NoFile => logRotated.ino < logCurrent.ino)
        /\ InOrder(logCurrent.lines) /\ InOrder(logRotated.lines)
        /\ \A l \in LinesOf(logRotated), m \in LinesOf(logCurrent) : l < m
        /\ (logCurrent # NoFile => UpToTop(LinesOf(logCurrent)))
    BY DEF LogSound
  <1>u. ASSUME NEW S, UpToTop(S), NEW T, T = S \cup {logTop + 1}, \A l \in S : l \in 1..logTop
        PROVE  \A l \in T, m \in 1..logTop' : l =< m => m \in T
    <2>1. SUFFICES ASSUME NEW l \in T, NEW m \in 1..(logTop + 1), l =< m PROVE m \in T
      BY <1>2
    <2>2. CASE m = logTop + 1
      BY <1>u, <2>2
    <2>3. CASE m \in 1..logTop
      <3>1. l \in S
        BY <1>1, <1>u, <2>1, <2>3
      <3>2. m \in S
        BY <1>u, <2>1, <2>3, <3>1 DEF UpToTop
      <3>3. QED
        BY <1>u, <3>2
    <2>4. QED
      BY <1>1, <2>1, <2>2, <2>3
  <1>5. CASE /\ logCurrent = NoFile /\ logCurrent' = logCurrent
             /\ logRotated'.lines = Append(logRotated.lines, logTop + 1)
    <2>1. LinesOf(logRotated') = LinesOf(logRotated) \cup {logTop + 1}
      BY <1>1, <1>2, <1>5, LinesGrow
    <2>2. LinesOf(logCurrent') = {} /\ LinesOf(logCurrent) = {}
      BY <1>5, NoneShapes DEF LinesOf, ToSet
    <2>3. InOrder(logRotated'.lines)
      BY <1>1, <1>3, <1>4, <1>5, AppendInOrder DEF LinesOf
    <2>4. \A l \in LinesOf(logCurrent') \cup LinesOf(logRotated') : l \in 1..(logTop + 1)
      BY <1>1, <1>3, <2>1, <2>2
    <2>5. LogSound'
      BY <1>2, <1>4, <1>5, <2>2, <2>3, <2>4 DEF LogSound, LinesOf, InOrder
    <2>6. ASSUME Joined PROVE Joined'
      <3>1. UpToTop(LinesOf(logRotated)) /\ \A l \in LinesOf(logRotated) : l \in 1..logTop
        BY <1>3, <2>2, <2>6 DEF Joined
      <3>2. \A l \in LinesOf(logRotated'), m \in 1..logTop' : l =< m => m \in LinesOf(logRotated')
        BY <1>u, <2>1, <3>1
      <3>3. LinesOf(logRotated') \cup LinesOf(logCurrent') = LinesOf(logRotated')
        BY <2>2
      <3>4. QED
        BY <3>2, <3>3 DEF Joined, UpToTop, LinesOf
    <2>7. QED
      BY <2>5, <2>6
  <1>6. CASE /\ logCurrent # NoFile /\ logCurrent' # NoFile /\ logRotated' = logRotated
             /\ logCurrent'.lines = Append(logCurrent.lines, logTop + 1)
    <2>1. LinesOf(logCurrent') = LinesOf(logCurrent) \cup {logTop + 1}
      BY <1>1, <1>2, <1>6, LinesGrow
    <2>2. LinesOf(logRotated') = LinesOf(logRotated)
      BY <1>6
    <2>3. InOrder(logCurrent'.lines)
      BY <1>1, <1>3, <1>4, <1>6, AppendInOrder DEF LinesOf
    <2>4. \A l \in LinesOf(logCurrent') \cup LinesOf(logRotated') : l \in 1..(logTop + 1)
      BY <1>1, <1>3, <2>1, <2>2
    <2>5. \A l \in LinesOf(logRotated'), m \in LinesOf(logCurrent') : l < m
      BY <1>3, <1>4, <2>1, <2>2
    <2>6. \A l \in LinesOf(logCurrent'), m \in 1..logTop' : l =< m => m \in LinesOf(logCurrent')
      BY <1>3, <1>4, <1>6, <1>u, <2>1
    <2>7. LogSound'
      BY <1>2, <1>4, <1>6, <2>3, <2>4, <2>5, <2>6 DEF LogSound, LinesOf, InOrder, UpToTop
    <2>8. ASSUME Joined PROVE Joined'
      <3>1. UpToTop(LinesOf(logRotated) \cup LinesOf(logCurrent))
        BY <2>8 DEF Joined
      <3>2. \A l \in LinesOf(logRotated) \cup LinesOf(logCurrent) : l \in 1..logTop
        BY <1>3
      <3>3. LinesOf(logRotated') \cup LinesOf(logCurrent') = (LinesOf(logRotated) \cup LinesOf(logCurrent)) \cup {logTop + 1}
        BY <2>1, <2>2
      <3>4. \A l \in LinesOf(logRotated') \cup LinesOf(logCurrent'), m \in 1..logTop' :
              l =< m => m \in LinesOf(logRotated') \cup LinesOf(logCurrent')
        BY <1>u, <3>1, <3>2, <3>3
      <3>5. QED
        BY <3>4 DEF Joined, UpToTop, LinesOf
    <2>9. QED
      BY <2>7, <2>8
  <1>7. QED
    BY <1>5, <1>6, WriteShape

LEMMA RotateLogSound ==
  ASSUME HttpTyped, LogSound, RotateLog
  PROVE  LogSound' /\ Joined'
  <1>1. /\ logTop' = logTop /\ logInodes' = logInodes /\ logInodes \in Nat
        /\ logCurrent # NoFile /\ logRotated' = logCurrent /\ logCurrent' = NoFile
    BY DEF RotateLog, HttpTyped
  <1>2. /\ logCurrent'.ino = 0 /\ logCurrent'.lines = <<>> /\ LinesOf(logCurrent') = {}
    BY <1>1, NoneShapes DEF LinesOf, ToSet
  <1>3. LinesOf(logRotated') = LinesOf(logCurrent)
    BY <1>1
  <1>4. /\ logCurrent.ino =< logInodes /\ logCurrent.ino # 0 /\ InOrder(logCurrent.lines)
        /\ UpToTop(LinesOf(logCurrent))
        /\ \A l \in LinesOf(logCurrent) : l \in 1..logTop
    BY <1>1 DEF LogSound
  <1>5. InOrder(<<>>)
    BY DEF InOrder
  <1>6. \A l \in LinesOf(logRotated'), m \in 1..logTop : l =< m => m \in LinesOf(logRotated')
    BY <1>3, <1>4 DEF UpToTop
  <1>7. Joined'
    BY <1>1, <1>2, <1>6 DEF Joined, UpToTop, LinesOf
  <1>8. LogSound'
    BY <1>1, <1>2, <1>3, <1>4, <1>5 DEF LogSound, LinesOf, InOrder
  <1>9. QED
    BY <1>7, <1>8

LEMMA ReopenLogSound ==
  ASSUME HttpTyped, LogSound, ReopenLog
  PROVE  LogSound' /\ (Joined => Joined')
  <1>1. /\ logTop' = logTop /\ logInodes \in Nat /\ logInodes' = logInodes + 1
        /\ logCurrent = NoFile /\ logCurrent' = [ino |-> logInodes + 1, lines |-> <<>>]
        /\ logRotated' = logRotated /\ logRotated.ino \in Nat
    BY HttpShapes DEF ReopenLog, HttpTyped
  <1>2. /\ logCurrent'.ino = logInodes + 1 /\ logCurrent'.lines = <<>>
        /\ LinesOf(logCurrent') = {} /\ LinesOf(logCurrent) = {}
    BY <1>1, NoneShapes DEF LinesOf, ToSet
  <1>3. logCurrent' # NoFile /\ logRotated.ino =< logInodes
    BY <1>1, <1>2, NoneShapes DEF LogSound
  <1>4. InOrder(<<>>)
    BY DEF InOrder
  <1>5. LinesOf(logRotated') = LinesOf(logRotated)
    BY <1>1
  <1>6. InOrder(logRotated.lines) /\ \A l \in LinesOf(logRotated) : l \in 1..logTop
    BY DEF LogSound
  <1>7. LogSound'
    BY <1>1, <1>2, <1>3, <1>4, <1>5, <1>6 DEF LogSound, LinesOf, InOrder, UpToTop
  <1>8. Joined => Joined'
    BY <1>1, <1>2, <1>5 DEF Joined, UpToTop, LinesOf
  <1>9. QED
    BY <1>7, <1>8

LEMMA TruncateLogSound ==
  ASSUME HttpTyped, LogSound, TruncateLog
  PROVE  LogSound' /\ logCurrent'.ino = logCurrent.ino /\ logCurrent' \in LogFiles
  <1>1. /\ logTop' = logTop /\ logInodes' = logInodes /\ logRotated' = logRotated
        /\ logCurrent \in LogFiles /\ logCurrent.lines # <<>>
        /\ logCurrent' = [logCurrent EXCEPT !.lines = <<>>]
    BY DEF TruncateLog, HttpTyped
  <1>e. <<>> \in Seq(Nat)
    OBVIOUS
  <1>2. logCurrent'.ino = logCurrent.ino /\ logCurrent'.lines = <<>> /\ logCurrent' \in LogFiles
    <2>1. PICK none \in Seq(Nat) : none = <<>>
      BY <1>e, Zenon
    <2>2. logCurrent' = [logCurrent EXCEPT !.lines = none]
      BY <1>1, <2>1
    <2>3. logCurrent'.ino = logCurrent.ino /\ logCurrent'.lines = none /\ logCurrent' \in LogFiles
      BY <1>1, <2>2 DEF LogFiles
    <2>4. QED
      BY <2>1, <2>3
  <1>3. logCurrent # NoFile /\ logCurrent.ino # 0
    BY <1>1, NoneShapes DEF LogSound
  <1>4. logCurrent' # NoFile
    BY <1>2, <1>3, NoneShapes
  <1>5. LinesOf(logCurrent') = {}
    BY <1>2 DEF LinesOf, ToSet
  <1>6. InOrder(<<>>)
    BY DEF InOrder
  <1>7. LinesOf(logRotated') = LinesOf(logRotated)
    BY <1>1
  <1>8. /\ logCurrent.ino =< logInodes /\ logRotated.ino =< logInodes /\ InOrder(logRotated.lines)
        /\ logRotated.ino < logCurrent.ino /\ \A l \in LinesOf(logRotated) : l \in 1..logTop
    BY <1>3 DEF LogSound
  <1>9. QED
    BY <1>1, <1>2, <1>3, <1>4, <1>5, <1>6, <1>7, <1>8 DEF LogSound, LinesOf, InOrder, UpToTop

-----------------------------------------------------------------------------
(* Where the log moves on, a store and the files of a collector still go   *)
(* together.                                                               *)
LEMMA WorldMoves ==
  ASSUME NEW c, NEW s, NEW rows \in SUBSET HttpRecords, NEW declared, NEW seen,
         HttpTyped, logTop' \in Nat, logTop =< logTop', s \in HttpSpools,
         World(c, s, rows, declared, seen), Moves(c), s # NoSpool => Moves(s.next)
  PROVE  World(c, s, rows, declared, seen)'
  <1>1. logTop \in Nat
    BY DEF HttpTyped
  <1>2. \A r \in rows : r.line \in Nat
    BY DEF HttpRecords
  <1>3. s.records \in Seq(HttpRecords) /\ s.from \in Nat /\ s.seen \in Nat
    BY DEF HttpSpools
  <1>g. PICK g : g = GoesOnAt(c, s)
    OBVIOUS
  <1>5. Moves(g)
    BY <1>g DEF GoesOnAt
  <1>6. RowsSound(c, s, rows)'
    <2>1. /\ \A r, t \in rows : r.line = t.line => r = t
          /\ \A r \in rows : r.line \in 1..logTop
          /\ \A r \in rows, l \in Unread(g) : r.line < l
      BY <1>g DEF World, RowsSound
    <2>2. \A r \in rows : r.line \in 1..logTop'
      BY <1>1, <1>2, <2>1
    <2>3. \A r \in rows, l \in Unread(g)' : r.line < l
      <3>1. SUFFICES ASSUME NEW r \in rows, NEW l \in Unread(g)' PROVE r.line < l
        OBVIOUS
      <3>2. l \in Unread(g) \/ l = logTop + 1
        BY <1>5, <3>1 DEF Moves
      <3>3. ASSUME l = logTop + 1 PROVE r.line < l
        <4>1. r.line \in 1..logTop
          BY <2>1
        <4>2. QED
          BY <1>1, <3>3, <4>1
      <3>4. QED
        BY <2>1, <3>2, <3>3
    <2>4. g = GoesOnAt(c, s)'
      BY <1>g DEF GoesOnAt
    <2>5. QED
      BY <2>1, <2>2, <2>3, <2>4 DEF RowsSound
  <1>7. CursorSound(c)'
    BY DEF Moves
  <1>8. ASSUME s # NoSpool
        PROVE  SpoolSound(s, rows, declared)'
    <2>n. PICK n : n = s.next
      OBVIOUS
    <2>1. Moves(n)
      BY <1>8, <2>n
    <2>2. /\ n.ino # 0
          /\ \A i, j \in 1..Len(s.records) : i < j => s.records[i].line < s.records[j].line
          /\ \A i \in 1..Len(s.records) : s.records[i].line \in 1..logTop
          /\ \A i \in 1..Len(s.records), l \in Unread(n) : s.records[i].line < l
          /\ \A r \in rows : \/ r \in ToSet(s.records)
                             \/ \A i \in 1..Len(s.records) : r.line < s.records[i].line
          /\ ResumesAt(n) =>
               \A l \in 1..logTop : Known(rows, declared, l) \/ Holds(s, l) \/ WillDeclare(s, l)
                                      \/ l \in Unread(n)
          /\ s.from =< logTop + 1 /\ s.seen =< logTop
          /\ \A l \in 1..s.seen : Known(rows, declared, l) \/ Holds(s, l) \/ WillDeclare(s, l)
      BY <1>8, <2>n DEF World, SpoolSound
    <2>3. CursorSound(n)'
      BY <2>1 DEF Moves
    <2>4. \A i \in 1..Len(s.records) : s.records[i].line \in 1..logTop'
      <3>1. \A k \in 1..logTop : k \in 1..logTop'
        BY <1>1
      <3>2. QED
        BY <2>2, <3>1
    <2>5. \A i \in 1..Len(s.records), l \in Unread(n)' : s.records[i].line < l
      <3>1. SUFFICES ASSUME NEW i \in 1..Len(s.records), NEW l \in Unread(n)'
                     PROVE  s.records[i].line < l
        OBVIOUS
      <3>2. l \in Unread(n) \/ l = logTop + 1
        BY <2>1, <3>1 DEF Moves
      <3>3. ASSUME l = logTop + 1 PROVE s.records[i].line < l
        <4>1. s.records[i].line \in 1..logTop
          BY <2>2
        <4>2. QED
          BY <1>1, <3>3, <4>1
      <3>4. QED
        BY <2>2, <3>2, <3>3
    <2>6. ResumesAt(n)' =>
            \A l \in 1..logTop' : Known(rows, declared, l) \/ Holds(s, l) \/ WillDeclare(s, l)
                                    \/ l \in Unread(n)'
      <3>1. SUFFICES ASSUME ResumesAt(n)', NEW l \in 1..logTop'
                     PROVE  Known(rows, declared, l) \/ Holds(s, l) \/ WillDeclare(s, l)
                              \/ l \in Unread(n)'
        OBVIOUS
      <3>2. l \in 1..logTop \/ l > logTop
        BY <1>1
      <3>3. ResumesAt(n) /\ (l \in Unread(n) \/ l > logTop => l \in Unread(n)')
        BY <2>1, <3>1 DEF Moves
      <3>4. QED
        BY <2>2, <3>2, <3>3
    <2>7. s.from =< logTop' + 1 /\ s.seen =< logTop'
      BY <1>1, <1>3, <2>2
    <2>8. QED
      BY <2>n, <2>2, <2>3, <2>4, <2>5, <2>6, <2>7
      DEF SpoolSound, Known, Holds, WillDeclare, Declares
  <1>9. SpoolSound(s, rows, declared)'
    <2>1. CASE s = NoSpool
      BY <2>1 DEF SpoolSound
    <2>2. QED
      BY <1>8, <2>1
  <1>10. ASSUME s = NoSpool, ResumesAt(c)', NEW l \in 1..logTop'
         PROVE  Known(rows, declared, l) \/ l \in Unread(c)'
    <2>1. l \in 1..logTop \/ l > logTop
      BY <1>1
    <2>2. ResumesAt(c) /\ (l \in Unread(c) \/ l > logTop => l \in Unread(c)')
      BY <1>10 DEF Moves
    <2>3. QED
      BY <1>10, <2>1, <2>2 DEF World
  <1>11. \A l \in 1..seen : Known(rows, declared, l)
    BY DEF World
  <1>12. QED
    BY <1>6, <1>7, <1>9, <1>10, <1>11 DEF World, Known

LEMMA IngestedMoves ==
  ASSUME NEW b \in HttpSpools, NEW rows, NEW declared, HttpTyped,
         logTop' \in Nat, logTop =< logTop', Ingested(b, rows, declared)
  PROVE  Ingested(b, rows, declared)'
  <1>1. logTop \in Nat /\ b.from \in Nat
    BY DEF HttpTyped, HttpSpools
  <1>2. b.from =< logTop + 1
    BY DEF Ingested
  <1>3. \A l \in 1..logTop' : l < b.from => l \in 1..logTop
    BY <1>1, <1>2
  <1>4. b.from =< logTop' + 1
    BY <1>1, <1>2
  <1>5. QED
    BY <1>3, <1>4 DEF Ingested, Known, Declares

(* Steps that leave the log alone.                                         *)
LEMMA WorldStill ==
  ASSUME NEW c \in HttpCursors, NEW s \in HttpSpools, NEW rows \in SUBSET HttpRecords, NEW declared, NEW seen,
         HttpTyped, UNCHANGED <<logTop, logCurrent, logRotated, logInodes>>,
         World(c, s, rows, declared, seen)
  PROVE  World(c, s, rows, declared, seen)'
  <1>1. Moves(c)
    BY StillMoves DEF World
  <1>2. s # NoSpool => Moves(s.next)
    <2>1. s.next \in HttpCursors
      BY DEF HttpSpools
    <2>2. s # NoSpool => CursorSound(s.next)
      BY DEF World, SpoolSound
    <2>3. QED
      BY <2>1, <2>2, StillMoves
  <1>3. logTop' \in Nat /\ logTop =< logTop'
    BY DEF HttpTyped
  <1>4. QED
    BY <1>1, <1>2, <1>3, WorldMoves

-----------------------------------------------------------------------------
(* Writing and rotation, for the running collector and for any package.    *)
Drifts ==
  /\ logTop' \in Nat /\ logTop =< logTop'
  /\ \A c \in HttpCursors : CursorSound(c) => Moves(c)

LogTyped ==
  /\ logTop \in Nat /\ logCurrent \in LogFiles /\ logRotated \in LogFiles
  /\ logQuiet \in BOOLEAN /\ logInodes \in Nat

LEMMA LogDrifts ==
  ASSUME HttpTyped, LogSound, WriteLine \/ RotateLog \/ ReopenLog \/ LogQuiet
  PROVE  /\ Drifts /\ LogTyped' /\ LogSound' /\ (Joined => Joined')
         /\ Joined' \/ (logCurrent'.ino = logCurrent.ino /\ (logCurrent # NoFile => logCurrent' # NoFile))
              \/ logCurrent = NoFile
  <1>1. logTop \in Nat /\ logInodes \in Nat /\ LogTyped
    BY DEF HttpTyped, LogTyped
  <1>2. CASE WriteLine
    <2>1. logTop' = logTop + 1 /\ logQuiet' = logQuiet
      BY <1>2 DEF WriteLine
    <2>2. LogTyped'
      BY <1>1, <1>2, <2>1, WriteShape DEF LogTyped
    <2>3. Drifts
      BY <1>1, <1>2, <2>1, WriteMoves DEF Drifts
    <2>4. logCurrent'.ino = logCurrent.ino /\ (logCurrent # NoFile => logCurrent' # NoFile)
      BY <1>2, WriteShape
    <2>5. QED
      BY <1>2, <2>2, <2>3, <2>4, WriteLog
  <1>3. CASE RotateLog
    <2>1. /\ logTop' = logTop /\ logQuiet' = FALSE /\ logInodes' = logInodes
          /\ logRotated' = logCurrent /\ logCurrent' = NoFile
      BY <1>3 DEF RotateLog
    <2>2. LogTyped'
      BY <1>1, <2>1, NoneShapes DEF LogTyped
    <2>3. Drifts
      BY <1>1, <1>3, <2>1, RotateMoves DEF Drifts
    <2>4. QED
      BY <1>3, <2>2, <2>3, RotateLogSound
  <1>4. CASE ReopenLog
    <2>1. /\ logTop' = logTop /\ logQuiet' = logQuiet /\ logInodes' = logInodes + 1
          /\ logRotated' = logRotated /\ logCurrent' = [ino |-> logInodes + 1, lines |-> <<>>]
          /\ logCurrent = NoFile
      BY <1>4 DEF ReopenLog
    <2>2. <<>> \in Seq(Nat)
      OBVIOUS
    <2>3. logCurrent' \in LogFiles
      BY <1>1, <2>1, <2>2 DEF LogFiles
    <2>4. LogTyped'
      BY <1>1, <2>1, <2>3 DEF LogTyped
    <2>5. Drifts
      BY <1>1, <1>4, <2>1, ReopenMoves DEF Drifts
    <2>6. QED
      BY <1>4, <2>1, <2>4, <2>5, ReopenLogSound
  <1>5. CASE LogQuiet
    <2>1. UNCHANGED <<logTop, logCurrent, logRotated, logInodes>> /\ logQuiet' = TRUE
      BY <1>5 DEF LogQuiet
    <2>2. LogTyped' /\ logTop' \in Nat /\ logTop =< logTop'
      BY <1>1, <2>1 DEF LogTyped
    <2>3. LogSound' /\ (Joined => Joined')
      BY <2>1 DEF LogSound, Joined, UpToTop, LinesOf, InOrder
    <2>4. Drifts
      BY <2>1, <2>2, StillMoves DEF Drifts
    <2>5. QED
      BY <2>1, <2>2, <2>3, <2>4
  <1>6. QED
    BY <1>2, <1>3, <1>4, <1>5

LEMMA WorldDrifts ==
  ASSUME NEW c \in HttpCursors, NEW s \in HttpSpools, NEW rows \in SUBSET HttpRecords, NEW declared, NEW seen,
         HttpTyped, Drifts, World(c, s, rows, declared, seen)
  PROVE  World(c, s, rows, declared, seen)'
  <1>1. Moves(c)
    BY DEF World, Drifts
  <1>2. s # NoSpool => Moves(s.next)
    <2>1. s.next \in HttpCursors
      BY DEF HttpSpools
    <2>2. s # NoSpool => CursorSound(s.next)
      BY DEF World, SpoolSound
    <2>3. QED
      BY <2>1, <2>2 DEF Drifts
  <1>3. logTop' \in Nat /\ logTop =< logTop'
    BY DEF Drifts
  <1>4. QED
    BY <1>1, <1>2, <1>3, WorldMoves

(* What a step leaves of the invariant where only the log changes.         *)
LEMMA LogAloneKeeps ==
  ASSUME HttpInv, LogTyped', LogSound', logTop =< logTop', (Joined \/ Truncated)',
         UNCHANGED <<collectorVars, httpPosted, httpStoreVars>>, httpFaults' \in Nat,
         World(httpCursor, httpSpool, httpRows, httpDeclared, httpSeen)'
  PROVE  HttpInv'
  <1>1. HttpTyped /\ logTop' \in Nat
    BY DEF HttpInv, LogTyped
  <1>2. HttpTyped'
    BY <1>1 DEF HttpTyped, LogTyped, collectorVars, httpStoreVars
  <1>3. PICK s, rows, declared : s = httpSpool /\ rows = httpRows /\ declared = httpDeclared
    OBVIOUS
  <1>4. s = httpSpool' /\ rows = httpRows' /\ declared = httpDeclared' /\ httpAt' = httpAt
        /\ httpCursor' = httpCursor /\ httpPosted' = httpPosted
    BY <1>3 DEF collectorVars, httpStoreVars
  <1>5. s \in HttpSpools /\ httpPosted \subseteq HttpSpools
    BY <1>1, <1>3 DEF HttpTyped
  <1>6. ASSUME httpAt \in {"acked", "saved"} PROVE Ingested(httpSpool, httpRows, httpDeclared)'
    <2>1. Ingested(s, rows, declared)
      BY <1>3, <1>6 DEF HttpInv
    <2>2. Ingested(s, rows, declared)'
      BY <1>1, <1>5, <2>1, IngestedMoves
    <2>3. QED
      BY <1>4, <2>2
  <1>7. ASSUME NEW b \in httpPosted
        PROVE  (b = httpSpool' /\ httpSpool' # NoSpool) \/ Ingested(b, httpRows, httpDeclared)'
    <2>1. (b = httpSpool /\ httpSpool # NoSpool) \/ Ingested(b, rows, declared)
      BY <1>3 DEF HttpInv
    <2>2. Ingested(b, rows, declared) => Ingested(b, rows, declared)'
      BY <1>1, <1>5, IngestedMoves
    <2>3. Ingested(b, rows, declared)' => Ingested(b, httpRows, httpDeclared)'
      BY <1>4
    <2>4. QED
      BY <1>3, <1>4, <2>1, <2>2, <2>3
  <1>8. QED
    BY <1>2, <1>3, <1>4, <1>6, <1>7 DEF HttpInv

LEMMA HttpLog ==
  ASSUME HttpInv, LogStep
  PROVE  HttpInv'
  <1>0. /\ HttpTyped /\ LogSound /\ (Joined \/ Truncated)
        /\ World(httpCursor, httpSpool, httpRows, httpDeclared, httpSeen)
    BY DEF HttpInv
  <1>1. PICK c, s, rows, declared, seen :
          c = httpCursor /\ s = httpSpool /\ rows = httpRows /\ declared = httpDeclared /\ seen = httpSeen
    OBVIOUS
  <1>2. /\ c \in HttpCursors /\ s \in HttpSpools /\ rows \in SUBSET HttpRecords
        /\ World(c, s, rows, declared, seen)
    BY <1>0, <1>1 DEF HttpTyped
  <1>3. CASE WriteLine \/ RotateLog \/ ReopenLog \/ LogQuiet
    <2>1. UNCHANGED <<collectorVars, httpPosted, httpStoreVars, httpFaults>>
      BY <1>3 DEF WriteLine, RotateLog, ReopenLog, LogQuiet
    <2>2. /\ Drifts /\ LogTyped' /\ LogSound' /\ (Joined => Joined')
          /\ Joined' \/ (logCurrent'.ino = logCurrent.ino /\ (logCurrent # NoFile => logCurrent' # NoFile))
               \/ logCurrent = NoFile
      BY <1>0, <1>3, LogDrifts
    <2>3. World(c, s, rows, declared, seen)'
      BY <1>0, <1>2, <2>2, WorldDrifts
    <2>4. /\ c = httpCursor' /\ s = httpSpool' /\ rows = httpRows' /\ declared = httpDeclared'
          /\ seen = httpSeen'
      BY <1>1, <2>1 DEF collectorVars, httpStoreVars
    <2>5. World(httpCursor, httpSpool, httpRows, httpDeclared, httpSeen)'
      BY <2>3, <2>4
    <2>6. (Joined \/ Truncated)'
      BY <1>0, <1>1, <2>2, <2>4 DEF Truncated
    <2>7. httpFaults' \in Nat /\ logTop =< logTop'
      BY <1>0, <2>1, <2>2 DEF HttpTyped, Drifts
    <2>8. QED
      BY <2>1, <2>2, <2>5, <2>6, <2>7, LogAloneKeeps
  <1>4. CASE TruncateLog
    <2>1. /\ UNCHANGED <<collectorVars, httpPosted, httpStoreVars>> /\ httpFaults' = httpFaults + 1
          /\ s = NoSpool /\ logTop' = logTop /\ logInodes' = logInodes /\ logQuiet' = logQuiet
          /\ logRotated' = logRotated /\ logCurrent.ino = httpCursor.ino /\ logCurrent.lines # <<>>
      BY <1>1, <1>4 DEF TruncateLog, HttpFault
    <2>2. LogSound' /\ logCurrent'.ino = logCurrent.ino /\ logCurrent' \in LogFiles
      BY <1>0, <1>4, TruncateLogSound
    <2>3. LogTyped' /\ logTop' \in Nat /\ logTop =< logTop' /\ httpFaults' \in Nat
      BY <1>0, <2>1, <2>2 DEF LogTyped, HttpTyped
    <2>4. CursorSound(c)
      BY <1>2 DEF World
    <2>5. Moves(c)
      BY <1>0, <1>1, <1>2, <1>4, <2>4, TruncateMoves
    <2>6. World(c, s, rows, declared, seen)'
      BY <1>0, <1>2, <2>1, <2>3, <2>5, WorldMoves
    <2>7. /\ c = httpCursor' /\ s = httpSpool' /\ rows = httpRows' /\ declared = httpDeclared'
          /\ seen = httpSeen'
      BY <1>1, <2>1 DEF collectorVars, httpStoreVars
    <2>8. World(httpCursor, httpSpool, httpRows, httpDeclared, httpSeen)'
      BY <2>6, <2>7
    <2>9. logCurrent' # NoFile
      BY <1>0, <2>1, <2>2, NoneShapes DEF LogSound
    <2>10. Truncated'
      BY <1>1, <2>1, <2>2, <2>7, <2>9 DEF Truncated
    <2>11. QED
      BY <2>1, <2>2, <2>3, <2>8, <2>10, LogAloneKeeps
  <1>5. QED
    BY <1>3, <1>4 DEF LogStep

-----------------------------------------------------------------------------
(* The page that build_pending reads.                                      *)

LEMMA AfterSplit ==
  ASSUME NEW lines \in Seq(Nat), NEW start \in Nat, NEW end \in Nat, start =< end, end =< Len(lines)
  PROVE  After(lines, start) = {lines[start + i] : i \in 1..(end - start)} \cup After(lines, end)
  <1>1. Len(lines) \in Nat
    OBVIOUS
  <1>2. ASSUME NEW x \in After(lines, start)
        PROVE  x \in {lines[start + i] : i \in 1..(end - start)} \cup After(lines, end)
    <2>1. PICK j \in (start + 1)..Len(lines) : x = lines[j]
      BY DEF After
    <2>2. CASE j > end
      <3>1. j \in (end + 1)..Len(lines)
        BY <1>1, <2>2
      <3>2. QED
        BY <2>1, <3>1 DEF After
    <2>3. CASE j =< end
      <3>1. PICK i \in 1..(end - start) : j = start + i
        <4>1. j - start \in 1..(end - start) /\ j = start + (j - start)
          BY <1>1, <2>3
        <4>2. QED
          BY <4>1
      <3>2. QED
        BY <2>1, <3>1
    <2>4. QED
      BY <1>1, <2>2, <2>3
  <1>3. ASSUME NEW i \in 1..(end - start)
        PROVE  lines[start + i] \in After(lines, start)
    <2>1. start + i \in (start + 1)..Len(lines)
      BY <1>1
    <2>2. QED
      BY <2>1 DEF After
  <1>4. ASSUME NEW x \in After(lines, end) PROVE x \in After(lines, start)
    <2>1. PICK j \in (end + 1)..Len(lines) : x = lines[j]
      BY <1>4 DEF After
    <2>2. j \in (start + 1)..Len(lines)
      BY <1>1
    <2>3. QED
      BY <2>1, <2>2 DEF After
  <1>5. QED
    BY <1>2, <1>3, <1>4

(* The parts of a page: the file it is read from and where it starts and   *)
(* ends.                                                                   *)
PageStartsAt == IF Resumes THEN httpCursor.offset ELSE 0
PageEndsAt == IF PageStartsAt + PageSize < Len(Handle.lines) THEN PageStartsAt + PageSize
              ELSE Len(Handle.lines)
Switches == UsesRotated /\ PageEndsAt = Len(Handle.lines) /\ logQuiet
Rest == IF UsesRotated THEN LinesOf(logCurrent) ELSE {}

LEMMA PageOfCursor ==
  ASSUME NEW c, c = httpCursor
  PROVE  /\ UsesRotated = RotatedOf(c) /\ Handle = HandleOf(c) /\ Resumes = ResumesAt(c)
  BY DEF UsesRotated, RotatedOf, Handle, HandleOf, Resumes, SameFile, FileTruncated, ResumesAt

LEMMA PageBounds ==
  ASSUME HttpTyped, LogSound, logCurrent # NoFile, CursorSound(httpCursor)
  PROVE  /\ Handle \in LogFiles /\ Handle.lines \in Seq(Nat) /\ Len(Handle.lines) \in Nat
         /\ PageStartsAt \in Nat /\ PageEndsAt \in Nat
         /\ PageStartsAt =< PageEndsAt /\ PageEndsAt =< Len(Handle.lines)
         /\ Handle.ino \in 1..logInodes
         /\ InOrder(Handle.lines)
         /\ \A j \in 1..Len(Handle.lines) : Handle.lines[j] \in 1..logTop
         /\ \A j \in 1..Len(Handle.lines), l \in Rest : Handle.lines[j] < l
  <1>1. Handle \in LogFiles
    BY DEF Handle, HttpTyped
  <1>2. Handle.lines \in Seq(Nat) /\ Len(Handle.lines) \in Nat
    BY <1>1 DEF LogFiles
  <1>3. PageSize \in Nat /\ PageSize > 0
    BY HttpCollectionAssumption
  <1>4. httpCursor.offset \in Nat /\ httpCursor.ino \in Nat
    BY CursorShape DEF HttpTyped
  <1>5. Resumes => httpCursor.offset =< Len(Handle.lines)
    BY DEF Resumes, FileTruncated, AnchorsHold
  <1>6. PageStartsAt \in Nat /\ PageStartsAt =< Len(Handle.lines)
    BY <1>2, <1>4, <1>5 DEF PageStartsAt
  <1>7. PageEndsAt \in Nat /\ PageStartsAt =< PageEndsAt /\ PageEndsAt =< Len(Handle.lines)
    BY <1>2, <1>3, <1>6 DEF PageEndsAt
  <1>8. Handle.ino \in 1..logInodes
    <2>1. CASE UsesRotated
      BY <2>1 DEF Handle, UsesRotated, CursorSound
    <2>2. CASE ~UsesRotated
      BY <2>2, HttpShapes DEF Handle, LogSound
    <2>3. QED
      BY <2>1, <2>2
  <1>9. InOrder(Handle.lines)
    BY DEF Handle, LogSound
  <1>10. \A j \in 1..Len(Handle.lines) : Handle.lines[j] \in LinesOf(Handle)
    BY <1>2 DEF LinesOf, ToSet
  <1>11. \A l \in LinesOf(Handle) : l \in 1..logTop
    BY DEF Handle, LogSound
  <1>12. \A l \in LinesOf(Handle), m \in Rest : l < m
    BY DEF Handle, LogSound, Rest
  <1>13. QED
    BY <1>1, <1>2, <1>6, <1>7, <1>8, <1>9, <1>10, <1>11, <1>12

(* The fields of the page.                                                 *)
LEMMA PageFields ==
  /\ Pending.base = httpCursor
  /\ Switches => Pending.next = [ino |-> logCurrent.ino, gen |-> httpGens + 2, offset |-> 0, anchor |-> 0]
  /\ ~Switches => Pending.next = [ino |-> Handle.ino, gen |-> (IF Resumes THEN httpCursor.gen ELSE httpGens + 1),
                                  offset |-> PageEndsAt,
                                  anchor |-> IF PageEndsAt > 0 THEN Handle.lines[PageEndsAt] ELSE 0]
  /\ Pending.records = [i \in 1..(PageEndsAt - PageStartsAt) |->
                          [gen |-> (IF Resumes THEN httpCursor.gen ELSE httpGens + 1),
                           offset |-> PageStartsAt + i, line |-> Handle.lines[PageStartsAt + i]]]
  /\ Pending.from = IF PageStartsAt < Len(Handle.lines) THEN Handle.lines[PageStartsAt + 1] ELSE logTop + 1
  /\ Pending.seen = IF Pending.reports = {} THEN logTop ELSE 0
  /\ Pending.reports \subseteq HttpReports /\ Pending.caughtUp \in BOOLEAN
  /\ httpCursor # NoCursor /\ ~SameFile => "rotation_gap" \in Pending.reports
  /\ FileTruncated => "file_truncated" \in Pending.reports
  /\ UsesRotated /\ PageEndsAt = Len(Handle.lines) /\ ~logQuiet => "rotation_wait" \in Pending.reports
  /\ PageEndsAt < Len(Handle.lines) \/ Switches => "catching_up" \in Pending.reports
  BY DEF Pending, PageStartsAt, PageEndsAt, Switches, HttpReports

LEMMA PageTyped ==
  ASSUME HttpTyped, LogSound, logCurrent # NoFile, CursorSound(httpCursor)
  PROVE  /\ Pending \in HttpSpools /\ Pending.next.ino \in 1..logInodes
         /\ Len(Pending.records) = PageEndsAt - PageStartsAt
         /\ \A i \in 1..(PageEndsAt - PageStartsAt) :
              Pending.records[i].line = Handle.lines[PageStartsAt + i]
  <1>1. /\ Handle.lines \in Seq(Nat) /\ Len(Handle.lines) \in Nat
        /\ PageStartsAt \in Nat /\ PageEndsAt \in Nat
        /\ PageStartsAt =< PageEndsAt /\ PageEndsAt =< Len(Handle.lines)
        /\ Handle.ino \in 1..logInodes
    BY PageBounds
  <1>2. /\ httpCursor \in HttpCursors /\ httpCursor.gen \in Nat /\ httpGens \in Nat
        /\ logTop \in Nat /\ logInodes \in Nat
    BY CursorShape DEF HttpTyped
  <1>3. PICK gen \in Nat : gen = (IF Resumes THEN httpCursor.gen ELSE httpGens + 1)
    BY <1>2
  <1>4. logCurrent.ino \in 1..logInodes
    BY HttpShapes DEF LogSound
  <1>5. Pending.next \in HttpCursors /\ Pending.next.ino \in 1..logInodes
    <2>1. CASE Switches
      <3>1. Pending.next = [ino |-> logCurrent.ino, gen |-> httpGens + 2, offset |-> 0, anchor |-> 0]
        BY <2>1, PageFields
      <3>2. QED
        BY <1>2, <1>4, <3>1 DEF HttpCursors
    <2>2. CASE ~Switches
      <3>1. PICK anchor : anchor = (IF PageEndsAt > 0 THEN Handle.lines[PageEndsAt] ELSE 0)
        OBVIOUS
      <3>2. anchor \in Nat
        BY <1>1, <3>1
      <3>3. Pending.next = [ino |-> Handle.ino, gen |-> gen, offset |-> PageEndsAt, anchor |-> anchor]
        BY <1>3, <2>2, <3>1, PageFields
      <3>4. QED
        BY <1>1, <1>2, <3>2, <3>3 DEF HttpCursors
    <2>3. QED
      BY <2>1, <2>2
  <1>6. PICK n \in Nat : n = PageEndsAt - PageStartsAt
    BY <1>1
  <1>7. Pending.records = [i \in 1..n |-> [gen |-> gen, offset |-> PageStartsAt + i,
                                           line |-> Handle.lines[PageStartsAt + i]]]
    BY <1>3, <1>6, PageFields
  <1>8. \A i \in 1..n : /\ PageStartsAt + i \in 1..Len(Handle.lines)
                        /\ Handle.lines[PageStartsAt + i] \in Nat
    <2>1. \A i \in 1..n : PageStartsAt + i \in 1..Len(Handle.lines)
      BY <1>1, <1>6
    <2>2. \A k \in 1..Len(Handle.lines) : Handle.lines[k] \in Nat
      BY <1>1
    <2>3. QED
      BY <2>1, <2>2
  <1>9. \A i \in 1..n : [gen |-> gen, offset |-> PageStartsAt + i,
                         line |-> Handle.lines[PageStartsAt + i]] \in HttpRecords
    BY <1>1, <1>8 DEF HttpRecords
  <1>10. Pending.records \in Seq(HttpRecords) /\ Len(Pending.records) = n
    <2>1. Pending.records \in [1..n -> HttpRecords]
      BY <1>7, <1>9
    <2>2. QED
      BY <2>1
  <1>11. Pending.from \in Nat /\ Pending.seen \in Nat
    <2>1. PageStartsAt < Len(Handle.lines) => PageStartsAt + 1 \in 1..Len(Handle.lines)
      BY <1>1
    <2>2. \A k \in 1..Len(Handle.lines) : Handle.lines[k] \in Nat
      BY <1>1
    <2>3. Pending.from = IF PageStartsAt < Len(Handle.lines) THEN Handle.lines[PageStartsAt + 1] ELSE logTop + 1
      BY PageFields
    <2>4. Pending.seen = IF Pending.reports = {} THEN logTop ELSE 0
      BY PageFields
    <2>5. Pending.from \in Nat
      BY <1>2, <2>1, <2>2, <2>3
    <2>6. QED
      BY <1>2, <2>4, <2>5
  <1>12. Pending = [base |-> Pending.base, next |-> Pending.next, records |-> Pending.records,
                    reports |-> Pending.reports, caughtUp |-> Pending.caughtUp,
                    from |-> Pending.from, seen |-> Pending.seen]
    BY DEF Pending
  <1>13. Pending.base \in HttpCursors /\ Pending.reports \in SUBSET HttpReports /\ Pending.caughtUp \in BOOLEAN
    BY <1>2, PageFields
  <1>14. Pending \in HttpSpools
    BY <1>5, <1>10, <1>11, <1>12, <1>13 DEF HttpSpools
  <1>15. QED
    BY <1>5, <1>6, <1>7, <1>10, <1>14

(* Where the page ends, and what is left after it.                         *)
LEMMA PageNext ==
  ASSUME HttpTyped, LogSound, logCurrent # NoFile, CursorSound(httpCursor)
  PROVE  /\ CursorSound(Pending.next) /\ Pending.next.ino # 0 /\ ResumesAt(Pending.next)
         /\ Unread(Pending.next) = After(Handle.lines, PageEndsAt) \cup Rest
  <1>1. /\ Handle \in LogFiles /\ Handle.lines \in Seq(Nat) /\ Len(Handle.lines) \in Nat
        /\ PageEndsAt \in Nat /\ PageEndsAt =< Len(Handle.lines)
        /\ Handle.ino \in 1..logInodes
        /\ \A j \in 1..Len(Handle.lines) : Handle.lines[j] \in 1..logTop
    BY PageBounds
  <1>2. logTop \in Nat /\ logInodes \in Nat /\ logCurrent.lines \in Seq(Nat)
    BY HttpShapes
  <1>3. Pending.next.ino \in 1..logInodes
    BY PageTyped
  <1>4. PICK n : n = Pending.next
    OBVIOUS
  <1>5. n # NoCursor /\ n.ino # 0
    BY <1>2, <1>3, <1>4, NoneShapes
  <1>6. CASE Switches
    <2>1. n.ino = logCurrent.ino /\ n.offset = 0 /\ n.anchor = 0
      BY <1>4, <1>6, PageFields
    <2>2. ~RotatedOf(n) /\ HandleOf(n) = logCurrent
      BY <2>1 DEF RotatedOf, HandleOf
    <2>3. AnchorsHold(n, logCurrent)
      BY <1>2, <2>1 DEF AnchorsHold
    <2>4. ResumesAt(n)
      BY <1>5, <2>1, <2>2, <2>3 DEF ResumesAt
    <2>5. CursorSound(n)
      BY <1>2, <1>3, <1>4, <2>1, <2>2, <2>3 DEF CursorSound
    <2>6. Unread(n) = After(logCurrent.lines, 0)
      BY <2>1, <2>2, <2>4 DEF Unread
    <2>7. After(logCurrent.lines, 0) = LinesOf(logCurrent)
      BY <1>2, AfterAll DEF LinesOf
    <2>8. After(Handle.lines, PageEndsAt) = {}
      <3>1. PageEndsAt = Len(Handle.lines)
        BY <1>6 DEF Switches
      <3>2. (PageEndsAt + 1)..Len(Handle.lines) = {}
        BY <1>1, <3>1
      <3>3. QED
        BY <3>2 DEF After
    <2>9. Rest = LinesOf(logCurrent)
      BY <1>6 DEF Switches, Rest
    <2>10. QED
      BY <1>4, <1>5, <2>4, <2>5, <2>6, <2>7, <2>8, <2>9
  <1>7. CASE ~Switches
    <2>1. /\ n.ino = Handle.ino /\ n.offset = PageEndsAt
          /\ n.anchor = IF PageEndsAt > 0 THEN Handle.lines[PageEndsAt] ELSE 0
      BY <1>4, <1>7, PageFields
    <2>2. (RotatedOf(n) <=> UsesRotated) /\ HandleOf(n) = Handle
      <3>1. CASE UsesRotated
        <4>1. Handle = logRotated /\ logCurrent.ino # n.ino
          BY <2>1, <3>1 DEF Handle, UsesRotated
        <4>2. QED
          BY <1>5, <2>1, <3>1, <4>1 DEF RotatedOf, HandleOf
      <3>2. CASE ~UsesRotated
        <4>1. Handle = logCurrent
          BY <3>2 DEF Handle
        <4>2. ~RotatedOf(n)
          BY <2>1, <4>1 DEF RotatedOf
        <4>3. QED
          BY <3>2, <4>1, <4>2 DEF HandleOf
      <3>3. QED
        BY <3>1, <3>2
    <2>3. AnchorsHold(n, Handle)
      BY <1>1, <2>1 DEF AnchorsHold
    <2>4. ResumesAt(n)
      BY <1>5, <2>1, <2>2, <2>3 DEF ResumesAt
    <2>5. n.anchor =< logTop
      <3>1. PageEndsAt > 0 => PageEndsAt \in 1..Len(Handle.lines)
        BY <1>1
      <3>2. PageEndsAt > 0 => Handle.lines[PageEndsAt] \in 1..logTop
        BY <1>1, <3>1
      <3>3. QED
        BY <1>2, <2>1, <3>2
    <2>6. CursorSound(n)
      BY <1>3, <1>4, <2>2, <2>3, <2>5 DEF CursorSound
    <2>7. Unread(n) = After(Handle.lines, PageEndsAt) \cup Rest
      BY <2>1, <2>2, <2>4 DEF Unread, Rest
    <2>8. QED
      BY <1>4, <1>5, <2>4, <2>6, <2>7
  <1>8. QED
    BY <1>6, <1>7

(* What the cursor has yet to read is the page and what is left after it.  *)
LEMMA PageSplits ==
  ASSUME HttpTyped, LogSound, logCurrent # NoFile, CursorSound(httpCursor)
  PROVE  /\ \A l \in Unread(httpCursor) : Holds(Pending, l) \/ l \in Unread(Pending.next)
         /\ \A l \in Unread(Pending.next) : l \in Unread(httpCursor)
         /\ \A i \in 1..Len(Pending.records) :
              /\ Pending.records[i].line \in Unread(httpCursor)
              /\ Pending.records[i].line \in 1..logTop
              /\ \A l \in Unread(Pending.next) : Pending.records[i].line < l
              /\ \A j \in 1..Len(Pending.records) :
                   i < j => Pending.records[i].line < Pending.records[j].line
  <1>1. /\ Handle.lines \in Seq(Nat) /\ Len(Handle.lines) \in Nat
        /\ PageStartsAt \in Nat /\ PageEndsAt \in Nat
        /\ PageStartsAt =< PageEndsAt /\ PageEndsAt =< Len(Handle.lines)
        /\ InOrder(Handle.lines)
        /\ \A j \in 1..Len(Handle.lines) : Handle.lines[j] \in 1..logTop
        /\ \A j \in 1..Len(Handle.lines), l \in Rest : Handle.lines[j] < l
    BY PageBounds
  <1>2. PICK n \in Nat : n = PageEndsAt - PageStartsAt
    BY <1>1
  <1>3. /\ Len(Pending.records) = n
        /\ \A i \in 1..n : Pending.records[i].line = Handle.lines[PageStartsAt + i]
    BY <1>2, PageTyped
  <1>4. Unread(httpCursor) = After(Handle.lines, PageStartsAt) \cup Rest
    <2>1. /\ UsesRotated = RotatedOf(httpCursor) /\ Handle = HandleOf(httpCursor)
          /\ Resumes = ResumesAt(httpCursor)
      BY PageOfCursor
    <2>2. QED
      BY <2>1 DEF Unread, PageStartsAt, Rest
  <1>5. Unread(Pending.next) = After(Handle.lines, PageEndsAt) \cup Rest
    BY PageNext
  <1>6. After(Handle.lines, PageStartsAt)
          = {Handle.lines[PageStartsAt + i] : i \in 1..n} \cup After(Handle.lines, PageEndsAt)
    BY <1>1, <1>2, AfterSplit
  <1>7. \A i \in 1..n : PageStartsAt + i \in 1..Len(Handle.lines) /\ PageStartsAt + i =< PageEndsAt
    BY <1>1, <1>2
  <1>8. ASSUME NEW i \in 1..n, NEW l \in Unread(Pending.next)
        PROVE  Handle.lines[PageStartsAt + i] < l
    <2>1. CASE l \in Rest
      BY <1>1, <1>7, <2>1
    <2>2. CASE l \in After(Handle.lines, PageEndsAt)
      <3>1. PICK j \in (PageEndsAt + 1)..Len(Handle.lines) : l = Handle.lines[j]
        BY <2>2 DEF After
      <3>2. j \in 1..Len(Handle.lines) /\ PageStartsAt + i < j
        BY <1>1, <1>2, <3>1
      <3>3. QED
        BY <1>1, <1>7, <3>1, <3>2 DEF InOrder
    <2>3. QED
      BY <1>5, <2>1, <2>2
  <1>9. ASSUME NEW i \in 1..n, NEW j \in 1..n, i < j
        PROVE  Handle.lines[PageStartsAt + i] < Handle.lines[PageStartsAt + j]
    <2>1. PageStartsAt + i < PageStartsAt + j
      BY <1>1, <1>9
    <2>2. QED
      BY <1>1, <1>7, <2>1 DEF InOrder
  <1>10. \A l \in Unread(httpCursor) : Holds(Pending, l) \/ l \in Unread(Pending.next)
    BY <1>3, <1>4, <1>5, <1>6 DEF Holds
  <1>11. \A l \in Unread(Pending.next) : l \in Unread(httpCursor)
    BY <1>4, <1>5, <1>6
  <1>12. \A i \in 1..n : Handle.lines[PageStartsAt + i] \in Unread(httpCursor)
    BY <1>4, <1>6
  <1>13. \A i \in 1..n : Handle.lines[PageStartsAt + i] \in 1..logTop
    BY <1>1, <1>7
  <1>14. QED
    BY <1>3, <1>8, <1>9, <1>10, <1>11, <1>12, <1>13

(* A page and the store it was built against.                              *)
LEMMA PageFits ==
  ASSUME HttpTyped, LogSound, logCurrent # NoFile, Joined \/ Truncated,
         httpSpool = NoSpool,
         World(httpCursor, NoSpool, httpRows, httpDeclared, httpSeen)
  PROVE  World(httpCursor, Pending, httpRows, httpDeclared, httpSeen) /\ Pending # NoSpool
  <1>1. CursorSound(httpCursor)
    BY DEF World
  <1>2. /\ \A l \in Unread(httpCursor) : Holds(Pending, l) \/ l \in Unread(Pending.next)
        /\ \A l \in Unread(Pending.next) : l \in Unread(httpCursor)
        /\ \A i \in 1..Len(Pending.records) :
             /\ Pending.records[i].line \in Unread(httpCursor)
             /\ Pending.records[i].line \in 1..logTop
             /\ \A l \in Unread(Pending.next) : Pending.records[i].line < l
             /\ \A j \in 1..Len(Pending.records) :
                  i < j => Pending.records[i].line < Pending.records[j].line
    BY <1>1, PageSplits
  <1>3. /\ CursorSound(Pending.next) /\ Pending.next.ino # 0 /\ ResumesAt(Pending.next)
        /\ Unread(Pending.next) = After(Handle.lines, PageEndsAt) \cup Rest
    BY <1>1, PageNext
  <1>4. Pending # NoSpool
    BY <1>3, NoneShapes
  <1>5. /\ \A r, s \in httpRows : r.line = s.line => r = s
        /\ \A r \in httpRows : r.line \in 1..logTop
        /\ \A r \in httpRows, l \in Unread(httpCursor) : r.line < l
    BY DEF World, RowsSound, GoesOnAt
  <1>6. RowsSound(httpCursor, Pending, httpRows)
    BY <1>2, <1>4, <1>5 DEF RowsSound, GoesOnAt
  <1>7. /\ Handle.lines \in Seq(Nat) /\ Len(Handle.lines) \in Nat
        /\ PageStartsAt \in Nat /\ PageEndsAt \in Nat
        /\ PageEndsAt =< Len(Handle.lines)
        /\ \A j \in 1..Len(Handle.lines) : Handle.lines[j] \in 1..logTop
    BY <1>1, PageBounds
  <1>8. logTop \in Nat
    BY DEF HttpTyped
  <1>9. ASSUME NEW l \in 1..logTop
        PROVE  Known(httpRows, httpDeclared, l) \/ WillDeclare(Pending, l) \/ l \in Unread(httpCursor)
    <2>1. CASE Resumes
      <3>1. ResumesAt(httpCursor)
        BY <2>1, PageOfCursor
      <3>2. QED
        BY <3>1 DEF World
    <2>2. CASE ~Resumes
      <3>1. PageStartsAt = 0
        BY <2>2 DEF PageStartsAt
      <3>2. Declares(Pending)
        <4>1. CASE httpCursor = NoCursor
          BY <4>1, PageFields DEF Declares
        <4>2. CASE httpCursor # NoCursor /\ ~SameFile
          <5>1. "rotation_gap" \in Pending.reports
            BY <4>2, PageFields
          <5>2. QED
            BY <5>1 DEF Declares
        <4>3. CASE FileTruncated
          <5>1. "file_truncated" \in Pending.reports
            BY <4>3, PageFields
          <5>2. QED
            BY <5>1 DEF Declares
        <4>4. QED
          BY <2>2, <4>1, <4>2, <4>3 DEF Resumes
      <3>3. CASE l < Pending.from
        BY <3>2, <3>3 DEF WillDeclare
      <3>4. CASE ~(l < Pending.from)
        <4>1. 0 < Len(Handle.lines) /\ Pending.from = Handle.lines[1]
          <5>1. Pending.from = IF 0 < Len(Handle.lines) THEN Handle.lines[0 + 1] ELSE logTop + 1
            BY <3>1, PageFields
          <5>2. l < logTop + 1 /\ 0 + 1 = 1
            BY <1>8
          <5>3. QED
            BY <3>4, <5>1, <5>2
        <4>2. 1 \in 1..Len(Handle.lines)
          BY <1>7, <4>1
        <4>3. PICK f \in 1..logTop : f = Pending.from
          BY <1>7, <4>1, <4>2
        <4>4. f \in LinesOf(Handle) /\ f =< l
          BY <1>7, <1>8, <3>4, <4>1, <4>2, <4>3 DEF LinesOf, ToSet
        <4>5. l \in LinesOf(Handle) \cup Rest
          <5>1. CASE UsesRotated
            <6>1. httpCursor.ino # logCurrent.ino
              BY <5>1 DEF UsesRotated
            <6>2. Joined
              BY <6>1 DEF Truncated
            <6>3. Handle = logRotated /\ Rest = LinesOf(logCurrent)
              BY <5>1 DEF Handle, Rest
            <6>4. QED
              BY <4>4, <6>2, <6>3 DEF Joined, UpToTop
          <5>2. CASE ~UsesRotated
            <6>1. Handle = logCurrent
              BY <5>2 DEF Handle
            <6>2. UpToTop(LinesOf(logCurrent))
              BY DEF LogSound
            <6>3. QED
              BY <4>4, <6>1, <6>2 DEF UpToTop
          <5>3. QED
            BY <5>1, <5>2
        <4>6. Unread(httpCursor) = After(Handle.lines, 0) \cup Rest
          <5>1. /\ UsesRotated = RotatedOf(httpCursor) /\ Handle = HandleOf(httpCursor)
                /\ Resumes = ResumesAt(httpCursor)
            BY PageOfCursor
          <5>2. QED
            BY <2>2, <5>1 DEF Unread, Rest
        <4>7. After(Handle.lines, 0) = LinesOf(Handle)
          BY <1>7, AfterAll DEF LinesOf
        <4>8. QED
          BY <4>5, <4>6, <4>7
      <3>5. QED
        BY <3>3, <3>4
    <2>3. QED
      BY <2>1, <2>2
  <1>10. \A l \in 1..logTop : Known(httpRows, httpDeclared, l) \/ Holds(Pending, l) \/ WillDeclare(Pending, l)
                                \/ l \in Unread(Pending.next)
    BY <1>2, <1>9
  <1>11. Pending.from =< logTop + 1
    <2>1. PageStartsAt < Len(Handle.lines) => PageStartsAt + 1 \in 1..Len(Handle.lines)
      BY <1>7
    <2>2. PageStartsAt < Len(Handle.lines) => Handle.lines[PageStartsAt + 1] \in 1..logTop
      BY <1>7, <2>1
    <2>3. QED
      BY <1>8, <2>2, PageFields
  <1>12. Pending.seen =< logTop /\ (Pending.seen # 0 => Pending.reports = {} /\ Pending.seen = logTop)
    BY <1>8, PageFields
  <1>13. ASSUME Pending.reports = {} PROVE Unread(Pending.next) = {}
    <2>1. ~(PageEndsAt < Len(Handle.lines)) /\ ~Switches
      BY <1>13, PageFields
    <2>2. PageEndsAt = Len(Handle.lines)
      BY <1>7, <2>1
    <2>3. ~UsesRotated
      BY <1>13, <2>1, <2>2, PageFields DEF Switches
    <2>4. (PageEndsAt + 1)..Len(Handle.lines) = {}
      BY <1>7, <2>2
    <2>5. After(Handle.lines, PageEndsAt) = {}
      BY <2>4 DEF After
    <2>6. Rest = {}
      BY <2>3 DEF Rest
    <2>7. QED
      BY <1>3, <2>5, <2>6
  <1>14. ASSUME NEW l \in 1..Pending.seen
         PROVE  Known(httpRows, httpDeclared, l) \/ Holds(Pending, l) \/ WillDeclare(Pending, l)
    <2>1. Pending.reports = {} /\ Pending.seen = logTop
      <3>1. Pending.seen # 0
        BY <1>14
      <3>2. QED
        BY <1>12, <3>1
    <2>2. QED
      BY <1>10, <1>13, <2>1
  <1>15. ASSUME NEW r \in httpRows, NEW i \in 1..Len(Pending.records)
         PROVE  r.line < Pending.records[i].line
    BY <1>2, <1>5
  <1>16. SpoolSound(Pending, httpRows, httpDeclared)
    BY <1>2, <1>3, <1>10, <1>11, <1>12, <1>14, <1>15 DEF SpoolSound
  <1>17. \A l \in 1..httpSeen : Known(httpRows, httpDeclared, l)
    BY DEF World
  <1>18. QED
    BY <1>1, <1>4, <1>6, <1>16, <1>17 DEF World

-----------------------------------------------------------------------------
(* What ingesting a batch makes of the store.                              *)
RowsWith(rows, b) == rows \cup ToSet(b.records)
DeclaredWith(declared, b) == IF Declares(b) THEN declared \cup {l \in 1..logTop : l < b.from} ELSE declared
SeenWith(seen, b) == IF b.seen > seen THEN b.seen ELSE seen

LEMMA IngestParts ==
  ASSUME NEW b, HttpIngest(b)
  PROVE  \/ Conflicting(b) /\ UNCHANGED httpStoreVars
         \/ /\ ~Conflicting(b) /\ httpRows' = RowsWith(httpRows, b)
            /\ httpDeclared' = DeclaredWith(httpDeclared, b) /\ httpSeen' = SeenWith(httpSeen, b)
  BY DEF HttpIngest, RowsWith, DeclaredWith, SeenWith, Declares

LEMMA HttpIngestTyped ==
  ASSUME NEW b \in HttpSpools, NEW rows \in SUBSET HttpRecords, NEW declared \in SUBSET Nat, NEW seen \in Nat,
         logTop \in Nat
  PROVE  /\ RowsWith(rows, b) \in SUBSET HttpRecords /\ DeclaredWith(declared, b) \in SUBSET Nat
         /\ SeenWith(seen, b) \in Nat
         /\ rows \subseteq RowsWith(rows, b) /\ declared \subseteq DeclaredWith(declared, b)
  <1>1. b.records \in Seq(HttpRecords) /\ b.seen \in Nat
    BY DEF HttpSpools
  <1>2. ToSet(b.records) \subseteq HttpRecords
    BY <1>1 DEF ToSet
  <1>3. 1..logTop \subseteq Nat
    OBVIOUS
  <1>4. QED
    BY <1>1, <1>2, <1>3 DEF RowsWith, DeclaredWith, SeenWith

LEMMA IngestedGrows ==
  ASSUME NEW b, NEW rows, NEW declared, NEW more, NEW gone,
         rows \subseteq more, declared \subseteq gone, Ingested(b, rows, declared)
  PROVE  Ingested(b, more, gone)
  BY DEF Ingested, Known

(* A batch whose records are there already adds nothing but its mark.      *)
LEMMA IngestAgain ==
  ASSUME NEW c, NEW s, NEW rows, NEW declared, NEW seen \in Nat, NEW b \in HttpSpools,
         World(c, s, rows, declared, seen), Ingested(b, rows, declared)
  PROVE  /\ RowsWith(rows, b) = rows /\ DeclaredWith(declared, b) = declared
         /\ World(c, s, rows, declared, SeenWith(seen, b))
  <1>1. RowsWith(rows, b) = rows /\ DeclaredWith(declared, b) = declared
    BY DEF RowsWith, DeclaredWith, Ingested
  <1>2. b.seen \in Nat
    BY DEF HttpSpools
  <1>3. \A l \in 1..SeenWith(seen, b) : Known(rows, declared, l)
    BY <1>2 DEF SeenWith, Ingested, World
  <1>4. QED
    BY <1>1, <1>3 DEF World

(* The batch of the spool: its records are new or are there already.       *)
LEMMA IngestSpool ==
  ASSUME NEW c, NEW s \in HttpSpools, NEW rows \in SUBSET HttpRecords, NEW declared, NEW seen \in Nat,
         logTop \in Nat, s # NoSpool, World(c, s, rows, declared, seen)
  PROVE  /\ World(c, s, RowsWith(rows, s), DeclaredWith(declared, s), SeenWith(seen, s))
         /\ Ingested(s, RowsWith(rows, s), DeclaredWith(declared, s))
  <1>1. s.records \in Seq(HttpRecords) /\ Len(s.records) \in Nat /\ s.seen \in Nat
    BY DEF HttpSpools
  <1>2. /\ CursorSound(s.next) /\ s.next.ino # 0
        /\ \A i, j \in 1..Len(s.records) : i < j => s.records[i].line < s.records[j].line
        /\ \A i \in 1..Len(s.records) : s.records[i].line \in 1..logTop
        /\ \A i \in 1..Len(s.records), l \in Unread(s.next) : s.records[i].line < l
        /\ \A r \in rows : \/ r \in ToSet(s.records)
                           \/ \A i \in 1..Len(s.records) : r.line < s.records[i].line
        /\ ResumesAt(s.next) =>
             \A l \in 1..logTop : Known(rows, declared, l) \/ Holds(s, l) \/ WillDeclare(s, l)
                                    \/ l \in Unread(s.next)
        /\ s.from =< logTop + 1 /\ s.seen =< logTop
        /\ \A l \in 1..s.seen : Known(rows, declared, l) \/ Holds(s, l) \/ WillDeclare(s, l)
    BY DEF World, SpoolSound
  <1>3. /\ \A r, t \in rows : r.line = t.line => r = t
        /\ \A r \in rows : r.line \in 1..logTop
        /\ \A r \in rows, l \in Unread(s.next) : r.line < l
    BY DEF World, RowsSound, GoesOnAt
  <1>4. PICK more, gone : more = RowsWith(rows, s) /\ gone = DeclaredWith(declared, s)
    OBVIOUS
  <1>5. \A r : r \in ToSet(s.records) <=> \E i \in 1..Len(s.records) : r = s.records[i]
    BY <1>1 DEF ToSet
  <1>6. \A r : r \in more <=> r \in rows \/ \E i \in 1..Len(s.records) : r = s.records[i]
    BY <1>4, <1>5 DEF RowsWith
  <1>7. ASSUME NEW i \in 1..Len(s.records), NEW j \in 1..Len(s.records), s.records[i].line = s.records[j].line
        PROVE  s.records[i] = s.records[j]
    <2>1. s.records[i].line \in 1..logTop /\ s.records[j].line \in 1..logTop
      BY <1>2
    <2>2. ~(i < j) /\ ~(j < i)
      BY <1>2, <1>7, <2>1
    <2>3. i = j
      BY <2>2
    <2>4. QED
      BY <2>3
  <1>8. ASSUME NEW r \in rows, NEW i \in 1..Len(s.records), r.line = s.records[i].line
        PROVE  r = s.records[i]
    <2>1. s.records[i].line \in 1..logTop
      BY <1>2
    <2>2. r \in ToSet(s.records)
      BY <1>2, <1>8, <2>1
    <2>3. PICK j \in 1..Len(s.records) : r = s.records[j]
      BY <1>5, <2>2
    <2>4. QED
      BY <1>7, <1>8, <2>3
  <1>9. \A r, t \in more : r.line = t.line => r = t
    <2>1. SUFFICES ASSUME NEW r \in more, NEW t \in more, r.line = t.line PROVE r = t
      OBVIOUS
    <2>2. CASE r \in rows /\ t \in rows
      BY <1>3, <2>1, <2>2
    <2>3. CASE r \in rows /\ t \notin rows
      BY <1>6, <1>8, <2>1, <2>3
    <2>4. CASE r \notin rows /\ t \in rows
      BY <1>6, <1>8, <2>1, <2>4
    <2>5. CASE r \notin rows /\ t \notin rows
      BY <1>6, <1>7, <2>1, <2>5
    <2>6. QED
      BY <2>2, <2>3, <2>4, <2>5
  <1>10. RowsSound(c, s, more)
    <2>1. \A r \in more : r.line \in 1..logTop
      BY <1>2, <1>3, <1>6
    <2>2. \A r \in more, l \in Unread(s.next) : r.line < l
      BY <1>2, <1>3, <1>6
    <2>3. QED
      BY <1>9, <2>1, <2>2 DEF RowsSound, GoesOnAt
  <1>11. \A r \in more : \/ r \in ToSet(s.records)
                         \/ \A i \in 1..Len(s.records) : r.line < s.records[i].line
    BY <1>2, <1>5, <1>6
  <1>12. \A l : Known(rows, declared, l) => Known(more, gone, l)
    <2>1. rows \subseteq more /\ declared \subseteq gone
      BY <1>4 DEF RowsWith, DeclaredWith
    <2>2. QED
      BY <2>1 DEF Known
  <1>13. \A l : Holds(s, l) => Known(more, gone, l)
    BY <1>6 DEF Holds, Known
  <1>14. \A l \in 1..logTop : WillDeclare(s, l) => l \in gone
    BY <1>4 DEF WillDeclare, DeclaredWith
  <1>15. \A l \in 1..s.seen : Known(more, gone, l)
    <2>1. SUFFICES ASSUME NEW l \in 1..s.seen PROVE Known(more, gone, l)
      OBVIOUS
    <2>2. l \in 1..logTop
      BY <1>1, <1>2
    <2>3. WillDeclare(s, l) => Known(more, gone, l)
      BY <1>14, <2>2 DEF Known
    <2>4. QED
      BY <1>2, <1>12, <1>13, <2>3
  <1>16. ASSUME ResumesAt(s.next), NEW l \in 1..logTop
         PROVE  Known(more, gone, l) \/ l \in Unread(s.next)
    <2>1. WillDeclare(s, l) => Known(more, gone, l)
      BY <1>14 DEF Known
    <2>2. QED
      BY <1>2, <1>12, <1>13, <1>16, <2>1
  <1>17. SpoolSound(s, more, gone)
    BY <1>2, <1>11, <1>15, <1>16 DEF SpoolSound
  <1>18. Ingested(s, more, gone)
    <2>1. ToSet(s.records) \subseteq more
      BY <1>4 DEF RowsWith
    <2>2. Declares(s) => \A l \in 1..logTop : l < s.from => l \in gone
      BY <1>14 DEF WillDeclare
    <2>3. QED
      BY <1>2, <1>15, <2>1, <2>2 DEF Ingested
  <1>19. \A l \in 1..SeenWith(seen, s) : Known(more, gone, l)
    <2>1. \A l \in 1..seen : Known(more, gone, l)
      BY <1>12 DEF World
    <2>2. QED
      BY <1>15, <2>1 DEF SeenWith
  <1>20. CursorSound(c)
    BY DEF World
  <1>21. World(c, s, more, gone, SeenWith(seen, s))
    BY <1>10, <1>17, <1>19, <1>20 DEF World
  <1>22. QED
    BY <1>4, <1>18, <1>21

-----------------------------------------------------------------------------
(* The steps of the collector.                                             *)

LEMMA StillKeeps ==
  ASSUME HttpTyped, LogSound, HttpTyped', UNCHANGED logVars,
         NEW c, NEW s, NEW rows, NEW declared, NEW seen,
         c = httpCursor', s = httpSpool', rows = httpRows', declared = httpDeclared', seen = httpSeen',
         \/ Joined
         \/ /\ logCurrent # NoFile /\ c.ino = logCurrent.ino
            /\ s # NoSpool => s.next.ino = logCurrent.ino,
         World(c, s, rows, declared, seen),
         httpAt' # "idle" => s # NoSpool,
         httpAt' \in {"acked", "saved"} => Ingested(s, rows, declared),
         httpAt' = "saved" => c = s.next,
         \A b \in httpPosted' : (b = s /\ s # NoSpool) \/ Ingested(b, rows, declared)
  PROVE  HttpInv'
  <1>1. UNCHANGED <<logTop, logCurrent, logRotated, logInodes>>
    BY DEF logVars
  <1>2. /\ c \in HttpCursors /\ s \in HttpSpools /\ rows \in SUBSET HttpRecords
        /\ httpPosted' \subseteq HttpSpools
    BY DEF HttpTyped
  <1>3. World(c, s, rows, declared, seen)'
    BY <1>1, <1>2, WorldStill
  <1>4. World(httpCursor, httpSpool, httpRows, httpDeclared, httpSeen)'
    BY <1>3
  <1>5. LogSound' /\ (Joined => Joined')
    BY <1>1 DEF LogSound, Joined, UpToTop, LinesOf, InOrder
  <1>6. (Joined \/ Truncated)'
    BY <1>1, <1>5 DEF Truncated
  <1>7. logTop' \in Nat /\ logTop =< logTop'
    BY <1>1 DEF HttpTyped
  <1>8. \A b \in HttpSpools : Ingested(b, rows, declared) => Ingested(b, rows, declared)'
    BY <1>7, IngestedMoves
  <1>9. \A b \in HttpSpools : Ingested(b, rows, declared)' => Ingested(b, httpRows, httpDeclared)'
    OBVIOUS
  <1>10. httpAt' \in {"acked", "saved"} => Ingested(httpSpool, httpRows, httpDeclared)'
    <2>1. Ingested(s, rows, declared)' => Ingested(httpSpool, httpRows, httpDeclared)'
      OBVIOUS
    <2>2. QED
      BY <1>2, <1>8, <2>1
  <1>11. \A b \in httpPosted' : (b = httpSpool' /\ httpSpool' # NoSpool) \/ Ingested(b, httpRows, httpDeclared)'
    BY <1>2, <1>8, <1>9
  <1>12. QED
    BY <1>4, <1>5, <1>6, <1>10, <1>11 DEF HttpInv

LEMMA HttpBuild ==
  ASSUME HttpInv, HttpBuildPending
  PROVE  HttpInv'
  <1>0. /\ HttpTyped /\ LogSound /\ (Joined \/ Truncated)
        /\ World(httpCursor, httpSpool, httpRows, httpDeclared, httpSeen)
    BY DEF HttpInv
  <1>1. /\ httpSpool = NoSpool /\ logCurrent # NoFile /\ httpSpool' = Pending /\ httpAt' = "spooled"
        /\ UNCHANGED <<logVars, httpCursor, httpPosted, httpStoreVars, httpFaults>>
        /\ httpGens' \in {httpGens, httpGens + 2}
    BY DEF HttpBuildPending
  <1>2. World(httpCursor, NoSpool, httpRows, httpDeclared, httpSeen)
    BY <1>0, <1>1
  <1>3. CursorSound(httpCursor)
    BY <1>2 DEF World
  <1>4. Pending \in HttpSpools
    BY <1>0, <1>1, <1>3, PageTyped
  <1>5. World(httpCursor, Pending, httpRows, httpDeclared, httpSeen) /\ Pending # NoSpool
    BY <1>0, <1>1, <1>2, PageFits
  <1>6. PICK c, s, rows, declared, seen :
          c = httpCursor /\ s = Pending /\ rows = httpRows /\ declared = httpDeclared /\ seen = httpSeen
    OBVIOUS
  <1>7. /\ c = httpCursor' /\ s = httpSpool' /\ rows = httpRows' /\ declared = httpDeclared'
        /\ seen = httpSeen' /\ httpPosted' = httpPosted
    BY <1>1, <1>6 DEF httpStoreVars
  <1>8. World(c, s, rows, declared, seen) /\ s # NoSpool
    BY <1>5, <1>6
  <1>9. HttpTyped'
    <2>1. httpGens' \in Nat
      BY <1>0, <1>1 DEF HttpTyped
    <2>2. QED
      BY <1>0, <1>1, <1>4, <2>1 DEF HttpTyped, logVars, httpStoreVars
  <1>10. \/ Joined
         \/ /\ logCurrent # NoFile /\ c.ino = logCurrent.ino
            /\ s # NoSpool => s.next.ino = logCurrent.ino
    <2>1. ASSUME Truncated PROVE c.ino = logCurrent.ino /\ s.next.ino = logCurrent.ino
      <3>1. c.ino = logCurrent.ino /\ ~UsesRotated
        BY <1>6, <2>1 DEF Truncated, UsesRotated
      <3>2. ~Switches /\ Handle = logCurrent
        BY <3>1 DEF Switches, Handle
      <3>3. s.next.ino = logCurrent.ino
        BY <1>6, <3>2, PageFields
      <3>4. QED
        BY <3>1, <3>3
    <2>2. QED
      BY <1>0, <1>1, <2>1
  <1>11. \A b \in httpPosted' : (b = s /\ s # NoSpool) \/ Ingested(b, rows, declared)
    BY <1>1, <1>6, <1>7 DEF HttpInv
  <1>12. QED
    BY <1>0, <1>1, <1>7, <1>8, <1>9, <1>10, <1>11, StillKeeps

LEMMA HttpAnswer ==
  ASSUME HttpInv, AnswerBatch
  PROVE  HttpInv'
  <1>0. /\ HttpTyped /\ LogSound /\ (Joined \/ Truncated)
        /\ World(httpCursor, httpSpool, httpRows, httpDeclared, httpSeen)
        /\ (httpAt # "idle" => httpSpool # NoSpool)
        /\ (httpAt \in {"acked", "saved"} => Ingested(httpSpool, httpRows, httpDeclared))
        /\ (httpAt = "saved" => httpCursor = httpSpool.next)
        /\ \A b \in httpPosted : (b = httpSpool /\ httpSpool # NoSpool) \/ Ingested(b, httpRows, httpDeclared)
    BY DEF HttpInv
  <1>1. PICK b \in httpPosted :
          /\ HttpIngest(b) /\ httpPosted' = httpPosted \ {b}
          /\ httpAt' = IF httpAt = "posted" /\ b = httpSpool
                       THEN (IF Conflicting(b) THEN "idle" ELSE "acked") ELSE httpAt
          /\ UNCHANGED <<logVars, httpGens, httpCursor, httpSpool, httpFaults>>
    BY DEF AnswerBatch
  <1>2. b \in HttpSpools /\ logTop \in Nat /\ httpRows \in SUBSET HttpRecords
        /\ httpDeclared \in SUBSET Nat /\ httpSeen \in Nat /\ httpSpool \in HttpSpools
    BY <1>0 DEF HttpTyped
  <1>3. PICK c, s, more, gone, mark :
          c = httpCursor /\ s = httpSpool /\ more = httpRows' /\ gone = httpDeclared' /\ mark = httpSeen'
    OBVIOUS
  <1>4. c = httpCursor' /\ s = httpSpool' /\ httpPosted' \subseteq httpPosted
    BY <1>1, <1>3
  <1>5. /\ httpRows \subseteq more /\ httpDeclared \subseteq gone
        /\ more \in SUBSET HttpRecords /\ gone \in SUBSET Nat /\ mark \in Nat
        /\ World(c, s, more, gone, mark)
        /\ b = s /\ s # NoSpool /\ ~Conflicting(b) => Ingested(s, more, gone)
    <2>1. CASE Conflicting(b) /\ UNCHANGED httpStoreVars
      BY <1>0, <1>2, <1>3, <2>1 DEF httpStoreVars
    <2>2. CASE /\ ~Conflicting(b) /\ httpRows' = RowsWith(httpRows, b)
               /\ httpDeclared' = DeclaredWith(httpDeclared, b) /\ httpSeen' = SeenWith(httpSeen, b)
      <3>1. /\ httpRows \subseteq more /\ httpDeclared \subseteq gone
            /\ more \in SUBSET HttpRecords /\ gone \in SUBSET Nat /\ mark \in Nat
        BY <1>2, <1>3, <2>2, HttpIngestTyped
      <3>2. CASE b = httpSpool /\ httpSpool # NoSpool
        <4>1. /\ World(httpCursor, httpSpool, RowsWith(httpRows, httpSpool),
                       DeclaredWith(httpDeclared, httpSpool), SeenWith(httpSeen, httpSpool))
              /\ Ingested(httpSpool, RowsWith(httpRows, httpSpool), DeclaredWith(httpDeclared, httpSpool))
          BY <1>0, <1>2, <3>2, IngestSpool
        <4>2. QED
          BY <1>3, <2>2, <3>1, <3>2, <4>1
      <3>3. CASE Ingested(b, httpRows, httpDeclared)
        <4>1. /\ RowsWith(httpRows, b) = httpRows /\ DeclaredWith(httpDeclared, b) = httpDeclared
              /\ World(httpCursor, httpSpool, httpRows, httpDeclared, SeenWith(httpSeen, b))
          BY <1>0, <1>2, <3>3, IngestAgain
        <4>2. World(c, s, more, gone, mark)
          BY <1>3, <2>2, <4>1
        <4>3. Ingested(b, more, gone)
          BY <1>3, <2>2, <3>3, <4>1
        <4>4. QED
          BY <3>1, <4>2, <4>3
      <3>4. QED
        BY <1>0, <3>2, <3>3
    <2>3. QED
      BY <1>1, <2>1, <2>2, IngestParts
  <1>6. \A d \in httpPosted : Ingested(d, httpRows, httpDeclared) => Ingested(d, more, gone)
    BY <1>5, IngestedGrows
  <1>7. \A d \in httpPosted' : (d = s /\ s # NoSpool) \/ Ingested(d, more, gone)
    BY <1>0, <1>3, <1>4, <1>6
  <1>8. HttpTyped'
    <2>1. httpAt' \in {"idle", "spooled", "posted", "acked", "saved"}
      BY <1>0, <1>1 DEF HttpTyped
    <2>2. QED
      BY <1>0, <1>1, <1>3, <1>4, <1>5, <2>1 DEF HttpTyped, logVars
  <1>9. \/ Joined
        \/ /\ logCurrent # NoFile /\ c.ino = logCurrent.ino
           /\ s # NoSpool => s.next.ino = logCurrent.ino
    BY <1>0, <1>3 DEF Truncated
  <1>10. httpAt' # "idle" => s # NoSpool
    BY <1>0, <1>1, <1>3
  <1>11. httpAt' \in {"acked", "saved"} => Ingested(s, more, gone)
    <2>1. CASE httpAt = "posted" /\ b = httpSpool
      <3>1. s # NoSpool /\ b = s
        BY <1>0, <1>3, <2>1
      <3>2. QED
        BY <1>1, <1>5, <2>1, <3>1
    <2>2. CASE ~(httpAt = "posted" /\ b = httpSpool)
      <3>1. httpAt \in {"acked", "saved"} => Ingested(s, more, gone)
        BY <1>0, <1>3, <1>5, IngestedGrows
      <3>2. QED
        BY <1>1, <2>2, <3>1
    <2>3. QED
      BY <2>1, <2>2
  <1>12. httpAt' = "saved" => c = s.next
    BY <1>0, <1>1, <1>3
  <1>13. UNCHANGED logVars
    BY <1>1
  <1>14. QED
    BY <1>0, <1>3, <1>4, <1>5, <1>7, <1>8, <1>9, <1>10, <1>11, <1>12, <1>13, StillKeeps

(* The cursor is saved once the batch is in the store; then the spool may  *)
(* go.                                                                     *)
LEMMA SpoolDone ==
  ASSUME NEW s \in HttpSpools, NEW rows, NEW declared, NEW seen,
         s # NoSpool, World(s.next, s, rows, declared, seen), Ingested(s, rows, declared),
         logTop \in Nat
  PROVE  World(s.next, NoSpool, rows, declared, seen)
  <1>1. s.records \in Seq(HttpRecords)
    BY DEF HttpSpools
  <1>2. \A l : Holds(s, l) => Known(rows, declared, l)
    <2>1. \A i \in 1..Len(s.records) : s.records[i] \in ToSet(s.records)
      BY <1>1 DEF ToSet
    <2>2. QED
      BY <2>1 DEF Holds, Known, Ingested
  <1>3. \A l \in 1..logTop : WillDeclare(s, l) => Known(rows, declared, l)
    BY DEF WillDeclare, Known, Ingested
  <1>4. ResumesAt(s.next) => \A l \in 1..logTop : Known(rows, declared, l) \/ l \in Unread(s.next)
    <2>1. ResumesAt(s.next) =>
            \A l \in 1..logTop : Known(rows, declared, l) \/ Holds(s, l) \/ WillDeclare(s, l)
                                   \/ l \in Unread(s.next)
      BY DEF World, SpoolSound
    <2>2. QED
      BY <1>2, <1>3, <2>1
  <1>5. RowsSound(s.next, NoSpool, rows)
    BY DEF World, RowsSound, GoesOnAt
  <1>6. CursorSound(s.next) /\ \A l \in 1..seen : Known(rows, declared, l)
    BY DEF World
  <1>7. SpoolSound(NoSpool, rows, declared)
    BY DEF SpoolSound
  <1>8. QED
    BY <1>4, <1>5, <1>6, <1>7 DEF World

LEMMA HttpSave ==
  ASSUME HttpInv, SaveCursor \/ UnlinkSpool
  PROVE  HttpInv'
  <1>0. /\ HttpTyped /\ LogSound /\ (Joined \/ Truncated)
        /\ World(httpCursor, httpSpool, httpRows, httpDeclared, httpSeen)
        /\ (httpAt # "idle" => httpSpool # NoSpool)
        /\ (httpAt \in {"acked", "saved"} => Ingested(httpSpool, httpRows, httpDeclared))
        /\ (httpAt = "saved" => httpCursor = httpSpool.next)
        /\ \A b \in httpPosted : (b = httpSpool /\ httpSpool # NoSpool) \/ Ingested(b, httpRows, httpDeclared)
    BY DEF HttpInv
  <1>1. PICK c, s, rows, declared, seen :
          c = httpCursor' /\ s = httpSpool' /\ rows = httpRows /\ declared = httpDeclared /\ seen = httpSeen
    OBVIOUS
  <1>2. /\ UNCHANGED <<logVars, httpGens, httpPosted, httpStoreVars, httpFaults>>
        /\ httpSpool # NoSpool /\ Ingested(httpSpool, httpRows, httpDeclared)
    BY <1>0 DEF SaveCursor, UnlinkSpool
  <1>3. /\ rows = httpRows' /\ declared = httpDeclared' /\ seen = httpSeen'
        /\ httpSpool \in HttpSpools /\ httpSpool.next \in HttpCursors /\ logTop \in Nat
    BY <1>0, <1>1, <1>2 DEF HttpTyped, HttpSpools, httpStoreVars
  <1>4. World(httpSpool.next, httpSpool, httpRows, httpDeclared, httpSeen)
    BY <1>0, <1>2 DEF World, RowsSound, GoesOnAt, SpoolSound
  <1>5. CASE SaveCursor
    <2>1. c = httpSpool.next /\ s = httpSpool /\ httpAt' = "saved"
      BY <1>1, <1>5 DEF SaveCursor
    <2>2. HttpTyped'
      BY <1>0, <1>1, <1>2, <1>3, <2>1 DEF HttpTyped, logVars, httpStoreVars
    <2>3. World(c, s, rows, declared, seen) /\ Ingested(s, rows, declared) /\ s # NoSpool
      BY <1>1, <1>2, <1>4, <2>1
    <2>4. \/ Joined
          \/ /\ logCurrent # NoFile /\ c.ino = logCurrent.ino
             /\ s # NoSpool => s.next.ino = logCurrent.ino
      BY <1>0, <1>2, <2>1 DEF Truncated
    <2>5. \A b \in httpPosted' : (b = s /\ s # NoSpool) \/ Ingested(b, rows, declared)
      BY <1>0, <1>1, <1>2, <2>1
    <2>6. c = s.next /\ UNCHANGED logVars
      BY <1>2, <2>1
    <2>7. QED
      BY <1>0, <1>1, <1>3, <2>2, <2>3, <2>4, <2>5, <2>6, StillKeeps
  <1>6. CASE UnlinkSpool
    <2>1. c = httpSpool.next /\ s = NoSpool /\ httpAt' = "idle" /\ httpCursor' = httpCursor
      BY <1>0, <1>1, <1>6 DEF UnlinkSpool
    <2>2. HttpTyped'
      BY <1>0, <1>1, <1>2, <1>3, <2>1, NoneShapes DEF HttpTyped, logVars, httpStoreVars
    <2>3. World(httpSpool.next, NoSpool, httpRows, httpDeclared, httpSeen)
      BY <1>2, <1>3, <1>4, SpoolDone
    <2>4. World(c, s, rows, declared, seen)
      BY <1>1, <2>1, <2>3
    <2>5. \/ Joined
          \/ /\ logCurrent # NoFile /\ c.ino = logCurrent.ino
             /\ s # NoSpool => s.next.ino = logCurrent.ino
      BY <1>0, <1>2, <2>1 DEF Truncated
    <2>6. \A b \in httpPosted' : Ingested(b, rows, declared)
      BY <1>0, <1>1, <1>2
    <2>7. UNCHANGED logVars
      BY <1>2
    <2>8. QED
      BY <1>0, <1>1, <1>3, <2>1, <2>2, <2>4, <2>5, <2>6, <2>7, StillKeeps
  <1>7. QED
    BY <1>5, <1>6

(* Steps that change neither the files nor the store.                      *)
LEMMA HttpMoves ==
  ASSUME HttpInv, ResumePending \/ PostBatch \/ HttpAbort \/ HttpLose
  PROVE  HttpInv'
  <1>0. /\ HttpTyped /\ LogSound /\ (Joined \/ Truncated)
        /\ World(httpCursor, httpSpool, httpRows, httpDeclared, httpSeen)
        /\ (httpAt # "idle" => httpSpool # NoSpool)
        /\ (httpAt \in {"acked", "saved"} => Ingested(httpSpool, httpRows, httpDeclared))
        /\ (httpAt = "saved" => httpCursor = httpSpool.next)
        /\ \A b \in httpPosted : (b = httpSpool /\ httpSpool # NoSpool) \/ Ingested(b, httpRows, httpDeclared)
    BY DEF HttpInv
  <1>1. PICK c, s, rows, declared, seen :
          c = httpCursor /\ s = httpSpool /\ rows = httpRows /\ declared = httpDeclared /\ seen = httpSeen
    OBVIOUS
  <1>2. /\ UNCHANGED <<logVars, httpGens, httpCursor, httpSpool, httpStoreVars>>
        /\ httpFaults' \in {httpFaults, httpFaults + 1}
        /\ httpPosted' \subseteq httpPosted \cup {httpSpool}
    BY DEF ResumePending, PostBatch, HttpAbort, HttpLose, HttpFault
  <1>3. /\ httpAt' \in {"idle", "spooled", "posted", "acked", "saved"}
        /\ (httpAt' # "idle" => httpSpool # NoSpool)
        /\ (httpAt' \in {"acked", "saved"} => httpAt' = httpAt)
        /\ (httpSpool \in httpPosted' /\ httpSpool = NoSpool => httpSpool \in httpPosted)
    BY <1>0 DEF ResumePending, PostBatch, HttpAbort, HttpLose, HttpTyped
  <1>4. /\ c = httpCursor' /\ s = httpSpool' /\ rows = httpRows' /\ declared = httpDeclared'
        /\ seen = httpSeen'
    BY <1>1, <1>2 DEF httpStoreVars
  <1>5. HttpTyped'
    <2>1. httpFaults' \in Nat
      BY <1>0, <1>2 DEF HttpTyped
    <2>2. httpPosted' \subseteq HttpSpools
      BY <1>0, <1>2 DEF HttpTyped
    <2>3. QED
      BY <1>0, <1>2, <1>3, <2>1, <2>2 DEF HttpTyped, logVars, httpStoreVars
  <1>6. World(c, s, rows, declared, seen)
    BY <1>0, <1>1
  <1>7. \/ Joined
        \/ /\ logCurrent # NoFile /\ c.ino = logCurrent.ino
           /\ s # NoSpool => s.next.ino = logCurrent.ino
    BY <1>0, <1>1 DEF Truncated
  <1>8. \A b \in httpPosted' : (b = s /\ s # NoSpool) \/ Ingested(b, rows, declared)
    BY <1>0, <1>1, <1>2, <1>3
  <1>9. /\ httpAt' # "idle" => s # NoSpool
        /\ httpAt' \in {"acked", "saved"} => Ingested(s, rows, declared)
        /\ httpAt' = "saved" => c = s.next
    BY <1>0, <1>1, <1>3
  <1>10. UNCHANGED logVars
    BY <1>2
  <1>11. QED
    BY <1>0, <1>4, <1>5, <1>6, <1>7, <1>8, <1>9, <1>10, StillKeeps

LEMMA HttpUnchanged ==
  ASSUME HttpInv, UNCHANGED httpVars
  PROVE  HttpInv'
  <1>1. UNCHANGED <<logVars, collectorVars, httpPosted, httpStoreVars, httpFaults>>
    BY DEF httpVars
  <1>2. UNCHANGED <<logTop, logCurrent, logRotated, logQuiet, logInodes, httpGens, httpCursor,
                    httpSpool, httpAt, httpPosted, httpRows, httpDeclared, httpSeen, httpFaults>>
    BY <1>1 DEF logVars, collectorVars, httpStoreVars
  <1>3. PICK c, s, rows, declared, seen :
          c = httpCursor /\ s = httpSpool /\ rows = httpRows /\ declared = httpDeclared /\ seen = httpSeen
    OBVIOUS
  <1>4. HttpTyped /\ LogSound /\ HttpTyped' /\ UNCHANGED logVars
    BY <1>1, <1>2 DEF HttpInv, HttpTyped
  <1>5. /\ World(c, s, rows, declared, seen)
        /\ httpAt' # "idle" => s # NoSpool
        /\ httpAt' \in {"acked", "saved"} => Ingested(s, rows, declared)
        /\ httpAt' = "saved" => c = s.next
        /\ \A b \in httpPosted' : (b = s /\ s # NoSpool) \/ Ingested(b, rows, declared)
    BY <1>2, <1>3 DEF HttpInv
  <1>6. \/ Joined
        \/ /\ logCurrent # NoFile /\ c.ino = logCurrent.ino
           /\ s # NoSpool => s.next.ino = logCurrent.ino
    BY <1>3 DEF HttpInv, Truncated
  <1>7. /\ c = httpCursor' /\ s = httpSpool' /\ rows = httpRows' /\ declared = httpDeclared'
        /\ seen = httpSeen'
    BY <1>2, <1>3
  <1>8. QED
    BY <1>4, <1>5, <1>6, <1>7, StillKeeps

LEMMA HttpInitially ==
  ASSUME HttpInit
  PROVE  HttpInv
  <1>1. <<>> \in Seq(Nat) /\ Len(<<>>) = 0
    OBVIOUS
  <1>2. /\ logTop = 0 /\ logCurrent = [ino |-> 1, lines |-> <<>>] /\ logRotated = NoFile
        /\ logInodes = 1 /\ httpCursor = NoCursor /\ httpSpool = NoSpool /\ httpAt = "idle"
        /\ httpPosted = {} /\ httpRows = {} /\ httpDeclared = {} /\ httpSeen = 0
    BY DEF HttpInit
  <1>3. logCurrent \in LogFiles /\ logCurrent.ino = 1 /\ logCurrent.lines = <<>> /\ logCurrent # NoFile
    BY <1>1, <1>2, NoneShapes DEF LogFiles
  <1>q. logQuiet \in BOOLEAN /\ httpGens \in Nat /\ httpFaults \in Nat
    BY DEF HttpInit
  <1>r. /\ logRotated \in LogFiles /\ httpCursor \in HttpCursors /\ httpSpool \in HttpSpools
        /\ logTop \in Nat /\ logInodes \in Nat /\ httpSeen \in Nat
    BY <1>2, NoneShapes
  <1>4. HttpTyped
    BY <1>2, <1>3, <1>q, <1>r, Zenon DEF HttpTyped
  <1>5. LinesOf(logCurrent) = {} /\ LinesOf(logRotated) = {}
    BY <1>2, <1>3, NoneShapes DEF LinesOf, ToSet
  <1>6. LogSound
    BY <1>1, <1>2, <1>3, <1>5, NoneShapes DEF LogSound, InOrder, UpToTop
  <1>7. Joined
    BY <1>5 DEF Joined, UpToTop
  <1>8. World(httpCursor, httpSpool, httpRows, httpDeclared, httpSeen)
    <2>1. CursorSound(NoCursor)
      BY <1>2, NoneShapes DEF CursorSound
    <2>2. ~ResumesAt(NoCursor)
      BY DEF ResumesAt
    <2>3. 1..0 = {}
      OBVIOUS
    <2>4. QED
      BY <1>2, <2>1, <2>2, <2>3 DEF World, RowsSound, SpoolSound
  <1>9. QED
    BY <1>2, <1>4, <1>6, <1>7, <1>8 DEF HttpInv

LEMMA HttpStep ==
  ASSUME HttpInv, LogStep \/ CollectorStep \/ HttpAbort \/ HttpLose
  PROVE  HttpInv'
  BY HttpLog, HttpBuild, HttpAnswer, HttpSave, HttpMoves DEF CollectorStep

(* HTTP collection with every fault, truncation of the log included        *)
(* (collect_page, build_pending, ingest): a line is stored under one       *)
(* identity, and when the store says that the stream is caught up, every   *)
(* line logged by then is stored or lies before a gap that it reports.     *)
THEOREM HttpLinesSound == HttpSpec => [](HttpLineStoredOnce /\ HttpCaughtUpMeansRead)
  <1>1. HttpInit => HttpInv
    BY HttpInitially
  <1>2. HttpInv /\ [HttpNext]_httpVars => HttpInv'
    BY HttpStep, HttpUnchanged DEF HttpNext
  <1>3. HttpInv => HttpLineStoredOnce /\ HttpCaughtUpMeansRead
    BY DEF HttpInv, World, RowsSound, Known, HttpLineStoredOnce, HttpCaughtUpMeansRead
  <1>4. QED
    BY <1>1, <1>2, <1>3, PTL DEF HttpSpec

-----------------------------------------------------------------------------
(* Recovery packages.  The inductive invariant: what is true of the        *)
(* running deployment was true of every captured one.                      *)

FileSets == [cursor : HttpCursors, spool : HttpSpools]
Outboxes == [revision : Nat, pending : BOOLEAN]
DatabaseSets == [rows : SUBSET HttpRecords, declared : SUBSET Nat, seen : Nat, outbox : Outboxes,
                 imported : Nat, ssh : Nat, marked : SUBSET Nat]
PackageSets == [id : Nat, ssh : Nat, files : FileSets, databases : DatabaseSets]
BuildSets == [at : {"none", "state", "locked", "pinned"}, ssh : Nat, files : FileSets,
              databases : DatabaseSets \cup {[rows |-> {}]}]

DeploymentTyped ==
  /\ sshStored \in Nat /\ sshCursor \in Nat /\ outbox \in Outboxes /\ imported \in Nat
  /\ publishing \in Nat /\ marked \in SUBSET Nat /\ builds \in Nat
Delivery(o, i) == i =< o.revision /\ (~o.pending => i = o.revision)
DeploymentSound ==
  /\ DeploymentTyped
  /\ sshCursor =< sshStored
  /\ Delivery(outbox, imported)
  /\ publishing =< outbox.revision

(* The files and the databases of a package go together.                   *)
CapturedSound(files, databases) ==
  World(files.cursor, files.spool, databases.rows, databases.declared, databases.seen)
PairSound(ssh, files, databases) ==
  /\ databases \in DatabaseSets
  /\ ssh =< databases.ssh
  /\ Delivery(databases.outbox, databases.imported)
  /\ CapturedSound(files, databases)
PackagesSound ==
  /\ packages \subseteq PackageSets
  /\ \A p \in packages : PairSound(p.ssh, p.files, p.databases)
BuildSound ==
  /\ build \in BuildSets
  /\ build.at \in {"state", "locked"} => build.ssh =< sshStored
  /\ build.at = "locked" => build.files = Files /\ httpAt = "idle"
  /\ build.at = "pinned" => PairSound(build.ssh, build.files, build.databases)
RecoveryInv == HttpInv /\ Joined /\ DeploymentSound /\ PackagesSound /\ BuildSound

LEMMA NoBuildShape == NoBuild \in BuildSets /\ NoBuild.at = "none"
  <1>1. [cursor |-> NoCursor, spool |-> NoSpool] \in FileSets
    BY NoneShapes DEF FileSets
  <1>2. PICK f \in FileSets : f = [cursor |-> NoCursor, spool |-> NoSpool]
    BY <1>1
  <1>3. NoBuild = [at |-> "none", ssh |-> 0, files |-> f, databases |-> [rows |-> {}]]
    BY <1>2 DEF NoBuild
  <1>4. PICK d : d = [rows |-> {}]
    OBVIOUS
  <1>5. NoBuild = [at |-> "none", ssh |-> 0, files |-> f, databases |-> d]
    BY <1>3, <1>4
  <1>6. d \in DatabaseSets \cup {[rows |-> {}]}
    BY <1>4
  <1>7. PICK D : D = DatabaseSets \cup {[rows |-> {}]}
    OBVIOUS
  <1>8. NoBuild \in [at : {"none", "state", "locked", "pinned"}, ssh : Nat, files : FileSets, databases : D]
    BY <1>5, <1>6, <1>7
  <1>9. QED
    BY <1>5, <1>7, <1>8 DEF BuildSets

LEMMA PairDrifts ==
  ASSUME NEW ssh, NEW files \in FileSets, NEW databases, HttpTyped, Drifts, PairSound(ssh, files, databases)
  PROVE  PairSound(ssh, files, databases)'
  <1>1. files.cursor \in HttpCursors /\ files.spool \in HttpSpools
    BY DEF FileSets
  <1>2. databases \in DatabaseSets
    BY DEF PairSound
  <1>3. databases.rows \in SUBSET HttpRecords
    BY <1>2 DEF DatabaseSets
  <1>4. PICK c, s, rows, declared, seen :
          /\ c = files.cursor /\ s = files.spool /\ rows = databases.rows
          /\ declared = databases.declared /\ seen = databases.seen
    OBVIOUS
  <1>5. World(c, s, rows, declared, seen)
    BY <1>4 DEF PairSound, CapturedSound
  <1>6. World(c, s, rows, declared, seen)'
    BY <1>1, <1>3, <1>4, <1>5, WorldDrifts
  <1>7. CapturedSound(files, databases)'
    BY <1>4, <1>6 DEF CapturedSound
  <1>8. QED
    BY <1>7 DEF PairSound, Delivery

(* A step that leaves the packages alone, and the build or its parts.      *)
LEMMA PackagesDrift ==
  ASSUME HttpTyped, Drifts, PackagesSound, packages' = packages
  PROVE  PackagesSound'
  <1>1. packages \subseteq PackageSets /\ \A p \in packages : p.files \in FileSets
    BY DEF PackagesSound, PackageSets
  <1>2. \A p \in packages : PairSound(p.ssh, p.files, p.databases)'
    <2>1. SUFFICES ASSUME NEW p \in packages PROVE PairSound(p.ssh, p.files, p.databases)'
      OBVIOUS
    <2>2. PairSound(p.ssh, p.files, p.databases)
      BY DEF PackagesSound
    <2>3. PICK ssh, f, d : ssh = p.ssh /\ f = p.files /\ d = p.databases
      OBVIOUS
    <2>4. PairSound(ssh, f, d)'
      BY <1>1, <2>2, <2>3, PairDrifts
    <2>5. QED
      BY <2>3, <2>4
  <1>3. QED
    BY <1>1, <1>2 DEF PackagesSound

LEMMA BuildDrifts ==
  ASSUME HttpTyped, Drifts, BuildSound, build' = build,
         build.at \in {"state", "locked"} => sshStored' \in Nat /\ sshStored \in Nat /\ sshStored =< sshStored',
         build.at = "locked" => Files' = Files /\ httpAt' = httpAt
  PROVE  BuildSound'
  <1>1. build \in BuildSets /\ build.ssh \in Nat /\ build.files \in FileSets
    BY DEF BuildSound, BuildSets
  <1>2. build.at = "pinned" => PairSound(build.ssh, build.files, build.databases)'
    <2>1. SUFFICES ASSUME build.at = "pinned" PROVE PairSound(build.ssh, build.files, build.databases)'
      OBVIOUS
    <2>2. PICK ssh, f, d : ssh = build.ssh /\ f = build.files /\ d = build.databases
      OBVIOUS
    <2>3. PairSound(ssh, f, d)
      BY <2>1, <2>2 DEF BuildSound
    <2>4. PairSound(ssh, f, d)'
      BY <1>1, <2>2, <2>3, PairDrifts
    <2>5. QED
      BY <2>2, <2>4
  <1>3. build.at \in {"state", "locked"} => build.ssh =< sshStored'
    BY <1>1 DEF BuildSound
  <1>4. build.at = "locked" => build.files = Files' /\ httpAt' = "idle"
    BY DEF BuildSound
  <1>5. QED
    BY <1>1, <1>2, <1>3, <1>4 DEF BuildSound

LEMMA StillDrifts ==
  ASSUME HttpTyped, UNCHANGED logVars
  PROVE  Drifts /\ (Joined => Joined')
  <1>1. UNCHANGED <<logTop, logCurrent, logRotated, logInodes>>
    BY DEF logVars
  <1>2. logTop' \in Nat /\ logTop =< logTop'
    BY <1>1 DEF HttpTyped
  <1>3. Joined => Joined'
    BY <1>1 DEF Joined, UpToTop, LinesOf
  <1>4. QED
    BY <1>1, <1>2, <1>3, StillMoves DEF Drifts

LEMMA DeploymentStill ==
  ASSUME DeploymentSound, UNCHANGED <<deploymentVars, packageVars>>
  PROVE  DeploymentSound'
  <1>1. UNCHANGED <<sshStored, sshCursor, outbox, imported, publishing, marked, builds>>
    BY DEF deploymentVars, packageVars
  <1>2. QED
    BY <1>1 DEF DeploymentSound, DeploymentTyped, Delivery

(* The log and the collector beside a build.                               *)
LEMMA RecoveryHttp ==
  ASSUME RecoveryInv, Logs \/ Collector \/ CollectorFaults
  PROVE  RecoveryInv'
  <1>0. HttpInv /\ Joined /\ DeploymentSound /\ PackagesSound /\ BuildSound /\ HttpTyped /\ LogSound
    BY DEF RecoveryInv, HttpInv
  <1>1. UNCHANGED <<deploymentVars, packageVars>>
    BY DEF Logs, Collector, CollectorFaults
  <1>2. HttpInv'
    BY <1>0, HttpStep DEF Logs, Collector, CollectorFaults, LogStep
  <1>3. Drifts /\ Joined'
    <2>1. CASE Logs
      BY <1>0, <2>1, LogDrifts DEF Logs
    <2>2. CASE Collector \/ CollectorFaults
      <3>1. UNCHANGED logVars
        BY <2>2 DEF Collector, CollectorFaults, CollectorStep, HttpBuildPending, ResumePending, PostBatch,
                    AnswerBatch, SaveCursor, UnlinkSpool, HttpAbort, HttpLose
      <3>2. QED
        BY <1>0, <3>1, StillDrifts
    <2>3. QED
      BY <2>1, <2>2
  <1>4. build.at = "locked" => Files' = Files /\ httpAt' = httpAt
    <2>1. SUFFICES ASSUME build.at = "locked"
                   PROVE  httpCursor' = httpCursor /\ httpSpool' = httpSpool /\ httpAt' = httpAt
      BY DEF Files
    <2>2. httpAt = "idle"
      BY <1>0, <2>1 DEF BuildSound
    <2>3. CASE Logs
      BY <2>3 DEF Logs, WriteLine, RotateLog, ReopenLog, LogQuiet, collectorVars
    <2>4. CASE Collector
      BY <2>1, <2>2, <2>4 DEF Collector, CollectorStep, HttpBuildPending, ResumePending, PostBatch,
                              AnswerBatch, SaveCursor, UnlinkSpool
    <2>5. CASE CollectorFaults
      BY <2>2, <2>5 DEF CollectorFaults, HttpAbort, HttpLose
    <2>6. QED
      BY <2>3, <2>4, <2>5
  <1>5. build' = build /\ packages' = packages /\ sshStored' = sshStored /\ sshStored \in Nat
    BY <1>0, <1>1 DEF deploymentVars, packageVars, DeploymentSound, DeploymentTyped
  <1>6. sshStored' \in Nat /\ sshStored =< sshStored'
    BY <1>5
  <1>7. PackagesSound' /\ BuildSound'
    BY <1>0, <1>3, <1>4, <1>5, <1>6, PackagesDrift, BuildDrifts
  <1>8. DeploymentSound'
    BY <1>0, <1>1, DeploymentStill
  <1>9. QED
    BY <1>2, <1>3, <1>7, <1>8 DEF RecoveryInv

(* The SSH collector and the notice beside a build.                        *)
LEMMA RecoveryDeployment ==
  ASSUME RecoveryInv, SshStore \/ SshAdvance \/ SaveNotice \/ Worker
  PROVE  RecoveryInv'
  <1>0. HttpInv /\ Joined /\ DeploymentSound /\ PackagesSound /\ BuildSound /\ HttpTyped
    BY DEF RecoveryInv, HttpInv
  <1>1. UNCHANGED httpVars /\ UNCHANGED packageVars
    BY DEF SshStore, SshAdvance, SaveNotice, Worker, ReadNotice, ImportNotice, AckNotice
  <1>2. HttpInv'
    BY <1>0, <1>1, HttpUnchanged
  <1>3. UNCHANGED logVars /\ httpCursor' = httpCursor /\ httpSpool' = httpSpool /\ httpAt' = httpAt
    BY <1>1 DEF httpVars, collectorVars
  <1>4. Drifts /\ Joined'
    BY <1>0, <1>3, StillDrifts
  <1>5. Files' = Files
    BY <1>3 DEF Files
  <1>6. build' = build /\ packages' = packages /\ marked' = marked /\ builds' = builds
    BY <1>1 DEF packageVars
  <1>7. /\ sshStored \in Nat /\ sshCursor \in Nat /\ outbox \in Outboxes /\ imported \in Nat
        /\ publishing \in Nat /\ marked \in SUBSET Nat /\ builds \in Nat
        /\ sshCursor =< sshStored /\ publishing =< outbox.revision
        /\ imported =< outbox.revision /\ (~outbox.pending => imported = outbox.revision)
    BY <1>0 DEF DeploymentSound, DeploymentTyped, Delivery
  <1>8. outbox.revision \in Nat /\ outbox.pending \in BOOLEAN
    BY <1>7 DEF Outboxes
  <1>9. DeploymentSound' /\ sshStored' \in Nat /\ sshStored =< sshStored'
    <2>1. CASE SshStore \/ SshAdvance
      <3>1. sshStored' \in Nat /\ sshCursor' \in Nat /\ sshCursor' =< sshStored' /\ sshStored =< sshStored'
        BY <1>7, <2>1 DEF SshStore, SshAdvance
      <3>2. outbox' = outbox /\ imported' = imported /\ publishing' = publishing
        BY <2>1 DEF SshStore, SshAdvance
      <3>3. QED
        BY <1>6, <1>7, <3>1, <3>2 DEF DeploymentSound, DeploymentTyped, Delivery
    <2>2. CASE SaveNotice
      <3>1. /\ outbox' = [revision |-> outbox.revision + 1, pending |-> TRUE]
            /\ sshStored' = sshStored /\ sshCursor' = sshCursor /\ imported' = imported
            /\ publishing' = publishing
        BY <2>2 DEF SaveNotice
      <3>2. outbox' \in Outboxes /\ outbox'.revision = outbox.revision + 1 /\ outbox'.pending
        BY <1>8, <3>1 DEF Outboxes
      <3>3. imported =< outbox'.revision /\ publishing =< outbox'.revision
        BY <1>7, <1>8, <3>2
      <3>4. QED
        BY <1>6, <1>7, <3>1, <3>2, <3>3 DEF DeploymentSound, DeploymentTyped, Delivery
    <2>3. CASE ReadNotice
      <3>1. /\ publishing' = outbox.revision /\ outbox' = outbox
            /\ sshStored' = sshStored /\ sshCursor' = sshCursor /\ imported' = imported
        BY <2>3 DEF ReadNotice
      <3>2. publishing' =< outbox'.revision /\ publishing' \in Nat
        BY <1>8, <3>1
      <3>3. QED
        BY <1>6, <1>7, <3>1, <3>2 DEF DeploymentSound, DeploymentTyped, Delivery
    <2>4. CASE ImportNotice
      <3>1. /\ imported' = publishing /\ publishing > imported /\ outbox' = outbox
            /\ sshStored' = sshStored /\ sshCursor' = sshCursor /\ publishing' = publishing
        BY <2>4 DEF ImportNotice
      <3>2. outbox.pending
        BY <1>7, <1>8, <3>1
      <3>3. QED
        BY <1>6, <1>7, <3>1, <3>2 DEF DeploymentSound, DeploymentTyped, Delivery
    <2>5. CASE AckNotice
      <3>1. /\ publishing' = 0 /\ publishing =< imported /\ imported' = imported
            /\ sshStored' = sshStored /\ sshCursor' = sshCursor
            /\ outbox' = IF outbox.revision = publishing THEN [outbox EXCEPT !.pending = FALSE] ELSE outbox
        BY <2>5 DEF AckNotice
      <3>2. outbox' \in Outboxes /\ outbox'.revision = outbox.revision
        BY <1>7, <3>1 DEF Outboxes
      <3>3. CASE outbox.revision = publishing
        <4>1. imported = outbox.revision
          BY <1>7, <1>8, <3>1, <3>3
        <4>2. QED
          BY <1>6, <1>7, <1>8, <3>1, <3>2, <4>1 DEF DeploymentSound, DeploymentTyped, Delivery
      <3>4. CASE outbox.revision # publishing
        <4>1. /\ outbox' = outbox /\ publishing' =< outbox.revision /\ publishing' \in Nat
              /\ imported' = imported /\ sshStored' = sshStored /\ sshCursor' = sshCursor
          BY <1>8, <3>1, <3>4
        <4>2. DeploymentTyped'
          BY <1>6, <1>7, <4>1 DEF DeploymentTyped
        <4>3. Delivery(outbox, imported)
          BY <1>0 DEF DeploymentSound
        <4>4. Delivery(outbox, imported)'
          BY <4>1, <4>3 DEF Delivery
        <4>5. outbox'.revision = outbox.revision
          BY <4>1
        <4>6. publishing' =< outbox'.revision
          BY <4>1, <4>5
        <4>7. sshCursor' =< sshStored' /\ sshStored' \in Nat /\ sshStored =< sshStored'
          BY <1>7, <4>1
        <4>8. QED
          BY <4>2, <4>4, <4>6, <4>7 DEF DeploymentSound
      <3>5. QED
        BY <3>3, <3>4
    <2>6. QED
      BY <2>1, <2>2, <2>3, <2>4, <2>5 DEF Worker
  <1>10. PackagesSound' /\ BuildSound'
    BY <1>0, <1>3, <1>4, <1>5, <1>6, <1>7, <1>9, PackagesDrift, BuildDrifts
  <1>11. QED
    BY <1>2, <1>4, <1>9, <1>10 DEF RecoveryInv

(* A build captures the files, then the pair of databases.                 *)
LEMMA RecoveryBuild ==
  ASSUME RecoveryInv, Build \/ BuildFails
  PROVE  RecoveryInv'
  <1>0. HttpInv /\ Joined /\ DeploymentSound /\ PackagesSound /\ BuildSound /\ HttpTyped
    BY DEF RecoveryInv, HttpInv
  <1>1. UNCHANGED httpVars /\ UNCHANGED deploymentVars /\ marked' = marked
    BY DEF Build, CaptureState, LockCollectors, PinDatabases, Publish, BuildFails
  <1>2. HttpInv'
    BY <1>0, <1>1, HttpUnchanged
  <1>3. /\ UNCHANGED logVars /\ httpCursor' = httpCursor /\ httpSpool' = httpSpool /\ httpAt' = httpAt
        /\ httpRows' = httpRows /\ httpDeclared' = httpDeclared /\ httpSeen' = httpSeen
    BY <1>1 DEF httpVars, collectorVars, httpStoreVars
  <1>4. Drifts /\ Joined'
    BY <1>0, <1>3, StillDrifts
  <1>5. Files' = Files /\ Files \in FileSets /\ Files.cursor = httpCursor /\ Files.spool = httpSpool
    BY <1>0, <1>3 DEF Files, FileSets, HttpTyped
  <1>6. /\ sshStored \in Nat /\ sshCursor \in Nat /\ sshCursor =< sshStored /\ builds \in Nat
        /\ sshStored' = sshStored
    BY <1>0, <1>1 DEF DeploymentSound, DeploymentTyped, deploymentVars
  <1>7. build \in BuildSets /\ build.ssh \in Nat /\ build.files \in FileSets
    BY <1>0 DEF BuildSound, BuildSets
  <1>8. ASSUME builds' \in Nat PROVE DeploymentSound'
    BY <1>0, <1>1, <1>8 DEF DeploymentSound, DeploymentTyped, deploymentVars, Delivery
  <1>9. ASSUME build' = NoBuild PROVE BuildSound'
    BY <1>9, NoBuildShape DEF BuildSound
  <1>10. CASE CaptureState
    <2>1. packages' = packages /\ builds' = builds + 1 /\ build' = [NoBuild EXCEPT !.at = "state", !.ssh = sshCursor]
      BY <1>10 DEF CaptureState
    <2>2. build' \in BuildSets /\ build'.at = "state" /\ build'.ssh = sshCursor
      BY <1>6, <2>1, NoBuildShape DEF BuildSets
    <2>3. BuildSound'
      BY <1>6, <2>2 DEF BuildSound
    <2>4. builds' \in Nat
      BY <1>6, <2>1
    <2>5. QED
      BY <1>0, <1>2, <1>4, <1>8, <2>1, <2>3, <2>4, PackagesDrift DEF RecoveryInv
  <1>11. CASE LockCollectors
    <2>1. /\ packages' = packages /\ builds' = builds /\ build.at = "state"
          /\ build' = IF httpAt = "idle" THEN [build EXCEPT !.at = "locked", !.files = Files] ELSE NoBuild
      BY <1>11 DEF LockCollectors
    <2>2. ASSUME httpAt = "idle" PROVE BuildSound'
      <3>1. PICK f \in FileSets : f = Files
        BY <1>5
      <3>2. build' = [build EXCEPT !.at = "locked", !.files = f]
        BY <2>1, <2>2, <3>1
      <3>3. build' \in BuildSets /\ build'.at = "locked" /\ build'.ssh = build.ssh /\ build'.files = f
        BY <1>7, <3>2 DEF BuildSets
      <3>4. build.ssh =< sshStored
        BY <1>0, <2>1 DEF BuildSound
      <3>5. QED
        BY <1>3, <1>5, <1>6, <2>2, <3>1, <3>3, <3>4 DEF BuildSound
    <2>3. BuildSound'
      BY <1>9, <2>1, <2>2
    <2>4. QED
      BY <1>0, <1>2, <1>4, <1>6, <1>8, <2>1, <2>3, PackagesDrift DEF RecoveryInv
  <1>12. CASE PinDatabases
    <2>1. /\ packages' = packages /\ builds' = builds /\ build.at = "locked"
          /\ build' = [build EXCEPT !.at = "pinned", !.databases = Databases]
      BY <1>12 DEF PinDatabases
    <2>2. PICK d : d = Databases
      OBVIOUS
    <2>3. /\ d.rows = httpRows /\ d.declared = httpDeclared /\ d.seen = httpSeen /\ d.outbox = outbox
          /\ d.imported = imported /\ d.ssh = sshStored /\ d \in DatabaseSets
      BY <1>0, <2>2 DEF Databases, DatabaseSets, DeploymentSound, DeploymentTyped, HttpTyped
    <2>4. build' \in BuildSets /\ build'.at = "pinned" /\ build'.ssh = build.ssh
          /\ build'.files = build.files /\ build'.databases = d
      <3>1. PICK D : D = DatabaseSets \cup {[rows |-> {}]}
        OBVIOUS
      <3>2. BuildSets = [at : {"none", "state", "locked", "pinned"}, ssh : Nat, files : FileSets, databases : D]
        BY <3>1 DEF BuildSets
      <3>3. build' = [build EXCEPT !.at = "pinned", !.databases = d] /\ d \in D
        BY <2>1, <2>2, <2>3, <3>1
      <3>4. QED
        BY <1>7, <3>2, <3>3
    <2>5. PICK ssh, f : ssh = build.ssh /\ f = build.files
      OBVIOUS
    <2>6. f = Files /\ ssh =< sshStored
      BY <1>0, <2>1, <2>5 DEF BuildSound
    <2>7. World(f.cursor, f.spool, d.rows, d.declared, d.seen)
      BY <1>0, <1>5, <2>3, <2>6 DEF HttpInv
    <2>8. Delivery(d.outbox, d.imported)
      BY <1>0, <2>3 DEF DeploymentSound
    <2>9. PairSound(ssh, f, d)
      BY <2>3, <2>6, <2>7, <2>8 DEF PairSound, CapturedSound
    <2>10. PairSound(ssh, f, d)'
      BY <1>0, <1>4, <1>5, <2>6, <2>9, PairDrifts
    <2>11. PairSound(build.ssh, build.files, build.databases)'
      BY <2>4, <2>5, <2>10
    <2>12. BuildSound'
      BY <2>4, <2>11 DEF BuildSound
    <2>13. QED
      BY <1>0, <1>2, <1>4, <1>6, <1>8, <2>1, <2>12, PackagesDrift DEF RecoveryInv
  <1>13. CASE Publish
    <2>1. PICK p : p = [id |-> builds, ssh |-> build.ssh, files |-> build.files, databases |-> build.databases]
      OBVIOUS
    <2>2. /\ packages' = packages \cup {p} /\ builds' = builds /\ build' = NoBuild /\ build.at = "pinned"
      BY <1>13, <2>1 DEF Publish
    <2>3. PairSound(p.ssh, p.files, p.databases) /\ p.ssh = build.ssh /\ p.files = build.files
      BY <1>0, <2>1, <2>2 DEF BuildSound
    <2>4. p \in PackageSets
      BY <1>6, <1>7, <2>1, <2>3 DEF PackageSets, PairSound
    <2>5. \A q \in packages' : PairSound(q.ssh, q.files, q.databases)'
      <3>1. SUFFICES ASSUME NEW q \in packages' PROVE PairSound(q.ssh, q.files, q.databases)'
        OBVIOUS
      <3>2. PairSound(q.ssh, q.files, q.databases) /\ q \in PackageSets
        BY <1>0, <2>2, <2>3, <2>4 DEF PackagesSound
      <3>3. PICK ssh, f, d : ssh = q.ssh /\ f = q.files /\ d = q.databases
        OBVIOUS
      <3>4. f \in FileSets
        BY <3>2, <3>3 DEF PackageSets
      <3>5. PairSound(ssh, f, d)'
        BY <1>0, <1>4, <3>2, <3>3, <3>4, PairDrifts
      <3>6. QED
        BY <3>3, <3>5
    <2>6. PackagesSound'
      BY <1>0, <2>2, <2>4, <2>5 DEF PackagesSound
    <2>7. QED
      BY <1>2, <1>4, <1>6, <1>8, <1>9, <2>2, <2>6 DEF RecoveryInv
  <1>14. CASE BuildFails
    <2>1. packages' = packages /\ builds' = builds /\ build' = NoBuild
      BY <1>14 DEF BuildFails
    <2>2. QED
      BY <1>0, <1>2, <1>4, <1>6, <1>8, <1>9, <2>1, PackagesDrift DEF RecoveryInv
  <1>15. QED
    BY <1>10, <1>11, <1>12, <1>13, <1>14 DEF Build

(* A restore makes a captured deployment the running one.                  *)
LEMMA RecoveryRestore ==
  ASSUME RecoveryInv, Restore
  PROVE  RecoveryInv'
  <1>0. /\ HttpInv /\ Joined /\ DeploymentSound /\ PackagesSound /\ HttpTyped /\ LogSound
    BY DEF RecoveryInv, HttpInv
  <1>1. PICK p \in packages :
          /\ sshStored' = p.databases.ssh /\ sshCursor' = p.ssh
          /\ httpCursor' = p.files.cursor /\ httpSpool' = p.files.spool
          /\ httpRows' = p.databases.rows /\ httpDeclared' = p.databases.declared
          /\ httpSeen' = p.databases.seen
          /\ outbox' = p.databases.outbox /\ imported' = p.databases.imported
          /\ marked' = Marked(p)
    BY DEF Restore
  <1>2. /\ httpAt' = "idle" /\ httpPosted' = {} /\ publishing' = 0 /\ build' = NoBuild
        /\ UNCHANGED <<logVars, httpGens, httpFaults, packages, builds>>
    BY DEF Restore
  <1>3. /\ p \in PackageSets /\ PairSound(p.ssh, p.files, p.databases)
    BY <1>0 DEF PackagesSound
  <1>4. /\ p.id \in Nat /\ p.ssh \in Nat /\ p.files \in FileSets /\ p.databases \in DatabaseSets
    BY <1>3 DEF PackageSets
  <1>5. PICK c \in HttpCursors, s \in HttpSpools : c = p.files.cursor /\ s = p.files.spool
    BY <1>4 DEF FileSets
  <1>6. PICK rows \in SUBSET HttpRecords, declared \in SUBSET Nat, seen \in Nat :
          rows = p.databases.rows /\ declared = p.databases.declared /\ seen = p.databases.seen
    BY <1>4 DEF DatabaseSets
  <1>7. /\ p.databases.outbox \in Outboxes /\ p.databases.imported \in Nat /\ p.databases.ssh \in Nat
        /\ p.databases.marked \in SUBSET Nat
    BY <1>4 DEF DatabaseSets
  <1>8. World(c, s, rows, declared, seen)
    BY <1>3, <1>5, <1>6 DEF PairSound, CapturedSound
  <1>9. HttpTyped'
    BY <1>0, <1>1, <1>2, <1>5, <1>6 DEF HttpTyped, logVars
  <1>10. HttpInv'
    BY <1>0, <1>1, <1>2, <1>5, <1>6, <1>8, <1>9, StillKeeps
  <1>11. Drifts /\ Joined'
    BY <1>0, <1>2, StillDrifts
  <1>12. PackagesSound'
    BY <1>0, <1>2, <1>11, PackagesDrift
  <1>13. BuildSound'
    BY <1>2, NoBuildShape DEF BuildSound
  <1>14. DeploymentSound'
    <2>1. marked' \in SUBSET Nat /\ builds' \in Nat
      BY <1>0, <1>1, <1>2, <1>4, <1>7 DEF Marked, DeploymentSound, DeploymentTyped
    <2>2. sshCursor' =< sshStored' /\ Delivery(outbox', imported')
      BY <1>1, <1>3 DEF PairSound
    <2>3. publishing' =< outbox'.revision
      BY <1>1, <1>2, <1>7 DEF Outboxes
    <2>4. DeploymentTyped'
      BY <1>1, <1>2, <1>4, <1>7, <2>1 DEF DeploymentTyped
    <2>5. QED
      BY <2>2, <2>3, <2>4 DEF DeploymentSound, Delivery
  <1>15. QED
    BY <1>10, <1>11, <1>12, <1>13, <1>14 DEF RecoveryInv

(* HTTP collection is sound across builds and restores of recovery         *)
(* packages (collect_page, ingest, publish, build, restore): lines are     *)
(* stored under one identity, a caught-up stream was read, a pinned pair   *)
(* of databases is compatible, the SSH cursor points behind the stored     *)
(* records, and no notice is suppressed.                                   *)
THEOREM HttpCollectionSound == RecoverySpec => []HttpCollectionIsSound
  <1>1. RecoveryInit => RecoveryInv
    <2>1. SUFFICES ASSUME RecoveryInit PROVE RecoveryInv
      OBVIOUS
    <2>2. HttpInv
      BY <2>1, HttpInitially DEF RecoveryInit
    <2>3. Joined
      <3>1. logCurrent.lines = <<>> /\ logRotated.lines = <<>>
        BY <2>1 DEF RecoveryInit, HttpInit, NoFile
      <3>2. LinesOf(logCurrent) = {} /\ LinesOf(logRotated) = {}
        BY <3>1 DEF LinesOf, ToSet
      <3>3. QED
        BY <3>2 DEF Joined, UpToTop
    <2>4. DeploymentSound
      <3>1. /\ sshStored = 0 /\ sshCursor = 0 /\ imported = 0 /\ publishing = 0 /\ marked = {} /\ builds = 0
            /\ outbox = [revision |-> 0, pending |-> FALSE]
        BY <2>1 DEF RecoveryInit
      <3>2. outbox \in Outboxes /\ outbox.revision = 0
        BY <3>1 DEF Outboxes
      <3>3. QED
        BY <3>1, <3>2 DEF DeploymentSound, DeploymentTyped, Delivery
    <2>5. PackagesSound
      BY <2>1 DEF RecoveryInit, PackagesSound
    <2>6. BuildSound
      BY <2>1, NoBuildShape DEF RecoveryInit, BuildSound
    <2>7. QED
      BY <2>2, <2>3, <2>4, <2>5, <2>6 DEF RecoveryInv
  <1>2. RecoveryInv /\ [RecoveryNext]_recoveryVars => RecoveryInv'
    <2>1. SUFFICES ASSUME RecoveryInv, [RecoveryNext]_recoveryVars PROVE RecoveryInv'
      OBVIOUS
    <2>2. CASE UNCHANGED recoveryVars
      <3>0. HttpInv /\ Joined /\ DeploymentSound /\ PackagesSound /\ BuildSound /\ HttpTyped
        BY <2>1 DEF RecoveryInv, HttpInv
      <3>1. UNCHANGED httpVars /\ UNCHANGED <<deploymentVars, packageVars>>
        BY <2>2 DEF recoveryVars
      <3>2. HttpInv' /\ DeploymentSound'
        BY <3>0, <3>1, HttpUnchanged, DeploymentStill
      <3>3. UNCHANGED logVars /\ httpCursor' = httpCursor /\ httpSpool' = httpSpool /\ httpAt' = httpAt
        BY <3>1 DEF httpVars, collectorVars
      <3>4. Drifts /\ Joined'
        BY <3>0, <3>3, StillDrifts
      <3>5. build' = build /\ packages' = packages /\ sshStored' = sshStored /\ sshStored \in Nat
        BY <3>0, <3>1 DEF deploymentVars, packageVars, DeploymentSound, DeploymentTyped
      <3>6. sshStored' \in Nat /\ sshStored =< sshStored' /\ Files' = Files
        BY <3>3, <3>5 DEF Files
      <3>7. PackagesSound' /\ BuildSound'
        BY <3>0, <3>3, <3>4, <3>5, <3>6, PackagesDrift, BuildDrifts
      <3>8. QED
        BY <3>2, <3>4, <3>7 DEF RecoveryInv
    <2>3. QED
      BY <2>1, <2>2, RecoveryHttp, RecoveryDeployment, RecoveryBuild, RecoveryRestore DEF RecoveryNext
  <1>3. RecoveryInv => HttpCollectionIsSound
    <2>1. SUFFICES ASSUME RecoveryInv PROVE HttpCollectionIsSound
      OBVIOUS
    <2>2. HttpLineStoredOnce /\ HttpCaughtUpMeansRead
      BY <2>1 DEF RecoveryInv, HttpInv, World, RowsSound, Known, HttpLineStoredOnce, HttpCaughtUpMeansRead
    <2>3. PinnedPairIsCompatible
      BY <2>1 DEF RecoveryInv, BuildSound, PairSound, Delivery, PinnedPairIsCompatible, Compatible
    <2>4. RestoredCursorIsBehind /\ NoticeNotSuppressed
      BY <2>1 DEF RecoveryInv, DeploymentSound, Delivery, RestoredCursorIsBehind, NoticeNotSuppressed
    <2>5. QED
      BY <2>2, <2>3, <2>4 DEF HttpCollectionIsSound
  <1>4. QED
    BY <1>1, <1>2, <1>3, PTL DEF RecoverySpec

=============================================================================
