--------------------------- MODULE RecoveryStore ----------------------------
(***************************************************************************)
(* Where recovery packages go: the control node's store with its rotation   *)
(* (prune of src/scripts/recovery_package.py), the restricted export a peer  *)
(* reaches over SSH (src/scripts/backup_export.py) and the peers that pull   *)
(* (src/scripts/pull_recovery_packages.py).  Rotation deletes file by file,  *)
(* and a peer's run, a rotation and a new package may overlap in any way.    *)
(* Packages are numbered in the order of created_at.                         *)
(***************************************************************************)
EXTENDS Integers, Sequences, FiniteSets, FiniteSetsExt

CONSTANTS
  Peers,           \* pulling nodes; one keeps its verified copies
  MaxPackages,     \* packages built
  Keep,            \* --keep
  Require,         \* --require-confirmations
  Annotated,       \* packages somebody added a file to
  MaxStoreFaults   \* crashes and failed requests of a behaviour

ASSUME RecoveryStoreAssumption ==
  /\ MaxPackages \in Nat /\ Keep \in Nat \ {0} /\ Require \in Nat \ {0}
  /\ MaxStoreFaults \in Nat /\ Annotated \subseteq 1..MaxPackages /\ IsFiniteSet(Peers)

PackageIds == 1..MaxPackages

\* The managed entries of a package directory in the order of managed_contents.
FileOrder == <<"SHA256SUMS", "confirmations", "manifest", "object">>
PackageFiles == {"SHA256SUMS", "confirmations", "manifest", "object"}

VARIABLES
  shelf,      \* package -> the managed entries that are there
  confirmed,  \* package -> the peers with a record in confirmations/
  published,  \* packages built so far
  held,       \* peer -> the packages it holds, each verified when it was pulled
  puller,     \* peer -> [at, todo]: a run of main, with the entries it has still to treat
  rotation,   \* [todo, left, records]: a run of prune, with the packages it has still to
              \* remove and the places in FileOrder of what is left of the present one
  storeFaults

shelfVars == <<shelf, confirmed, published, held, puller, rotation, storeFaults>>

NoRotation == [todo |-> {}, left |-> {}, records |-> {}]
Resting == [at |-> "idle", todo |-> {}]

ShelfInit ==
  /\ shelf = [p \in PackageIds |-> {}] /\ confirmed = [p \in PackageIds |-> {}]
  /\ published = 0
  /\ held = [n \in Peers |-> {}] /\ puller = [n \in Peers |-> Resting]
  /\ rotation = NoRotation /\ storeFaults = 0

StoreFault == storeFaults < MaxStoreFaults /\ storeFaults' = storeFaults + 1

-----------------------------------------------------------------------------
\* build ends in os.replace: the whole package appears at once.
PublishPackage ==
  /\ published < MaxPackages
  /\ published' = published + 1
  /\ shelf' = [shelf EXCEPT ![published + 1] = PackageFiles]
  /\ UNCHANGED <<confirmed, held, puller, rotation, storeFaults>>

\* read_manifest and action_list: what a listing offers.
HasManifest(p) == "manifest" \in shelf[p]
Listed == {p \in PackageIds : HasManifest(p) /\ "object" \in shelf[p]}

-----------------------------------------------------------------------------
(* A peer's run: pull_recovery_packages.main against backup_export. *)

\* action_list: a package is offered with its files and whether this peer confirmed it.
Entry(n, p) == [id |-> p, sums |-> "SHA256SUMS" \in shelf[p], confirmed |-> n \in confirmed[p]]
StartPull(n) ==
  /\ puller[n] = Resting
  /\ \E p \in Listed : p \notin held[n] \/ n \notin confirmed[p]
  /\ puller' = [puller EXCEPT ![n] =
       [at |-> "next", todo |-> {Entry(n, p) : p \in Listed}]]
  /\ UNCHANGED <<shelf, confirmed, published, held, rotation, storeFaults>>

At(n, step) == puller[n].at = step
\* The listing is treated oldest first.
First(todo) == CHOOSE e \in todo : \A f \in todo : e.id =< f.id
Treated(n) == First(puller[n].todo)
Done(n) == puller' = [puller EXCEPT ![n] = [at |-> "next", todo |-> @.todo \ {Treated(n)}]]
Turn(n, step) == puller' = [puller EXCEPT ![n] = [at |-> step, todo |-> @.todo]]
GiveUp(n) == puller' = [puller EXCEPT ![n] = Resting]

\* The loop of main: already_held, else collect.
NextEntry(n) ==
  /\ At(n, "next")
  /\ IF puller[n].todo = {} THEN GiveUp(n)
     ELSE LET e == Treated(n)
          IN IF e.id \notin held[n] THEN Turn(n, "fetch")
             ELSE IF e.confirmed THEN Done(n) ELSE Turn(n, "ack")
  /\ UNCHANGED <<shelf, confirmed, published, held, rotation, storeFaults>>

\* collect, first files: action_fetch refuses a file that is gone, and a listing without
\* SHA256SUMS is refused in the end.  A failed package ends the run (no --keep-going).
FetchSums(n) ==
  /\ At(n, "fetch")
  /\ LET e == Treated(n)
     IN IF e.sums /\ HasManifest(e.id) /\ "SHA256SUMS" \in shelf[e.id]
        THEN Turn(n, "object") ELSE GiveUp(n)
  /\ UNCHANGED <<shelf, confirmed, published, held, rotation, storeFaults>>

\* collect, the object: every digest agrees, os.replace publishes the copy.
FetchObject(n) ==
  /\ At(n, "object")
  /\ LET p == Treated(n).id
     IN IF HasManifest(p) /\ "object" \in shelf[p]
        THEN held' = [held EXCEPT ![n] = @ \cup {p}] /\ Turn(n, "ack")
        ELSE GiveUp(n) /\ UNCHANGED held
  /\ UNCHANGED <<shelf, confirmed, published, rotation, storeFaults>>

\* action_ack: recorded for the digest the manifest names, in a directory it makes.
Acknowledge(n) ==
  /\ At(n, "ack")
  /\ LET p == Treated(n).id
     IN IF HasManifest(p)
        THEN /\ confirmed' = [confirmed EXCEPT ![p] = @ \cup {n}]
             /\ shelf' = [shelf EXCEPT ![p] = @ \cup {"confirmations"}]
             /\ Done(n)
        ELSE GiveUp(n) /\ UNCHANGED <<confirmed, shelf>>
  /\ UNCHANGED <<published, held, rotation, storeFaults>>

\* A transfer that is cut short or damaged, a lost reply, a killed run: the partial
\* directory does not count.
PullFails(n) ==
  /\ puller[n] # Resting /\ StoreFault
  /\ GiveUp(n)
  /\ UNCHANGED <<shelf, confirmed, published, held, rotation>>

-----------------------------------------------------------------------------
(* prune --apply. *)

ReadableIds == {p \in PackageIds : HasManifest(p)}
Newest(k) == {p \in ReadableIds : Cardinality({q \in ReadableIds : q > p}) < k}
(* Mutant of Removable: what the peers have confirmed is not asked. *)
RemovableOld == ReadableIds \ Newest(Keep)
Removable == {p \in ReadableIds \ Newest(Keep) : Cardinality(confirmed[p]) >= Require}

\* The scan reads every manifest and every confirmation before anything is deleted.
PruneScan ==
  /\ rotation = NoRotation /\ Removable # {}
  /\ rotation' = [NoRotation EXCEPT !.todo = Removable]
  /\ UNCHANGED <<shelf, confirmed, published, held, puller, storeFaults>>

\* managed_contents of the next package, the newest first; unexpected files keep it.
PruneOpen ==
  /\ rotation.todo # {} /\ rotation.left = {}
  /\ LET p == Max(rotation.todo)
     IN rotation' = IF p \in Annotated THEN [NoRotation EXCEPT !.todo = rotation.todo \ {p}]
                    ELSE [todo |-> rotation.todo, records |-> confirmed[p],
                          left |-> {i \in DOMAIN FileOrder : FileOrder[i] \in shelf[p]}]
  /\ UNCHANGED <<shelf, confirmed, published, held, puller, storeFaults>>

\* One deletion.  The directory of confirmations is not empty when a peer confirmed
\* since it was listed: the run ends there.
PruneFile ==
  /\ rotation.left # {}
  /\ LET p == Max(rotation.todo)
         f == FileOrder[Min(rotation.left)]
         rest == rotation.left \ {Min(rotation.left)}
         busy == f = "confirmations" /\ confirmed[p] # rotation.records
     IN /\ shelf' = IF busy THEN shelf ELSE [shelf EXCEPT ![p] = @ \ {f}]
        /\ confirmed' = IF f = "confirmations" THEN [confirmed EXCEPT ![p] = @ \ rotation.records]
                        ELSE confirmed
        /\ rotation' = IF busy THEN NoRotation
                       ELSE IF rest # {} THEN [rotation EXCEPT !.left = rest]
                       ELSE [NoRotation EXCEPT !.todo = rotation.todo \ {p}]
  /\ UNCHANGED <<published, held, puller, storeFaults>>

PruneFails ==
  /\ rotation # NoRotation /\ StoreFault
  /\ rotation' = NoRotation
  /\ UNCHANGED <<shelf, confirmed, published, held, puller>>

Pull(n) == StartPull(n) \/ NextEntry(n) \/ FetchSums(n) \/ FetchObject(n) \/ Acknowledge(n)
Prune == PruneScan \/ PruneOpen \/ PruneFile

ShelfNext == \/ PublishPackage \/ Prune \/ PruneFails
             \/ \E n \in Peers : Pull(n) \/ PullFails(n)
ShelfFairness == WF_shelfVars(Prune) /\ \A n \in Peers : WF_shelfVars(Pull(n))
ShelfSpec == ShelfInit /\ [][ShelfNext]_shelfVars /\ ShelfFairness

-----------------------------------------------------------------------------
\* Rotation deletes nothing of a package unless enough peers hold the verified object,
\* whatever overlaps with it and wherever it is interrupted.
RotationLeavesCopies ==
  \A p \in 1..published :
    \/ {"SHA256SUMS", "manifest", "object"} \subseteq shelf[p]
    \/ Cardinality({n \in Peers : p \in held[n]}) >= Require

\* The newest Keep packages stay whole on the control node.
KeepFloorHolds ==
  \A p \in 1..published : p + Keep > published => {"SHA256SUMS", "manifest", "object"} \subseteq shelf[p]

\* However rotation, pulls and new packages overlap (prune, collect, action_ack), a
\* package is whole on the control node or held by enough peers, and the newest ones
\* are whole.
PackagesAreSafe == RotationLeavesCopies /\ KeepFloorHolds

\* Every peer has every package that was not rotated away first: a package whose
\* removal was cut short does not stop the peers for good.
PeersHaveAll == \A n \in Peers : \A p \in 1..published : p \in held[n] \/ ~HasManifest(p)
=============================================================================
