----------------------------- MODULE PagedReads -----------------------------
(***************************************************************************)
(* What a client reads page by page while the stores change under it:        *)
(*  - the list of joint cases (src/backend/app/telemetry/                    *)
(*    joint_case_query.py): offset pages of an immutable generation that a   *)
(*    token names, refused once the store was restored;                      *)
(*  - the records of a network source and of an HTTP service                 *)
(*    (network_store.py and http_store.py, `page`): keyset pages up to a     *)
(*    snapshot sequence number, while retention deletes from below.          *)
(*                                                                           *)
(* A published revision of a joint case is a generation with the case's      *)
(* state at that point.  Each page is one read transaction.                  *)
(***************************************************************************)
EXTENDS Integers, Sequences, FiniteSets, SequencesExt, FiniteSetsExt

CONSTANTS
  ListedCases,      \* cases of the joint store
  CaseStates,       \* association states, which the list can be filtered by
  MaxGenerations,   \* revisions of a behaviour
  MaxEpochs,        \* restores of a behaviour
  MaxRows,          \* records a source sends
  PageRows          \* rows of a page

ASSUME PagedReadsAssumption ==
  MaxGenerations \in Nat /\ MaxEpochs \in Nat /\ MaxRows \in Nat /\ PageRows \in Nat \ {0}

AnyState == "any"

VARIABLES
  generations,   \* joint_revision_summaries by publish_generation: [case, state]
  epoch,         \* joint_runtime.query_epoch
  lister,        \* a client of the list: [token, page, got, pages, want]; `want` is history
  retained,      \* the sequence numbers of the records a source has
  high,          \* the last sequence number given out (AUTOINCREMENT)
  reader         \* a client of the records: [snapshot, after, got, more, owed]; `owed` is history

pagedVars == <<generations, epoch, lister, retained, high, reader>>

NoToken == [epoch |-> 0, generation |-> 0, filter |-> AnyState]
NoList == [token |-> NoToken, page |-> 0, got |-> <<>>, pages |-> 0, want |-> <<>>]
NoFeed == [snapshot |-> -1, after |-> 0, got |-> <<>>, more |-> FALSE, owed |-> {}]

PagedInit ==
  /\ generations = <<>> /\ epoch = 1 /\ lister = NoList
  /\ retained = {} /\ high = 0 /\ reader = NoFeed

-----------------------------------------------------------------------------
(* The joint store. *)

\* A revision of a case is published: the next generation.
PublishRevision(c, s) ==
  /\ Len(generations) < MaxGenerations
  /\ generations' = Append(generations, [case |-> c, state |-> s])
  /\ UNCHANGED <<epoch, lister, retained, high, reader>>

\* The store is replaced by a copy of an earlier state of it, under a new epoch.
RestoreStore ==
  /\ epoch <= MaxEpochs
  /\ \E g \in 0 .. Len(generations) : generations' = SubSeq(generations, 1, g)
  /\ epoch' = epoch + 1
  /\ UNCHANGED <<lister, retained, high, reader>>

\* ORDER BY: the numbers of a set, least first and greatest first; the k-th is
\* the one with k of them on its side.
Ascending(S) == [k \in 1 .. Cardinality(S) |-> CHOOSE s \in S : Cardinality({t \in S : t <= s}) = k]
Descending(S) == [k \in 1 .. Cardinality(S) |-> CHOOSE s \in S : Cardinality({t \in S : t >= s}) = k]

\* The generation each case has at the token's, if it passes the filter.
Selected(gs, token) ==
  {g \in 1 .. token.generation :
     /\ \A h \in g + 1 .. token.generation : gs[h].case # gs[g].case
     /\ token.filter \in {AnyState, gs[g].state}}

\* ORDER BY publish_generation DESC.
Listing(gs, token) == Descending(Selected(gs, token))

\* LIMIT and OFFSET.
UpTo(seq, n) == SubSeq(seq, 1, Min({n, Len(seq)}))
PageOf(listing, page) == SubSeq(listing, (page - 1) * PageRows + 1, Min({page * PageRows, Len(listing)}))
PagesOf(listing) == Max({1, (Len(listing) + PageRows - 1) \div PageRows})

ListItem(g) == [generation |-> g, row |-> generations[g]]
ListItems(token, page) ==
  LET numbers == PageOf(Listing(generations, token), page)
  IN [i \in 1 .. Len(numbers) |-> ListItem(numbers[i])]

\* list_cases without a token: one is made for the last generation.
FirstPage(filter) ==
  /\ lister.page = 0
  /\ LET token == [epoch |-> epoch, generation |-> Len(generations), filter |-> filter]
         listing == Listing(generations, token)
     IN lister' = [token |-> token, page |-> 1, got |-> ListItems(token, 1), pages |-> PagesOf(listing),
                   want |-> [i \in 1 .. Len(listing) |-> ListItem(listing[i])]]
  /\ UNCHANGED <<generations, epoch, retained, high, reader>>

(* Mutant of Honoured: the token of another epoch is taken. *)
HonouredAnyEpoch(token) == token.generation <= Len(generations)
\* _snapshot: the token is of this store as it now is, and not ahead of it.
Honoured(token) == token.epoch = epoch /\ token.generation <= Len(generations)

\* The next page with the token, or joint_refresh_required: the client begins again.
FollowingPage ==
  /\ lister.page \in 1 .. lister.pages - 1
  /\ lister' = IF Honoured(lister.token)
               THEN [lister EXCEPT !.page = @ + 1, !.got = @ \o ListItems(lister.token, lister.page + 1),
                                   !.pages = PagesOf(Listing(generations, lister.token))]
               ELSE NoList
  /\ UNCHANGED <<generations, epoch, retained, high, reader>>

\* A client that has read every page may begin again.
BeginAgain ==
  /\ lister.page > 0 /\ lister.page = lister.pages
  /\ lister' = NoList
  /\ UNCHANGED <<generations, epoch, retained, high, reader>>

-----------------------------------------------------------------------------
(* The records of a source. *)

ReceiveRow ==
  /\ high < MaxRows
  /\ high' = high + 1 /\ retained' = retained \cup {high + 1}
  /\ UNCHANGED <<generations, epoch, lister, reader>>

\* Retention takes the oldest records; a client can rely on none of them.
ExpireRows ==
  /\ retained # {}
  /\ LET gone == Min(retained) IN
     /\ retained' = retained \ {gone}
     /\ reader' = [reader EXCEPT !.owed = @ \ {gone}]
  /\ UNCHANGED <<generations, epoch, lister, high>>

\* seq <= snapshot.
Upto(snapshot) == {s \in retained : s <= snapshot}

\* page: seq > after, at most a page and one more to know whether there is more.
FeedPage(r) ==
  LET rows == Ascending({s \in Upto(r.snapshot) : s > r.after})
      items == UpTo(rows, PageRows)
  IN [r EXCEPT !.got = @ \o items,
               !.after = IF items = <<>> THEN @ ELSE Last(items),
               !.more = Len(rows) > PageRows]

\* The first page, whose snapshot is max(seq) of the source.
OpenFeed ==
  /\ reader.snapshot = -1
  /\ reader' = FeedPage([NoFeed EXCEPT !.snapshot = Max(retained \cup {0}), !.owed = retained])
  /\ UNCHANGED <<generations, epoch, lister, retained, high>>

NextFeedPage ==
  /\ reader.more
  /\ reader' = FeedPage(reader)
  /\ UNCHANGED <<generations, epoch, lister, retained, high>>

CloseFeed ==
  /\ reader.snapshot # -1 /\ ~reader.more
  /\ reader' = NoFeed
  /\ UNCHANGED <<generations, epoch, lister, retained, high>>

ListStep ==
  \/ \E c \in ListedCases, s \in CaseStates : PublishRevision(c, s)
  \/ \E f \in CaseStates \cup {AnyState} : FirstPage(f)
  \/ RestoreStore \/ FollowingPage \/ BeginAgain
FeedStep == ReceiveRow \/ ExpireRows \/ OpenFeed \/ NextFeedPage \/ CloseFeed
PagedNext == ListStep \/ FeedStep
PagedSpec == PagedInit /\ [][PagedNext]_pagedVars

-----------------------------------------------------------------------------
(* Properties. *)

\* The pages a client was given under one token are, put together, the list as
\* it stood when the token was made, each case once and at its latest revision
\* then, whatever was published or restored between two pages
\* (joint_case_query.py:229-247, :266-283); and keyset pages give every record
\* that retention left alone, in order and once (network_store.py:434-446).
PagesMakeOneList ==
  /\ lister.page > 0 => lister.got = UpTo(lister.want, lister.page * PageRows)
  /\ \A i, j \in 1 .. Len(lister.got) : i # j => lister.got[i].row.case # lister.got[j].row.case
  /\ lister.page > 0 /\ lister.page = lister.pages => lister.got = lister.want
  /\ \A i, j \in 1 .. Len(reader.got) : i < j => reader.got[i] < reader.got[j]
  /\ reader.snapshot # -1 /\ ~reader.more => reader.owed \subseteq ToSet(reader.got)
=============================================================================
