------------------------------ MODULE PollStore ------------------------------
(***************************************************************************)
(* The finished polls of managers/polls/finalized.go: the tables `results` *)
(* (written by the workers) and `manual` (written through the API), the    *)
(* requests of api/polls that change them, the pages GetPage cuts from     *)
(* them, the frontend's walk over these pages (fetchContent), and the rows *)
(* csv.ToCSV makes of a list of records.                                   *)
(*                                                                         *)
(* SQLite runs one statement at a time, and a request of two or more       *)
(* statements is not a transaction: `todo` holds what a handler has yet to *)
(* execute, and other handlers, the workers and a crash come in between.   *)
(*                                                                         *)
(* Two kinds of history are kept for the properties: for each request, the *)
(* polls others have contradicted it about (`clash`), and for the walk,    *)
(* how many polls left and joined the list while it was under way.         *)
(***************************************************************************)
EXTENDS Naturals, Sequences, FiniteSets

CONSTANTS Ids,          \* snowflakes; their order is that of ORDER BY id
          Titles,
          Filter,       \* titleFilter: a title without its commas
          Original,     \* the title Discord has for a poll
          Unrated,      \* polls of Discord whose answers are no ratings
          PageSize,
          Batches,      \* the sets of polls a request may name
          Handlers,     \* goroutines of the web server
          Stored,       \* the tables a start may find
          MaxWrites,    \* bound on requests and batches of the workers
          NoRow, NoTitle, NoRequest

Row == [title : Titles, override : Titles \cup {NoTitle}, active : BOOLEAN]

\* What a statement or a request sets for polls: the flag, the override, or
\* the row itself.
Kinds == {"active", "title", "row"}
To(do) == CASE do = "active" -> BOOLEAN
            [] do = "title" -> Titles \cup {NoTitle}
            [] do = "row" -> Row \cup {NoRow}
On(do) == UNION {[ids -> To(do)] : ids \in SUBSET Ids}
Requests == UNION {[do : {do}, on : On(do)] : do \in Kinds}

ASSUME StoreAssumption ==
  /\ Ids \subseteq Nat /\ IsFiniteSet(Ids)
  /\ Batches \subseteq SUBSET Ids
  /\ Filter \in [Titles -> Titles] /\ Original \in [Ids -> Titles]
  /\ PageSize \in Nat \ {0}
  /\ NoTitle \notin Titles /\ NoRow \notin Row /\ NoRequest \notin Requests
  /\ "worker" \notin Handlers /\ MaxWrites \in Nat
  /\ \A s \in Stored : /\ s.results \in [Ids -> Row \cup {NoRow}]
                       /\ s.manual \in [Ids -> Row \cup {NoRow}]

VARIABLES
  results, manual,      \* the two tables
  todo,                 \* the statements each handler has left
  asked,                \* what its request asks for
  answer,               \* "none", "ok" or "error"
  clash,                \* polls about which others contradicted it
  walk,                 \* the client's walk: "none", "on" or "done"
  page,                 \* the page it asks for next
  fetched,              \* how often it has seen each poll
  steady,               \* polls that were plain since the walk began
  lost, gained,         \* how many left and joined the list since
  writes

tables == <<results, manual>>
requestVars == <<todo, asked, answer, clash, writes>>
pageVars == <<walk, page, fetched>>
listVars == <<steady, lost, gained>>
vars == <<tables, requestVars, pageVars, listVars>>

-----------------------------------------------------------------------------
(***************************************************************************)
(* Reading: finalizedSources, GetFinalized                                 *)
(***************************************************************************)
\* COALESCE(title_override, title)
Title(row) == IF row.override = NoTitle THEN row.title ELSE row.override

\* Manual rows shadow a results row of the same id.
Shown(id) == IF manual[id] # NoRow THEN manual[id] ELSE results[id]

Listed(omitInactive) ==
  {id \in Ids : Shown(id) # NoRow /\ (omitInactive => Shown(id).active)}

\* Position of an id in a list ordered by id, from 0.
Offset(id, list) == Cardinality({j \in list : j < id})

GetFinalized(offset, limit, omitInactive) ==
  LET list == Listed(omitInactive)
  IN {id \in list : /\ Offset(id, list) >= offset
                    /\ limit > 0 => Offset(id, list) < offset + limit}

\* Mutant of PageRecords: exactly a page is asked for.
PageRecordsOnly(p) == GetFinalized(PageSize * (p - 1), PageSize, FALSE)

\* One row more than a page holds, to see whether another page follows.
PageRecords(p) == GetFinalized(PageSize * (p - 1), PageSize + 1, FALSE)

\* The records of a page, and the page after it or 0.
PageOf(p) == {id \in PageRecords(p) : Offset(id, PageRecords(p)) < PageSize}
NextPage(p) == IF Cardinality(PageRecords(p)) > PageSize THEN p + 1 ELSE 0
-----------------------------------------------------------------------------
(***************************************************************************)
(* ToCSV.  Votes are kept under the filtered title, so a later record of   *)
(* the same title replaces them, and one that is no rating removes them.   *)
(* A row is a poll and the poll whose votes its columns show.              *)
(***************************************************************************)
\* Manual polls are written with the vocabulary of ratings.
IsRating(id) == manual[id] # NoRow \/ id \notin Unrated

\* Mutant of MapKey: votes are kept under the title as it is.
MapKeyRaw(id) == Title(Shown(id))

MapKey(id) == Filter[Title(Shown(id))]
PairTitle(id) == Filter[Title(Shown(id))]

ToCSV(recs) ==
  {row \in recs \X recs :
     LET id == row[1]  from == row[2]
     IN /\ MapKey(from) = PairTitle(id) /\ IsRating(from)
        /\ \A later \in recs : MapKey(later) = PairTitle(id) => later <= from}

\* A page is sent as the CSV of its records: the polls the client gets a row of.
PageRows(p) ==
  {id \in PageOf(p) : \E from \in PageOf(p) : <<id, from>> \in ToCSV(PageOf(p))}

\* Read by the history of the walk only: the polls that have a row on whatever
\* page they come, since no poll of their filtered title is unrated.
Plain ==
  {id \in Listed(FALSE) : \A j \in Listed(FALSE) :
     Filter[Title(Shown(j))] = Filter[Title(Shown(id))] => IsRating(j)}
-----------------------------------------------------------------------------
(***************************************************************************)
(* Writing.  A statement sets, for the polls in the domain of `on`, the    *)
(* active flag or the override of rows that exist, or the row itself       *)
(* (NoRow to delete it).                                                   *)
(***************************************************************************)
Statement(table, do, on) == [table |-> table, do |-> do, on |-> on]

Update(row, do, to) ==
  CASE do = "row" -> to
    [] do # "row" /\ row = NoRow -> NoRow
    [] do = "active" /\ row # NoRow -> [row EXCEPT !.active = to]
    [] do = "title" /\ row # NoRow -> [row EXCEPT !.override = to]

Apply(table, st) ==
  [id \in Ids |-> IF id \in DOMAIN st.on THEN Update(table[id], st.do, st.on[id])
                                         ELSE table[id]]

\* The polls for which statement st makes what request a asks for moot.
Contradicted(a, st) ==
  {id \in DOMAIN a.on \cap DOMAIN st.on :
     IF a.do = "row" /\ a.on[id] # NoRow
       THEN st.table = "manual"
       ELSE \/ st.do = "row" /\ st.on[id] # NoRow
            \/ st.do = a.do /\ st.on[id] # a.on[id]}

\* A statement of `who` is executed.
Execute(who, st) ==
  /\ IF st.table = "manual"
       THEN manual' = Apply(manual, st) /\ UNCHANGED results
       ELSE results' = Apply(results, st) /\ UNCHANGED manual
  /\ clash' = [h \in Handlers |->
                 IF h = who \/ asked[h] = NoRequest THEN clash[h]
                 ELSE clash[h] \cup Contradicted(asked[h], st)]
  /\ IF walk = "on"
       THEN /\ steady' = steady \cap Plain'
            /\ lost' = lost + Cardinality(Listed(FALSE) \ Listed(FALSE)')
            /\ gained' = gained + Cardinality(Listed(FALSE)' \ Listed(FALSE))
       ELSE UNCHANGED listVars
  /\ UNCHANGED pageVars

\* A worker's batch: REPLACE INTO results.
Insert(ids) ==
  /\ writes < MaxWrites
  /\ writes' = writes + 1
  /\ Execute("worker", Statement("results", "row",
       [id \in ids |-> [title |-> Original[id], override |-> NoTitle, active |-> TRUE]]))
  /\ UNCHANGED <<todo, asked, answer>>
-----------------------------------------------------------------------------
(***************************************************************************)
(* The requests of api/polls                                               *)
(***************************************************************************)
\* A request was read and is valid: what it asks for, and its statements.
\* One that is refused has changed nothing.
Begin(h, do, on, statements) ==
  /\ todo[h] = <<>>
  /\ writes < MaxWrites
  /\ writes' = writes + 1
  /\ asked' = [asked EXCEPT ![h] = [do |-> do, on |-> on]]
  /\ todo' = [todo EXCEPT ![h] = statements]
  /\ answer' = [answer EXCEPT ![h] = "none"]
  /\ clash' = [clash EXCEPT ![h] = {}]
  /\ UNCHANGED <<tables, pageVars, listVars>>

\* Mutant of SetActiveIn: one table is enough.
SetActiveResults(flag, ids) ==
  IF ids = {} THEN <<>>
  ELSE <<Statement("results", "active", [id \in ids |-> flag])>>

\* PollManager.SetActive: an id may live in either table.
SetActiveIn(flag, ids) ==
  LET on == [id \in ids |-> flag]
  IN IF ids = {} THEN <<>>
     ELSE <<Statement("manual", "active", on), Statement("results", "active", on)>>

SetActive(h, inactive, active) ==
  /\ inactive \cup active # {}
  /\ Begin(h, "active", [id \in inactive \cup active |-> id \in active],
           SetActiveIn(FALSE, inactive) \o SetActiveIn(TRUE, active))

\* An empty title is stored as NULL.
SetTitleOverride(overrides) ==
  <<Statement("manual", "title", overrides), Statement("results", "title", overrides)>>

SetTitle(h, overrides) == Begin(h, "title", overrides, SetTitleOverride(overrides))

\* Mutant of Drop: the manual rows first.
DropManualFirst(ids) ==
  LET on == [id \in ids |-> NoRow]
  IN <<Statement("manual", "row", on), Statement("results", "row", on)>>

\* PollManager.Drop: the two DELETEs of one Exec, one after the other.
Drop(ids) ==
  LET on == [id \in ids |-> NoRow]
  IN <<Statement("results", "row", on), Statement("manual", "row", on)>>

DropPolls(h, ids) == Begin(h, "row", [id \in ids |-> NoRow], Drop(ids))

\* The rows of InsertManual: the title is its own override.
ManualRows(titles) ==
  [id \in DOMAIN titles |-> [title |-> titles[id], override |-> titles[id], active |-> TRUE]]

\* A batch that names a poll twice is refused: what is left is a function.
AddPolls(h, titles) ==
  Begin(h, "row", ManualRows(titles), <<Statement("manual", "row", ManualRows(titles))>>)

\* The next statement of a request, which is answered after the last one.
Exec(h) ==
  /\ todo[h] # <<>>
  /\ todo' = [todo EXCEPT ![h] = Tail(@)]
  /\ answer' = [answer EXCEPT ![h] = IF Len(todo[h]) = 1 THEN "ok" ELSE "none"]
  /\ Execute(h, Head(todo[h]))
  /\ UNCHANGED <<asked, writes>>

\* A statement fails: the rest is not tried, what was done stays done.
ExecFails(h) ==
  /\ todo[h] # <<>>
  /\ todo' = [todo EXCEPT ![h] = <<>>]
  /\ answer' = [answer EXCEPT ![h] = "error"]
  /\ UNCHANGED <<tables, asked, clash, writes, pageVars, listVars>>

\* The process ends and starts again: requests get no answer, tables stay.
Crash ==
  /\ todo' = [h \in Handlers |-> <<>>]
  /\ asked' = [h \in Handlers |-> NoRequest]
  /\ answer' = [h \in Handlers |-> "none"]
  /\ clash' = [h \in Handlers |-> {}]
  /\ UNCHANGED <<tables, writes, pageVars, listVars>>
-----------------------------------------------------------------------------
(***************************************************************************)
(* fetchContent: page after page, inactive polls included                  *)
(***************************************************************************)
StartWalk ==
  /\ walk = "none"
  /\ walk' = "on" /\ page' = 1
  /\ fetched' = [id \in Ids |-> 0]
  /\ steady' = Plain /\ lost' = 0 /\ gained' = 0
  /\ UNCHANGED <<tables, requestVars>>

FetchPage ==
  /\ walk = "on"
  /\ fetched' = [id \in Ids |-> fetched[id] + IF id \in PageRows(page) THEN 1 ELSE 0]
  /\ page' = NextPage(page)
  /\ walk' = IF NextPage(page) = 0 THEN "done" ELSE "on"
  /\ UNCHANGED <<tables, requestVars, listVars>>

\* An answer that is no page: the walk is given up, and begins afresh.
FetchFails ==
  /\ walk # "none"
  /\ walk' = "none" /\ page' = 0
  /\ fetched' = [id \in Ids |-> 0]
  /\ steady' = {} /\ lost' = 0 /\ gained' = 0
  /\ UNCHANGED <<tables, requestVars>>
-----------------------------------------------------------------------------
Init ==
  /\ \E s \in Stored : results = s.results /\ manual = s.manual
  /\ todo = [h \in Handlers |-> <<>>]
  /\ asked = [h \in Handlers |-> NoRequest]
  /\ answer = [h \in Handlers |-> "none"]
  /\ clash = [h \in Handlers |-> {}]
  /\ walk = "none" /\ page = 0
  /\ fetched = [id \in Ids |-> 0]
  /\ steady = {} /\ lost = 0 /\ gained = 0
  /\ writes = 0

Request(h) ==
  \/ \E inactive, active \in Batches \cup {{}} : SetActive(h, inactive, active)
  \/ \E ids \in Batches : \E overrides \in [ids -> Titles \cup {NoTitle}] : SetTitle(h, overrides)
  \/ \E ids \in Batches : DropPolls(h, ids)
  \/ \E ids \in Batches : \E titles \in [ids -> Titles] : AddPolls(h, titles)

Next ==
  \/ \E h \in Handlers : Request(h) \/ Exec(h) \/ ExecFails(h)
  \/ \E ids \in Batches : Insert(ids)
  \/ Crash
  \/ StartWalk \/ FetchPage \/ FetchFails

Spec == Init /\ [][Next]_vars
-----------------------------------------------------------------------------
(***************************************************************************)
(* Properties                                                              *)
(***************************************************************************)
Table == [Ids -> Row \cup {NoRow}]

Statements ==
  UNION {[table : {"manual", "results"}, do : {do}, on : On(do)] : do \in Kinds}

TypeOK ==
  /\ results \in Table /\ manual \in Table
  /\ asked \in [Handlers -> Requests \cup {NoRequest}]
  /\ todo \in [Handlers -> Seq(Statements)]
  /\ answer \in [Handlers -> {"none", "ok", "error"}]
  /\ clash \in [Handlers -> SUBSET Ids]
  /\ \A h \in Handlers : /\ asked[h] = NoRequest => todo[h] = <<>> /\ answer[h] = "none"
                         /\ todo[h] # <<>> => answer[h] = "none"
  /\ walk \in {"none", "on", "done"} /\ page \in Nat
  /\ fetched \in [Ids -> Nat]
  /\ steady \subseteq Ids /\ lost \in Nat /\ gained \in Nat
  /\ writes \in 0 .. MaxWrites

\* What a request asks of a poll, as a reader of the store would see it.
Holds(a, id) ==
  CASE a.do = "row" -> Shown(id) = a.on[id]
    [] a.do = "active" -> Shown(id) # NoRow => Shown(id).active = a.on[id]
    [] a.do = "title" -> Shown(id) # NoRow =>
         Title(Shown(id)) = IF a.on[id] = NoTitle THEN Shown(id).title ELSE a.on[id]

\* A request that was answered without error holds for readers, and goes on
\* to hold whatever is done to other polls, to the poll's other column or to
\* its manual row, until another request or a worker contradicts it: an id
\* may live in either table or in both, and which copy readers see can change
\* while the request is between its statements.
RequestTakes ==
  \A h \in Handlers : answer[h] = "ok" =>
    \A id \in DOMAIN asked[h].on \ clash[h] : Holds(asked[h], id)

\* A poll that is dropped disappears: deleting its manual row never uncovers
\* the results row below it, unless a worker wrote that one since the request that
\* executes the deletion began.
DropUncoversNothing ==
  [][\A id \in Ids : manual[id] # NoRow /\ manual'[id] = NoRow =>
       results[id] = NoRow \/ \E h \in Handlers : todo'[h] # todo[h] /\ id \in clash[h]]_vars

\* A walk over the pages while polls come and go: of the ratings that were
\* there throughout it misses no more than polls left the list meanwhile, and it
\* repeats no more than joined it.  Only the ratings that shared their filtered
\* title with no unrated poll: the CSV of a page leaves the others out, or may.
WalkFaithful ==
  walk = "done" =>
    /\ Cardinality({id \in steady : fetched[id] = 0}) <= lost
    /\ Cardinality({id \in Ids : fetched[id] > 1}) <= gained

\* In an export a poll whose title no other poll shares has a row with its
\* own votes if it is a rating, whatever commas its title has, and none if it
\* is not.
RowsAreTheirPolls ==
  LET recs == GetFinalized(0, 0, TRUE)
  IN \A id \in recs :
       (\A j \in recs \ {id} : Filter[Title(Shown(j))] # Filter[Title(Shown(id))]) =>
         \A from \in recs : <<id, from>> \in ToCSV(recs) <=> from = id /\ IsRating(id)
=============================================================================
