------------------------------ MODULE Listings ------------------------------
(***************************************************************************)
(* The lists that backend-api serves page by page, and a client that pages *)
(* through one of them by limit and offset until a short page, while other *)
(* requests insert rows, hide and restore them, like posts and admit the   *)
(* client's user to organizations.                                         *)
(*                                                                         *)
(* A list holds one table's rows in the order of creation.  Conditions the *)
(* database evaluates come before the order, limit and offset; visibility  *)
(* of RFPs and tags of solutions are decided afterwards, on a capped fetch.*)
(***************************************************************************)
EXTENDS Integers, Sequences, FiniteSets, SequencesExt

CONSTANTS
  Lists,          \* the lists under study
  Organizations,
  Cap,            \* the two fetch caps, 1000 both
  Limit,          \* the rows of a page
  FirstRows,      \* bound of the rows there are at first
  MaxRows,        \* bound of the rows
  MaxChanges      \* bound of the changes while the client reads

ASSUME ListingsAssumption ==
  /\ Lists \subseteq {"problems", "rfps", "solutions", "new", "top", "comments"}
  /\ Cap \in Nat \ {0} /\ Limit \in Nat \ {0}
  /\ FirstRows \in Nat /\ MaxRows \in Nat /\ MaxChanges \in Nat

VARIABLES
  list,         \* which list the client reads
  caller,       \* "user" or "anonymous", who sends no token or an invalid one
  rows,         \* the rows of its table, oldest first
  memberships,  \* how many membership rows the caller has in each organization
  reader,       \* how far the client is and what it was shown
  lasting,      \* history: the rows listed since the first page was read
  changes       \* history: what happened to the table and the memberships since

vars == <<list, caller, rows, memberships, reader, lasting, changes>>

Feed == {"new", "top", "comments"}

\* A row as it is inserted: matches says whether a problem satisfies the filters
\* of the request, or a solution has its tag.
Insertable ==
  IF list = "rfps"
  THEN [organization_id : Organizations, visibility : {"public", "invite_only"}]
  ELSE IF list \in Feed THEN [hidden : {FALSE}, likes : {0}] ELSE [matches : BOOLEAN]

----------------------------------------------------------------------------
(* Reading *)

\* The orders of the queries, as the pairs of a row and one after it.
Newest == {p \in (DOMAIN rows) \X (DOMAIN rows) : p[1] > p[2]}
Oldest == {p \in (DOMAIN rows) \X (DOMAIN rows) : p[1] < p[2]}
MostLiked ==
  {p \in (DOMAIN rows) \X (DOMAIN rows) :
    \/ rows[p[1]].likes > rows[p[2]].likes
    \/ rows[p[1]].likes = rows[p[2]].likes /\ p[1] > p[2]}

\* The place of row i among the rows I, from 1, and the rows by their places.
Place(I, before, i) == Cardinality({j \in I : <<j, i>> \in before}) + 1
InOrder(I, before) == [k \in 1 .. Cardinality(I) |-> CHOOSE i \in I : Place(I, before, i) = k]

Smaller(m, n) == IF m < n THEN m ELSE n

\* A slice from the row before the one asked for.
BadSlice(seq, offset) ==
  SubSeq(seq, IF offset = 0 THEN 1 ELSE offset, Smaller(offset + Limit, Len(seq)))
Slice(seq, offset) == SubSeq(seq, offset + 1, Smaller(offset + Limit, Len(seq)))

SearchProblems(offset) ==
  Slice(InOrder({i \in DOMAIN rows : rows[i].matches}, Newest), offset)

\* The newest solutions or RFPs, of whatever tags or visibility.
Fetched == {i \in DOMAIN rows : i > Len(rows) - Cap}

SearchSolutions(offset) == Slice(InOrder({i \in Fetched : rows[i].matches}, Newest), offset)

ListPosts(offset) ==
  Slice(InOrder({i \in DOMAIN rows : ~rows[i].hidden}, IF list = "top" THEN MostLiked ELSE Newest),
        offset)

ListComments(offset) == Slice(InOrder({i \in DOMAIN rows : ~rows[i].hidden}, Oldest), offset)

\* get_membership fails for a user with two membership rows.
LookupFails(i) ==
  /\ rows[i].visibility = "invite_only"
  /\ caller # "anonymous"
  /\ memberships[rows[i].organization_id] > 1

\* Any user who is logged in is let in.
BadListed(i) == rows[i].visibility # "invite_only" \/ caller # "anonymous"
Listed(i) ==
  \/ rows[i].visibility # "invite_only"
  \/ caller # "anonymous" /\ memberships[rows[i].organization_id] = 1

\* The page is cut before the visibility filter, in the database.
BadSearchRfps(offset) == SelectSeq(Slice(InOrder(Fetched, Newest), offset), Listed)
SearchRfps(offset) == Slice(InOrder({i \in Fetched : Listed(i)}, Newest), offset)

\* One RFP out of reach of get_membership fails the whole search.
SearchFails == list = "rfps" /\ \E i \in Fetched : LookupFails(i)

Page(offset) ==
  CASE list = "problems"       -> SearchProblems(offset)
    [] list = "solutions"      -> SearchSolutions(offset)
    [] list = "rfps"           -> SearchRfps(offset)
    [] list = "comments"       -> ListComments(offset)
    [] list \in {"new", "top"} -> ListPosts(offset)

\* rfp_visible_to_caller, behind GET of one RFP, of its requirements, its
\* attribute matches and its matches.
VisibleToCaller(i) ==
  \/ rows[i].visibility # "invite_only"
  \/ caller # "anonymous" /\ memberships[rows[i].organization_id] > 0

GetRfp(i) ==
  IF LookupFails(i) THEN "error" ELSE IF VisibleToCaller(i) THEN "found" ELSE "not_found"

\* Every row that some page could show now.
Showable ==
  {i \in DOMAIN rows :
    IF list = "rfps" THEN VisibleToCaller(i)
    ELSE IF list \in Feed THEN ~rows[i].hidden ELSE rows[i].matches}

----------------------------------------------------------------------------

NoChange == [inserted |-> 0, revealed |-> 0, hidden |-> 0, restored |-> 0, likes |-> 0]

Init ==
  /\ list \in Lists
  /\ caller \in IF list = "rfps" THEN {"user", "anonymous"} ELSE {"user"}
  /\ rows \in UNION {[1 .. n ->
               IF list \in Feed THEN [hidden : BOOLEAN, likes : 0 .. 1] ELSE Insertable] :
               n \in 0 .. FirstRows}
  /\ memberships \in [Organizations -> IF caller = "user" THEN 0 .. 1 ELSE {0}]
  /\ reader = [step |-> "reading", offset |-> 0, shown |-> <<>>]
  /\ lasting = {}
  /\ changes = NoChange

ReadPage ==
  /\ reader.step = "reading"
  /\ LET page == Page(reader.offset)
     IN  reader' = IF SearchFails THEN [reader EXCEPT !.step = "failed"]
                   ELSE [step |-> IF Len(page) < Limit THEN "done" ELSE "reading",
                         offset |-> reader.offset + Limit,
                         shown |-> reader.shown \o page]
  /\ lasting' = IF reader.offset = 0 THEN Showable ELSE lasting
  /\ UNCHANGED <<list, caller, rows, memberships, changes>>

\* Between two pages; what comes before the first is in Init.
Change(kind, n) ==
  /\ reader.step = "reading" /\ reader.offset > 0
  /\ FoldFunction(+, 0, changes) < MaxChanges
  /\ changes' = [changes EXCEPT ![kind] = @ + n]
  /\ UNCHANGED <<list, caller, reader>>

Insert ==
  /\ Len(rows) < MaxRows
  /\ \E row \in Insertable : rows' = Append(rows, row)
  /\ Change("inserted", 1)
  /\ UNCHANGED <<memberships, lasting>>

\* An admin adds the caller to an organization, or adds it again.
Admit(o) ==
  /\ list = "rfps" /\ caller = "user"
  /\ memberships[o] < 2
  /\ memberships' = [memberships EXCEPT ![o] = @ + 1]
  /\ Change("revealed", Cardinality({i \in DOMAIN rows : /\ rows[i].visibility = "invite_only"
                                                         /\ rows[i].organization_id = o}))
  /\ UNCHANGED <<rows, lasting>>

SetHidden(i, hidden) ==
  /\ list \in Feed
  /\ rows[i].hidden # hidden
  /\ rows' = [rows EXCEPT ![i].hidden = hidden]
  /\ lasting' = lasting \ {i}
  /\ Change(IF hidden THEN "hidden" ELSE "restored", 1)
  /\ UNCHANGED memberships

\* One user's like is set or taken back, which matters to the order "top" alone.
ToggleLike(i) ==
  /\ list = "top"
  /\ \E d \in {-1, 1} : /\ rows[i].likes + d >= 0
                        /\ rows' = [rows EXCEPT ![i].likes = @ + d]
  /\ Change("likes", 1)
  /\ UNCHANGED <<memberships, lasting>>

Next ==
  \/ ReadPage
  \/ Insert
  \/ \E o \in Organizations : Admit(o)
  \/ \E i \in DOMAIN rows : ToggleLike(i) \/ \E hidden \in BOOLEAN : SetHidden(i, hidden)

Spec == Init /\ [][Next]_vars

----------------------------------------------------------------------------
(* Properties *)

\* The rows within the fetch cap.
Reach == IF list \in {"rfps", "solutions"} THEN Fetched ELSE DOMAIN rows

\* A client that reads on to a short page misses one row at most for each row
\* hidden and, in the order of likes, each like set or taken back meanwhile; new
\* rows and new memberships make it miss none, and rows below the fetch cap are
\* the only others.
SkipsBounded ==
  reader.step = "done" =>
    Cardinality((lasting \cap Reach) \ ToSet(reader.shown)) <=
      changes.hidden + IF list = "top" THEN changes.likes ELSE 0

\* It sees a row again at most once for each row that was inserted, restored or
\* revealed by a membership and, in the order of likes, each like set or taken back.
RepeatsBounded ==
  Len(reader.shown) - Cardinality(ToSet(reader.shown)) <=
    changes.inserted + changes.restored + changes.revealed
      + IF list = "top" THEN changes.likes ELSE 0

\* The search and the other reads of an RFP decide alike: whatever RFP a search
\* showed its caller can open, unless its user was added to the organization again.
ShownIsReadable ==
  list = "rfps" =>
    \A i \in ToSet(reader.shown) :
      GetRfp(i) = "found" \/ memberships[rows[i].organization_id] > 1

=============================================================================
