------------------------------ MODULE Pagination ------------------------------
(***************************************************************************)
(* GET /orders: a client follows OrdersService.listOrders from cursor to   *)
(* cursor while orders are placed and decided.  All orders are of one      *)
(* tenant.  An order is named by its uuid, of which only the order         *)
(* matters, and that has nothing to do with when the order was created.    *)
(*                                                                         *)
(* created_at is a DATETIME(6), so time is counted in microseconds; a Date *)
(* of JavaScript, and with it the cursor, has milliseconds.                *)
(***************************************************************************)
EXTENDS Integers, FiniteSetsExt

CONSTANTS
  Ids,
  PerMs,     \* microseconds in a millisecond: 1000
  Limit,     \* the page size asked for
  Filter,    \* the status asked for, or AnyStatus
  AnyStatus,
  From, To,  \* the bounds asked for; one not given is beyond every order
  NoCursor,
  Horizon    \* the last instant of the clock

ASSUME IdsAssumption == Ids \subseteq Int /\ IsFiniteSet(Ids)
ASSUME PerMsAssumption == PerMs \in Nat \ {0}
ASSUME QueryAssumption == Limit \in 1..100 /\ From \in Int /\ To \in Int
ASSUME CursorAssumption == NoCursor \notin [at : Int, id : Ids]
ASSUME HorizonAssumption == Horizon \in Nat

VARIABLES
  now,
  row,       \* row[i] = [at, status]
  cursor,    \* next_cursor of the last page
  page,      \* the rows of the last page
  shown,     \* the rows of the pages before
  wanted,    \* the rows that were there when the first page was asked for
  listing    \* "new", "open" while next_cursor is not null, then "closed"

vars == <<now, row, cursor, page, shown, wanted, listing>>

listVars == <<cursor, page, shown, wanted, listing>>

(* "SAVING" is a row whose INSERT has been executed and is not committed.  *)
Visible == {"PENDING", "CONFIRMED", "REJECTED"}

Row == [at : Int, status : Visible \cup {"ABSENT", "SAVING"}]

-----------------------------------------------------------------------------
(* Mutant of Before: ordered by id alone.                                  *)
BeforeById(i, j) == i > j

(* created_at DESC, id DESC.                                               *)
Before(i, j) ==
  \/ row[i].at > row[j].at
  \/ row[i].at = row[j].at /\ i > j

(* A Date drops what is below a millisecond.                               *)
ToDate(at) == at - (at % PerMs)

(* encodeCursor.                                                           *)
CursorOf(i) == [at |-> ToDate(row[i].at), id |-> i]

(* Mutants of Beyond: the cursor's own row is included; so is all of its   *)
(* millisecond.                                                            *)
BeyondInclusive(i, c) ==
  \/ c = NoCursor
  \/ row[i].at < c.at
  \/ row[i].at = c.at /\ i <= c.id

BeyondTime(i, c) == c = NoCursor \/ row[i].at < c.at + PerMs

(* The condition that decodeCursor and the WHERE clause make of a cursor.  *)
Beyond(i, c) ==
  \/ c = NoCursor
  \/ row[i].at < c.at
  \/ row[i].at = c.at /\ i < c.id

Matches(i) ==
  /\ row[i].status \in Visible
  /\ Filter # AnyStatus => row[i].status = Filter
  /\ From <= row[i].at /\ row[i].at < To

Candidates == {i \in Ids : Matches(i) /\ Beyond(i, cursor)}

(* Mutant of HasMore: LIMIT counts one row too many.                       *)
HasMoreLater == Cardinality(Candidates) > Limit + 1

(* One row more than the limit is fetched to see whether there are more.   *)
HasMore == Cardinality(Candidates) > Limit

(* The first rows of the candidates, no more than the limit.               *)
IsPage(rows) ==
  /\ Cardinality(rows) = (IF HasMore THEN Limit ELSE Cardinality(Candidates))
  /\ \A i \in rows, j \in Candidates \ rows : Before(i, j)

IsLast(i, rows) == i \in rows /\ \A j \in rows \ {i} : Before(j, i)

-----------------------------------------------------------------------------
(* listOrders.                                                             *)
ListOrders ==
  /\ listing # "closed"
  /\ wanted' = IF listing = "new" THEN {i \in Ids : Matches(i)} ELSE wanted
  /\ shown' = shown \cup page
  /\ \E rows \in SUBSET Candidates :
       /\ IsPage(rows)
       /\ page' = rows
       /\ \/ /\ HasMore
             /\ \E i \in rows : IsLast(i, rows) /\ cursor' = CursorOf(i)
             /\ listing' = "open"
          \/ /\ ~HasMore
             /\ cursor' = NoCursor
             /\ listing' = "closed"
  /\ UNCHANGED <<now, row>>

(* placeOrder saves an order: created_at is the time of the INSERT, and    *)
(* the row shows once save has committed.                                  *)
Save(i) ==
  /\ row[i].status = "ABSENT"
  /\ row' = [row EXCEPT ![i] = [at |-> now, status |-> "SAVING"]]
  /\ UNCHANGED <<now, listVars>>

CommitSave(i) ==
  /\ row[i].status = "SAVING"
  /\ row' = [row EXCEPT ![i].status = "PENDING"]
  /\ UNCHANGED <<now, listVars>>

(* A worker decides it.                                                    *)
Decide(i) ==
  /\ row[i].status = "PENDING"
  /\ \E s \in {"CONFIRMED", "REJECTED"} : row' = [row EXCEPT ![i].status = s]
  /\ UNCHANGED <<now, listVars>>

Tick ==
  /\ now < Horizon
  /\ now' = now + 1
  /\ UNCHANGED <<row, listVars>>

Init ==
  /\ now = 0
  /\ row = [i \in Ids |-> [at |-> 0, status |-> "ABSENT"]]
  /\ cursor = NoCursor
  /\ page = {}
  /\ shown = {}
  /\ wanted = {}
  /\ listing = "new"

Next ==
  \/ ListOrders
  \/ \E i \in Ids : Save(i) \/ CommitSave(i) \/ Decide(i)
  \/ Tick

Spec == Init /\ [][Next]_vars

(* The client goes on to ask for the next page.                            *)
FairSpec == Spec /\ WF_vars(ListOrders)

-----------------------------------------------------------------------------
TypeOK ==
  /\ now \in 0..Horizon
  /\ row \in [Ids -> Row]
  /\ cursor \in [at : Int, id : Ids] \cup {NoCursor}
  /\ page \subseteq Ids /\ Cardinality(page) <= Limit
  /\ shown \subseteq Ids
  /\ wanted \subseteq Ids
  /\ listing \in {"new", "open", "closed"}

(* Every page continues where the pages before it ended, so no order is    *)
(* listed twice, whatever is inserted and decided between two pages.       *)
PagesDescend == \A i \in shown, j \in page : Before(i, j)

(* An order that was there when the listing began, and matches it still,   *)
(* is listed or else shares its millisecond with a listed one before it.   *)
Listed == shown \cup page

SkipsOnlyWithinAMillisecond ==
  listing = "closed" =>
    \A i \in wanted \ Listed :
      Matches(i) => \E j \in Listed : /\ Before(j, i)
                                      /\ ToDate(row[j].at) = ToDate(row[i].at)

(* The listing is complete: such an order is always listed.                *)
NothingSkipped ==
  listing = "closed" => \A i \in wanted : Matches(i) => i \in Listed

(* A client that follows the cursors comes to an end.                      *)
ListingEnds == <>(listing = "closed")
=============================================================================
