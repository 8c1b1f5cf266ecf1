-------------------------- MODULE PaginationProofs --------------------------
(***************************************************************************)
(* Theorems about Pagination, for any table, page size, filter and clock.  *)
(***************************************************************************)
EXTENDS Pagination, FiniteSetTheorems, TLAPS

(* Truncating to a millisecond.                                            *)
LEMMA ToDateBelow == \A t \in Int : ToDate(t) \in Int /\ ToDate(t) <= t
BY PerMsAssumption DEF ToDate

LEMMA ToDateOfSameMs ==
  ASSUME NEW s \in Int, NEW t \in Int, ToDate(t) <= s, s <= t
  PROVE  ToDate(s) = ToDate(t)
<1> DEFINE q == t \div PerMs
           r == s \div PerMs
<1>1. /\ q \in Int /\ t = PerMs * q + (t % PerMs) /\ t % PerMs \in 0..(PerMs - 1)
      /\ r \in Int /\ s = PerMs * r + (s % PerMs) /\ s % PerMs \in 0..(PerMs - 1)
  BY PerMsAssumption
<1>2. ToDate(t) = PerMs * q /\ ToDate(s) = PerMs * r
  BY <1>1, PerMsAssumption DEF ToDate
<1> HIDE DEF q, r
<1>3. ASSUME NEW a \in Int, NEW b \in Int, a < b
      PROVE  PerMs * a + PerMs <= PerMs * b
  <2>1. PICK k \in Nat : b = a + 1 + k
    <3>1. b - a - 1 \in Nat /\ b = a + 1 + (b - a - 1)
      BY <1>3
    <3> QED BY <3>1
  <2>2. PerMs * b = PerMs * a + PerMs + PerMs * k /\ PerMs * k \in Nat
    BY <2>1, PerMsAssumption
  <2> QED BY <2>2, PerMsAssumption
<1>4. ~(r < q)
  BY <1>1, <1>2, <1>3, PerMsAssumption
<1>5. ~(q < r)
  BY <1>1, <1>2, <1>3, PerMsAssumption
<1> QED BY <1>1, <1>2, <1>4, <1>5

-----------------------------------------------------------------------------
(* What every page keeps: listed rows are stored, the pages descend, and   *)
(* the cursor has passed every row that was listed.                        *)
Opened ==
  /\ listing = "new" => page = {} /\ shown = {} /\ wanted = {} /\ cursor = NoCursor
  /\ listing = "open" => cursor # NoCursor

Stored == \A i \in Listed : row[i].status \in Visible

Passed == listing = "open" => \A i \in Listed : ~Beyond(i, cursor)

PageInv == TypeOK /\ Opened /\ Stored /\ PagesDescend /\ Passed

LEMMA CandidatesFinite ==
  /\ IsFiniteSet(Candidates)
  /\ Cardinality(Candidates) \in Nat
  /\ \A S \in SUBSET Candidates :
       Cardinality(S) = Cardinality(Candidates) => S = Candidates
<1>1. IsFiniteSet(Candidates)
  BY IdsAssumption, FS_Subset DEF Candidates
<1> QED BY <1>1, FS_CardinalityType, FS_Subset

(* A page of the listing: where it ends and what it leaves to the next.    *)
LEMMA PageStep ==
  ASSUME PageInv, ListOrders
  PROVE  /\ listing # "closed" /\ row' = row /\ now' = now
         /\ shown' = Listed
         /\ page' \subseteq Candidates
         /\ Cardinality(page') <= Limit
         /\ \A i \in page', j \in Candidates \ page' : Before(i, j)
         /\ \/ /\ listing' = "open"
               /\ \E l \in page' : IsLast(l, page') /\ cursor' = CursorOf(l)
            \/ /\ listing' = "closed"
               /\ cursor' = NoCursor
               /\ page' = Candidates
<1>1. PICK rows \in SUBSET Candidates :
        /\ IsPage(rows)
        /\ page' = rows
        /\ \/ /\ HasMore
              /\ \E i \in rows : IsLast(i, rows) /\ cursor' = CursorOf(i)
              /\ listing' = "open"
           \/ /\ ~HasMore
              /\ cursor' = NoCursor
              /\ listing' = "closed"
  BY DEF ListOrders
<1>2. ~HasMore => rows = Candidates
  BY <1>1, CandidatesFinite DEF IsPage
<1>3. Cardinality(rows) <= Limit
  BY <1>1, CandidatesFinite, QueryAssumption DEF IsPage, HasMore
<1> QED BY <1>1, <1>2, <1>3 DEF ListOrders, IsPage, Listed

LEMMA PageInvInit == Init => PageInv
<1> SUFFICES ASSUME Init PROVE PageInv
  OBVIOUS
<1>1. TypeOK
  BY FS_EmptySet, HorizonAssumption, QueryAssumption DEF Init, TypeOK, Row
<1>2. Opened /\ Stored /\ PagesDescend /\ Passed
  BY DEF Init, Opened, Stored, PagesDescend, Passed, Listed
<1> QED BY <1>1, <1>2 DEF PageInv

(* The cursor of a row is a cursor.                                        *)
LEMMA CursorType ==
  ASSUME TypeOK, NEW i \in Ids
  PROVE  CursorOf(i) \in [at : Int, id : Ids]
<1>1. row[i].at \in Int
  BY DEF TypeOK, Row
<1> QED BY <1>1, ToDateBelow DEF CursorOf

LEMMA ListOrdersKeepsPageInv ==
  ASSUME PageInv, ListOrders
  PROVE  PageInv'
<1> USE PageStep DEF PageInv
<1>1. Candidates \subseteq Ids /\ Listed \subseteq Ids
  BY DEF Candidates, Listed, TypeOK
<1>2. \A i \in Ids : row[i].at \in Int /\ i \in Int
  BY IdsAssumption DEF TypeOK, Row
<1>3. TypeOK'
  <2>1. cursor' \in [at : Int, id : Ids] \cup {NoCursor}
    BY <1>1, CursorType
  <2>2. wanted' \subseteq Ids
    BY DEF ListOrders, TypeOK
  <2> QED BY <1>1, <2>1, <2>2 DEF TypeOK
<1>4. Opened'
  <2>1. listing' = "open" => cursor' \in [at : Int, id : Ids]
    BY <1>1, CursorType
  <2> QED BY <2>1, CursorAssumption DEF Opened
<1>5. Stored'
  <2>1. \A i \in Candidates : row[i].status \in Visible
    BY DEF Candidates, Matches
  <2> QED BY <2>1 DEF Stored, Listed
<1>6. PagesDescend'
  <2> SUFFICES ASSUME NEW i \in Listed, NEW j \in Candidates
               PROVE  Before(i, j)
    BY DEF PagesDescend, Before
  <2>1. listing = "open" /\ cursor \in [at : Int, id : Ids] /\ cursor # NoCursor
    BY DEF Opened, Listed, TypeOK
  <2>2. ~Beyond(i, cursor) /\ Beyond(j, cursor)
    BY <2>1 DEF Passed, Candidates
  <2>3. cursor.at \in Int /\ cursor.id \in Int
    BY <2>1, IdsAssumption
  <2> QED BY <1>1, <1>2, <2>1, <2>2, <2>3 DEF Beyond, Before
<1>7. Passed'
  <2> SUFFICES ASSUME listing' = "open", NEW i \in Listed' PROVE ~Beyond(i, cursor)'
    BY DEF Passed
  <2>1. PICK l \in page' : IsLast(l, page') /\ cursor' = CursorOf(l)
    OBVIOUS
  <2>2. i = l \/ Before(i, l)
    BY <1>6, <2>1 DEF PagesDescend, IsLast, Before, Listed
  <2>3. i \in Ids /\ l \in Ids
    BY <1>1 DEF Listed
  <2>4. cursor'.at = ToDate(row[l].at) /\ cursor'.id = l /\ cursor' # NoCursor
    BY <2>1, <2>3, CursorType, CursorAssumption DEF CursorOf
  <2>5. ToDate(row[l].at) \in Int /\ ToDate(row[l].at) <= row[l].at
    BY <1>2, <2>3, ToDateBelow
  <2>6. ~(row[i].at < cursor'.at \/ (row[i].at = cursor'.at /\ i < cursor'.id))
    BY <1>2, <2>2, <2>3, <2>4, <2>5 DEF Before
  <2> QED BY <2>4, <2>6 DEF Beyond
<1> QED BY <1>3, <1>4, <1>5, <1>6, <1>7

(* Any other step leaves the listing alone, and a visible row where it is. *)
LEMMA OtherStep ==
  ASSUME PageInv, [Next]_vars, ~ListOrders
  PROVE  /\ UNCHANGED listVars
         /\ row' \in [Ids -> Row] /\ now' \in 0..Horizon
         /\ \A i \in Ids :
              row[i].status \in Visible =>
                /\ row'[i].at = row[i].at
                /\ row'[i].status \in Visible
                /\ row'[i].status # row[i].status =>
                     row[i].status = "PENDING" /\ row'[i].status # "PENDING"
<1> USE DEF PageInv, TypeOK
<1>1. CASE \E i \in Ids : Save(i)
  BY <1>1, HorizonAssumption DEF Save, listVars, Row, Visible
<1>2. CASE \E i \in Ids : CommitSave(i)
  BY <1>2, HorizonAssumption DEF CommitSave, listVars, Row, Visible
<1>3. CASE \E i \in Ids : Decide(i)
  BY <1>3, HorizonAssumption DEF Decide, listVars, Row, Visible
<1>4. CASE Tick
  BY <1>4, HorizonAssumption DEF Tick, listVars
<1>5. CASE UNCHANGED vars
  BY <1>5 DEF vars, listVars
<1> QED BY <1>1, <1>2, <1>3, <1>4, <1>5 DEF Next

LEMMA PageInvStep == PageInv /\ [Next]_vars => PageInv'
<1> SUFFICES ASSUME PageInv, [Next]_vars PROVE PageInv'
  OBVIOUS
<1>1. CASE ListOrders
  BY <1>1, ListOrdersKeepsPageInv
<1>2. CASE ~ListOrders
  <2> USE <1>2, OtherStep DEF PageInv, listVars
  <2>1. TypeOK'
    BY DEF TypeOK
  <2>2. Listed' = Listed /\ Listed \subseteq Ids
    BY DEF Listed, TypeOK
  <2>3. Opened' /\ Stored'
    BY <2>2 DEF Opened, Stored
  <2>4. PagesDescend' /\ Passed'
    BY <2>2 DEF PagesDescend, Passed, Before, Beyond, Listed, Stored
  <2> QED BY <2>1, <2>3, <2>4
<1> QED BY <1>1, <1>2

LEMMA PageInvariant == Spec => []PageInv
BY PageInvInit, PageInvStep, PTL DEF Spec

(* A listing keeps its types: every page ends in a cursor that is an       *)
(* instant and an id, or in none.                                          *)
THEOREM PageTypes == Spec => []TypeOK
BY PageInvariant, PTL DEF PageInv

(* Following the cursors never lists an order twice or out of order,       *)
(* whatever is saved and decided between two pages: the condition that     *)
(* listOrders makes of a cursor excludes all that was listed, although the *)
(* cursor's time is truncated.                                             *)
THEOREM PagesAlwaysDescend == Spec => []PagesDescend
BY PageInvariant, PTL DEF PageInv

-----------------------------------------------------------------------------
(* A wanted row keeps matching or never matches again ...                  *)
Settled ==
  \A i \in wanted :
    /\ row[i].status \in Visible
    /\ row[i].status = "PENDING" => Matches(i)

(* ... and while it matches it is listed, still to come, or was skipped    *)
(* with a listed row of its millisecond.                                   *)
Hidden(i) ==
  \E j \in Listed : Before(j, i) /\ ToDate(row[j].at) = ToDate(row[i].at)

Covered ==
  \A i \in wanted \ Listed :
    Matches(i) => (listing = "open" /\ Beyond(i, cursor)) \/ Hidden(i)

SkipInv == PageInv /\ Settled /\ Covered

LEMMA SkipInvInit == Init => SkipInv
BY PageInvInit DEF SkipInv, Init, Settled, Covered

LEMMA ListOrdersKeepsSkipInv ==
  ASSUME SkipInv, ListOrders
  PROVE  Settled' /\ Covered'
<1> USE PageStep DEF SkipInv, PageInv
<1>1. Candidates \subseteq Ids /\ Listed \subseteq Ids /\ wanted' \subseteq Ids
  BY DEF Candidates, Listed, TypeOK, ListOrders
<1>2. \A i \in Ids : row[i].at \in Int /\ i \in Int
  BY IdsAssumption DEF TypeOK, Row
<1>3. \A i : Matches(i)' <=> Matches(i)
  BY DEF Matches
<1>4. Settled'
  BY <1>3 DEF Settled, ListOrders, Matches
<1>5. Covered'
  <2> SUFFICES ASSUME NEW i \in wanted' \ Listed', Matches(i)
               PROVE  (listing' = "open" /\ Beyond(i, cursor)') \/ Hidden(i)'
    BY <1>3 DEF Covered
  <2>1. i \in Candidates \/ Hidden(i)
    <3>1. CASE listing = "new"
      BY <1>1, <3>1 DEF Opened, Beyond, Candidates
    <3>2. CASE listing = "open"
      BY <1>1, <3>2 DEF Covered, Candidates, ListOrders, Listed
    <3> QED BY <3>1, <3>2 DEF TypeOK
  <2>2. CASE Hidden(i)
    BY <2>2 DEF Hidden, Listed, Before
  <2>3. CASE i \in Candidates
    <3>1. i \notin page' /\ listing' = "open"
      BY <2>3 DEF Listed
    <3>2. PICK l \in page' : IsLast(l, page') /\ cursor' = CursorOf(l)
      BY <3>1
    <3>3. Before(l, i) /\ i \in Ids /\ l \in Ids
      BY <1>1, <2>3, <3>1
    <3>4. ToDate(row[l].at) \in Int /\ ToDate(row[l].at) <= row[l].at
      BY <1>2, <3>3, ToDateBelow
    <3>5. CASE row[i].at < ToDate(row[l].at)
      BY <3>1, <3>2, <3>5 DEF Beyond, CursorOf
    <3>6. CASE ToDate(row[l].at) <= row[i].at
      <4>1. row[i].at <= row[l].at
        BY <1>2, <3>3 DEF Before
      <4>2. ToDate(row[i].at) = ToDate(row[l].at)
        BY <1>2, <3>3, <3>6, <4>1, ToDateOfSameMs
      <4> QED BY <3>3, <4>2 DEF Hidden, Listed, Before
    <3> QED BY <1>2, <3>3, <3>4, <3>5, <3>6
  <2> QED BY <2>1, <2>2, <2>3
<1> QED BY <1>4, <1>5

LEMMA SkipInvStep == SkipInv /\ [Next]_vars => SkipInv'
<1> SUFFICES ASSUME SkipInv, [Next]_vars PROVE SkipInv'
  OBVIOUS
<1>1. PageInv'
  BY PageInvStep DEF SkipInv
<1>2. CASE ListOrders
  BY <1>1, <1>2, ListOrdersKeepsSkipInv DEF SkipInv
<1>3. CASE ~ListOrders
  <2> USE <1>3, OtherStep DEF SkipInv, PageInv, listVars
  <2>1. wanted \subseteq Ids /\ Listed \subseteq Ids /\ Listed' = Listed
    BY DEF TypeOK, Listed
  <2>2. \A i \in wanted : Matches(i)' => Matches(i)
    BY <2>1 DEF Settled, Matches
  <2>3. Settled'
    BY <2>1 DEF Settled, Matches
  <2>4. \A i \in wanted : Hidden(i) => Hidden(i)'
    BY <2>1 DEF Hidden, Before, Stored, Settled
  <2>5. \A i \in wanted : Beyond(i, cursor) => Beyond(i, cursor)'
    BY <2>1 DEF Beyond, Settled
  <2>6. Covered'
    BY <2>1, <2>2, <2>4, <2>5 DEF Covered
  <2> QED BY <1>1, <2>3, <2>6
<1> QED BY <1>2, <1>3

(* A listing followed to its end leaves out no more than orders of the     *)
(* millisecond at which one of its pages ended: what the truncated cursor  *)
(* costs, and all that it costs.                                           *)
THEOREM SkipsAreBounded == Spec => []SkipsOnlyWithinAMillisecond
<1>1. SkipInv => SkipsOnlyWithinAMillisecond
  BY DEF SkipInv, Covered, Hidden, SkipsOnlyWithinAMillisecond
<1> QED BY <1>1, SkipInvInit, SkipInvStep, PTL DEF Spec
=============================================================================
