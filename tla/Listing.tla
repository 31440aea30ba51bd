------------------------------- MODULE Listing -------------------------------
(***************************************************************************)
(* Walking a paged list, as every list endpoint answers it                 *)
(* (app/core/pagination.py, _paginate of app/services/booking.py,          *)
(* list_shops of app/services/barbershop.py, list_barber_reviews of        *)
(* app/services/reviews.py): a page is a COUNT and then an ordered SELECT  *)
(* with OFFSET and LIMIT, two statements of a READ COMMITTED transaction,  *)
(* and nothing ties one page to the next.  Of a row only its sort key and  *)
(* whether the filters let it through are kept.                            *)
(***************************************************************************)
EXTENDS Naturals, Sequences, FiniteSets, SequencesExt

CONSTANTS
  Rows,        \* ids of rows: the bound on rows ever inserted
  Keys,        \* values of the sort key: start time, age, rating, distance
  Limits,      \* page sizes a client may ask for
  IdOrder,     \* IdOrder[x] is the place of x in the order of the ids
  MaxWrites    \* bound on the changes made while a client walks

ASSUME ListingAssumption ==
  /\ Keys \subseteq Nat /\ Limits \subseteq Nat \ {0} /\ MaxWrites \in Nat
  /\ IdOrder \in [Rows -> Nat]
  /\ \A x, y \in Rows : IdOrder[x] = IdOrder[y] => x = y

VARIABLES
  list,    \* the rows inserted so far, [key, shown]
  walk,    \* the client who goes through the pages
  writes   \* how many changes were made under the walk

listVars == <<list, walk, writes>>

NoWalk == [at |-> "idle"]

-----------------------------------------------------------------------------
(* One page *)

Matching == {x \in DOMAIN list : list[x].shown}

(* The order of the SELECT: the key asked for, then the id.                *)
M_ByKeyOnly(x, y) == list[x].key >= list[y].key
Before(x, y) ==
  \/ list[x].key > list[y].key
  \/ list[x].key = list[y].key /\ IdOrder[x] <= IdOrder[y]

(* The answers the database may give: every order that respects ORDER BY.  *)
Sorted == {s \in SetToSeqs(Matching) :
             \A i, j \in DOMAIN s : i < j => Before(s[i], s[j])}

(* PageParams.offset *)
Offset(page, limit) == (page - 1) * limit

(* Page.build: the number of pages is rounded up.                          *)
Pages(total, limit) == (total + limit - 1) \div limit

-----------------------------------------------------------------------------
(* The client: page 1, and the next one as long as the last answer said    *)
(* that there is one.  "all" is what matched when the walk began.          *)
Begin ==
  /\ walk = NoWalk
  /\ \E l \in Limits :
       walk' = [at |-> "count", page |-> 1, limit |-> l, total |-> 0, got |-> <<>>,
                all |-> Matching, meanwhile |-> "nothing"]
  /\ UNCHANGED <<list, writes>>

(* The COUNT.                                                              *)
CountRows ==
  /\ walk.at = "count"
  /\ walk' = [walk EXCEPT !.at = "fetch", !.total = Cardinality(Matching)]
  /\ UNCHANGED <<list, writes>>

(* order_by, offset, limit; and the answer, with the count made before.    *)
FetchPage ==
  /\ walk.at = "fetch"
  /\ \E s \in Sorted :
       LET from == Offset(walk.page, walk.limit)
           page == SubSeq(s, from + 1, IF from + walk.limit < Len(s) THEN from + walk.limit
                                                                    ELSE Len(s))
           last == walk.page >= Pages(walk.total, walk.limit)
       IN walk' = [walk EXCEPT !.at = IF last THEN "over" ELSE "count",
                               !.page = IF last THEN @ ELSE @ + 1,
                               !.got = @ \o page]
  /\ UNCHANGED <<list, writes>>

-----------------------------------------------------------------------------
(* The others *)

(* What has happened under the walk at worst: nothing, rows were added     *)
(* between two answers, or anything else.                                  *)
UnderWalk(what) ==
  IF walk = NoWalk \/ walk.at = "over" THEN UNCHANGED <<walk, writes>>
  ELSE /\ writes < MaxWrites /\ writes' = writes + 1
       /\ walk' = [walk EXCEPT !.meanwhile =
                     IF @ = "other" \/ what = "other" \/ walk.at = "fetch" THEN "other"
                     ELSE what]

(* A row is added: a booking, a review, a shop.                            *)
Add ==
  /\ \E x \in Rows \ DOMAIN list, k \in Keys, shown \in BOOLEAN :
       list' = [y \in DOMAIN list \cup {x} |->
                  IF y = x THEN [key |-> k, shown |-> shown] ELSE list[y]]
  /\ UnderWalk("added")

(* A row moves within the list, or into or out of what the filters let     *)
(* through: an appointment is moved or decided, a shop gets a review.      *)
Move ==
  /\ \E x \in DOMAIN list, k \in Keys, shown \in BOOLEAN :
       /\ [key |-> k, shown |-> shown] # list[x]
       /\ list' = [list EXCEPT ![x] = [key |-> k, shown |-> shown]]
  /\ UnderWalk("other")

ListInit == list = <<>> /\ walk = NoWalk /\ writes = 0

ListNext == Begin \/ CountRows \/ FetchPage \/ Add \/ Move

ListSpec == ListInit /\ [][ListNext]_listVars

-----------------------------------------------------------------------------
(* A walk over a list nobody changes finds every row exactly once, however *)
(* many rows tie on the key; rows added between two answers may make it    *)
(* see a row twice but never hide one that was there from the beginning.   *)
(* No more is true: a row added between the COUNT and the SELECT of the    *)
(* last page pushes another one onto a page the client is not told of, and *)
(* a row that moves forward is passed by.                                  *)
WalkFindsEachRow ==
  walk # NoWalk /\ walk.at = "over" =>
    /\ walk.meanwhile = "nothing" =>
         /\ Len(walk.got) = Cardinality(walk.all)
         /\ ToSet(walk.got) = walk.all
    /\ walk.meanwhile = "added" => walk.all \subseteq ToSet(walk.got)
=============================================================================
