-------------------------------- MODULE Listing --------------------------------
(***************************************************************************)
(* GET of a collection, page by page.  A page is a query of "limit" rows   *)
(* behind a marker, the last resource of the page before; it links to a    *)
(* next page if it has exactly "limit" resources.  The rows of a page are  *)
(* converted one by one, within a transaction that is retried if the       *)
(* database fails, while other requests add and remove rows.               *)
(***************************************************************************)
EXTENDS Transactions, SequencesExt

CONSTANTS Row,      (* SUBSET Nat: the ids, in the order of the listing      *)
          Limit     (* the limit of the request, clamped to a maximum        *)

ASSUME ListingAssumption ==
    Row \subseteq Nat \ {0} /\ IsFiniteSet(Row) /\ Limit \in Nat \ {0}

VARIABLES
    present,    \* SUBSET Row: the rows that exist
    used,       \* SUBSET Row: the ids that were given out
    listing,    \* [step, marker, page, next]: the client's position
    received,   \* sequence of rows: what the client got, page after page
    lasting,    \* history: the rows that existed ever since it began
    torn        \* history: a page was retried half way, or a row vanished in it

listVars == <<present, used, listing, received, lasting, torn>>

Begin == 0
NoListing == [step |-> "new", marker |-> Begin, page |-> <<>>]

ListTypeOK ==
    /\ present \subseteq used /\ used \subseteq Row /\ lasting \subseteq used
    /\ listing \in [step : {"new", "asked", "done", "refused"},
                    marker : Row \cup {Begin}, page : Seq(Row)]
    /\ received \in Seq(Row) /\ torn \in BOOLEAN

ListInit ==
    /\ present \in SUBSET (IF left["list"] > 0 THEN Row ELSE {}) /\ used = present
    /\ listing = NoListing /\ received = <<>>
    /\ lasting = present /\ torn = FALSE

-----------------------------------------------------------------------------
(* Other requests.                                                          *)

AddRow(r) ==
    /\ r \notin used /\ listing.step = "asked" /\ Spend("write")
    /\ present' = present \cup {r} /\ used' = used \cup {r}
    /\ UNCHANGED <<listing, received, lasting, torn, tx>>

RemoveRow(r) ==
    /\ r \in present /\ listing.step = "asked" /\ Spend("delete")
    /\ present' = present \ {r} /\ lasting' = lasting \ {r}
    /\ UNCHANGED <<used, listing, received, torn, tx>>

-----------------------------------------------------------------------------
(* The request for a page.                                                  *)

GetAll ==
    /\ listing.step = "new" /\ Spend("list")
    /\ listing' = [listing EXCEPT !.step = "asked"]
    /\ UNCHANGED <<present, used, received, lasting, torn, tx>>

\* get_function(marker): the marker may have been deleted.
MarkerGone ==
    /\ listing.step = "asked" /\ listing.page = <<>> /\ Running("list") = {}
    /\ listing.marker # Begin /\ listing.marker \notin present
    /\ listing' = [listing EXCEPT !.step = "refused"]
    /\ UNCHANGED <<present, used, received, lasting, torn, left, tx>>

\* _paginate_query(): the first rows behind the marker.
BehindOrAt(marker) == {r \in present : r >= marker}     \* mutant: not strictly
Behind(marker) == {r \in present : r > marker}

\* The first ones in the order of the listing, at most Limit.
FirstOf(S) == {r \in S : Cardinality({q \in S : q < r}) < Limit}

QueryPage(p) ==
    /\ listing.step = "asked" /\ Running("list") = {}
    /\ listing.page # <<>> \/ listing.marker \in present \cup {Begin}
    /\ Open(p, [kind |-> "list", rows |-> FirstOf(Behind(listing.marker)), locks |-> {}])
    /\ UNCHANGED <<present, used, listing, received, lasting, torn, left>>

\* from_db_model() of the next row; if it has to load the row again and finds it
\* deleted, the row is left out.
Convert(p) ==
    /\ tx[p].kind = "list"
    /\ \E r \in tx[p].rows :
          /\ \A q \in tx[p].rows : r <= q
          /\ Change(p, [tx[p] EXCEPT !.rows = @ \ {r}])
          /\ \/ /\ listing' = [listing EXCEPT !.page = Append(@, r)]
                /\ UNCHANGED torn
             \/ /\ r \notin present
                /\ torn' = TRUE
                /\ UNCHANGED listing
    /\ UNCHANGED <<present, used, received, lasting, left>>

\* The transaction is retried; the resources converted so far stay in the list.
ListFails(p) ==
    /\ tx[p].kind = "list" /\ Spend("fault")
    /\ torn' = (torn \/ listing.page # <<>>)
    /\ Close(p)
    /\ UNCHANGED <<present, used, listing, received, lasting>>

\* The process is restarted, which also ends its transaction (see Api): its page is
\* lost, and the client asks for it again.
RestartListing(p) ==
    /\ listing' = IF tx[p].kind = "list" THEN [listing EXCEPT !.page = <<>>] ELSE listing
    /\ UNCHANGED <<present, used, received, lasting, torn>>

\* has_next(), get_next()
HasNext == Len(listing.page) # 0 /\ Len(listing.page) = Limit

AnswerPage(p) ==
    /\ tx[p].kind = "list" /\ tx[p].rows = {}
    /\ received' = received \o listing.page
    /\ listing' = IF HasNext
                  THEN [step |-> "asked", marker |-> Last(listing.page), page |-> <<>>]
                  ELSE [listing EXCEPT !.step = "done", !.page = <<>>]
    /\ Close(p)
    /\ UNCHANGED <<present, used, lasting, torn, left>>

ListStep(p) == QueryPage(p) \/ Convert(p) \/ ListFails(p) \/ AnswerPage(p)
ListRequest == GetAll \/ MarkerGone \/ \E r \in Row : AddRow(r) \/ RemoveRow(r)

-----------------------------------------------------------------------------
\* Whoever follows the links gets every resource that exists all the time exactly
\* once, and no resource twice, whatever others add and remove, unless a page was
\* retried half way or a row vanished while it was converted (get_all, has_next).
ListsEachOnce ==
    ~torn => /\ \A i, k \in DOMAIN received : i # k => received[i] # received[k]
             /\ listing.step = "done" =>
                  \A r \in lasting : \E i \in DOMAIN received : received[i] = r
=============================================================================
