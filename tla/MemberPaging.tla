---------------------------- MODULE MemberPaging ----------------------------
(***************************************************************************)
(* The paged member list of the control API: controlMembersResponse serves *)
(* the members after a cursor in the order of their IDs, fetchMembers      *)
(* walks the pages under a page size, an import limit and a bound on the   *)
(* pages, keeps what it has when a page fails, and goes on at the stored   *)
(* cursor the next time.  The table of the server changes between any two  *)
(* pages.  A page that was not modified is answered by 304 and taken from  *)
(* the client's cache; the tag is a hash of the page, so this is the page. *)
(***************************************************************************)
EXTENDS Naturals, Sequences, FiniteSets

CONSTANTS
    Ids,          \* the member IDs, a set of numbers greater than 0
    Own,          \* the ID of the client
    PageSize,     \* controlMemberPageSize, 0 for none
    ImportLimit,  \* controlMemberImportLimit, 0 for none
    MaxPages,     \* maxControlMemberPaginationPages
    MaxChanges    \* bound: changes of the server's table

VARIABLES
    have,      \* the members the server knows at first hand
    stored,    \* controlMemberCursors: where the next fetch begins, 0 for the start
    cursor,    \* the cursor of the fetch that is going on
    got,       \* the IDs that fetch has brought so far
    pages,     \* the pages it has asked for; 0 when there is none
    imported,  \* history: the IDs the last fetch handed to the merge
    changes

vars == <<have, stored, cursor, got, pages, imported, changes>>

Init ==
    /\ have \in SUBSET Ids
    /\ stored = 0 /\ cursor = 0 /\ got = {} /\ pages = 0 /\ imported = {} /\ changes = 0

\* The limit of the next page: the page size, or what the import limit leaves.
Limit ==
    LET left == ImportLimit - Cardinality(got) IN
    IF ImportLimit = 0 \/ (PageSize # 0 /\ PageSize <= left) THEN PageSize ELSE left

\* The IDs a page may hold: beyond the cursor, without the requester's own.
After(c) == {i \in have \ {Own} : i > c}

\* The first n of a set of IDs, or all of them for 0.
First(ids, n) == {i \in ids : n = 0 \/ Cardinality({j \in ids : j < i}) < n}

Greatest(ids) == CHOOSE i \in ids : \A j \in ids : j <= i

\* controlMembersResponse for a requester that is known by its certificate.
Page(c, n) ==
    LET ids == First(After(c), n) IN
    [ids |-> ids \union (have \intersect {Own}),
     next |-> IF ids # {} /\ ids # After(c) THEN Greatest(ids) ELSE 0]

-----------------------------------------------------------------------------
Change(i) ==
    /\ changes < MaxChanges /\ changes' = changes + 1
    /\ have' = IF i \in have THEN have \ {i} ELSE have \union {i}
    /\ UNCHANGED <<stored, cursor, got, pages, imported>>

\* fetchMembers begins at the cursor that was stored.
Begin ==
    /\ pages = 0 /\ pages' = 1
    /\ cursor' = stored /\ got' = {}
    /\ UNCHANGED <<have, stored, imported, changes>>

\* What fetchMembers does when it returns: store the cursor, hand over.
Return(c, ids) ==
    /\ stored' = c /\ imported' = ids
    /\ pages' = 0 /\ cursor' = 0 /\ got' = {}
    /\ UNCHANGED <<have, changes>>

\* Mutant: the cursor is not kept when the pages are used up.
FetchPageRestarts ==
    /\ pages > 0
    /\ LET page == Page(cursor, Limit)  ids == got \union page.ids IN
       IF page.next = 0 \/ (ImportLimit > 0 /\ Cardinality(ids) >= ImportLimit) \/ pages = MaxPages
       THEN Return(0, ids)
       ELSE /\ cursor' = page.next /\ got' = ids /\ pages' = pages + 1
            /\ UNCHANGED <<have, stored, imported, changes>>

\* Mutant: the import limit is compared after the page only.
FetchPageUnlimited ==
    /\ pages > 0
    /\ LET page == Page(cursor, PageSize)  ids == got \union page.ids IN
       IF page.next = 0 \/ (ImportLimit > 0 /\ Cardinality(ids) >= ImportLimit) \/ pages = MaxPages
       THEN Return(page.next, ids)
       ELSE /\ cursor' = page.next /\ got' = ids /\ pages' = pages + 1
            /\ UNCHANGED <<have, stored, imported, changes>>

\* One turn of the loop of fetchMembers.
FetchPage ==
    /\ pages > 0
    /\ LET page == Page(cursor, Limit)  ids == got \union page.ids IN
       IF page.next = 0 \/ (ImportLimit > 0 /\ Cardinality(ids) >= ImportLimit) \/ pages = MaxPages
       THEN Return(page.next, ids)
       ELSE /\ cursor' = page.next /\ got' = ids /\ pages' = pages + 1
            /\ UNCHANGED <<have, stored, imported, changes>>

\* The request for a page fails: what came before is kept; if that is nothing,
\* fetchSingleAdvertisement or an error takes its place and the cursor stays.
PageFails ==
    /\ pages > 0
    /\ Return(IF pages = 1 THEN stored ELSE cursor, got)

Next == Begin \/ FetchPage \/ PageFails \/ \E i \in Ids : Change(i)

\* The poller keeps fetching, and not every request fails.
Spec == Init /\ [][Next]_vars /\ WF_vars(Begin) /\ SF_vars(FetchPage)

-----------------------------------------------------------------------------
\* No fetch imports more than its limit and the client's own record, however
\* page size and limit divide.
WithinLimit == ImportLimit > 0 => Cardinality(imported \ {Own}) <= ImportLimit

\* Every member that stays is imported again and again, although the table
\* changes between the pages, pages fail, and a fetch ends in the middle of the
\* list: before memberRecordTTL is over the cursor comes round to it.
NobodyStarves == \A i \in Ids : <>[](i \in have) => []<>(i \in imported)
=============================================================================
