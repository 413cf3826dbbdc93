------------------------------- MODULE Paging -------------------------------
(***************************************************************************)
(* Pages of rows: how the backend cuts them (offset and limit, newest row  *)
(* first), and how the address of the monitor list names one               *)
(* (lib/monitor-navigation.ts, app/monitors/page.tsx).  Rows are numbered  *)
(* in the order of their creation.                                         *)
(***************************************************************************)
EXTENDS Integers, FiniteSets

\* Mutant of Pages: no rows, no page.
PagesFromZero(total, size) == (total + size - 1) \div size

Pages(total, size) ==
    IF total = 0 THEN 1 ELSE (total + size - 1) \div size

\* The place of a row in the order created_at DESC, id DESC.
Place(row, rows) == Cardinality({other \in rows : other >= row})

OnPage(rows, page, size) ==
    {row \in rows : Place(row, rows) \in (page - 1) * size + 1 .. page * size}

-----------------------------------------------------------------------------
DefaultPage == 1
DefaultPageSize == 10
MonitorPageSizes == {5, 10, 25}

\* The largest integer a JavaScript number counts without gaps: 2^53 - 1.
MaxSafeInteger == 67108864 * 134217728 - 1

\* A parameter of the query string: the number its digits spell, if it is
\* nothing but digits, and whether it is spelled the way the application
\* spells that number.
Parameters == [digits: BOOLEAN, value: Nat, canonical: BOOLEAN]

PositiveInteger(parameter, fallback) ==
    IF parameter.digits /\ parameter.value \in 1..MaxSafeInteger
    THEN parameter.value ELSE fallback

\* parseMonitorListSearch
ParsedSearch(search) ==
    LET size == PositiveInteger(search.size, DefaultPageSize)
    IN  [page |-> PositiveInteger(search.page, DefaultPage),
         size |-> IF size \in MonitorPageSizes THEN size ELSE DefaultPageSize]

\* monitorListHref, read again as the parameters it spells.
ListHref(page, size) ==
    [page |-> [digits |-> TRUE, value |-> page, canonical |-> TRUE],
     size |-> [digits |-> TRUE, value |-> size, canonical |-> TRUE]]

\* MonitorsPage: an address that is not spelled as monitorListHref spells what
\* it means is answered with a redirect to that spelling.
Redirected(search) ==
    \/ ~search.page.canonical \/ search.page.value # ParsedSearch(search).page
    \/ ~search.size.canonical \/ search.size.value # ParsedSearch(search).size

\* safeMonitorReturnHref: what return_to means, if it is the list's own path.
SafeReturn(ownPath, search) ==
    IF ownPath THEN LET parsed == ParsedSearch(search)
                    IN  ListHref(parsed.page, parsed.size)
    ELSE ListHref(DefaultPage, DefaultPageSize)
=============================================================================
