---------------------------- MODULE TableRequest ----------------------------
(***************************************************************************)
(* The hook behind every table of the web interface: useTableRequest.ts.   *)
(* It keeps the page number the user chose and the rows of an answer, and  *)
(* asks the server again whenever the page number is set.  Calls run       *)
(* beside each other and may be answered in any order; a call remembers    *)
(* the page number of the render it was made in.                           *)
(*                                                                         *)
(* The server's list is abstracted to the set of rows there are, a page to *)
(* the rows on it.  The filter of the form and the page size do not        *)
(* change.                                                                 *)
(***************************************************************************)
EXTENDS Naturals, FiniteSets

CONSTANTS Row,        \* the rows there may be, in the order of the list
          PageSize,   \* rows of a page
          Call        \* bound: calls that may be in flight at once

ASSUME TableAssumption == /\ Row \subseteq Nat
                          /\ IsFiniteSet(Row)
                          /\ PageSize \in Nat \ {0}

VARIABLES
    rows,        \* the server's rows
    current,     \* pagination.current
    loading,
    dataSource,  \* the rows shown
    total,
    call,        \* [Call -> record of a handleRequest that is under way]
    shownPage,   \* history: the page dataSource was asked for
    clean,       \* history: the last call was alone and has not failed
    stands,      \* history: a row action has been made, and the pagination
                 \* not set since
    behind       \* history: the last call is the reload of a row action that
                 \* the pagination was set after

tableVars == <<rows, current, loading, dataSource, total, call, shownPage, clean,
               stands, behind>>

\* The rows of page p of a list.
PageOf(list, p) ==
    {r \in list : (Cardinality({q \in list : q < r}) \div PageSize) + 1 = p}

LastPage(n) == IF n = 0 THEN 1 ELSE ((n - 1) \div PageSize) + 1

Pages == 1 .. LastPage(Cardinality(Row))

CallState == {"free", "sent", "read"}
CallRecord == [state : CallState, page : Pages, list : SUBSET Row,
               total : 0 .. Cardinality(Row)]

NoCall == [state |-> "free", page |-> 1, list |-> {}, total |-> 0]
FirstCall == CHOOSE c \in Call : TRUE
NewCall(p) == [state |-> "sent", page |-> p, list |-> {}, total |-> 0]

Free == {c \in Call : call[c].state = "free"}

\* The slots of calls are interchangeable: a new call takes a given free one.
FreeCall == CHOOSE c \in Free : TRUE

-----------------------------------------------------------------------------
\* The first render's effect calls for page 1.
TableInit ==
    /\ rows = Row
    /\ current = 1
    /\ loading = TRUE
    /\ dataSource = {}
    /\ total = 0
    /\ call = [c \in Call |-> IF c = FirstCall THEN NewCall(1) ELSE NoCall]
    /\ shownPage = 1
    /\ clean = TRUE
    /\ stands = FALSE
    /\ behind = FALSE

\* handleRequest of a render whose page number was p, in the slot c.
handleRequest(c, p) ==
    /\ call' = [call EXCEPT ![c] = NewCall(p)]
    /\ loading' = TRUE
    /\ clean' = (\A d \in Call \ {c} : call[d].state = "free")

\* What setting the pagination means to a row action that is under way.
Turn == stands' = FALSE /\ behind' = FALSE

\* Setting the pagination re-renders, and the effect calls for the new page.
setPagination(p) ==
    /\ current' = p
    /\ Free # {}
    /\ handleRequest(FreeCall, p)
    /\ Turn
    /\ UNCHANGED <<rows, dataSource, total, shownPage>>

\* onChange of the table's pagination offers the pages of the total shown.
onChange(p) == p \in 1 .. LastPage(total) /\ setPagination(p)

\* search and reset both go to page 1.
search == setPagination(1)

\* reload of the render in which the page number was p.  The pagination stays,
\* although it may have been set to another page since.
reload(p) ==
    /\ Free # {}
    /\ handleRequest(FreeCall, p)
    /\ behind' = ~stands
    /\ stands' = FALSE
    /\ UNCHANGED <<rows, current, dataSource, total, shownPage>>

\* The server reads the list and the count for a call.
ServerLists(c) ==
    /\ call[c].state = "sent"
    /\ call' = [call EXCEPT ![c] = [state |-> "read", page |-> call[c].page,
                                    list |-> PageOf(rows, call[c].page),
                                    total |-> Cardinality(rows)]]
    /\ UNCHANGED <<rows, current, loading, dataSource, total, shownPage, clean, stands, behind>>

\* Mutants: the step back is taken from the first page too, or never.
StepsBackAnywhere(c) == call[c].list = {}
StaysBehind(c) == FALSE

\* An answer arrives.  A page beyond the first that came back empty is left
\* for the one before it, counted from the page of the call.
StepsBack(c) == call[c].list = {} /\ call[c].page > 1

CallAnswered(c) ==
    /\ call[c].state = "read"
    /\ dataSource' = call[c].list
    /\ total' = call[c].total
    /\ shownPage' = call[c].page
    /\ IF StepsBack(c)
       THEN /\ current' = call[c].page - 1
            /\ handleRequest(c, call[c].page - 1)
            /\ Turn
       ELSE /\ call' = [call EXCEPT ![c] = NoCall]
            /\ loading' = FALSE
            /\ UNCHANGED <<current, clean, stands, behind>>
    /\ UNCHANGED rows

\* Mutant: a failure leaves the table loading.
FailsSilently(c) ==
    /\ call[c].state # "free"
    /\ call' = [call EXCEPT ![c] = NoCall]
    /\ clean' = FALSE
    /\ UNCHANGED <<rows, current, loading, dataSource, total, shownPage, stands, behind>>

\* A call is refused or times out: axios gives up after 30 seconds.
CallFails(c) ==
    /\ call[c].state # "free"
    /\ call' = [call EXCEPT ![c] = NoCall]
    /\ loading' = FALSE
    /\ clean' = FALSE
    /\ UNCHANGED <<rows, current, dataSource, total, shownPage, stands, behind>>

\* Somebody else deletes a row.
RowDeletedElsewhere(r) ==
    /\ r \in rows
    /\ rows' = rows \ {r}
    /\ UNCHANGED <<current, loading, dataSource, total, call, shownPage, clean, stands, behind>>

\* The component is unmounted: its state is dropped, and what its calls bring
\* back changes nothing.
TableGone ==
    /\ current' = 1
    /\ loading' = FALSE
    /\ dataSource' = {}
    /\ total' = 0
    /\ call' = [c \in Call |-> NoCall]
    /\ shownPage' = 1
    /\ clean' = TRUE
    /\ stands' = FALSE
    /\ behind' = FALSE
    /\ UNCHANGED rows

-----------------------------------------------------------------------------
TableTypeOK ==
    /\ rows \subseteq Row
    /\ current \in Pages
    /\ loading \in BOOLEAN
    /\ dataSource \subseteq Row
    /\ total \in 0 .. Cardinality(Row)
    /\ call \in [Call -> CallRecord]
    /\ shownPage \in Pages
    /\ clean \in BOOLEAN
    /\ stands \in BOOLEAN
    /\ behind \in BOOLEAN

(***************************************************************************)
(* Once no call is in flight, and if the last one neither ran beside       *)
(* another nor failed, the table is not on an empty page beyond the first  *)
(* (the step back that the hook takes on an empty answer, while rows       *)
(* vanish), and it shows the page its pagination says, or else the         *)
(* pagination was set between a row action and its answer: send goes on    *)
(* with the reload of the render the action was made in                    *)
(* (MyDrive/index.tsx:37), which asks for the page of that render.         *)
(***************************************************************************)
SettledTable ==
    (Free = Call /\ clean) =>
        /\ dataSource = {} => shownPage = 1
        /\ shownPage = current \/ behind
=============================================================================
