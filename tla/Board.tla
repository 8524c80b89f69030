------------------------------- MODULE Board -------------------------------
(***************************************************************************)
(* The task board: the cards in the database, the copy of them that each   *)
(* member's page holds, and the requests between the two.  A write is      *)
(* conditional on the version the writer names; every write is broadcast,  *)
(* and a page that hears of one fetches the whole board again.             *)
(*                                                                         *)
(* A page awaits nothing before it starts the next request, so answers     *)
(* arrive in any order.  An answer is a patch over the page's copy: one    *)
(* card for a write, all of them for a fetch.  A card's fields are its     *)
(* column and its title, which stands for the form's other fields; its     *)
(* place within the column is left out.                                    *)
(***************************************************************************)
EXTENDS Naturals

CONSTANTS
    Members,      \* pages open on the room's board
    Cards,        \* task ids, each used once
    Seeded,       \* the cards that exist when the pages are opened
    Columns,      \* AgentTaskStatus
    Titles,
    Slots,        \* bound: requests a page has under way
    MaxWrites,    \* bound: writes the pages ask for
    BoardFaults   \* what may fail: "answer" (a request), "broadcast"

ASSUME SeededCards == Seeded \subseteq Cards
ASSUME BoundedWrites == MaxWrites \in Nat
ASSUME KnownBoardFaults == BoardFaults \subseteq {"answer", "broadcast"}

VARIABLES
    card,       \* the database
    made,       \* the ids given out so far
    copy,       \* each page's BoardDTO
    form,       \* each page's edit form: the fields as they were when it opened
    req,        \* each page's requests
    due,        \* the pages that are to fetch: an event arrived, a handler asks
    rows,       \* history: every row a card has had
    asked,      \* writes asked for so far, for the bound
    clock,      \* history: writes made so far
    seen,       \* history: the newest state a page has heard of, or should have
    astray      \* history: pages told of the past after the present, or not at all

boardVars == <<card, made, copy, form, req, due, rows, asked, clock, seen, astray>>

None == [version |-> 0]
CardRow(v, c, t) == [version |-> v, column |-> c, title |-> t]
CardRows == [version : Nat \ {0}, column : Columns, title : Titles]
Free == [op |-> "free"]
Closed == [card |-> "none"]
BoardOps == {"fetch", "create", "edit", "move", "delete"}

BoardInit ==
    /\ \E row \in [Seeded -> {CardRow(1, col, t) : col \in Columns, t \in Titles}] :
         card = [c \in Cards |-> IF c \in Seeded THEN row[c] ELSE None]
    /\ made = Seeded
    /\ copy = [m \in Members |-> card]
    /\ form = [m \in Members |-> Closed]
    /\ req = [m \in Members |-> [s \in Slots |-> Free]]
    /\ due = [m \in Members |-> FALSE]
    /\ rows = [c \in Cards |-> {card[c]}]
    /\ asked = 0
    /\ clock = 0
    /\ seen = [m \in Members |-> 0]
    /\ astray = [m \in Members |-> FALSE]

-----------------------------------------------------------------------------
(* The page asks.  The edit form is a modal dialog: while it is open, nothing
   else on the page is within reach. *)

\* A request on its way: the row its author wants, and the one they started from.
Asking(op, c, want, base) ==
    [op |-> op, card |-> c, want |-> want, base |-> base,
     phase |-> "sent", patch |-> <<>>, stamp |-> 0]

Put(m, s, r) == req' = [req EXCEPT ![m] = [req[m] EXCEPT ![s] = r]]

Ask(m, r) ==
    /\ asked < MaxWrites
    /\ asked' = asked + 1
    /\ \E s \in Slots : req[m][s] = Free /\ Put(m, s, r)
    /\ UNCHANGED <<card, made, due, rows, clock, seen, astray>>

\* refetch: whoever asked, the page fetches the room's whole board.
Refetch(m) ==
    /\ due[m]
    /\ due' = [due EXCEPT ![m] = FALSE]
    /\ \E s \in Slots : req[m][s] = Free /\ Put(m, s, Asking("fetch", "none", None, None))
    /\ UNCHANGED <<card, made, copy, form, rows, asked, clock, seen, astray>>

AskCreate(m, col, t) ==
    /\ form[m] = Closed
    /\ Ask(m, Asking("create", "none", CardRow(1, col, t), None))
    /\ UNCHANGED <<copy, form>>

\* moveTask: shown at once; the version is the one the card had when the drag
\* began.  Should the request fail, the page puts the old card back.
AskMove(m, c, col) ==
    /\ form[m] = Closed
    /\ copy[m][c] # None /\ copy[m][c].column # col
    /\ \E v \in 1 .. copy[m][c].version :
         Ask(m, Asking("move", c, CardRow(v, col, copy[m][c].title), copy[m][c]))
    /\ copy' = [copy EXCEPT ![m] = [copy[m] EXCEPT
                   ![c] = CardRow(copy[m][c].version, col, copy[m][c].title)]]
    /\ UNCHANGED form

AskDelete(m, c) ==
    /\ form[m] = Closed /\ copy[m][c] # None
    /\ Ask(m, Asking("delete", c, None, None))
    /\ UNCHANGED <<copy, form>>

\* The dialog mounts the form; its inputs keep the values of that moment.
OpenForm(m, c) ==
    /\ form[m] = Closed /\ copy[m][c] # None
    /\ form' = [form EXCEPT ![m] = [card |-> c, base |-> copy[m][c], sent |-> FALSE]]
    /\ UNCHANGED <<card, made, copy, req, due, rows, asked, clock, seen, astray>>

\* Cancel, also while the request is under way.
CloseForm(m) ==
    /\ form[m] # Closed
    /\ form' = [form EXCEPT ![m] = Closed]
    /\ UNCHANGED <<card, made, copy, req, due, rows, asked, clock, seen, astray>>

\* onSubmit: every field as the form has it, the version as the copy has it now.
AskEdit(m, col, t) ==
    /\ form[m] # Closed /\ ~form[m].sent
    /\ copy[m][form[m].card] # None
    /\ LET c == form[m].card
       IN Ask(m, Asking("edit", c, CardRow(copy[m][c].version, col, t), form[m].base))
    /\ form' = [form EXCEPT ![m] = [card |-> form[m].card, base |-> form[m].base, sent |-> TRUE]]
    /\ UNCHANGED copy

-----------------------------------------------------------------------------
(* The server answers. *)

\* A request that was handled: its phase, what the page is to show, and when.
Reply(r, phase, patch, stamp) ==
    [op |-> r.op, card |-> r.card, want |-> None, base |-> r.base,
     phase |-> phase, patch |-> patch, stamp |-> stamp]

\* Faulty variant: a write is not announced.
BroadcastNothing == UNCHANGED <<due, seen, astray>>

\* broadcastRoomEvent: every page hears of the write, or none does.
Broadcast ==
    \/ due' = [m \in Members |-> TRUE] /\ UNCHANGED <<seen, astray>>
    \/ /\ "broadcast" \in BoardFaults
       /\ seen' = [m \in Members |-> clock + 1]
       /\ astray' = [m \in Members |-> TRUE]
       /\ UNCHANGED due

Wrote(m, s, c, row) ==
    /\ card' = [card EXCEPT ![c] = row]
    /\ rows' = [rows EXCEPT ![c] = rows[c] \cup {row}]
    /\ clock' = clock + 1
    /\ Put(m, s, Reply(req[m][s], "ok", [x \in {c} |-> row], clock + 1))
    /\ Broadcast
    /\ UNCHANGED <<copy, form, asked>>

Refused(m, s, phase) ==
    /\ Put(m, s, Reply(req[m][s], phase, <<>>, clock))
    /\ UNCHANGED <<card, made, copy, form, due, rows, asked, clock, seen, astray>>

Sent(m, s, op) == req[m][s].op = op /\ req[m][s].phase = "sent"

\* GET rooms/[roomId]
HandleFetch(m, s) ==
    /\ Sent(m, s, "fetch")
    /\ Put(m, s, Reply(req[m][s], "ok", card, clock))
    /\ UNCHANGED <<card, made, copy, form, due, rows, asked, clock, seen, astray>>

\* POST rooms/[roomId]/tasks
HandleCreate(m, s) ==
    /\ Sent(m, s, "create")
    /\ \E c \in Cards \ made : made' = made \cup {c} /\ Wrote(m, s, c, req[m][s].want)

\* Faulty variant: the row is found, then updated by its id alone.
UnversionedUpdate(m, s) ==
    /\ Sent(m, s, "edit") \/ Sent(m, s, "move")
    /\ LET c == req[m][s].card
           want == req[m][s].want
       IN IF card[c] = None THEN Refused(m, s, "error")
          ELSE /\ Wrote(m, s, c, CardRow(card[c].version + 1, want.column,
                          IF req[m][s].op = "edit" THEN want.title ELSE card[c].title))
               /\ UNCHANGED made

\* PATCH tasks/[taskId] and POST tasks/[taskId]/move, runVersionedUpdate: one
\* conditional update; a conflict is told from a card that is gone.
VersionedUpdate(m, s) ==
    /\ Sent(m, s, "edit") \/ Sent(m, s, "move")
    /\ LET c == req[m][s].card
           want == req[m][s].want
       IN CASE card[c] = None -> Refused(m, s, "error")
            [] card[c] # None /\ card[c].version # want.version -> Refused(m, s, "conflict")
            [] OTHER ->
                 /\ Wrote(m, s, c, CardRow(want.version + 1, want.column,
                            IF req[m][s].op = "edit" THEN want.title ELSE card[c].title))
                 /\ UNCHANGED made

\* DELETE tasks/[taskId]: unconditional.
HandleDelete(m, s) ==
    /\ Sent(m, s, "delete")
    /\ IF card[req[m][s].card] = None THEN Refused(m, s, "error")
       ELSE Wrote(m, s, req[m][s].card, None) /\ UNCHANGED made

-----------------------------------------------------------------------------
(* The page hears. *)

Patched(m, patch) ==
    [copy EXCEPT ![m] = [c \in Cards |-> IF c \in DOMAIN patch THEN patch[c] ELSE copy[m][c]]]

Newer(a, b) == IF a < b THEN b ELSE a

\* A successful answer is merged into the copy, whatever is shown by now.  An
\* edit's form is closed, and so is one whose card has left the copy.
Hear(m, s) ==
    /\ req[m][s] # Free /\ req[m][s].phase = "ok"
    /\ LET r == req[m][s]
       IN /\ copy' = Patched(m, r.patch)
          /\ seen' = [seen EXCEPT ![m] = Newer(seen[m], r.stamp)]
          /\ astray' = [astray EXCEPT ![m] =
                IF r.stamp < seen[m] THEN TRUE ELSE astray[m] /\ r.op # "fetch"]
          /\ form' = IF r.op = "edit" \/ (form[m] # Closed /\ copy'[m][form[m].card] = None)
                       THEN [form EXCEPT ![m] = Closed] ELSE form
    /\ Put(m, s, Free)
    /\ UNCHANGED <<card, made, due, rows, asked, clock>>

\* A refusal, or a request lost on its way there or back.  A move is undone on
\* the page; a move, a deletion and an edit in conflict fetch the board; an
\* edit's form stays open and may be sent again as it is.
Failed(m, s) ==
    /\ req[m][s] # Free
    /\ req[m][s].phase \in {"conflict", "error"} \/ "answer" \in BoardFaults
    /\ LET r == req[m][s]
           asker == form[m] # Closed /\ form[m].card = r.card /\ form[m].base = r.base
       IN /\ copy' = IF r.op = "move" THEN Patched(m, [x \in {r.card} |-> r.base]) ELSE copy
          /\ due' = [due EXCEPT ![m] =
                due[m] \/ r.op \in {"move", "delete"} \/ (r.op = "edit" /\ r.phase = "conflict")]
          /\ astray' = [astray EXCEPT ![m] = astray[m] \/ r.op = "fetch"]
          /\ seen' = IF r.op = "fetch" THEN [seen EXCEPT ![m] = clock] ELSE seen
          /\ form' = IF r.op = "edit" /\ asker
                       THEN [form EXCEPT ![m] = [card |-> r.card, base |-> r.base, sent |-> FALSE]]
                       ELSE form
    /\ Put(m, s, Free)
    /\ UNCHANGED <<card, made, rows, asked, clock>>

PageAsks(m) ==
    \/ \E col \in Columns, t \in Titles : AskCreate(m, col, t) \/ AskEdit(m, col, t)
    \/ \E c \in Cards, col \in Columns : AskMove(m, c, col)
    \/ \E c \in Cards : AskDelete(m, c) \/ OpenForm(m, c)
    \/ CloseForm(m) \/ Refetch(m)

ServerAnswers(m, s) ==
    HandleFetch(m, s) \/ HandleCreate(m, s) \/ VersionedUpdate(m, s) \/ HandleDelete(m, s)

BoardNext ==
    \E m \in Members :
        \/ PageAsks(m)
        \/ \E s \in Slots : ServerAnswers(m, s) \/ Hear(m, s) \/ Failed(m, s)

BoardSpec == BoardInit /\ [][BoardNext]_boardVars

-----------------------------------------------------------------------------
BoardTypeOK ==
    /\ card \in [Cards -> {None} \cup CardRows]
    /\ copy \in [Members -> [Cards -> {None} \cup CardRows]]
    /\ \A m \in Members :
         /\ form[m] = Closed \/ (form[m].card \in Cards /\ form[m].base \in CardRows)
         /\ \A s \in Slots : req[m][s] = Free \/ req[m][s].op \in BoardOps
    /\ {c \in Cards : card[c] # None} \subseteq made

Quiescent(m) == ~due[m] /\ \A s \in Slots : req[m][s] = Free

\* A page with nothing under way shows what the database holds: no ghost of a
\* deleted card, no move that was refused, no version that is behind.  The code
\* does not order its answers, so the exception is a page that was told of an
\* older state last, or was not told at all (board-context.tsx, "client-side
\* mirror of the authoritative board").
BoardConverges == \A m \in Members : Quiescent(m) /\ ~astray[m] => copy[m] = card

\* The fields an edit's author did not touch.
Untouched(r) ==
    /\ (r.want.column = r.base.column) => (card'[r.card].column = card[r.card].column)
    /\ (r.want.title = r.base.title) => (card'[r.card].title = card[r.card].title)

Accepted(m, s) == Sent(m, s, "edit") /\ req'[m][s].op = "edit" /\ req'[m][s].phase = "ok"

\* An edit changes only what its author changed, although the form sends every
\* field: a teammate's move or edit in between is a conflict.  Excepted is a
\* form whose page fetched the board meanwhile, and one opened on a card that
\* the page showed before the server agreed (task service, updateTask).
EditsOnlyOwnFields ==
    [][\A m \in Members, s \in Slots :
         LET r == req[m][s]
         IN Accepted(m, s) /\ r.base.version = r.want.version /\ r.base \in rows[r.card]
              => Untouched(r)]_boardVars

\* "Changes are checked for conflicts" (task-dialog.tsx): the same for every form
\* opened on a row the card has had.  The version sent is the copy's at the time of
\* saving, while the fields are those of the time the form was opened.
SavesOnlyOwnChanges ==
    [][\A m \in Members, s \in Slots :
         LET r == req[m][s]
         IN Accepted(m, s) /\ r.base \in rows[r.card] => Untouched(r)]_boardVars
=============================================================================
