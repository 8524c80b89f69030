--------------------------- MODULE WorkspaceProofs ---------------------------
(***************************************************************************)
(* Theorems about the parts of a room beside its runs, each for any values *)
(* of its own module's constants.                                          *)
(*                                                                         *)
(* Board: a page that has settled shows the database, unless it was told   *)
(* of an older state last, and an edit changes what its author changed.    *)
(* Room: the room keeps an owner unless two changes of members raced, and  *)
(* the run belongs to whom its timeline says it was handed to last.        *)
(* Playbooks: a run is saved once, and its use count is that of the runs   *)
(* started from it.  Delivery: a branch gets one pull request at most, and *)
(* the run one link.                                                       *)
(***************************************************************************)
EXTENDS Board, Room, Playbooks, Delivery, FiniteSetTheorems, SequenceTheorems, TLAPS

-----------------------------------------------------------------------------
(* Board *)

USE SeededCards, BoundedWrites

\* What a card may be, and what a page may have under way.
CardOrNone == {None} \cup CardRows
IsPatch(patch) == DOMAIN patch \subseteq Cards /\ \A c \in DOMAIN patch : patch[c] \in CardOrNone
IsRequest(r) ==
    /\ r.op \in BoardOps \cup {"free"}
    /\ r.op = "free" => r = Free
    /\ r.op # "free" => r.phase \in {"sent", "ok", "conflict", "error"}
    /\ r.op \in {"edit", "move", "delete"} => r.card \in Cards
    /\ r.op = "move" => r.base \in CardRows
    /\ r.op \in {"create", "edit", "move"} /\ r.phase = "sent" => r.want \in CardRows
    /\ r.op # "free" /\ r.phase = "ok" => IsPatch(r.patch) /\ r.stamp \in Nat

Pages ==
    /\ req = [m \in Members |-> [s \in Slots |-> req[m][s]]]
    /\ \A m \in Members, s \in Slots : IsRequest(req[m][s])
    /\ copy \in [Members -> [Cards -> CardOrNone]]
    /\ DOMAIN form = Members
    /\ \A m \in Members :
          form[m] = Closed \/ (form[m].card \in Cards /\ form[m].base \in CardRows)

Histories ==
    /\ due \in [Members -> BOOLEAN] /\ astray \in [Members -> BOOLEAN]
    /\ seen \in [Members -> Nat] /\ clock \in Nat

\* A version is given to a card once, and the card's own is the last.
RowsInv ==
    /\ card \in [Cards -> CardOrNone]
    /\ rows \in [Cards -> SUBSET CardOrNone]
    /\ \A c \in Cards :
         /\ card[c] \in rows[c]
         /\ \A x, y \in rows[c] : x.version = y.version => x = y
         /\ card[c] # None => \A x \in rows[c] : x.version <= card[c].version
         /\ c \notin made => rows[c] = {None}
    /\ made \subseteq Cards

\* The page will fetch a state as new as the database's, or has asked for it.
WillHear(m) ==
    \/ due[m] = TRUE
    \/ \E s \in Slots :
         /\ req[m][s].op = "fetch"
         /\ req[m][s].phase = "sent" \/ (req[m][s].phase = "ok" /\ req[m][s].stamp = clock)

\* Whether a move shown on the page has no good answer yet.
Moving(m, c) ==
    \E s \in Slots :
        req[m][s].op = "move" /\ req[m][s].card = c /\ req[m][s].phase # "ok"

\* An answer given at the database's present says what the database holds.
AnswersInv ==
    \A m \in Members, s \in Slots :
        req[m][s].op # "free" /\ req[m][s].phase = "ok" =>
            /\ req[m][s].stamp <= clock
            /\ req[m][s].stamp = clock =>
                 \A c \in DOMAIN req[m][s].patch : req[m][s].patch[c] = card[c]
            /\ req[m][s].op = "fetch" => DOMAIN req[m][s].patch = Cards

\* A page that has nothing to fetch has heard of the present; and what it shows then is
\* the database, but for the moves it awaits, unless it was told of the past since.
Mirrors(m) ==
    /\ seen[m] <= clock
    /\ WillHear(m) \/ seen[m] = clock
    /\ WillHear(m) \/ astray[m] = TRUE \/ \A c \in Cards : copy[m][c] = card[c] \/ Moving(m, c)

BoardInv ==
    Pages /\ Histories /\ RowsInv /\ AnswersInv /\ \A m \in Members : Mirrors(m)

\* One request of one page is put down; the rest stay as they are.
LEMMA PutDown ==
  ASSUME Pages, NEW m \in Members, NEW s \in Slots, NEW r, Put(m, s, r)
  PROVE  /\ req' = [n \in Members |-> [t \in Slots |-> req'[n][t]]]
         /\ req'[m][s] = r
         /\ \A t \in Slots : t # s => req'[m][t] = req[m][t]
         /\ \A n \in Members : n # m => \A t \in Slots : req'[n][t] = req[n][t]
  <1>1. req = [n \in Members |-> [t \in Slots |-> req[n][t]]]
    BY DEF Pages
  <1>2. req' = [n \in Members |-> IF n = m THEN [req[m] EXCEPT ![s] = r] ELSE req[n]]
    BY <1>1 DEF Put
  <1>3. req[m] = [t \in Slots |-> req[m][t]]
    BY <1>1
  <1>4. [req[m] EXCEPT ![s] = r] = [t \in Slots |-> IF t = s THEN r ELSE req[m][t]]
    BY <1>3
  <1>5. \A t \in Slots : req'[m][t] = IF t = s THEN r ELSE req[m][t]
    BY <1>2, <1>4
  <1>6. \A n \in Members : n # m => req'[n] = req[n]
    BY <1>2
  <1>7. \A n \in Members : req'[n] = [t \in Slots |-> req'[n][t]]
    <2> TAKE n \in Members
    <2>1. CASE n = m
      BY <1>2, <1>4, <2>1
    <2>2. CASE n # m
      BY <1>1, <1>6, <2>2
    <2> QED BY <2>1, <2>2
  <1> QED BY <1>2, <1>5, <1>6, <1>7

\* One request of one page changes into a request: types, and what concerns nobody else.
LEMMA OneRequest ==
  ASSUME Pages, NEW m \in Members, NEW s \in Slots, NEW r, Put(m, s, r), IsRequest(r),
         copy' \in [Members -> [Cards -> CardOrNone]],
         DOMAIN form' = Members,
         \A n \in Members :
            form'[n] = Closed \/ (form'[n].card \in Cards /\ form'[n].base \in CardRows)
  PROVE  Pages'
  <1>0. /\ req'[m][s] = r
        /\ \A t \in Slots : t # s => req'[m][t] = req[m][t]
        /\ \A n \in Members : n # m => \A t \in Slots : req'[n][t] = req[n][t]
    BY PutDown
  <1>1. \A n \in Members, t \in Slots : IsRequest(req'[n][t])
    BY <1>0 DEF Pages
  <1>2. req' = [n \in Members |-> [t \in Slots |-> req'[n][t]]]
    BY PutDown
  <1> QED BY <1>1, <1>2 DEF Pages, IsRequest

\* A page that asks has not heard anything: it is told as before, and shows what it did but
\* for the card it moves.
LEMMA PageHasAsked ==
  ASSUME BoardInv, NEW m \in Members, NEW s \in Slots, NEW r, Put(m, s, r), IsRequest(r),
         r.op # "free", r.phase = "sent", req[m][s] = Free,
         UNCHANGED <<card, rows, made, clock, seen, astray>>,
         due' \in [Members -> BOOLEAN],
         \A n \in Members : due[n] = TRUE => due'[n] = TRUE \/ (n = m /\ r.op = "fetch"),
         copy' \in [Members -> [Cards -> CardOrNone]],
         \A n \in Members, c \in Cards :
            copy'[n][c] = copy[n][c] \/ (n = m /\ r.op = "move" /\ r.card = c),
         DOMAIN form' = Members,
         \A n \in Members :
            form'[n] = Closed \/ (form'[n].card \in Cards /\ form'[n].base \in CardRows)
  PROVE  BoardInv'
  <1> USE DEF BoardInv
  <1>1. Pages'
    BY OneRequest
  <1>2. Histories' /\ RowsInv'
    BY DEF Histories, RowsInv
  <1>3. /\ req'[m][s] = r
        /\ \A t \in Slots : t # s => req'[m][t] = req[m][t]
        /\ \A n \in Members : n # m => \A t \in Slots : req'[n][t] = req[n][t]
    BY PutDown
  <1>4. AnswersInv'
    <2>1. ASSUME NEW n \in Members, NEW t \in Slots,
                 req'[n][t].op # "free", req'[n][t].phase = "ok"
          PROVE  req'[n][t] = req[n][t]
      BY <1>3, <2>1
    <2> QED BY <2>1 DEF AnswersInv
  <1>5. req[m][s].op = "free"
    BY DEF Free
  <1>6. ASSUME NEW n \in Members
        PROVE  /\ WillHear(n) => WillHear(n)'
               /\ \A c \in Cards : Moving(n, c) => Moving(n, c)'
    <2>1. ASSUME NEW t \in Slots, req[n][t].op # "free"
          PROVE  req'[n][t] = req[n][t]
      BY <1>3, <1>5, <2>1
    <2>2. WillHear(n) => WillHear(n)'
      BY <1>3, <2>1 DEF WillHear
    <2>3. \A c \in Cards : Moving(n, c) => Moving(n, c)'
      BY <2>1 DEF Moving
    <2> QED BY <2>2, <2>3
  <1>7. ASSUME NEW c \in Cards, r.op = "move", r.card = c
        PROVE  Moving(m, c)'
    BY <1>3, <1>7 DEF Moving
  <1>8. ASSUME NEW n \in Members PROVE Mirrors(n)'
    <2>1. Mirrors(n)
      OBVIOUS
    <2>2. \A c \in Cards :
             copy[n][c] = card[c] \/ Moving(n, c) => copy'[n][c] = card'[c] \/ Moving(n, c)'
      BY <1>6, <1>7
    <2> QED BY <1>6, <2>1, <2>2 DEF Mirrors
  <1> QED BY <1>1, <1>2, <1>4, <1>8

\* What a page asks for is a request.
LEMMA AskingIsRequest ==
  ASSUME NEW op \in BoardOps, NEW c, NEW want, NEW base,
         op \in {"edit", "move", "delete"} => c \in Cards,
         op = "move" => base \in CardRows,
         op \in {"create", "edit", "move"} => want \in CardRows
  PROVE  /\ IsRequest(Asking(op, c, want, base))
         /\ Asking(op, c, want, base).op = op
         /\ Asking(op, c, want, base).card = c
         /\ Asking(op, c, want, base).phase = "sent"
         /\ op # "free"
BY DEF Asking, IsRequest, BoardOps

LEMMA RowOfCard ==
  ASSUME NEW v \in Nat \ {0}, NEW col \in Columns, NEW t \in Titles
  PROVE  /\ CardRow(v, col, t) \in CardRows /\ CardRow(v, col, t) # None
         /\ CardRow(v, col, t).version = v
         /\ CardRow(v, col, t).column = col
         /\ CardRow(v, col, t).title = t
BY DEF CardRow, CardRows, None

LEMMA CardIsRow ==
  ASSUME NEW x \in CardOrNone
  PROVE  /\ x # None => x \in CardRows /\ x.version \in Nat \ {0}
                        /\ x.column \in Columns /\ x.title \in Titles
         /\ x.version \in Nat /\ (x.version = 0 => x = None)
BY DEF CardOrNone, CardRows, None

\* Whatever a page asks for.
LEMMA PageAsking ==
  ASSUME BoardInv, NEW m \in Members, PageAsks(m)
  PROVE  BoardInv'
  <1> USE DEF BoardInv
  <1>1. ASSUME NEW col \in Columns, NEW t \in Titles, AskCreate(m, col, t)
        PROVE  BoardInv'
    <2>1. CardRow(1, col, t) \in CardRows
      BY RowOfCard
    <2> DEFINE r == Asking("create", "none", CardRow(1, col, t), None)
    <2>2. IsRequest(r) /\ r.op = "create" /\ r.phase = "sent"
      BY <2>1, AskingIsRequest DEF BoardOps
    <2>3. PICK s \in Slots : req[m][s] = Free /\ Put(m, s, r)
      BY <1>1 DEF AskCreate, Ask
    <2>4. UNCHANGED <<copy, form, card, made, due, rows, clock, seen, astray>>
      BY <1>1 DEF AskCreate, Ask
    <2> HIDE DEF r
    <2> QED BY <2>2, <2>3, <2>4, PageHasAsked DEF Pages, Histories
  <1>2. ASSUME NEW col \in Columns, NEW t \in Titles, AskEdit(m, col, t)
        PROVE  BoardInv'
    <2>0. form[m] # Closed /\ form[m].card \in Cards /\ form[m].base \in CardRows
      BY <1>2 DEF AskEdit, Pages
    <2> DEFINE c == form[m].card
    <2>1. copy[m][c] # None /\ copy[m][c] \in CardOrNone
      BY <1>2, <2>0 DEF AskEdit, Pages
    <2>2. CardRow(copy[m][c].version, col, t) \in CardRows
      BY <2>1, RowOfCard, CardIsRow
    <2> DEFINE r == Asking("edit", c, CardRow(copy[m][c].version, col, t), form[m].base)
    <2>3. IsRequest(r) /\ r.op = "edit" /\ r.phase = "sent"
      BY <2>0, <2>2, AskingIsRequest DEF BoardOps
    <2>4. PICK s \in Slots : req[m][s] = Free /\ Put(m, s, r)
      BY <1>2 DEF AskEdit, Ask
    <2>5. UNCHANGED <<copy, card, made, due, rows, clock, seen, astray>>
      BY <1>2 DEF AskEdit, Ask
    <2>6. /\ DOMAIN form' = Members
          /\ \A n \in Members :
               form'[n] = Closed \/ (form'[n].card \in Cards /\ form'[n].base \in CardRows)
      BY <1>2, <2>0 DEF AskEdit, Pages
    <2> HIDE DEF r
    <2> QED BY <2>3, <2>4, <2>5, <2>6, PageHasAsked DEF Pages, Histories
  <1>3. ASSUME NEW c \in Cards, NEW col \in Columns, AskMove(m, c, col)
        PROVE  BoardInv'
    <2>1. copy[m][c] # None /\ copy[m][c] \in CardOrNone
      BY <1>3 DEF AskMove, Pages
    <2>2. /\ copy[m][c] \in CardRows /\ copy[m][c].version \in Nat \ {0}
          /\ copy[m][c].title \in Titles
      BY <2>1, CardIsRow
    <2>3. PICK v \in 1 .. copy[m][c].version :
             Ask(m, Asking("move", c, CardRow(v, col, copy[m][c].title), copy[m][c]))
      BY <1>3 DEF AskMove
    <2>4. CardRow(v, col, copy[m][c].title) \in CardRows
      BY <2>2, RowOfCard
    <2> DEFINE r == Asking("move", c, CardRow(v, col, copy[m][c].title), copy[m][c])
    <2>5. IsRequest(r) /\ r.op = "move" /\ r.card = c /\ r.phase = "sent"
      BY <2>2, <2>4, AskingIsRequest DEF BoardOps
    <2>6. PICK s \in Slots : req[m][s] = Free /\ Put(m, s, r)
      BY <2>3 DEF Ask
    <2>7. UNCHANGED <<form, card, made, due, rows, clock, seen, astray>>
      BY <1>3, <2>3 DEF AskMove, Ask
    <2> DEFINE shown == CardRow(copy[m][c].version, col, copy[m][c].title)
    <2>8. shown \in CardOrNone
      BY <2>2, RowOfCard DEF CardOrNone
    <2>9. copy' = [copy EXCEPT ![m] = [copy[m] EXCEPT ![c] = shown]]
      BY <1>3 DEF AskMove
    <2> HIDE DEF r, shown
    <2>10. /\ copy' \in [Members -> [Cards -> CardOrNone]]
           /\ \A n \in Members, d \in Cards : copy'[n][d] = copy[n][d] \/ (n = m /\ d = c)
      BY <2>8, <2>9 DEF Pages
    <2> QED BY ZenonT(30), <2>5, <2>6, <2>7, <2>10, PageHasAsked DEF Pages, Histories
  <1>4. ASSUME NEW c \in Cards, AskDelete(m, c)
        PROVE  BoardInv'
    <2> DEFINE r == Asking("delete", c, None, None)
    <2>1. IsRequest(r) /\ r.op = "delete" /\ r.phase = "sent"
      BY AskingIsRequest DEF BoardOps
    <2>2. PICK s \in Slots : req[m][s] = Free /\ Put(m, s, r)
      BY <1>4 DEF AskDelete, Ask
    <2>3. UNCHANGED <<copy, form, card, made, due, rows, clock, seen, astray>>
      BY <1>4 DEF AskDelete, Ask
    <2> HIDE DEF r
    <2> QED BY <2>1, <2>2, <2>3, PageHasAsked DEF Pages, Histories
  <1>5. CASE Refetch(m)
    <2> DEFINE r == Asking("fetch", "none", None, None)
    <2>1. IsRequest(r) /\ r.op = "fetch" /\ r.phase = "sent"
      BY AskingIsRequest DEF BoardOps
    <2>2. PICK s \in Slots : req[m][s] = Free /\ Put(m, s, r)
      BY <1>5 DEF Refetch
    <2>3. UNCHANGED <<copy, form, card, made, rows, clock, seen, astray>>
      BY <1>5 DEF Refetch
    <2>4. due' = [due EXCEPT ![m] = FALSE]
      BY <1>5 DEF Refetch
    <2>5. /\ due' \in [Members -> BOOLEAN]
          /\ \A n \in Members : n # m => due'[n] = due[n]
      BY <2>4 DEF Histories
    <2> HIDE DEF r
    <2> QED BY <2>1, <2>2, <2>3, <2>5, PageHasAsked DEF Pages
  <1>6. CASE CloseForm(m) \/ \E c \in Cards : OpenForm(m, c)
    <2>1. UNCHANGED <<card, made, copy, req, due, rows, clock, seen, astray>>
      BY <1>6 DEF CloseForm, OpenForm
    <2>2. /\ DOMAIN form' = Members
          /\ \A n \in Members :
               form'[n] = Closed \/ (form'[n].card \in Cards /\ form'[n].base \in CardRows)
      <3>1. CASE CloseForm(m)
        BY <3>1 DEF CloseForm, Pages
      <3>2. ASSUME NEW c \in Cards, OpenForm(m, c)
            PROVE  /\ DOMAIN form' = Members
                   /\ \A n \in Members :
                        form'[n] = Closed \/ (form'[n].card \in Cards /\ form'[n].base \in CardRows)
        <4>1. copy[m][c] \in CardRows
          BY <3>2, CardIsRow DEF OpenForm, Pages
        <4> QED BY <3>2, <4>1 DEF OpenForm, Pages
      <3> QED BY <1>6, <3>1, <3>2
    <2>3. Pages'
      BY <2>1, <2>2 DEF Pages
    <2>4. Histories' /\ RowsInv'
      BY <2>1 DEF Histories, RowsInv
    <2>5. AnswersInv' /\ \A n \in Members : Mirrors(n)'
      BY <2>1 DEF AnswersInv, Mirrors, WillHear, Moving
    <2> QED BY <2>3, <2>4, <2>5
  <1> QED BY <1>1, <1>2, <1>3, <1>4, <1>5, <1>6 DEF PageAsks

\* A reply is a request that was handled.
LEMMA ReplyIsRequest ==
  ASSUME NEW r, IsRequest(r), r.op # "free", NEW phase \in {"ok", "conflict", "error"},
         NEW patch, NEW stamp \in Nat, phase = "ok" => IsPatch(patch)
  PROVE  /\ IsRequest(Reply(r, phase, patch, stamp))
         /\ Reply(r, phase, patch, stamp).op = r.op
         /\ Reply(r, phase, patch, stamp).card = r.card
         /\ Reply(r, phase, patch, stamp).phase = phase
         /\ Reply(r, phase, patch, stamp).patch = patch
         /\ Reply(r, phase, patch, stamp).stamp = stamp
BY DEF Reply, IsRequest, BoardOps

\* The server answers without writing: with the board as it is, or with a refusal.
LEMMA ServerHasRead ==
  ASSUME BoardInv, NEW m \in Members, NEW s \in Slots, NEW r, Put(m, s, r), IsRequest(r),
         req[m][s].op # "free", req[m][s].phase = "sent",
         r.op = req[m][s].op, r.card = req[m][s].card,
         \/ r.phase \in {"conflict", "error"} /\ r.op # "fetch"
         \/ r.phase = "ok" /\ r.op = "fetch" /\ r.stamp = clock /\ r.patch = card,
         UNCHANGED <<card, made, copy, form, due, rows, clock, seen, astray>>
  PROVE  BoardInv'
  <1> USE DEF BoardInv
  <1>1. Pages'
    <2>1. /\ copy' \in [Members -> [Cards -> CardOrNone]]
          /\ DOMAIN form' = Members
          /\ \A n \in Members :
               form'[n] = Closed \/ (form'[n].card \in Cards /\ form'[n].base \in CardRows)
      BY DEF Pages
    <2> QED BY <2>1, OneRequest
  <1>2. Histories' /\ RowsInv'
    BY DEF Histories, RowsInv
  <1>3. /\ req'[m][s] = r
        /\ \A t \in Slots : t # s => req'[m][t] = req[m][t]
        /\ \A n \in Members : n # m => \A t \in Slots : req'[n][t] = req[n][t]
    BY PutDown
  <1>4. ASSUME NEW n \in Members, NEW t \in Slots
        PROVE  req'[n][t] = req[n][t] \/ (n = m /\ t = s)
    BY <1>3
  <1>5. AnswersInv'
    <2>1. DOMAIN card = Cards
      BY DEF RowsInv
    <2>2. r.phase = "ok" =>
             /\ r.stamp <= clock
             /\ \A c \in DOMAIN r.patch : r.patch[c] = card[c]
             /\ DOMAIN r.patch = Cards
      BY <2>1 DEF Histories
    <2>3. ASSUME NEW n \in Members, NEW t \in Slots,
                 req'[n][t].op # "free", req'[n][t].phase = "ok"
          PROVE  /\ req'[n][t].stamp <= clock
                 /\ req'[n][t].stamp = clock =>
                      \A c \in DOMAIN req'[n][t].patch : req'[n][t].patch[c] = card[c]
                 /\ req'[n][t].op = "fetch" => DOMAIN req'[n][t].patch = Cards
      BY <1>3, <1>4, <2>2, <2>3 DEF AnswersInv
    <2> QED BY <2>3 DEF AnswersInv
  <1>6. ASSUME NEW n \in Members
        PROVE  /\ WillHear(n) => WillHear(n)'
               /\ \A c \in Cards : Moving(n, c) => Moving(n, c)'
    <2>1. WillHear(n) => WillHear(n)'
      BY <1>3, <1>4 DEF WillHear
    <2>2. \A c \in Cards : Moving(n, c) => Moving(n, c)'
      BY <1>3, <1>4 DEF Moving
    <2> QED BY <2>1, <2>2
  <1>7. ASSUME NEW n \in Members PROVE Mirrors(n)'
    BY <1>6 DEF Mirrors
  <1> QED BY <1>1, <1>2, <1>5, <1>7

\* The server has written: every answer so far is one of the past, and every page is told,
\* or none is.
LEMMA ServerHasWritten ==
  ASSUME BoardInv, NEW m \in Members, NEW s \in Slots, NEW c \in Cards, NEW row \in CardOrNone,
         req[m][s].op \in {"create", "edit", "move", "delete"},
         Wrote(m, s, c, row), RowsInv'
  PROVE  BoardInv'
  <1> USE DEF BoardInv
  <1> DEFINE patch == [x \in {c} |-> row]
             r == Reply(req[m][s], "ok", patch, clock + 1)
  <1>1. IsPatch(patch) /\ DOMAIN patch = {c} /\ patch[c] = row
    BY DEF IsPatch
  <1>2. IsRequest(req[m][s]) /\ clock + 1 \in Nat
    BY DEF Pages, Histories
  <1>3. IsRequest(r) /\ r.op = req[m][s].op /\ r.phase = "ok" /\ r.patch = patch
        /\ r.stamp = clock + 1
    <2> HIDE DEF patch
    <2> QED BY <1>1, <1>2, ReplyIsRequest
  <1>4. Put(m, s, r) /\ clock' = clock + 1 /\ card' = [card EXCEPT ![c] = row]
        /\ UNCHANGED <<copy, form>>
    BY DEF Wrote
  <1> HIDE DEF patch, r
  <1>5. \/ due' = [n \in Members |-> TRUE] /\ UNCHANGED <<seen, astray>>
        \/ seen' = [n \in Members |-> clock + 1] /\ astray' = [n \in Members |-> TRUE]
           /\ UNCHANGED due
    BY DEF Wrote, Broadcast
  <1>6. Pages'
    <2>1. /\ copy' \in [Members -> [Cards -> CardOrNone]]
          /\ DOMAIN form' = Members
          /\ \A n \in Members :
               form'[n] = Closed \/ (form'[n].card \in Cards /\ form'[n].base \in CardRows)
      BY <1>4 DEF Pages
    <2> QED BY <1>3, <1>4, <2>1, OneRequest
  <1>7. Histories'
    <2>1. clock' \in Nat
      BY <1>2, <1>4
    <2>2. due' \in [Members -> BOOLEAN] /\ astray' \in [Members -> BOOLEAN]
      <3>1. [n \in Members |-> TRUE] \in [Members -> BOOLEAN]
        OBVIOUS
      <3>2. due \in [Members -> BOOLEAN] /\ astray \in [Members -> BOOLEAN]
        BY DEF Histories
      <3> QED BY <1>5, <3>1, <3>2, Zenon
    <2>3. seen' \in [Members -> Nat]
      BY <1>2, <1>5 DEF Histories
    <2> QED BY <2>1, <2>2, <2>3 DEF Histories
  <1>8. /\ req'[m][s] = r
        /\ \A t \in Slots : t # s => req'[m][t] = req[m][t]
        /\ \A n \in Members : n # m => \A t \in Slots : req'[n][t] = req[n][t]
    BY <1>4, PutDown
  <1>9. AnswersInv'
    <2>1. card'[c] = row
      BY <1>4 DEF RowsInv
    <2>2. ASSUME NEW n \in Members, NEW t \in Slots, ~(n = m /\ t = s),
                 req'[n][t].op # "free", req'[n][t].phase = "ok"
          PROVE  /\ req'[n][t].stamp < clock'
                 /\ req'[n][t].op = "fetch" => DOMAIN req'[n][t].patch = Cards
      <3>1. req'[n][t] = req[n][t]
        BY <1>8, <2>2
      <3>2. req[n][t].stamp \in Nat
        BY <2>2, <3>1 DEF Pages, IsRequest
      <3> QED BY <1>4, <2>2, <3>1, <3>2 DEF AnswersInv, Histories
    <2>3. /\ r.stamp = clock'
          /\ \A d \in DOMAIN r.patch : r.patch[d] = card'[d]
          /\ r.op # "fetch"
      BY <1>1, <1>3, <1>4, <2>1
    <2>4. ASSUME NEW n \in Members, NEW t \in Slots,
                 req'[n][t].op # "free", req'[n][t].phase = "ok"
          PROVE  /\ req'[n][t].stamp <= clock'
                 /\ req'[n][t].stamp = clock' =>
                      \A d \in DOMAIN req'[n][t].patch : req'[n][t].patch[d] = card'[d]
                 /\ req'[n][t].op = "fetch" => DOMAIN req'[n][t].patch = Cards
      <3>1. CASE n = m /\ t = s
        BY <1>2, <1>4, <1>8, <2>3, <3>1
      <3>2. CASE ~(n = m /\ t = s)
        <4>1. req'[n][t].stamp \in Nat /\ clock' \in Nat
          BY <1>2, <1>4, <1>6, <2>4 DEF Pages, IsRequest
        <4> QED BY <2>2, <2>4, <3>2, <4>1
      <3> QED BY <3>1, <3>2
    <2> QED BY <2>4 DEF AnswersInv
  <1>10. ASSUME NEW n \in Members PROVE Mirrors(n)'
    <2>1. CASE due' = [x \in Members |-> TRUE] /\ UNCHANGED <<seen, astray>>
      <3>1. WillHear(n)'
        BY <2>1 DEF WillHear
      <3>2. seen'[n] <= clock'
        BY <1>4, <2>1 DEF Mirrors, Histories
      <3> QED BY <3>1, <3>2 DEF Mirrors
    <2>2. CASE seen' = [x \in Members |-> clock + 1] /\ astray' = [x \in Members |-> TRUE]
      <3>1. seen'[n] = clock' /\ astray'[n] = TRUE /\ clock' \in Nat
        BY <1>2, <1>4, <2>2
      <3> QED BY <3>1 DEF Mirrors
    <2> QED BY <1>5, <2>1, <2>2
  <1> QED BY <1>6, <1>7, <1>9, <1>10

\* A row that follows the card's own keeps versions apart.
LEMMA RowIsAdded ==
  ASSUME RowsInv, NEW c \in Cards, NEW row \in CardOrNone,
         card' = [card EXCEPT ![c] = row],
         rows' = [rows EXCEPT ![c] = rows[c] \cup {row}],
         made' \subseteq Cards, made \subseteq made', c \in made',
         row = None \/ (row # None /\ \A x \in rows[c] : x.version < row.version),
         \A d \in Cards : d # c /\ d \in made' => d \in made
  PROVE  RowsInv'
  <1> USE DEF RowsInv
  <1>1. card' \in [Cards -> CardOrNone] /\ rows' \in [Cards -> SUBSET CardOrNone]
    OBVIOUS
  <1>2. ASSUME NEW d \in Cards, d # c
        PROVE  /\ card'[d] \in rows'[d]
               /\ \A x, y \in rows'[d] : x.version = y.version => x = y
               /\ card'[d] # None => \A x \in rows'[d] : x.version <= card'[d].version
               /\ d \notin made' => rows'[d] = {None}
    <2>1. card'[d] = card[d] /\ rows'[d] = rows[d]
      BY <1>2
    <2> QED BY <2>1
  <1>3. /\ card'[c] = row /\ rows'[c] = rows[c] \cup {row} /\ rows[c] \subseteq CardOrNone
        /\ card[c] \in rows[c]
    OBVIOUS
  <1>4. \A x, y \in rows'[c] : x.version = y.version => x = y
    <2>1. CASE row = None
      <3>1. \A x \in rows[c] : x.version = row.version => x = row
        BY <1>3, <2>1, CardIsRow DEF None
      <3> QED BY <1>3, <3>1
    <2>2. CASE row # None /\ \A x \in rows[c] : x.version < row.version
      <3>1. \A x \in rows[c] : x.version # row.version
        BY <1>3, <2>2, CardIsRow
      <3> QED BY <1>3, <3>1
    <2> QED BY <2>1, <2>2
  <1>5. card'[c] # None => \A x \in rows'[c] : x.version <= card'[c].version
    BY <1>3, CardIsRow
  <1> QED BY <1>1, <1>2, <1>3, <1>4, <1>5

\* The row an update writes, where it writes one.
LEMMA UpdateWrites ==
  ASSUME BoardInv, NEW m \in Members, NEW s \in Slots, VersionedUpdate(m, s)
  PROVE  \/ \E phase \in {"conflict", "error"} : Refused(m, s, phase)
         \/ \E c \in Cards, t \in Titles :
              /\ c = req[m][s].card
              /\ card[c] # None /\ card[c].version = req[m][s].want.version
              /\ req[m][s].want \in CardRows
              /\ t = IF req[m][s].op = "edit" THEN req[m][s].want.title ELSE card[c].title
              /\ Wrote(m, s, c, CardRow(card[c].version + 1, req[m][s].want.column, t))
              /\ UNCHANGED made
  <1>0. /\ req[m][s].op \in {"edit", "move"} /\ req[m][s].phase = "sent"
        /\ req[m][s].card \in Cards /\ req[m][s].want \in CardRows
    BY DEF VersionedUpdate, Sent, BoardInv, Pages, IsRequest
  <1> DEFINE c == req[m][s].card
             want == req[m][s].want
             t == IF req[m][s].op = "edit" THEN want.title ELSE card[c].title
  <1>1. CASE card[c] = None \/ card[c].version # want.version
    <2>1. CASE card[c] = None
      BY <2>1 DEF VersionedUpdate
    <2>2. CASE card[c] # None /\ card[c].version # want.version
      BY <2>2 DEF VersionedUpdate
    <2> QED BY <1>1, <2>1, <2>2
  <1>2. CASE card[c] # None /\ card[c].version = want.version
    <2>1. card[c] \in CardRows /\ card[c].title \in Titles
      BY <1>0, <1>2, CardIsRow DEF BoardInv, RowsInv
    <2>2. t \in Titles
      BY <1>0, <2>1 DEF CardRows
    <2>3. Wrote(m, s, c, CardRow(want.version + 1, want.column, t)) /\ UNCHANGED made
      BY <1>2 DEF VersionedUpdate
    <2> QED BY <1>0, <1>2, <2>2, <2>3
  <1> QED BY <1>1, <1>2

LEMMA ServerAnswering ==
  ASSUME BoardInv, NEW m \in Members, NEW s \in Slots, ServerAnswers(m, s)
  PROVE  BoardInv'
  <1> USE DEF BoardInv
  <1>0. IsRequest(req[m][s]) /\ clock \in Nat
    BY DEF Pages, Histories
  <1>1. ASSUME NEW phase \in {"conflict", "error"}, Refused(m, s, phase),
               req[m][s].op \in {"edit", "move", "delete"}, req[m][s].phase = "sent"
        PROVE  BoardInv'
    <2> DEFINE r == Reply(req[m][s], phase, <<>>, clock)
    <2>1. IsRequest(r) /\ r.op = req[m][s].op /\ r.card = req[m][s].card /\ r.phase = phase
      BY <1>0, <1>1, ReplyIsRequest
    <2>2. /\ Put(m, s, r)
          /\ UNCHANGED <<card, made, copy, form, due, rows, clock, seen, astray>>
      BY <1>1 DEF Refused
    <2> HIDE DEF r
    <2> QED BY <1>1, <2>1, <2>2, ServerHasRead
  <1>2. CASE HandleFetch(m, s)
    <2> DEFINE r == Reply(req[m][s], "ok", card, clock)
    <2>0. req[m][s].op = "fetch" /\ req[m][s].phase = "sent" /\ IsPatch(card)
      BY <1>2 DEF HandleFetch, Sent, IsPatch, RowsInv
    <2>1. IsRequest(r) /\ r.op = req[m][s].op /\ r.card = req[m][s].card /\ r.phase = "ok"
          /\ r.patch = card /\ r.stamp = clock
      BY <1>0, <2>0, ReplyIsRequest
    <2>2. /\ Put(m, s, r)
          /\ UNCHANGED <<card, made, copy, form, due, rows, clock, seen, astray>>
      BY <1>2 DEF HandleFetch
    <2> HIDE DEF r
    <2> QED BY <2>0, <2>1, <2>2, ServerHasRead
  <1>3. CASE HandleCreate(m, s)
    <2>1. PICK c \in Cards \ made :
             made' = made \cup {c} /\ Wrote(m, s, c, req[m][s].want)
      BY <1>3 DEF HandleCreate
    <2>2. req[m][s].op = "create" /\ req[m][s].want \in CardRows
      BY <1>0, <1>3 DEF HandleCreate, Sent, IsRequest
    <2>3. PICK row \in CardOrNone : row = req[m][s].want /\ row # None /\ row.version > 0
      BY <2>2, RowOfCard DEF CardOrNone, CardRows, None
    <2>4. RowsInv'
      <3>1. rows[c] = {None}
        BY <2>1 DEF RowsInv
      <3>2. \A x \in rows[c] : x.version < row.version
        BY <2>3, <3>1 DEF None
      <3>3. /\ card' = [card EXCEPT ![c] = row]
            /\ rows' = [rows EXCEPT ![c] = rows[c] \cup {row}]
        BY <2>1, <2>3 DEF Wrote
      <3>4. made' \subseteq Cards /\ made \subseteq made' /\ c \in made'
        BY <2>1 DEF RowsInv
      <3> QED BY <2>1, <2>3, <3>2, <3>3, <3>4, RowIsAdded
    <2> QED BY <2>1, <2>2, <2>3, <2>4, ServerHasWritten
  <1>4. CASE VersionedUpdate(m, s)
    <2>0. req[m][s].op \in {"edit", "move"} /\ req[m][s].phase = "sent"
      BY <1>4 DEF VersionedUpdate, Sent
    <2>1. ASSUME NEW c \in Cards, NEW t \in Titles, card[c] # None,
                 req[m][s].want \in CardRows,
                 Wrote(m, s, c, CardRow(card[c].version + 1, req[m][s].want.column, t)),
                 UNCHANGED made
          PROVE  BoardInv'
      <3> DEFINE row == CardRow(card[c].version + 1, req[m][s].want.column, t)
      <3>1. card[c].version \in Nat \ {0}
        BY <2>1, CardIsRow DEF RowsInv
      <3>2. row \in CardOrNone /\ row # None /\ row.version = card[c].version + 1
        <4>1. card[c].version + 1 \in Nat \ {0} /\ req[m][s].want.column \in Columns
          BY <2>1, <3>1 DEF CardRows
        <4> QED BY <4>1, RowOfCard DEF CardOrNone
      <3> HIDE DEF row
      <3>3. RowsInv'
        <4>1. \A x \in rows[c] : x.version < row.version
          BY <2>1, <3>1, <3>2, CardIsRow DEF RowsInv
        <4>2. /\ card' = [card EXCEPT ![c] = row]
              /\ rows' = [rows EXCEPT ![c] = rows[c] \cup {row}]
          BY <2>1 DEF Wrote, row
        <4>3. c \in made
          BY <2>1 DEF RowsInv
        <4> QED BY <2>1, <3>2, <4>1, <4>2, <4>3, RowIsAdded DEF RowsInv
      <3>4. Wrote(m, s, c, row)
        BY <2>1 DEF row
      <3> QED BY <2>0, <3>2, <3>3, <3>4, ServerHasWritten
    <2> QED BY <1>1, <1>4, <2>0, <2>1, UpdateWrites
  <1>5. CASE HandleDelete(m, s)
    <2>0. req[m][s].op = "delete" /\ req[m][s].phase = "sent" /\ req[m][s].card \in Cards
      BY <1>0, <1>5 DEF HandleDelete, Sent, IsRequest
    <2>1. PICK c \in Cards : c = req[m][s].card
      BY <2>0
    <2>2. CASE Refused(m, s, "error")
      BY <1>1, <2>0, <2>2
    <2>3. CASE card[c] # None /\ Wrote(m, s, c, None) /\ UNCHANGED made
      <3>1. None \in CardOrNone
        BY DEF CardOrNone
      <3>2. RowsInv'
        <4>1. /\ card' = [card EXCEPT ![c] = None]
              /\ rows' = [rows EXCEPT ![c] = rows[c] \cup {None}]
          BY <2>3 DEF Wrote
        <4>2. c \in made
          BY <2>3 DEF RowsInv
        <4> QED BY <2>3, <3>1, <4>1, <4>2, RowIsAdded DEF RowsInv
      <3> QED BY <2>0, <2>3, <3>1, <3>2, ServerHasWritten
    <2> QED BY <1>5, <2>1, <2>2, <2>3 DEF HandleDelete
  <1> QED BY <1>2, <1>3, <1>4, <1>5 DEF ServerAnswers

\* A page that heard an answer, or has to do without, is as far as it was but for what that
\* answer told it.
LEMMA RequestIsOver ==
  ASSUME BoardInv, NEW m \in Members, NEW s \in Slots, Put(m, s, Free),
         UNCHANGED <<card, rows, made, clock>>,
         due' \in [Members -> BOOLEAN], astray' \in [Members -> BOOLEAN],
         seen' \in [Members -> Nat],
         copy' \in [Members -> [Cards -> CardOrNone]],
         DOMAIN form' = Members,
         \A n \in Members :
            form'[n] = Closed \/ (form'[n].card \in Cards /\ form'[n].base \in CardRows),
         \A n \in Members : n # m => /\ due'[n] = due[n] /\ astray'[n] = astray[n]
                                    /\ seen'[n] = seen[n] /\ copy'[n] = copy[n],
         Mirrors(m)'
  PROVE  BoardInv'
  <1> USE DEF BoardInv
  <1>1. IsRequest(Free)
    BY DEF IsRequest, Free
  <1>2. Pages'
    BY <1>1, OneRequest
  <1>3. Histories' /\ RowsInv'
    BY DEF Histories, RowsInv
  <1>4. /\ req'[m][s] = Free
        /\ \A t \in Slots : t # s => req'[m][t] = req[m][t]
        /\ \A n \in Members : n # m => \A t \in Slots : req'[n][t] = req[n][t]
    BY PutDown
  <1>5. AnswersInv'
    <2>1. ASSUME NEW n \in Members, NEW t \in Slots, req'[n][t].op # "free"
          PROVE  req'[n][t] = req[n][t]
      BY <1>4, <2>1 DEF Free
    <2> QED BY <2>1 DEF AnswersInv
  <1>6. ASSUME NEW n \in Members, n # m PROVE Mirrors(n)'
    <2>1. WillHear(n)' <=> WillHear(n)
      BY SMTT(30), <1>4, <1>6 DEF WillHear
    <2>2. \A c \in Cards : Moving(n, c)' <=> Moving(n, c)
      BY <1>4, <1>6 DEF Moving
    <2> QED BY <1>6, <2>1, <2>2 DEF Mirrors
  <1> QED BY <1>2, <1>3, <1>5, <1>6

\* What a page shows after it merged a patch.
LEMMA PatchShown ==
  ASSUME copy \in [Members -> [Cards -> CardOrNone]], NEW m \in Members, NEW patch,
         IsPatch(patch)
  PROVE  /\ Patched(m, patch) \in [Members -> [Cards -> CardOrNone]]
         /\ \A n \in Members : n # m => Patched(m, patch)[n] = copy[n]
         /\ \A c \in Cards :
              Patched(m, patch)[m][c] = IF c \in DOMAIN patch THEN patch[c] ELSE copy[m][c]
  <1> DEFINE shown == [c \in Cards |-> IF c \in DOMAIN patch THEN patch[c] ELSE copy[m][c]]
  <1>1. shown \in [Cards -> CardOrNone]
    BY DEF IsPatch
  <1>2. \A c \in Cards : shown[c] = IF c \in DOMAIN patch THEN patch[c] ELSE copy[m][c]
    OBVIOUS
  <1>3. Patched(m, patch) = [copy EXCEPT ![m] = shown]
    BY DEF Patched
  <1> HIDE DEF shown
  <1> QED BY <1>1, <1>2, <1>3

\* An answer is heard.
LEMMA PageHears ==
  ASSUME BoardInv, NEW m \in Members, NEW s \in Slots, Hear(m, s)
  PROVE  BoardInv'
  <1> USE DEF BoardInv
  <1> DEFINE r == req[m][s]
  <1>1. /\ r.op # "free" /\ r.phase = "ok" /\ IsPatch(r.patch) /\ r.stamp \in Nat
        /\ r.op \in BoardOps /\ clock \in Nat /\ seen[m] \in Nat
    BY DEF Hear, Pages, IsRequest, Histories
  <1>2. /\ Put(m, s, Free) /\ UNCHANGED <<card, made, due, rows, clock>>
        /\ copy' = Patched(m, r.patch)
        /\ seen' = [seen EXCEPT ![m] = Newer(seen[m], r.stamp)]
    BY DEF Hear
  <1>3. astray' = [astray EXCEPT ![m] =
                IF r.stamp < seen[m] THEN TRUE ELSE astray[m] /\ r.op # "fetch"]
    BY DEF Hear
  <1>4. /\ DOMAIN form' = Members
        /\ \A n \in Members :
             form'[n] = Closed \/ (form'[n].card \in Cards /\ form'[n].base \in CardRows)
    <2>1. form' = form \/ form' = [form EXCEPT ![m] = Closed]
      BY DEF Hear
    <2> QED BY <2>1 DEF Pages
  <1>5. /\ copy' \in [Members -> [Cards -> CardOrNone]]
        /\ \A n \in Members : n # m => copy'[n] = copy[n]
        /\ \A c \in Cards :
             copy'[m][c] = IF c \in DOMAIN r.patch THEN r.patch[c] ELSE copy[m][c]
    BY <1>1, <1>2, PatchShown DEF Pages
  <1>6. /\ seen' \in [Members -> Nat] /\ \A n \in Members : n # m => seen'[n] = seen[n]
        /\ seen'[m] = IF seen[m] < r.stamp THEN r.stamp ELSE seen[m]
    BY <1>1, <1>2 DEF Newer, Histories
  <1>7. /\ astray' \in [Members -> BOOLEAN]
        /\ \A n \in Members : n # m => astray'[n] = astray[n]
    BY <1>3 DEF Histories
  <1>8. r.stamp < seen[m] => astray'[m] = TRUE
    BY <1>3 DEF Histories
  <1>9. astray[m] = TRUE /\ r.op # "fetch" => astray'[m] = TRUE
    BY <1>3, <1>8 DEF Histories
  <1>10. /\ r.stamp <= clock
         /\ r.stamp = clock => \A c \in DOMAIN r.patch : r.patch[c] = card[c]
         /\ r.op = "fetch" => DOMAIN r.patch = Cards
    BY <1>1 DEF AnswersInv
  <1>11. /\ req'[m][s] = Free
         /\ \A t \in Slots : t # s => req'[m][t] = req[m][t]
    BY <1>2, PutDown
  <1>12. Mirrors(m)
    OBVIOUS
  <1>13. WillHear(m) /\ ~(r.op = "fetch" /\ r.stamp = clock) => WillHear(m)'
    <2>1. ASSUME NEW t \in Slots, req[m][t].op = "fetch",
                 req[m][t].phase = "sent" \/ (req[m][t].phase = "ok" /\ req[m][t].stamp = clock),
                 ~(r.op = "fetch" /\ r.stamp = clock)
          PROVE  t # s
      BY <1>1, <2>1
    <2>2. due'[m] = due[m] /\ clock' = clock
      BY <1>2
    <2> QED BY <1>11, <2>1, <2>2 DEF WillHear
  <1>14. \A c \in Cards : Moving(m, c) => Moving(m, c)'
    <2>1. ASSUME NEW t \in Slots, req[m][t].phase # "ok"
          PROVE  t # s
      BY <1>1, <2>1
    <2> QED BY <1>11, <2>1 DEF Moving
  <1>15. seen'[m] <= clock'
    BY <1>1, <1>2, <1>6, <1>10, <1>12 DEF Mirrors
  <1> HIDE DEF r
  <1>16. CASE r.op = "fetch" /\ r.stamp = clock
    <2>1. seen'[m] = clock'
      BY <1>1, <1>2, <1>6, <1>12, <1>16 DEF Mirrors
    <2>2. \A c \in Cards : copy'[m][c] = card'[c]
      BY <1>2, <1>5, <1>10, <1>16
    <2>3. Mirrors(m)'
      BY <1>15, <2>1, <2>2 DEF Mirrors
    <2> QED BY <1>2, <1>4, <1>5, <1>6, <1>7, <2>3, RequestIsOver DEF Histories
  <1>17. CASE ~(r.op = "fetch" /\ r.stamp = clock)
    <2>1. CASE WillHear(m)
      <3>1. Mirrors(m)'
        BY <1>13, <1>15, <1>17, <2>1 DEF Mirrors
      <3> QED BY <1>2, <1>4, <1>5, <1>6, <1>7, <3>1, RequestIsOver DEF Histories
    <2>2. CASE ~WillHear(m)
      <3>1. seen[m] = clock
        BY <1>12, <2>2 DEF Mirrors
      <3>2. seen'[m] = clock'
        BY <1>1, <1>2, <1>6, <1>10, <3>1
      <3>3. CASE r.stamp # clock
        <4>1. astray'[m] = TRUE
          BY <1>1, <1>8, <1>10, <3>1, <3>3
        <4>2. Mirrors(m)'
          BY <1>15, <3>2, <4>1 DEF Mirrors
        <4> QED BY <1>2, <1>4, <1>5, <1>6, <1>7, <4>2, RequestIsOver DEF Histories
      <3>4. CASE r.stamp = clock /\ r.op # "fetch"
        <4>1. astray[m] = TRUE \/ \A c \in Cards : copy[m][c] = card[c] \/ Moving(m, c)
          BY <1>12, <2>2 DEF Mirrors
        <4>2. ASSUME NEW c \in Cards, copy[m][c] = card[c] \/ Moving(m, c)
              PROVE  copy'[m][c] = card'[c] \/ Moving(m, c)'
          BY <1>2, <1>5, <1>10, <1>14, <3>4, <4>2
        <4>3. astray'[m] = TRUE \/ \A c \in Cards : copy'[m][c] = card'[c] \/ Moving(m, c)'
          BY <1>9, <3>4, <4>1, <4>2
        <4>4. Mirrors(m)'
          BY <1>15, <3>2, <4>3 DEF Mirrors
        <4> QED BY <1>2, <1>4, <1>5, <1>6, <1>7, <4>4, RequestIsOver DEF Histories
      <3> QED BY <1>17, <3>3, <3>4
    <2> QED BY <2>1, <2>2
  <1> QED BY <1>16, <1>17

\* A request fails, or is lost.
LEMMA PageGoesWithout ==
  ASSUME BoardInv, NEW m \in Members, NEW s \in Slots, Failed(m, s)
  PROVE  BoardInv'
  <1> USE DEF BoardInv
  <1> DEFINE r == req[m][s]
  <1>1. /\ r.op # "free" /\ r.op \in BoardOps
        /\ r.op \in {"edit", "move", "delete"} => r.card \in Cards
        /\ r.op = "move" => r.base \in CardRows
    BY DEF Failed, Pages, IsRequest
  <1>2. /\ Put(m, s, Free) /\ UNCHANGED <<card, made, rows, clock>>
        /\ copy' = IF r.op = "move" THEN Patched(m, [x \in {r.card} |-> r.base]) ELSE copy
        /\ seen' = IF r.op = "fetch" THEN [seen EXCEPT ![m] = clock] ELSE seen
    BY DEF Failed
  <1>3. astray' = [astray EXCEPT ![m] = astray[m] \/ r.op = "fetch"]
    BY DEF Failed
  <1>4. due' = [due EXCEPT ![m] =
                due[m] \/ r.op \in {"move", "delete"} \/ (r.op = "edit" /\ r.phase = "conflict")]
    BY DEF Failed
  <1>5. /\ DOMAIN form' = Members
        /\ \A n \in Members :
             form'[n] = Closed \/ (form'[n].card \in Cards /\ form'[n].base \in CardRows)
    <2>1. \/ form' = form
          \/ /\ form[m] # Closed /\ form[m].card = r.card /\ form[m].base = r.base
             /\ form' = [form EXCEPT ![m] = [card |-> r.card, base |-> r.base, sent |-> FALSE]]
      BY DEF Failed
    <2> HIDE DEF r
    <2>2. CASE form' = form
      BY <2>2 DEF Pages
    <2>3. CASE /\ form[m] # Closed /\ form[m].card = r.card /\ form[m].base = r.base
               /\ form' = [form EXCEPT ![m] = [card |-> r.card, base |-> r.base, sent |-> FALSE]]
      <3>1. r.card \in Cards /\ r.base \in CardRows
        BY <2>3 DEF Pages
      <3> QED BY <2>3, <3>1 DEF Pages
    <2> QED BY <2>1, <2>2, <2>3
  <1>6. /\ copy' \in [Members -> [Cards -> CardOrNone]]
        /\ \A n \in Members : n # m => copy'[n] = copy[n]
        /\ r.op # "move" => copy'[m] = copy[m]
    <2>1. CASE r.op = "move"
      <3>1. IsPatch([x \in {r.card} |-> r.base])
        BY <1>1, <2>1 DEF IsPatch, CardOrNone
      <3> QED BY SMTT(30), <1>2, <2>1, <3>1, PatchShown DEF Pages
    <2>2. CASE r.op # "move"
      BY <1>2, <2>2 DEF Pages
    <2> QED BY <2>1, <2>2
  <1>7. /\ due' \in [Members -> BOOLEAN] /\ astray' \in [Members -> BOOLEAN]
        /\ \A n \in Members : n # m => due'[n] = due[n] /\ astray'[n] = astray[n]
    BY <1>3, <1>4 DEF Histories
  <1>8. due[m] = TRUE \/ r.op = "move" => due'[m] = TRUE
    BY <1>4 DEF Histories
  <1>9. astray[m] = TRUE \/ r.op = "fetch" => astray'[m] = TRUE
    BY <1>3 DEF Histories
  <1>10. /\ seen' \in [Members -> Nat] /\ \A n \in Members : n # m => seen'[n] = seen[n]
         /\ seen'[m] = IF r.op = "fetch" THEN clock ELSE seen[m]
         /\ clock \in Nat /\ seen[m] \in Nat
    BY <1>2 DEF Histories
  <1>11. /\ req'[m][s] = Free
         /\ \A t \in Slots : t # s => req'[m][t] = req[m][t]
    BY <1>2, PutDown
  <1>12. Mirrors(m)
    OBVIOUS
  <1> HIDE DEF r
  <1>13. Mirrors(m)'
    <2>1. seen'[m] <= clock'
      BY <1>2, <1>10, <1>12 DEF Mirrors
    <2>2. CASE r.op = "fetch"
      <3>1. seen'[m] = clock' /\ astray'[m] = TRUE
        BY <1>2, <1>9, <1>10, <2>2
      <3> QED BY <2>1, <3>1 DEF Mirrors
    <2>3. CASE r.op = "move"
      <3>1. WillHear(m)'
        BY <1>8, <2>3 DEF WillHear
      <3> QED BY <2>1, <3>1 DEF Mirrors
    <2>4. CASE r.op \notin {"fetch", "move"}
      <3>1. WillHear(m) => WillHear(m)'
        BY <1>2, <1>8, <1>11, <2>4 DEF WillHear, r
      <3>2. \A c \in Cards : Moving(m, c) => Moving(m, c)'
        BY <1>11, <2>4 DEF Moving, r
      <3>3. seen'[m] = seen[m] /\ copy'[m] = copy[m] /\ (astray[m] = TRUE => astray'[m] = TRUE)
        BY <1>6, <1>9, <1>10, <2>4
      <3> QED BY <1>2, <1>12, <2>1, <3>1, <3>2, <3>3 DEF Mirrors
    <2> QED BY <2>2, <2>3, <2>4
  <1> QED BY <1>2, <1>5, <1>6, <1>7, <1>10, <1>13, RequestIsOver

LEMMA BoardStarts == BoardInit => BoardInv
  <1> SUFFICES ASSUME BoardInit PROVE BoardInv
    OBVIOUS
  <1>1. PICK row \in [Seeded -> {CardRow(1, col, t) : col \in Columns, t \in Titles}] :
           card = [c \in Cards |-> IF c \in Seeded THEN row[c] ELSE None]
    BY DEF BoardInit
  <1>2. \A c \in Cards : card[c] \in CardOrNone /\ (card[c] # None => c \in Seeded)
    <2>1. \A c \in Seeded : row[c] \in CardRows
      BY RowOfCard
    <2> QED BY <1>1, <2>1 DEF CardOrNone
  <1>3. DOMAIN card = Cards
    BY <1>1
  <1>4. card \in [Cards -> CardOrNone]
    BY <1>1, <1>2
  <1>5. Pages
    <2>1. IsRequest(Free)
      BY DEF IsRequest, Free
    <2>2. req = [m \in Members |-> [s \in Slots |-> Free]]
      BY DEF BoardInit
    <2>3. copy \in [Members -> [Cards -> CardOrNone]]
      BY <1>4 DEF BoardInit
    <2>4. DOMAIN form = Members /\ \A m \in Members : form[m] = Closed
      BY DEF BoardInit
    <2> QED BY <2>1, <2>2, <2>3, <2>4 DEF Pages
  <1>6. Histories
    BY DEF Histories, BoardInit
  <1>7. RowsInv
    <2>1. rows = [c \in Cards |-> {card[c]}] /\ made = Seeded
      BY DEF BoardInit
    <2>2. rows \in [Cards -> SUBSET CardOrNone]
      BY <1>2, <2>1
    <2>3. ASSUME NEW c \in Cards
          PROVE  /\ card[c] \in rows[c]
                 /\ \A x, y \in rows[c] : x.version = y.version => x = y
                 /\ card[c] # None => \A x \in rows[c] : x.version <= card[c].version
                 /\ c \notin made => rows[c] = {None}
      <3>1. rows[c] = {card[c]} /\ card[c].version \in Nat
        BY <1>2, <2>1, CardIsRow
      <3> QED BY <1>2, <2>1, <3>1
    <2> QED BY <1>4, <2>1, <2>2, <2>3 DEF RowsInv
  <1>8. AnswersInv
    BY DEF AnswersInv, BoardInit, Free
  <1>9. ASSUME NEW m \in Members PROVE Mirrors(m)
    <2>1. copy[m] = card /\ seen[m] = 0 /\ clock = 0
      BY DEF BoardInit
    <2> QED BY <2>1 DEF Mirrors
  <1> QED BY <1>5, <1>6, <1>7, <1>8, <1>9 DEF BoardInv

LEMMA BoardSteps == BoardInv /\ [BoardNext]_boardVars => BoardInv'
  <1>1. ASSUME BoardInv, UNCHANGED boardVars PROVE BoardInv'
    BY <1>1 DEF BoardInv, boardVars, Pages, Histories, RowsInv, AnswersInv, Mirrors, WillHear, Moving
  <1>2. ASSUME BoardInv, BoardNext PROVE BoardInv'
    BY <1>2, PageAsking, ServerAnswering, PageHears, PageGoesWithout DEF BoardNext
  <1> QED BY <1>1, <1>2

\* Whatever is asked, lost and answered in any order: a page with nothing under way shows
\* what the database holds, unless it was told of an older state last, or not at all
\* (board-context.tsx, refetch and the merging of answers).
THEOREM BoardAlwaysConverges == BoardSpec => []BoardConverges
  <1>1. BoardInv => BoardConverges
    <2> SUFFICES ASSUME BoardInv, NEW m \in Members, Quiescent(m), ~astray[m]
                 PROVE  copy[m] = card
      BY DEF BoardConverges
    <2>1. due[m] # TRUE /\ astray[m] # TRUE
      BY DEF Quiescent, BoardInv, Histories
    <2>2. \A s \in Slots : req[m][s].op = "free"
      BY DEF Quiescent, Free
    <2>3. ~WillHear(m) /\ \A c \in Cards : ~Moving(m, c)
      BY <2>1, <2>2 DEF WillHear, Moving
    <2>4. \A c \in Cards : copy[m][c] = card[c]
      BY <2>1, <2>3 DEF BoardInv, Mirrors
    <2>5. copy[m] \in [Cards -> CardOrNone] /\ card \in [Cards -> CardOrNone]
      BY DEF BoardInv, Pages, RowsInv
    <2> QED BY <2>4, <2>5
  <1> QED BY <1>1, BoardStarts, BoardSteps, PTL DEF BoardSpec

\* The versioned update never writes over a field its author left alone, whoever changed the
\* card in between: two rows of a card never share a version (task service, updateTask).
THEOREM OnlyOwnFieldsEdited == BoardSpec => EditsOnlyOwnFields
  <1> DEFINE OwnFields ==
        \A m \in Members, s \in Slots :
          LET r == req[m][s]
          IN Accepted(m, s) /\ r.base.version = r.want.version /\ r.base \in rows[r.card]
               => Untouched(r)
  <1>1. BoardInv /\ [BoardNext]_boardVars => [OwnFields]_boardVars
    <2> SUFFICES ASSUME BoardInv, BoardNext, NEW m \in Members, NEW s \in Slots,
                        Accepted(m, s), req[m][s].base.version = req[m][s].want.version,
                        req[m][s].base \in rows[req[m][s].card]
                 PROVE  Untouched(req[m][s])
      OBVIOUS
    <2>0. /\ req[m][s].op = "edit" /\ req[m][s].phase = "sent"
          /\ req'[m][s].op = "edit" /\ req'[m][s].phase = "ok"
      BY DEF Accepted, Sent
    <2>1. ASSUME NEW n \in Members, NEW t \in Slots, NEW r, Put(n, t, r)
          PROVE  n = m /\ t = s /\ r.op = "edit" /\ r.phase = "ok"
      <3>1. req'[n][t] = r /\ (~(n = m /\ t = s) => req'[m][s] = req[m][s])
        BY <2>1, PutDown DEF BoardInv
      <3> QED BY <2>0, <3>1
    <2>2. ASSUME NEW n \in Members, PageAsks(n)
          PROVE  FALSE
      <3>1. ASSUME NEW op, NEW c, NEW want, NEW base, NEW t \in Slots,
                   Put(n, t, Asking(op, c, want, base))
            PROVE  FALSE
        BY <2>1, <3>1 DEF Asking
      <3>2. UNCHANGED req => FALSE
        BY <2>0
      <3> QED BY <2>2, <3>1, <3>2
              DEF PageAsks, AskCreate, AskEdit, AskMove, AskDelete, Ask, OpenForm, CloseForm, Refetch
    <2>3. ASSUME NEW n \in Members, NEW t \in Slots,
                 HandleFetch(n, t) \/ HandleCreate(n, t) \/ HandleDelete(n, t)
          PROVE  FALSE
      <3>1. \E phase, patch, stamp : Put(n, t, Reply(req[n][t], phase, patch, stamp))
        BY <2>3 DEF HandleFetch, HandleCreate, HandleDelete, Wrote, Refused
      <3>2. n = m /\ t = s
        BY <2>1, <3>1
      <3> QED BY <2>0, <2>3, <3>2 DEF HandleFetch, HandleCreate, HandleDelete, Sent, Refused, Wrote
    <2>4. ASSUME NEW n \in Members, NEW t \in Slots, Hear(n, t) \/ Failed(n, t)
          PROVE  FALSE
      <3>1. Put(n, t, Free)
        BY <2>4 DEF Hear, Failed
      <3>2. Free.op = "edit"
        BY <2>1, <3>1
      <3> QED BY <3>2 DEF Free
    <2>5. ASSUME NEW n \in Members, NEW t \in Slots, VersionedUpdate(n, t)
          PROVE  Untouched(req[m][s])
      <3>1. \E phase, patch, stamp : Put(n, t, Reply(req[n][t], phase, patch, stamp))
        BY <2>5, UpdateWrites DEF Refused, Wrote
      <3>2. n = m /\ t = s
        BY <2>1, <3>1
      <3>3. ~\E phase \in {"conflict", "error"} : Refused(m, s, phase)
        BY <2>1 DEF Refused, Reply
      <3>4. PICK c \in Cards, title \in Titles :
              /\ c = req[m][s].card
              /\ card[c] # None /\ card[c].version = req[m][s].want.version
              /\ req[m][s].want \in CardRows
              /\ title = IF req[m][s].op = "edit" THEN req[m][s].want.title ELSE card[c].title
              /\ Wrote(m, s, c, CardRow(card[c].version + 1, req[m][s].want.column, title))
        BY <2>5, <3>2, <3>3, UpdateWrites
      <3>5. req[m][s].base = card[c]
        BY <3>4 DEF BoardInv, RowsInv
      <3>6. card'[c] = CardRow(card[c].version + 1, req[m][s].want.column, req[m][s].want.title)
        BY <2>0, <3>4 DEF Wrote, BoardInv, RowsInv
      <3>7. card'[c].column = req[m][s].want.column /\ card'[c].title = req[m][s].want.title
        BY <3>6 DEF CardRow
      <3> QED BY <3>4, <3>5, <3>7 DEF Untouched
    <2> QED BY <2>2, <2>3, <2>4, <2>5 DEF BoardNext, ServerAnswers
  <1> QED BY <1>1, BoardStarts, BoardSteps, PTL DEF BoardSpec, EditsOnlyOwnFields

\* What the board holds, and what a page and its forms hold of it, are cards.
THEOREM BoardTypeCorrect == BoardSpec => []BoardTypeOK
  <1>1. BoardInv => BoardTypeOK
    <2> SUFFICES ASSUME BoardInv PROVE BoardTypeOK
      OBVIOUS
    <2>1. \A c \in Cards : card[c] # None => c \in made
      BY DEF BoardInv, RowsInv
    <2>2. \A m \in Members, s \in Slots : req[m][s] = Free \/ req[m][s].op \in BoardOps
      BY DEF BoardInv, Pages, IsRequest
    <2> QED BY <2>1, <2>2 DEF BoardTypeOK, BoardInv, Pages, RowsInv, CardOrNone
  <1> QED BY <1>1, BoardStarts, BoardSteps, PTL DEF BoardSpec

-----------------------------------------------------------------------------
(* Room *)

USE CreatorIsUser, FinitelyManyUsers, BoundedRoom, UsersAreNotEvents

RoomTypeInv == RoomTypeOK /\ log \in Seq(Users \cup {"other"})

\* Who would own the room without u.
Kept(u) == \E o \in Owners : o # u

\* A change that was found harmless still is, and one that skipped the check
\* makes an owner; both until an owner leaves behind a check.
OwnerInv ==
    /\ \A q \in Requests :
         handling[q].op \in {"role", "remove"} /\ handling[q].at = "ready"
             => handling[q].as = "OWNER"
    /\ ~raced => /\ Owners # {}
                 /\ \A q \in Requests : Checked(q) => Kept(handling[q].who)

RoomInv == RoomTypeInv /\ OwnerInv

-----------------------------------------------------------------------------
(* Types *)

HandlingRow ==
    [op : RoomOps \cup {"none"}, by : Users, who : Users, as : Roles \cup {"none"},
     at : Stages \cup {"none"}, read : Nat]

\* A request that goes on has a row of the type.
LEMMA StageTyped ==
  ASSUME RoomTypeOK, NEW q \in Requests, NEW at \in Stages, NEW read \in Nat,
         Stage(q, at, read)
  PROVE  handling' \in [Requests -> HandlingRow]
  <1>1. handling[q] \in HandlingRow
    BY DEF RoomTypeOK, HandlingRow
  <1> QED BY <1>1 DEF RoomTypeOK, HandlingRow, Stage

\* So has one that ends.
LEMMA EndedTyped ==
  ASSUME RoomTypeOK, NEW q \in Requests, Ended(q)
  PROVE  handling' \in [Requests -> HandlingRow]
  <1>1. Resting \in HandlingRow
    BY DEF Resting, HandlingRow
  <1> QED BY <1>1 DEF RoomTypeOK, HandlingRow, Ended

\* Every step keeps the types.
LEMMA TypeStep ==
  ASSUME RoomTypeInv, RoomNext
  PROVE  RoomTypeInv'
  <1> USE DEF RoomTypeInv
  <1>1. ASSUME handling' \in [Requests -> HandlingRow], UNCHANGED <<role, owner, log, taken, raced>>
        PROVE  RoomTypeInv'
    BY <1>1 DEF RoomTypeOK, HandlingRow
  <1>2. ASSUME NEW q \in Requests, RefusedRequest(q)
        PROVE  RoomTypeInv'
    BY <1>1, <1>2, EndedTyped DEF RefusedRequest
  <1>3. ASSUME NEW q \in Requests, NEW at \in Stages, NEW read \in Nat, Stage(q, at, read),
               UNCHANGED <<role, owner, log, taken, raced>>
        PROVE  RoomTypeInv'
    BY <1>1, <1>3, StageTyped
  <1>4. ASSUME NEW q \in Requests
        PROVE  /\ handling[q].who \in Users /\ handling[q].as \in Roles \cup {"none"}
               /\ {"ready", "found", "checked"} \subseteq Stages /\ 0 \in Nat
    BY DEF RoomTypeOK, Stages
  <1>5. ASSUME NEW q \in Requests, NEW by \in Users, NEW who \in Users, NEW op \in RoomOps,
               NEW as \in Roles \cup {"none"}, Authorise(q, by, op, who, as)
        PROVE  RoomTypeInv'
    <2> DEFINE new == [op |-> op, by |-> by, who |-> who, as |-> as, at |-> "authorised", read |-> 0]
    <2>1. new \in HandlingRow
      BY DEF HandlingRow, Stages
    <2>2. handling' = [handling EXCEPT ![q] = new]
      BY <1>5 DEF Authorise
    <2> HIDE DEF new
    <2>3. handling' \in [Requests -> HandlingRow]
      BY <2>1, <2>2 DEF RoomTypeOK, HandlingRow
    <2>4. UNCHANGED <<role, owner, log, raced>> /\ taken' \in Nat
      BY <1>5 DEF Authorise, RoomTypeOK
    <2>5. role' \in [Users -> Roles \cup {"none"}] /\ owner' \in Users
          /\ log' \in Seq(Users \cup {"other"})
      BY <2>4 DEF RoomTypeOK
    <2>6. raced' \in BOOLEAN
      BY <2>4, Zenon DEF RoomTypeOK
    <2> QED BY <2>3, <2>4, <2>5, <2>6 DEF RoomTypeOK, HandlingRow
  <1>6. ASSUME NEW q \in Requests, FindNoMember(q)
        PROVE  RoomTypeInv'
    BY <1>2, <1>3, <1>4, <1>6 DEF FindNoMember
  <1>7. ASSUME NEW q \in Requests, FindMember(q)
        PROVE  RoomTypeInv'
    <2>1. \/ RefusedRequest(q)
          \/ /\ Stage(q, "ready", 0) \/ Stage(q, "found", 0) \/ Stage(q, "checked", 0)
             /\ UNCHANGED <<role, owner, log, taken, raced>>
      BY <1>7, Zenon DEF FindMember
    <2> QED BY <1>2, <1>3, <1>4, <2>1
  <1>8. ASSUME NEW q \in Requests, CountOwners(q)
        PROVE  RoomTypeInv'
    BY <1>2, <1>3, <1>4, <1>8 DEF CountOwners
  <1>9. ASSUME NEW q \in Requests, FindRun(q)
        PROVE  RoomTypeInv'
    BY <1>2, <1>3, <1>4, <1>9 DEF FindRun
  <1>10. ASSUME NEW q \in Requests, FindLastEvent(q)
         PROVE  RoomTypeInv'
    <2>1. Len(log) \in Nat
      OBVIOUS
    <2> QED BY <1>3, <1>4, <1>10, <2>1 DEF FindLastEvent
  <1>11. ASSUME NEW q \in Requests, AddMember(q)
         PROVE  RoomTypeInv'
    <2>1. CASE RefusedRequest(q)
      BY <1>2, <2>1
    <2>2. CASE ~RefusedRequest(q)
      BY <1>4, <1>11, <2>2, EndedTyped DEF AddMember, RoomTypeOK, HandlingRow
    <2> QED BY <2>1, <2>2
  <1>12. ASSUME NEW q \in Requests, SetMember(q)
         PROVE  RoomTypeInv'
    <2>1. CASE RefusedRequest(q)
      BY <1>2, <2>1
    <2>2. CASE ~RefusedRequest(q)
      <3>1. handling' \in [Requests -> HandlingRow] /\ UNCHANGED <<owner, log, taken>>
        BY <1>12, <2>2, EndedTyped DEF SetMember
      <3>2. role' \in [Users -> Roles \cup {"none"}]
        BY <1>4, <1>12, <2>2 DEF SetMember, RoomTypeOK
      <3>3. raced' \in BOOLEAN
        BY <1>12, <2>2, Zenon DEF SetMember
      <3> QED BY <3>1, <3>2, <3>3 DEF RoomTypeOK, HandlingRow
    <2> QED BY <2>1, <2>2
  <1>13. ASSUME NEW q \in Requests, HandOff(q)
         PROVE  RoomTypeInv'
    <2>1. CASE RefusedRequest(q)
      BY <1>2, <2>1
    <2>2. CASE ~RefusedRequest(q)
      <3>1. handling' \in [Requests -> HandlingRow]
        BY <1>13, <2>2, EndedTyped DEF HandOff
      <3>2. owner' = handling[q].who /\ log' = Append(log, handling[q].who) /\ role' = role
            /\ taken' = taken
        BY <1>13, <2>2 DEF HandOff
      <3>3. raced' \in BOOLEAN
        BY <1>13, <2>2, Zenon DEF HandOff, RoomTypeOK
      <3>4. owner' \in Users /\ log' \in Seq(Users \cup {"other"})
        BY <1>4, <3>2
      <3>5. role' \in [Users -> Roles \cup {"none"}] /\ taken' \in Nat
        BY <3>2 DEF RoomTypeOK
      <3> QED BY <3>1, <3>3, <3>4, <3>5 DEF RoomTypeOK, HandlingRow
    <2> QED BY <2>1, <2>2
  <1>14. ASSUME OtherEvent
         PROVE  RoomTypeInv'
    <2>1. log' \in Seq(Users \cup {"other"}) /\ UNCHANGED <<role, owner, handling, taken, raced>>
      BY <1>14 DEF OtherEvent
    <2>2. handling' \in [Requests -> HandlingRow] /\ role' \in [Users -> Roles \cup {"none"}]
      BY <2>1 DEF RoomTypeOK, HandlingRow
    <2>3. owner' \in Users /\ taken' \in Nat
      BY <2>1 DEF RoomTypeOK
    <2>4. raced' \in BOOLEAN
      BY <2>1, Zenon DEF RoomTypeOK
    <2>5. RoomTypeOK'
      BY <2>2, <2>3, <2>4, Zenon DEF RoomTypeOK, HandlingRow
    <2> QED BY <2>1, <2>5
  <1> QED
    BY <1>5, <1>6, <1>7, <1>8, <1>9, <1>10, <1>11, <1>12, <1>13, <1>14
    DEF RoomNext, RoomRequest

-----------------------------------------------------------------------------
(* The owners *)

\* More than one owner: whoever leaves, one is left.
LEMMA OneIsLeft ==
  ASSUME NEW u, ~(Cardinality(Owners) <= 1)
  PROVE  Kept(u)
  <1>1. SUFFICES ASSUME Owners \subseteq {u} PROVE FALSE
    BY <1>1 DEF Kept
  <1>2. IsFiniteSet({u}) /\ Cardinality({u}) = 1
    BY FS_Singleton
  <1>3. Cardinality(Owners) <= Cardinality({u})
    BY <1>1, <1>2, FS_Subset
  <1> QED BY <1>2, <1>3

\* A request that only reads, or is refused, and leaves no check behind that the
\* owners do not bear out.
LEMMA OwnersStay ==
  ASSUME RoomTypeOK, OwnerInv, NEW q \in Requests, UNCHANGED <<role, raced>>,
         NEW row, handling' = [handling EXCEPT ![q] = row],
         row.op \in {"role", "remove"} =>
             /\ row.at = "ready" => row.as = "OWNER"
             /\ ~raced /\ row.at = "checked" => Kept(row.who)
  PROVE  OwnerInv'
  <1>1. Owners' = Owners
    BY DEF Owners
  <1>2. \A p \in Requests : handling'[p] = IF p = q THEN row ELSE handling[p]
    BY DEF RoomTypeOK
  <1> QED BY <1>1, <1>2 DEF OwnerInv, Checked, Kept

\* Every step leaves an owner, and behind each check another one.
LEMMA OwnerStep ==
  ASSUME RoomTypeInv, OwnerInv, RoomNext
  PROVE  OwnerInv'
  <1> USE DEF RoomTypeInv
  <1>1. ASSUME NEW q \in Requests, Ended(q), UNCHANGED <<role, raced>>
        PROVE  OwnerInv'
    <2>1. Resting.op \notin {"role", "remove"}
      BY DEF Resting
    <2> QED BY <1>1, <2>1, OwnersStay DEF Ended
  <1>2. ASSUME NEW q \in Requests, RefusedRequest(q)
        PROVE  OwnerInv'
    BY <1>1, <1>2 DEF RefusedRequest
  <1>3. ASSUME NEW q \in Requests, NEW at, NEW read, Stage(q, at, read),
               UNCHANGED <<role, owner, log, taken, raced>>,
               handling[q].op \in {"role", "remove"} =>
                   /\ at = "ready" => handling[q].as = "OWNER"
                   /\ ~raced /\ at = "checked" => Kept(handling[q].who)
        PROVE  OwnerInv'
    <2> DEFINE row == [op |-> handling[q].op, by |-> handling[q].by, who |-> handling[q].who,
                       as |-> handling[q].as, at |-> at, read |-> read]
    <2>1. row.op = handling[q].op /\ row.at = at /\ row.as = handling[q].as /\ row.who = handling[q].who
      OBVIOUS
    <2>2. handling' = [handling EXCEPT ![q] = row]
      BY <1>3 DEF Stage
    <2> HIDE DEF row
    <2> QED BY <1>3, <2>1, <2>2, OwnersStay
  <1>4. ASSUME NEW q \in Requests, NEW by \in Users, NEW who \in Users, NEW op \in RoomOps,
               NEW as \in Roles \cup {"none"}, Authorise(q, by, op, who, as)
        PROVE  OwnerInv'
    <2> DEFINE row == [op |-> op, by |-> by, who |-> who, as |-> as, at |-> "authorised", read |-> 0]
    <2>1. row.at = "authorised"
      OBVIOUS
    <2>2. handling' = [handling EXCEPT ![q] = row]
      BY <1>4 DEF Authorise
    <2> HIDE DEF row
    <2> QED BY <1>4, <2>1, <2>2, OwnersStay DEF Authorise
  <1>5. ASSUME NEW q \in Requests, FindNoMember(q)
        PROVE  OwnerInv'
    BY <1>2, <1>3, <1>5 DEF FindNoMember, At
  <1>6. ASSUME NEW q \in Requests, AddMember(q)
        PROVE  OwnerInv'
    <2>1. CASE RefusedRequest(q)
      BY <1>2, <2>1
    <2>2. CASE ~RefusedRequest(q)
      <3>1. /\ role' = [role EXCEPT ![handling[q].who] = handling[q].as]
            /\ role[handling[q].who] = "none" /\ Ended(q) /\ raced' = raced
        BY <1>6, <2>2 DEF AddMember
      <3>2. Owners \subseteq Owners'
        BY <3>1 DEF Owners, RoomTypeOK
      <3>3. \A p \in Requests : handling'[p] = IF p = q THEN Resting ELSE handling[p]
        BY <3>1 DEF Ended, RoomTypeOK
      <3>4. \A p \in Requests : Checked(p)' => Checked(p) /\ handling'[p] = handling[p]
        BY <3>3 DEF Checked, Resting
      <3> QED BY <3>1, <3>2, <3>3, <3>4 DEF OwnerInv, Kept, Resting
    <2> QED BY <2>1, <2>2
  <1>7. ASSUME NEW q \in Requests, FindMember(q)
        PROVE  OwnerInv'
    <2>1. CASE handling[q].as = "OWNER"
      BY <1>3, <1>7, <2>1 DEF FindMember
    <2>2. CASE handling[q].as # "OWNER" /\ role[handling[q].who] = "none"
      BY <1>2, <1>7, <2>2 DEF FindMember
    <2>3. CASE handling[q].as # "OWNER" /\ role[handling[q].who] = "OWNER"
      BY <1>3, <1>7, <2>3 DEF FindMember
    <2>4. CASE handling[q].as # "OWNER" /\ role[handling[q].who] \notin {"none", "OWNER"}
      <3>1. Stage(q, "checked", 0) /\ UNCHANGED <<role, owner, log, taken, raced>>
        BY <1>7, <2>4 DEF FindMember
      <3>2. ~raced => Kept(handling[q].who)
        BY <2>4 DEF OwnerInv, Kept, Owners
      <3> QED BY <1>3, <3>1, <3>2
    <2> QED BY <2>1, <2>2, <2>3, <2>4
  <1>8. ASSUME NEW q \in Requests, CountOwners(q)
        PROVE  OwnerInv'
    BY <1>2, <1>3, <1>8, OneIsLeft DEF CountOwners
  <1>9. ASSUME NEW q \in Requests, SetMember(q)
        PROVE  OwnerInv'
    <2>1. CASE RefusedRequest(q)
      BY <1>2, <2>1
    <2>2. CASE ~RefusedRequest(q)
      <3> DEFINE u == handling[q].who
      <3>1. /\ role' = [role EXCEPT ![u] = handling[q].as] /\ Ended(q)
            /\ handling[q].op \in {"role", "remove"} /\ handling[q].at \in {"checked", "ready"}
        BY <1>9, <2>2 DEF SetMember
      <3>2. raced' = (raced \/ (role[u] = "OWNER" /\ handling[q].as # "OWNER"
                                   /\ OtherCheckUnderWay(q)))
        BY <1>9, <2>2 DEF SetMember
      <3>3. \A p \in Requests : handling'[p] = IF p = q THEN Resting ELSE handling[p]
        BY <3>1 DEF Ended, RoomTypeOK
      <3>4. \A p \in Requests : Checked(p)' => p # q /\ Checked(p) /\ handling'[p] = handling[p]
        BY <3>3 DEF Checked, Resting
      <3>5. Owners \ {u} \subseteq Owners' /\ u \in Users
        BY <3>1 DEF Owners, RoomTypeOK
      <3>6. CASE handling[q].as = "OWNER" \/ role[u] # "OWNER"
        <4>1. Owners \subseteq Owners'
          BY <3>1, <3>6 DEF Owners, RoomTypeOK
        <4>2. raced' = TRUE \/ ~raced
          BY <3>2, Zenon
        <4> QED BY <3>3, <3>4, <4>1, <4>2 DEF OwnerInv, Kept, Resting
      <3>7. CASE handling[q].as # "OWNER" /\ role[u] = "OWNER"
        <4>1. Checked(q)
          BY <3>1, <3>7 DEF Checked, OwnerInv
        <4>2. ~raced' => ~raced /\ ~OtherCheckUnderWay(q)
          BY <3>2, <3>7, Zenon
        <4>3. ~raced' => Owners' # {}
          BY <3>5, <4>1, <4>2 DEF OwnerInv, Kept
        <4>4. ~raced' => \A p \in Requests : ~Checked(p)'
          BY <3>4, <4>2 DEF OtherCheckUnderWay
        <4> QED BY <3>3, <4>3, <4>4 DEF OwnerInv, Resting
      <3> QED BY <3>6, <3>7
    <2> QED BY <2>1, <2>2
  <1>10. ASSUME NEW q \in Requests, FindRun(q) \/ FindLastEvent(q)
         PROVE  OwnerInv'
    BY <1>2, <1>3, <1>10 DEF FindRun, FindLastEvent, At
  <1>11. ASSUME NEW q \in Requests, HandOff(q)
         PROVE  OwnerInv'
    BY <1>1, <1>2, <1>11 DEF HandOff
  <1>12. ASSUME UNCHANGED <<role, handling, raced>>
         PROVE  OwnerInv'
    BY <1>12 DEF OwnerInv, Owners, Checked, Kept
  <1>13. ASSUME OtherEvent
         PROVE  OwnerInv'
    BY <1>12, <1>13 DEF OtherEvent
  <1> QED
    BY <1>4, <1>5, <1>6, <1>7, <1>8, <1>9, <1>10, <1>11, <1>13 DEF RoomNext, RoomRequest

-----------------------------------------------------------------------------
(* The hand-over *)

\* Only a hand-over sets the owner, and it is the last transfer then.
LEMMA TransferStep ==
  ASSUME RoomTypeInv, OwnerIsLastHandedTo, RoomNext
  PROVE  OwnerIsLastHandedTo'
  <1> USE DEF RoomTypeInv
  <1>1. ASSUME UNCHANGED <<owner, log>>
        PROVE  OwnerIsLastHandedTo'
    BY <1>1 DEF OwnerIsLastHandedTo, Transfers
  <1>2. ASSUME NEW q \in Requests, HandOff(q), ~RefusedRequest(q)
        PROVE  OwnerIsLastHandedTo'
    <2>1. owner' = handling[q].who /\ log' = Append(log, handling[q].who) /\ handling[q].who # "other"
      BY <1>2 DEF HandOff, RoomTypeOK
    <2>2. Len(log') = Len(log) + 1 /\ log'[Len(log) + 1] = handling[q].who /\ Len(log) \in Nat
      BY <2>1 DEF RoomTypeOK
    <2>3. Len(log) + 1 \in Transfers' /\ \A j \in Transfers' : j <= Len(log) + 1
      BY <2>1, <2>2 DEF Transfers
    <2> QED BY <2>1, <2>2, <2>3 DEF OwnerIsLastHandedTo
  <1>3. ASSUME OtherEvent
        PROVE  OwnerIsLastHandedTo'
    <2>1. owner' = owner /\ log' = Append(log, "other")
      BY <1>3 DEF OtherEvent
    <2>2. \A i \in 1 .. Len(log) : log'[i] = log[i]
      BY <2>1
    <2>3. Len(log') = Len(log) + 1 /\ log'[Len(log) + 1] = "other" /\ Len(log) \in Nat
      BY <2>1
    <2>4. Transfers' = Transfers
      BY <2>2, <2>3 DEF Transfers
    <2> QED BY <2>1, <2>2, <2>4 DEF OwnerIsLastHandedTo, Transfers
  <1>4. ASSUME NEW q \in Requests, RoomRequest(q), ~HandOff(q)
        PROVE  UNCHANGED <<owner, log>>
    BY <1>4 DEF RoomRequest, Authorise, FindNoMember, AddMember, FindMember, CountOwners, SetMember,
                FindRun, FindLastEvent, RefusedRequest
  <1> QED BY <1>1, <1>2, <1>3, <1>4 DEF RoomNext, RefusedRequest

-----------------------------------------------------------------------------

\* The creator owns the room and the run.
LEMMA RoomStart ==
  ASSUME RoomInit
  PROVE  RoomTypeInv /\ OwnerInv /\ OwnerIsLastHandedTo
  <1>1. Resting \in HandlingRow /\ Resting.op = "none"
    BY DEF Resting, HandlingRow
  <1>2. handling \in [Requests -> HandlingRow] /\ \A q \in Requests : handling[q] = Resting
    BY <1>1 DEF RoomInit
  <1>3. log = <<>> /\ log \in Seq(Users \cup {"other"}) /\ Len(log) = 0
    BY DEF RoomInit
  <1>4. raced = FALSE /\ raced \in BOOLEAN
    BY DEF RoomInit
  <1>5. RoomTypeInv
    BY <1>2, <1>3, <1>4 DEF RoomTypeInv, RoomTypeOK, HandlingRow, RoomInit, Roles
  <1>6. OwnerInv
    BY <1>1, <1>2 DEF OwnerInv, RoomInit, Owners, Checked, Roles
  <1>7. OwnerIsLastHandedTo
    BY <1>3 DEF OwnerIsLastHandedTo, Transfers, RoomInit
  <1> QED BY <1>5, <1>6, <1>7

\* A stutter changes nothing.
LEMMA RoomStutters ==
  ASSUME RoomTypeInv, OwnerInv, OwnerIsLastHandedTo, UNCHANGED roomVars
  PROVE  RoomTypeInv' /\ OwnerInv' /\ OwnerIsLastHandedTo'
  <1>1. RoomTypeInv'
    BY DEF RoomTypeInv, RoomTypeOK, roomVars
  <1>2. OwnerInv'
    BY DEF OwnerInv, Owners, Checked, Kept, roomVars
  <1>3. OwnerIsLastHandedTo'
    BY DEF OwnerIsLastHandedTo, Transfers, roomVars
  <1> QED BY <1>1, <1>2, <1>3

\* Every row, request and event keeps its type.
THEOREM RoomTypeCorrect == RoomSpec => []RoomTypeOK
  <1>1. RoomTypeInv /\ [RoomNext]_roomVars => RoomTypeInv'
    <2>1. ASSUME RoomTypeInv, UNCHANGED roomVars PROVE RoomTypeInv'
      BY <2>1 DEF RoomTypeInv, RoomTypeOK, roomVars
    <2> QED BY <2>1, TypeStep
  <1>2. RoomTypeInv => RoomTypeOK
    BY DEF RoomTypeInv
  <1> QED BY <1>1, <1>2, RoomStart, PTL DEF RoomSpec

\* assertNotLastOwner keeps its promise between any number of requests, except where
\* an owner leaves between the check of another request and its commit.
THEOREM OwnerAlwaysRemains == RoomSpec => []OwnerRemains
  <1> DEFINE Inv == RoomTypeInv /\ OwnerInv /\ OwnerIsLastHandedTo
  <1>1. RoomInit => Inv
    BY RoomStart
  <1>2. Inv /\ [RoomNext]_roomVars => Inv'
    BY TypeStep, OwnerStep, TransferStep, RoomStutters
  <1>3. Inv => OwnerRemains
    <2>1. ASSUME Inv, raced # TRUE PROVE Owners # {}
      <3>1. ~raced
        BY <2>1, Zenon DEF RoomTypeInv, RoomTypeOK
      <3> QED BY <2>1, <3>1 DEF OwnerInv
    <2> QED BY <2>1 DEF OwnerRemains
  <1> QED BY <1>1, <1>2, <1>3, PTL DEF RoomSpec

\* handoffRun: the events and the owner tell one story, however many transfers
\* are under way and whatever else is recorded meanwhile.
THEOREM OwnerAlwaysLastHandedTo == RoomSpec => []OwnerIsLastHandedTo
  <1> DEFINE Inv == RoomTypeInv /\ OwnerInv /\ OwnerIsLastHandedTo
  <1>1. RoomInit => Inv
    BY RoomStart
  <1>2. Inv /\ [RoomNext]_roomVars => Inv'
    BY TypeStep, OwnerStep, TransferStep, RoomStutters
  <1> QED BY <1>1, <1>2, PTL DEF RoomSpec

-----------------------------------------------------------------------------
(* Playbooks *)

RunRow == {NoRun} \cup [of : Sources, start : {"queued", "started", "failed"}]
ServingRow ==
    {Vacant} \cup [at : {"save", "create", "count"}, of : Sources]
    \cup [at : {"commit"}, of : Sources, last : Nat]
    \cup [at : {"start"}, of : Sources, run : Runs]

PlaybookRows ==
    /\ saved \subseteq Sources /\ archived \subseteq saved
    /\ uses \in [Sources -> Nat] /\ events \in [Sources -> Nat] /\ marks \in [Sources -> Nat]
    /\ run \in [Runs -> RunRow]
    /\ serving \in [Servings -> ServingRow]

\* Whatever names a playbook names one that was saved, and a run that a request is
\* about to start is that request's alone and has not been started.
RunsArePlaybooks ==
    /\ \A r \in Runs : run[r] = NoRun \/ run[r].of \in saved
    /\ \A q \in Servings :
         /\ serving[q].at \in {"create", "start", "count"} => serving[q].of \in saved
         /\ serving[q].at = "start" => run[serving[q].run].start = "queued"
    /\ \A q, s \in Servings :
         /\ serving[q].at = "start" /\ serving[s].at = "start"
         /\ serving[q].run = serving[s].run
         => q = s

\* Only as many requests and runs as there have been: the counts are of finite sets.
UsesInv ==
    /\ \A p \in Sources : IsFiniteSet(Counting(p)) /\ IsFiniteSet(Started(p))
    /\ UsesAreStarts

PlaybooksInv == PlaybookRows /\ RunsArePlaybooks /\ SavedOnce /\ UsesInv

\* What a request knows at each place of its way.
LEMMA ServingAt ==
  ASSUME NEW row \in ServingRow
  PROVE  /\ row = Vacant \/ row.at \in {"save", "create", "count", "commit", "start"}
         /\ row.at = "vacant" => row = Vacant
         /\ row.at \in {"save", "create", "count", "commit", "start"} => row.of \in Sources
         /\ row.at = "commit" => row.last \in Nat
         /\ row.at = "start" => row.run \in Runs
BY DEF ServingRow, Vacant

\* One request moves; it is among those that count a use exactly if it moved there.
LEMMA OneServingMoves ==
  ASSUME serving \in [Servings -> ServingRow], NEW q \in Servings, NEW next \in ServingRow,
         Go(q, next)
  PROVE  /\ serving' \in [Servings -> ServingRow]
         /\ serving'[q] = next
         /\ \A s \in Servings : s # q => serving'[s] = serving[s]
         /\ \A p \in Sources :
              Counting(p)' = IF next.at = "count" /\ next.of = p
                               THEN Counting(p) \cup {q} ELSE Counting(p) \ {q}
  <1>1. /\ serving' \in [Servings -> ServingRow]
        /\ serving'[q] = next
        /\ \A s \in Servings : s # q => serving'[s] = serving[s]
    BY DEF Go
  <1>2. ASSUME NEW p \in Sources
        PROVE  Counting(p)' = IF next.at = "count" /\ next.of = p
                                THEN Counting(p) \cup {q} ELSE Counting(p) \ {q}
    BY <1>1 DEF Counting
  <1> QED BY <1>1, <1>2

\* One run's row changes; it is among the started ones exactly if it says so.
LEMMA OneRunMoves ==
  ASSUME run \in [Runs -> RunRow], NEW r \in Runs, NEW p0 \in Sources,
         NEW start \in {"queued", "started", "failed"},
         run' = [run EXCEPT ![r] = [of |-> p0, start |-> start]]
  PROVE  /\ run' \in [Runs -> RunRow]
         /\ run'[r] = [of |-> p0, start |-> start]
         /\ \A x \in Runs : x # r => run'[x] = run[x]
         /\ \A p \in Sources :
              Started(p)' = IF start = "started" /\ p0 = p
                              THEN Started(p) \cup {r} ELSE Started(p) \ {r}
  <1>1. [of |-> p0, start |-> start] \in RunRow
    BY DEF RunRow
  <1>2. /\ run' \in [Runs -> RunRow]
        /\ run'[r] = [of |-> p0, start |-> start]
        /\ \A x \in Runs : x # r => run'[x] = run[x]
    BY <1>1
  <1>3. ASSUME NEW p \in Sources
        PROVE  Started(p)' = IF start = "started" /\ p0 = p
                              THEN Started(p) \cup {r} ELSE Started(p) \ {r}
    BY <1>2 DEF Started
  <1> QED BY <1>2, <1>3

\* A step that neither counts nor starts keeps the counts.
LEMMA CountsStand ==
  ASSUME UsesInv, UNCHANGED uses, stopped \subseteq stopped',
         \A p \in Sources : Counting(p)' = Counting(p) /\ Started(p)' = Started(p)
  PROVE  UsesInv'
BY DEF UsesInv, UsesAreStarts

\* A request that counts nothing, before and after it moves, counts nothing.
LEMMA CountsNothing ==
  ASSUME serving \in [Servings -> ServingRow], NEW q \in Servings, NEW next \in ServingRow,
         Go(q, next), serving[q].at # "count", next.at # "count"
  PROVE  \A p \in Sources : Counting(p)' = Counting(p)
  <1>1. ASSUME NEW p \in Sources
        PROVE  q \notin Counting(p)
    BY DEF Counting
  <1> QED BY <1>1, OneServingMoves

\* A row that did not say "started", and does not, starts nothing.
LEMMA StartsNothing ==
  ASSUME run \in [Runs -> RunRow], NEW r \in Runs, NEW p0 \in Sources,
         NEW start \in {"queued", "failed"}, run[r].start # "started",
         run' = [run EXCEPT ![r] = [of |-> p0, start |-> start]]
  PROVE  \A p \in Sources : Started(p)' = Started(p)
  <1>1. ASSUME NEW p \in Sources
        PROVE  r \notin Started(p)
    BY DEF Started
  <1>2. start \in {"queued", "started", "failed"} /\ start # "started"
    OBVIOUS
  <1>3. \A p \in Sources :
           Started(p)' = IF start = "started" /\ p0 = p
                           THEN Started(p) \cup {r} ELSE Started(p) \ {r}
    BY <1>2, OneRunMoves
  <1> QED BY <1>1, <1>2, <1>3

\* One request moves to where it knows as much as it must, names a saved playbook, and
\* starts no run that another one starts; the rows of runs stay.
LEMMA OneServes ==
  ASSUME PlaybookRows, RunsArePlaybooks, NEW q \in Servings, NEW next \in ServingRow,
         Go(q, next), UNCHANGED run, saved \subseteq saved',
         next.at # "start",
         next.at \in {"create", "count"} => next.of \in saved
  PROVE  RunsArePlaybooks'
  <1>1. /\ serving'[q] = next
        /\ \A s \in Servings : s # q => serving'[s] = serving[s]
    BY OneServingMoves DEF PlaybookRows
  <1> QED BY <1>1 DEF RunsArePlaybooks

\* createPlaybook, and finding a playbook to run: neither counts nor runs are touched.
LEMMA SavingSteps ==
  ASSUME PlaybooksInv, NEW q \in Servings, NEW p \in Sources,
         FindSource(q, p) \/ RequirePlaybook(q, p) \/ ReadLog(q) \/ SavePlaybook(q)
  PROVE  PlaybooksInv'
  <1> USE DEF PlaybooksInv
  <1>0. Vacant \in ServingRow /\ Vacant.at = "vacant"
    BY DEF ServingRow, Vacant
  <1>1. CASE FindSource(q, p) \/ RequirePlaybook(q, p)
    <2>1. PICK next \in ServingRow :
             Serve(q, next) /\ next.at \in {"save", "create"} /\ next.of = p
             /\ (next.at = "create" => p \in saved)
      <3>1. CASE FindSource(q, p)
        <4> DEFINE next == [at |-> "save", of |-> p]
        <4>1. next \in ServingRow
          BY DEF ServingRow
        <4> QED BY <3>1, <4>1 DEF FindSource
      <3>2. CASE RequirePlaybook(q, p)
        <4> DEFINE next == [at |-> "create", of |-> p]
        <4>1. next \in ServingRow
          BY DEF ServingRow
        <4> QED BY <3>2, <4>1 DEF RequirePlaybook
      <3> QED BY <1>1, <3>1, <3>2
    <2>2. UNCHANGED <<saved, archived, uses, events, marks, run, stopped>>
      BY <1>1 DEF FindSource, RequirePlaybook
    <2>3. Go(q, next) /\ serving[q].at # "count" /\ next.at # "count" /\ next.at # "start"
      BY <2>1, <1>0 DEF Serve
    <2>4. serving' \in [Servings -> ServingRow]
      BY <2>3, OneServingMoves DEF PlaybookRows
    <2>5. PlaybookRows'
      BY <2>2, <2>4 DEF PlaybookRows
    <2>6. RunsArePlaybooks'
      BY <2>1, <2>2, <2>3, OneServes
    <2>7. \A x \in Sources : Counting(x)' = Counting(x) /\ Started(x)' = Started(x)
      BY <2>2, <2>3, CountsNothing DEF PlaybookRows, Started
    <2>8. UsesInv'
      BY <2>2, <2>7, CountsStand
    <2>9. SavedOnce'
      BY <2>2 DEF SavedOnce
    <2> QED BY <2>5, <2>6, <2>8, <2>9
  <1>2. CASE ReadLog(q)
    <2> DEFINE next == [at |-> "commit", of |-> serving[q].of, last |-> events[serving[q].of]]
    <2>1. next \in ServingRow /\ next.at = "commit"
      <3>1. serving[q].of \in Sources
        BY <1>2, ServingAt DEF ReadLog, PlaybookRows
      <3>2. events[serving[q].of] \in Nat
        BY <3>1 DEF PlaybookRows
      <3> QED BY <3>1, <3>2 DEF ServingRow
    <2> HIDE DEF next
    <2>2. Go(q, next) /\ serving[q].at = "save"
          /\ UNCHANGED <<saved, archived, uses, events, marks, run, stopped>>
      BY <1>2 DEF ReadLog, next
    <2>4. serving' \in [Servings -> ServingRow]
      BY <2>1, <2>2, OneServingMoves DEF PlaybookRows
    <2>5. PlaybookRows'
      BY <2>2, <2>4 DEF PlaybookRows
    <2>6. RunsArePlaybooks'
      BY <2>1, <2>2, OneServes
    <2>7. \A x \in Sources : Counting(x)' = Counting(x) /\ Started(x)' = Started(x)
      BY <2>1, <2>2, CountsNothing DEF PlaybookRows, Started
    <2>8. UsesInv'
      BY <2>2, <2>7, CountsStand
    <2>9. SavedOnce'
      BY <2>2 DEF SavedOnce
    <2> QED BY <2>5, <2>6, <2>8, <2>9
  <1>3. CASE SavePlaybook(q)
    <2>1. PICK x \in Sources : x = serving[q].of
      BY <1>3, ServingAt DEF SavePlaybook, PlaybookRows
    <2>2. /\ Go(q, Vacant) /\ serving[q].at = "commit"
          /\ UNCHANGED <<archived, uses, run, stopped>>
      BY <1>3 DEF SavePlaybook
    <2>3. \/ UNCHANGED <<saved, events, marks>>
          \/ /\ x \notin saved
             /\ saved' = saved \cup {x}
             /\ events' = [events EXCEPT ![x] = events[x] + 1]
             /\ marks' = [marks EXCEPT ![x] = marks[x] + 1]
      BY <1>3, <2>1 DEF SavePlaybook
    <2>4. serving' \in [Servings -> ServingRow]
      BY <1>0, <2>2, OneServingMoves DEF PlaybookRows
    <2>5. PlaybookRows'
      BY <2>2, <2>3, <2>4 DEF PlaybookRows
    <2>6. RunsArePlaybooks'
      BY <1>0, <2>2, <2>3, OneServes
    <2>7. \A y \in Sources : Counting(y)' = Counting(y) /\ Started(y)' = Started(y)
      BY <1>0, <2>2, CountsNothing DEF PlaybookRows, Started
    <2>8. UsesInv'
      BY <2>2, <2>7, CountsStand
    <2>9. SavedOnce'
      BY <2>3 DEF SavedOnce, PlaybookRows
    <2> QED BY <2>5, <2>6, <2>8, <2>9
  <1> QED BY <1>1, <1>2, <1>3

\* Other events of the run, and archiving, touch neither.
LEMMA OtherPlaybookSteps ==
  ASSUME PlaybooksInv, NEW p \in Sources, OtherSourceEvent(p) \/ Archive(p)
  PROVE  PlaybooksInv'
  <1> USE DEF PlaybooksInv
  <1>1. UNCHANGED <<saved, uses, marks, run, serving, stopped>>
    BY DEF OtherSourceEvent, Archive
  <1>2. archived' \subseteq saved'
    BY DEF OtherSourceEvent, Archive, PlaybookRows
  <1>3. events' \in [Sources -> Nat]
    BY DEF OtherSourceEvent, Archive, PlaybookRows
  <1>4. PlaybookRows'
    BY <1>1, <1>2, <1>3 DEF PlaybookRows
  <1>5. RunsArePlaybooks' /\ SavedOnce'
    BY <1>1 DEF RunsArePlaybooks, SavedOnce
  <1>6. \A y \in Sources : Counting(y)' = Counting(y) /\ Started(y)' = Started(y)
    BY <1>1 DEF Counting, Started
  <1>7. UsesInv'
    BY <1>1, <1>6, CountsStand
  <1> QED BY <1>4, <1>5, <1>7

\* A run is created for a request, which is alone with it.
LEMMA RunIsCreated ==
  ASSUME PlaybooksInv, NEW q \in Servings, CreateRun(q)
  PROVE  PlaybooksInv'
  <1> USE DEF PlaybooksInv
  <1>0. Vacant \in ServingRow /\ Vacant.at = "vacant"
    BY DEF ServingRow, Vacant
  <1>1. /\ serving[q].at = "create"
        /\ UNCHANGED <<saved, archived, uses, events, marks, stopped>>
    BY DEF CreateRun
  <1>2. PICK x \in Sources : x = serving[q].of /\ x \in saved
    BY <1>1, ServingAt DEF PlaybookRows, RunsArePlaybooks
  <1>3. SavedOnce'
    BY <1>1 DEF SavedOnce
  <1>4. CASE Go(q, Vacant) /\ UNCHANGED run
    <2>1. serving' \in [Servings -> ServingRow]
      BY <1>0, <1>4, OneServingMoves DEF PlaybookRows
    <2>2. PlaybookRows'
      BY <1>1, <1>4, <2>1 DEF PlaybookRows
    <2>3. RunsArePlaybooks'
      BY <1>0, <1>1, <1>4, OneServes
    <2>4. \A y \in Sources : Counting(y)' = Counting(y) /\ Started(y)' = Started(y)
      BY <1>0, <1>1, <1>4, CountsNothing DEF PlaybookRows, Started
    <2>5. UsesInv'
      BY <1>1, <2>4, CountsStand
    <2> QED BY <1>3, <2>2, <2>3, <2>5
  <1>5. ASSUME NEW r \in Runs, run[r] = NoRun,
               run' = [run EXCEPT ![r] = [of |-> x, start |-> "queued"]],
               Go(q, [at |-> "start", of |-> x, run |-> r])
        PROVE  PlaybooksInv'
    <2> DEFINE next == [at |-> "start", of |-> x, run |-> r]
    <2>1. next \in ServingRow /\ next.at = "start" /\ next.of = x /\ next.run = r
      BY DEF ServingRow
    <2>2. Go(q, next)
      BY <1>5
    <2> HIDE DEF next
    <2>3. /\ serving' \in [Servings -> ServingRow]
          /\ serving'[q] = next
          /\ \A s \in Servings : s # q => serving'[s] = serving[s]
      BY <2>1, <2>2, OneServingMoves DEF PlaybookRows
    <2>4. /\ run' \in [Runs -> RunRow]
          /\ run'[r] = [of |-> x, start |-> "queued"]
          /\ \A y \in Runs : y # r => run'[y] = run[y]
      BY <1>5, OneRunMoves DEF PlaybookRows
    <2>5. run[r].start # "queued" /\ run[r].start # "started"
      BY <1>5 DEF NoRun
    <2>6. PlaybookRows'
      BY <1>1, <2>3, <2>4 DEF PlaybookRows
    <2>7. RunsArePlaybooks'
      <3>1. \A s \in Servings : serving[s].at = "start" => serving[s].run # r
        BY <2>5 DEF RunsArePlaybooks
      <3>2. \A y \in Runs : run'[y] = NoRun \/ run'[y].of \in saved'
        BY <1>1, <1>2, <2>4 DEF RunsArePlaybooks
      <3>3. ASSUME NEW s \in Servings
            PROVE  /\ serving'[s].at \in {"create", "start", "count"} => serving'[s].of \in saved'
                   /\ serving'[s].at = "start" => run'[serving'[s].run].start = "queued"
        <4>1. CASE s = q
          BY <1>1, <1>2, <2>1, <2>3, <2>4, <4>1
        <4>2. CASE s # q
          <5>1. serving'[s] = serving[s]
            BY <2>3, <4>2
          <5>2. serving[s].at = "start" => serving[s].run \in Runs
            BY ServingAt DEF PlaybookRows
          <5> QED BY <1>1, <2>4, <3>1, <5>1, <5>2 DEF RunsArePlaybooks
        <4> QED BY <4>1, <4>2
      <3>4. ASSUME NEW s \in Servings, NEW u \in Servings,
                   serving'[s].at = "start", serving'[u].at = "start",
                   serving'[s].run = serving'[u].run
            PROVE  s = u
        BY <2>1, <2>3, <3>1, <3>4 DEF RunsArePlaybooks
      <3> QED BY <3>2, <3>3, <3>4 DEF RunsArePlaybooks
    <2>8. \A y \in Sources : Counting(y)' = Counting(y)
      BY <1>1, <2>1, <2>2, CountsNothing DEF PlaybookRows
    <2>9. \A y \in Sources : Started(y)' = Started(y)
      BY <1>5, <2>5, StartsNothing DEF PlaybookRows
    <2>10. UsesInv'
      BY <1>1, <2>8, <2>9, CountsStand
    <2> QED BY <1>3, <2>6, <2>7, <2>10
  <1>6. \/ Go(q, Vacant) /\ UNCHANGED run
        \/ \E r \in Runs : /\ run[r] = NoRun
                          /\ run' = [run EXCEPT ![r] = [of |-> x, start |-> "queued"]]
                          /\ Go(q, [at |-> "start", of |-> x, run |-> r])
    BY <1>2 DEF CreateRun
  <1> QED BY <1>4, <1>5, <1>6

\* A run starts, and its use is to be counted; or it fails, and it is not.
LEMMA RunIsStarted ==
  ASSUME PlaybooksInv, NEW q \in Servings, StartRun(q)
  PROVE  PlaybooksInv'
  <1> USE DEF PlaybooksInv
  <1>1. /\ serving[q].at = "start"
        /\ UNCHANGED <<saved, archived, uses, events, marks, stopped>>
    BY DEF StartRun
  <1>2. PICK x \in Sources : x = serving[q].of /\ x \in saved
    BY <1>1, ServingAt DEF PlaybookRows, RunsArePlaybooks
  <1>3. PICK r \in Runs : r = serving[q].run
    BY <1>1, ServingAt DEF PlaybookRows
  <1>4. run[r].start = "queued"
    BY <1>1, <1>3 DEF RunsArePlaybooks
  <1>5. PICK start \in {"started", "failed"}, next \in ServingRow :
           /\ run' = [run EXCEPT ![r] = [of |-> x, start |-> start]]
           /\ Go(q, next)
           /\ start = "started" => next.at = "count" /\ next.of = x
           /\ start = "failed" => next.at = "vacant"
    <2>1. Vacant \in ServingRow /\ Vacant.at = "vacant"
      BY DEF ServingRow, Vacant
    <2> DEFINE counted == [at |-> "count", of |-> x]
    <2>2. counted \in ServingRow /\ counted.at = "count" /\ counted.of = x
      BY DEF ServingRow
    <2>3. CASE run' = [run EXCEPT ![r] = [of |-> x, start |-> "started"]] /\ Go(q, counted)
      BY <2>2, <2>3
    <2>4. CASE run' = [run EXCEPT ![r] = [of |-> x, start |-> "failed"]] /\ Go(q, Vacant)
      BY <2>1, <2>4
    <2>5. \/ run' = [run EXCEPT ![r] = [of |-> x, start |-> "started"]] /\ Go(q, counted)
          \/ run' = [run EXCEPT ![r] = [of |-> x, start |-> "failed"]] /\ Go(q, Vacant)
      BY <1>2, <1>3 DEF StartRun
    <2> QED BY <2>3, <2>4, <2>5
  <1>6. /\ serving' \in [Servings -> ServingRow]
        /\ serving'[q] = next
        /\ \A s \in Servings : s # q => serving'[s] = serving[s]
        /\ \A p \in Sources :
              Counting(p)' = IF next.at = "count" /\ next.of = p
                               THEN Counting(p) \cup {q} ELSE Counting(p) \ {q}
    BY <1>5, OneServingMoves DEF PlaybookRows
  <1>7. start \in {"queued", "started", "failed"}
    OBVIOUS
  <1>8. /\ run' \in [Runs -> RunRow]
        /\ run'[r] = [of |-> x, start |-> start]
        /\ \A y \in Runs : y # r => run'[y] = run[y]
        /\ \A p \in Sources :
              Started(p)' = IF start = "started" /\ x = p
                              THEN Started(p) \cup {r} ELSE Started(p) \ {r}
    BY <1>5, <1>7, OneRunMoves DEF PlaybookRows
  <1>9. PlaybookRows' /\ SavedOnce'
    BY <1>1, <1>6, <1>8 DEF PlaybookRows, SavedOnce
  <1>10. RunsArePlaybooks'
    <2>0. next.at # "start" /\ next.at # "create" /\ (next.at = "count" => next.of = x)
      BY <1>5
    <2>1. \A s \in Servings : s # q /\ serving[s].at = "start" => serving[s].run # r
      BY <1>1, <1>3 DEF RunsArePlaybooks
    <2>2. \A y \in Runs : run'[y] = NoRun \/ run'[y].of \in saved'
      BY <1>1, <1>2, <1>8 DEF RunsArePlaybooks
    <2>3. ASSUME NEW s \in Servings
          PROVE  /\ serving'[s].at \in {"create", "start", "count"} => serving'[s].of \in saved'
                 /\ serving'[s].at = "start" => run'[serving'[s].run].start = "queued"
      <3>1. CASE s = q
        BY <1>1, <1>2, <1>6, <2>0, <3>1
      <3>2. CASE s # q
        <4>1. serving'[s] = serving[s]
          BY <1>6, <3>2
        <4>2. serving[s].at = "start" => serving[s].run \in Runs
          BY ServingAt DEF PlaybookRows
        <4> QED BY <1>1, <1>8, <2>1, <3>2, <4>1, <4>2 DEF RunsArePlaybooks
      <3> QED BY <3>1, <3>2
    <2>4. ASSUME NEW s \in Servings, NEW u \in Servings,
                 serving'[s].at = "start", serving'[u].at = "start",
                 serving'[s].run = serving'[u].run
          PROVE  s = u
      BY <1>6, <2>0, <2>4 DEF RunsArePlaybooks
    <2> QED BY <2>2, <2>3, <2>4 DEF RunsArePlaybooks
  <1>11. ASSUME NEW p \in Sources
         PROVE  q \notin Counting(p) /\ r \notin Started(p)
    BY <1>1, <1>4 DEF Counting, Started
  <1>12. CASE start = "failed"
    <2>0. next.at # "count"
      BY <1>5, <1>12
    <2>1. ASSUME NEW p \in Sources
          PROVE  Counting(p)' = Counting(p) /\ Started(p)' = Started(p)
      <3>1. Counting(p)' = Counting(p) \ {q}
        BY <1>6, <2>0
      <3>2. Started(p)' = Started(p) \ {r}
        BY <1>8, <1>12
      <3> QED BY <1>11, <3>1, <3>2
    <2>3. UsesInv'
      BY <1>1, <2>1, CountsStand
    <2> QED BY <1>9, <1>10, <2>3
  <1>13. CASE start = "started"
    <2>1. ASSUME NEW p \in Sources, p # x
          PROVE  Counting(p)' = Counting(p) /\ Started(p)' = Started(p)
      <3>0. next.of # p
        BY <1>5, <1>13, <2>1
      <3>1. Counting(p)' = Counting(p) \ {q}
        BY <1>6, <3>0
      <3>2. Started(p)' = Started(p) \ {r}
        BY <1>8, <2>1
      <3> QED BY <1>11, <3>1, <3>2
    <2>2. Counting(x)' = Counting(x) \cup {q} /\ q \notin Counting(x)
      BY <1>5, <1>6, <1>11, <1>13
    <2>3. Started(x)' = Started(x) \cup {r} /\ r \notin Started(x)
      BY <1>8, <1>11, <1>13
    <2>4. IsFiniteSet(Counting(x)) /\ IsFiniteSet(Started(x))
      BY DEF UsesInv
    <2>5. /\ IsFiniteSet(Counting(x)') /\ IsFiniteSet(Started(x)')
          /\ Cardinality(Counting(x)') = Cardinality(Counting(x)) + 1
          /\ Cardinality(Started(x)') = Cardinality(Started(x)) + 1
          /\ Cardinality(Counting(x)) \in Nat /\ Cardinality(Started(x)) \in Nat
      BY <2>2, <2>3, <2>4, FS_AddElement, FS_CardinalityType
    <2>6. uses[x] \in Nat
      BY DEF PlaybookRows
    <2>7. UsesInv'
      BY <1>1, <2>1, <2>5, <2>6 DEF UsesInv, UsesAreStarts
    <2> QED BY <1>9, <1>10, <2>7
  <1> QED BY <1>12, <1>13

\* The use is counted, or the process stops before it is: one request less is about to.
LEMMA UseIsCounted ==
  ASSUME PlaybooksInv, NEW q \in Servings, RecordUse(q) \/ StopServing(q)
  PROVE  PlaybooksInv'
  <1> USE DEF PlaybooksInv
  <1>0. Vacant \in ServingRow /\ Vacant.at = "vacant"
    BY DEF ServingRow, Vacant
  <1>1. Go(q, Vacant) /\ UNCHANGED <<saved, archived, events, marks, run>>
    BY DEF RecordUse, StopServing
  <1>2. serving' \in [Servings -> ServingRow]
    BY <1>0, <1>1, OneServingMoves DEF PlaybookRows
  <1>3. \A p \in Sources : Counting(p)' = Counting(p) \ {q}
    BY <1>0, <1>1, OneServingMoves DEF PlaybookRows
  <1>4. \A p \in Sources : Started(p)' = Started(p)
    BY <1>1 DEF Started
  <1>5. RunsArePlaybooks' /\ SavedOnce'
    <2>1. RunsArePlaybooks'
      BY <1>0, <1>1, OneServes
    <2> QED BY <1>1, <2>1 DEF SavedOnce
  <1>6. CASE serving[q].at # "count"
    <2>1. UNCHANGED uses /\ stopped \subseteq stopped'
      BY <1>6 DEF RecordUse, StopServing
    <2>2. \A p \in Sources : Counting(p)' = Counting(p)
      BY <1>0, <1>1, <1>6, CountsNothing DEF PlaybookRows
    <2>3. UsesInv'
      BY <1>4, <2>1, <2>2, CountsStand
    <2>4. PlaybookRows'
      BY <1>1, <1>2, <2>1 DEF PlaybookRows
    <2> QED BY <1>5, <2>3, <2>4
  <1>7. CASE serving[q].at = "count"
    <2>1. PICK x \in Sources : x = serving[q].of
      BY <1>7, ServingAt DEF PlaybookRows
    <2>2. \A p \in Sources : p # x => Counting(p)' = Counting(p)
      <3>1. ASSUME NEW p \in Sources, p # x
            PROVE  q \notin Counting(p)
        BY <2>1, <3>1 DEF Counting
      <3> QED BY <1>3, <3>1
    <2>3. q \in Counting(x)
      BY <1>7, <2>1 DEF Counting
    <2>4. IsFiniteSet(Counting(x)) /\ IsFiniteSet(Started(x))
      BY DEF UsesInv
    <2>5. /\ IsFiniteSet(Counting(x)')
          /\ Cardinality(Counting(x)') = Cardinality(Counting(x)) - 1
          /\ Cardinality(Counting(x)) \in Nat /\ Cardinality(Started(x)) \in Nat
      BY <1>3, <2>3, <2>4, FS_RemoveElement, FS_CardinalityType
    <2>6. \/ uses' = [uses EXCEPT ![x] = uses[x] + 1] /\ UNCHANGED stopped
          \/ UNCHANGED uses /\ stopped' = stopped \cup {x}
      BY <1>7, <2>1 DEF RecordUse, StopServing
    <2>7. PlaybookRows'
      BY <1>1, <1>2, <2>6 DEF PlaybookRows
    <2>8. \A p \in Sources : IsFiniteSet(Counting(p)') /\ IsFiniteSet(Started(p)')
      BY <1>4, <2>2, <2>5 DEF UsesInv
    <2>9. UsesAreStarts'
      <3>1. uses[x] \in Nat
        BY DEF PlaybookRows
      <3>2. ASSUME NEW p \in Sources, p # x
            PROVE  uses'[p] = uses[p] /\ (p \notin stopped' => p \notin stopped)
        BY <2>6, <3>2 DEF PlaybookRows
      <3>3. LET counted == uses'[x] + Cardinality(Counting(x)')
            IN counted <= Cardinality(Started(x)')
               /\ (x \notin stopped' => counted = Cardinality(Started(x)'))
        BY <1>4, <2>5, <2>6, <3>1 DEF UsesInv, UsesAreStarts, PlaybookRows
      <3>4. ASSUME NEW p \in Sources, p # x
            PROVE  LET counted == uses'[p] + Cardinality(Counting(p)')
                   IN counted <= Cardinality(Started(p)')
                      /\ (p \notin stopped' => counted = Cardinality(Started(p)'))
        BY <1>4, <2>2, <3>2, <3>4 DEF UsesInv, UsesAreStarts
      <3> QED BY <3>3, <3>4 DEF UsesAreStarts
    <2>10. UsesInv'
      BY <2>8, <2>9 DEF UsesInv
    <2> QED BY <1>5, <2>7, <2>10
  <1> QED BY <1>6, <1>7

LEMMA PlaybooksStart == PlaybooksInit => PlaybooksInv
  <1> SUFFICES ASSUME PlaybooksInit PROVE PlaybooksInv
    OBVIOUS
  <1> USE DEF PlaybooksInit
  <1>1. PlaybookRows
    BY DEF PlaybookRows, RunRow, ServingRow
  <1>2. RunsArePlaybooks
    BY DEF RunsArePlaybooks, Vacant
  <1>3. SavedOnce
    BY DEF SavedOnce
  <1>4. \A p \in Sources : Counting(p) = {} /\ Started(p) = {}
    BY DEF Counting, Started, Vacant, NoRun
  <1>5. UsesInv
    BY <1>4, FS_EmptySet DEF UsesInv, UsesAreStarts
  <1> QED BY <1>1, <1>2, <1>3, <1>5 DEF PlaybooksInv

LEMMA PlaybooksSteps == PlaybooksInv /\ [PlaybooksNext]_playbookVars => PlaybooksInv'
  <1>1. ASSUME PlaybooksInv, UNCHANGED playbookVars PROVE PlaybooksInv'
    <2>1. UNCHANGED <<saved, archived, uses, events, marks, run, serving, stopped>>
      BY <1>1 DEF playbookVars
    <2>2. \A y \in Sources : Counting(y)' = Counting(y) /\ Started(y)' = Started(y)
      BY <2>1 DEF Counting, Started
    <2>3. UsesInv'
      BY <1>1, <2>1, <2>2, CountsStand DEF PlaybooksInv
    <2> QED BY <1>1, <2>1, <2>3 DEF PlaybooksInv, PlaybookRows, RunsArePlaybooks, SavedOnce
  <1>2. ASSUME PlaybooksInv, PlaybooksNext PROVE PlaybooksInv'
    <2>1. ASSUME NEW q \in Servings, ReadLog(q) \/ SavePlaybook(q)
          PROVE  PlaybooksInv'
      <3>1. serving[q].of \in Sources
        BY <1>2, <2>1, ServingAt DEF ReadLog, SavePlaybook, PlaybooksInv, PlaybookRows
      <3> QED BY <1>2, <2>1, <3>1, SavingSteps
    <2> QED BY <1>2, <2>1, SavingSteps, OtherPlaybookSteps, RunIsCreated, RunIsStarted, UseIsCounted
            DEF PlaybooksNext
  <1> QED BY <1>1, <1>2

\* However many members save a run at once, it becomes a playbook once; and its use count
\* is that of the runs started from it, behind only where a process stopped in between
\* (createPlaybook, recordPlaybookUse).
THEOREM PlaybooksAlwaysTrue == PlaybooksSpec => []PlaybooksAreTrue
  <1>1. PlaybooksInv => PlaybooksAreTrue
    BY DEF PlaybooksInv, UsesInv, PlaybooksAreTrue
  <1> QED BY <1>1, PlaybooksStart, PlaybooksSteps, PTL DEF PlaybooksSpec

\* Whatever a run, a request or an archive names is a playbook there is.
THEOREM PlaybooksTypeCorrect == PlaybooksSpec => []PlaybooksTypeOK
  <1>1. PlaybooksInv => PlaybooksTypeOK
    BY DEF PlaybooksInv, PlaybookRows, RunsArePlaybooks, PlaybooksTypeOK
  <1> QED BY <1>1, PlaybooksStart, PlaybooksSteps, PTL DEF PlaybooksSpec

-----------------------------------------------------------------------------
(* Delivery *)

USE BoundedDelivery

CallRow ==
    {Idle} \cup [at : {"run"}] \cup [at : {"repository"}, heading : Headings]
    \cup [at : {"branch", "files", "store", "winner"}, place : Branches, n : Nat]
    \cup [at : {"stored"}, place : Branches, n : Nat, last : Nat]

CallsTyped ==
    /\ call \in [Callers -> CallRow]
    /\ active \in Repositories /\ heading \in Headings
    /\ branch \in [Branches -> 0 .. NoBranch]
    /\ pulls \in [Branches -> Nat]
    /\ isOpen \in [Branches -> BOOLEAN]
    /\ recorded \in Nat /\ drafted \in Nat

Holding == {"files", "store", "stored"}
Holds(c) == call[c].at \in Holding

\* A caller that has cut the branch is alone with it: what it has put there, and
\* whether it has opened the pull request, is what the branch shows.
BranchInv ==
    /\ \A p \in Branches : pulls[p] <= 1 /\ (branch[p] = NoBranch => pulls[p] = 0)
    /\ \A c \in Callers :
          /\ call[c].at = "files" =>
                /\ branch[call[c].place] = call[c].n /\ call[c].n <= NReviewed
                /\ pulls[call[c].place] = 0
          /\ call[c].at \in {"store", "stored"} =>
                /\ branch[call[c].place] = NReviewed /\ call[c].n = 1
                /\ pulls[call[c].place] = 1
    /\ \A c, d \in Callers : Holds(c) /\ Holds(d) /\ call[c].place = call[d].place => c = d

\* The link is a branch's, complete, and with its pull request.
LinkInv ==
    /\ link # NoLink => link.place \in Branches /\ link.number = 1 /\ pulls[link.place] = 1
    /\ LinkIsDelivered
    /\ AllToldTheLink

DeliveryInv == CallsTyped /\ BranchInv /\ LinkInv

-----------------------------------------------------------------------------
(* A caller's progress *)

\* What a caller knows at each place of its way.
LEMMA RowAt ==
  ASSUME NEW row \in CallRow
  PROVE  /\ row = Idle \/ row.at \in Working
         /\ row.at \in {"branch", "files", "store", "winner", "stored"}
                => row.place \in Branches /\ row.n \in Nat
         /\ row.at = "stored" => row.last \in Nat
         /\ row.at = "repository" => row.heading \in Headings
BY DEF CallRow, Idle, Working

\* The row a step leads to is one, and has the fields it was given.
LEMMA StepRow ==
  ASSUME NEW at \in {"branch", "files", "store", "winner"}, NEW p \in Branches, NEW n \in Nat
  PROVE  /\ Step(at, p, n) \in CallRow
         /\ Step(at, p, n).at = at /\ Step(at, p, n).place = p /\ Step(at, p, n).n = n
BY DEF Step, CallRow

\* A caller that is done is at a place of its own.
LEMMA IdleRow == Idle \in CallRow /\ Idle.at = "idle"
BY DEF Idle, CallRow

\* A caller that moves on leaves the others where they are.
LEMMA OnwardOne ==
  ASSUME call \in [Callers -> CallRow], NEW c \in Callers, NEW next \in CallRow, Onward(c, next)
  PROVE  /\ call' \in [Callers -> CallRow]
         /\ call'[c] = next
         /\ \A d \in Callers : d # c => call'[d] = call[d]
BY DEF Onward

\* A caller moves on and leaves the branches alone, or lets go of its own.
LEMMA LetsGo ==
  ASSUME CallsTyped, BranchInv, NEW c \in Callers, NEW next \in CallRow, Onward(c, next),
         next.at \notin Holding, UNCHANGED <<branch, pulls>>
  PROVE  BranchInv'
  <1>1. call'[c] = next /\ \A d \in Callers : d # c => call'[d] = call[d]
    BY OnwardOne DEF CallsTyped
  <1> QED BY <1>1 DEF BranchInv, Holds, Holding

\* A caller that has a branch to itself may change it, and go on with it.
LEMMA HoldersMove ==
  ASSUME CallsTyped, BranchInv, NEW c \in Callers, NEW next \in CallRow, Onward(c, next),
         NEW p \in Branches,
         \A q \in Branches : q # p => branch'[q] = branch[q] /\ pulls'[q] = pulls[q],
         \A d \in Callers : d # c /\ Holds(d) => call[d].place # p,
         pulls'[p] <= 1, branch'[p] = NoBranch => pulls'[p] = 0,
         next.at \in Holding => next.place = p,
         next.at = "files" => branch'[p] = next.n /\ next.n <= NReviewed /\ pulls'[p] = 0,
         next.at \in {"store", "stored"} => branch'[p] = NReviewed /\ next.n = 1 /\ pulls'[p] = 1
  PROVE  BranchInv'
  <1>1. call'[c] = next /\ \A d \in Callers : d # c => call'[d] = call[d]
    BY OnwardOne DEF CallsTyped
  <1>2. \A d \in Callers : d # c /\ Holds(d) =>
            /\ call[d].place \in Branches /\ call[d].place # p
            /\ branch'[call[d].place] = branch[call[d].place]
            /\ pulls'[call[d].place] = pulls[call[d].place]
    BY RowAt DEF CallsTyped, Holds, Holding
  <1>3. \A q \in Branches : pulls'[q] <= 1 /\ (branch'[q] = NoBranch => pulls'[q] = 0)
    BY DEF BranchInv
  <1>4. \A d \in Callers :
          /\ call'[d].at = "files" =>
                /\ branch'[call'[d].place] = call'[d].n /\ call'[d].n <= NReviewed
                /\ pulls'[call'[d].place] = 0
          /\ call'[d].at \in {"store", "stored"} =>
                /\ branch'[call'[d].place] = NReviewed /\ call'[d].n = 1
                /\ pulls'[call'[d].place] = 1
    BY <1>1, <1>2 DEF BranchInv, Holds, Holding
  <1>5. \A d, e \in Callers :
            call'[d].at \in Holding /\ call'[e].at \in Holding /\ call'[d].place = call'[e].place
                => d = e
    BY <1>1, <1>2 DEF BranchInv, Holds
  <1> QED BY <1>3, <1>4, <1>5 DEF BranchInv, Holds, NoBranch

-----------------------------------------------------------------------------
(* The steps *)

\* A step that only moves a caller on, and not onto a branch.
LEMMA OnlyMoves ==
  ASSUME DeliveryInv, NEW c \in Callers, NEW next \in CallRow, Onward(c, next),
         next.at \notin Holding, recorded' \in Nat,
         UNCHANGED <<active, heading, branch, pulls, isOpen, link, drafted, told>>
  PROVE  DeliveryInv'
  <1>1. CallsTyped'
    BY OnwardOne DEF DeliveryInv, CallsTyped
  <1>2. BranchInv'
    BY LetsGo DEF DeliveryInv
  <1>3. LinkInv'
    BY DEF DeliveryInv, LinkInv, LinkIsDelivered, AllToldTheLink
  <1> QED BY <1>1, <1>2, <1>3 DEF DeliveryInv

\* A step that answers a caller with the link there is.
LEMMA Answers ==
  ASSUME DeliveryInv, NEW c \in Callers, link # NoLink, Told(c, link),
         UNCHANGED <<active, heading, branch, pulls, isOpen, link, drafted, recorded>>
  PROVE  DeliveryInv'
  <1>1. Onward(c, Idle) /\ told' = told \cup {link}
    BY DEF Told
  <1>2. CallsTyped'
    BY <1>1, IdleRow, OnwardOne DEF DeliveryInv, CallsTyped
  <1>3. BranchInv'
    BY <1>1, IdleRow, LetsGo DEF DeliveryInv, Holding
  <1>4. LinkInv'
    BY <1>1 DEF DeliveryInv, LinkInv, LinkIsDelivered, AllToldTheLink
  <1> QED BY <1>2, <1>3, <1>4 DEF DeliveryInv

\* Reads, refusals and answers.
LEMMA FirstReads ==
  ASSUME DeliveryInv, NEW c \in Callers,
         FindLink(c) \/ ReadFinishedRun(c) \/ FindRepository(c) \/ FindWinner(c) \/ LosesRace(c) \/ GiveUp(c)
  PROVE  DeliveryInv'
  <1> USE DEF Holding
  <1>1. CASE FindLink(c)
    <2>1. CASE link # NoLink
      BY <1>1, <2>1, Answers DEF FindLink
    <2>2. CASE link = NoLink
      <3>1. [at |-> "run"] \in CallRow
        BY DEF CallRow
      <3> QED BY <1>1, <2>2, <3>1, OnlyMoves DEF FindLink, DeliveryInv, CallsTyped
    <2> QED BY <2>1, <2>2
  <1>2. CASE ReadFinishedRun(c)
    <2> DEFINE next == [at |-> "repository", heading |-> heading]
    <2>1. next \in CallRow /\ next.at = "repository"
      BY DEF CallRow, DeliveryInv, CallsTyped
    <2>2. Onward(c, next) /\ recorded' \in Nat
      BY <1>2 DEF ReadFinishedRun, DeliveryInv, CallsTyped
    <2> HIDE DEF next
    <2> QED BY <1>2, <2>1, <2>2, OnlyMoves DEF ReadFinishedRun
  <1>3. CASE FindRepository(c)
    <2>1. call[c] \in CallRow /\ call[c].at = "repository"
      BY <1>3 DEF FindRepository, DeliveryInv, CallsTyped
    <2> DEFINE p == [repo |-> active, heading |-> call[c].heading]
    <2>2. p \in Branches
      BY <2>1, RowAt DEF Branches, DeliveryInv, CallsTyped
    <2>3. Onward(c, Step("branch", p, 0)) /\ recorded' \in Nat
      BY <1>3 DEF FindRepository, DeliveryInv, CallsTyped
    <2> HIDE DEF p
    <2>4. Step("branch", p, 0) \in CallRow /\ Step("branch", p, 0).at = "branch"
      BY <2>2, StepRow
    <2> QED BY <1>3, <2>3, <2>4, OnlyMoves DEF FindRepository
  <1>4. CASE FindWinner(c)
    <2>1. CASE link # NoLink
      BY <1>4, <2>1, Answers DEF FindWinner
    <2>2. CASE link = NoLink
      BY <1>4, <2>2, IdleRow, OnlyMoves DEF FindWinner, DeliveryInv, CallsTyped
    <2> QED BY <2>1, <2>2
  <1>5. CASE LosesRace(c)
    <2>1. call[c] \in CallRow /\ call[c].at = "stored"
      BY <1>5 DEF LosesRace, DeliveryInv, CallsTyped
    <2>2. /\ Step("winner", call[c].place, call[c].n) \in CallRow
          /\ Step("winner", call[c].place, call[c].n).at = "winner"
      BY <2>1, RowAt, StepRow
    <2> QED BY <1>5, <2>2, OnlyMoves DEF LosesRace, DeliveryInv, CallsTyped
  <1>6. CASE GiveUp(c)
    BY <1>6, IdleRow, OnlyMoves DEF GiveUp, DeliveryInv, CallsTyped
  <1> QED BY <1>1, <1>2, <1>3, <1>4, <1>5, <1>6

\* GitHub cuts a branch only if there is none: nobody holds it yet.
LEMMA BranchIsCut ==
  ASSUME DeliveryInv, NEW c \in Callers, CreateBranch(c)
  PROVE  DeliveryInv'
  <1> DEFINE p == call[c].place
  <1>1. call[c] \in CallRow /\ call[c].at = "branch" /\ branch[p] = NoBranch
    BY DEF CreateBranch, DeliveryInv, CallsTyped
  <1>2. p \in Branches
    BY <1>1, RowAt
  <1>3. branch' = [branch EXCEPT ![p] = 0]
        /\ UNCHANGED <<active, heading, pulls, isOpen, link, drafted, recorded, told>>
    BY DEF CreateBranch
  <1>4. PICK next \in {Step("files", p, 0), Idle} : Onward(c, next)
    BY DEF CreateBranch, Called
  <1>5. /\ next \in CallRow /\ next.at \in {"files", "idle"}
        /\ next.at = "files" => next.place = p /\ next.n = 0
    BY <1>2, <1>4, StepRow, IdleRow
  <1> HIDE DEF p
  <1>6. branch'[p] = 0 /\ (\A q \in Branches : q # p => branch'[q] = branch[q]) /\ pulls' = pulls
        /\ branch' \in [Branches -> 0 .. NoBranch]
    BY <1>2, <1>3 DEF DeliveryInv, CallsTyped, NoBranch
  <1>7. pulls[p] = 0
    BY <1>1, <1>2 DEF p, DeliveryInv, BranchInv
  <1>8. \A d \in Callers : Holds(d) => call[d].place # p
    BY <1>1 DEF p, DeliveryInv, BranchInv, Holds, Holding, CallsTyped, NoBranch
  <1>9. CallsTyped'
    BY <1>3, <1>4, <1>5, <1>6, OnwardOne DEF DeliveryInv, CallsTyped
  <1>10. BranchInv'
    BY <1>2, <1>4, <1>5, <1>6, <1>7, <1>8, HoldersMove DEF DeliveryInv, Holding
  <1>11. LinkInv'
    <2>1. link # NoLink => link.place # p /\ link.place \in Branches
      BY <1>7 DEF DeliveryInv, LinkInv
    <2> QED BY <1>3, <1>6, <2>1 DEF DeliveryInv, LinkInv, LinkIsDelivered, AllToldTheLink
  <1> QED BY <1>9, <1>10, <1>11 DEF DeliveryInv

\* Who puts a file holds the branch alone, and has opened nothing yet.
LEMMA FileIsPut ==
  ASSUME DeliveryInv, NEW c \in Callers, PutFile(c)
  PROVE  DeliveryInv'
  <1> DEFINE p == call[c].place
             n == call[c].n + 1
  <1>1. call[c] \in CallRow /\ call[c].at = "files" /\ call[c].n < NReviewed
    BY DEF PutFile, DeliveryInv, CallsTyped
  <1>2. p \in Branches /\ n \in Nat /\ n <= NReviewed
    BY <1>1, RowAt
  <1>3. branch[p] = call[c].n /\ pulls[p] = 0
    BY <1>1 DEF DeliveryInv, BranchInv
  <1>4. branch' = [branch EXCEPT ![p] = n]
        /\ UNCHANGED <<active, heading, pulls, isOpen, link, drafted, recorded, told>>
    <2>1. branch[p] < n
      BY <1>1, <1>3, RowAt
    <2> QED BY <1>2, <2>1 DEF PutFile
  <1>5. PICK next \in {Step("files", p, n), Idle} : Onward(c, next)
    BY DEF PutFile, Called
  <1>6. \A d \in Callers : d # c /\ Holds(d) => call[d].place # p
    BY <1>1 DEF DeliveryInv, BranchInv, Holds, Holding
  <1> HIDE DEF p, n
  <1>7. /\ next \in CallRow /\ next.at \in {"files", "idle"}
        /\ next.at = "files" => next.place = p /\ next.n = n
    BY <1>2, <1>5, StepRow, IdleRow
  <1>8. branch'[p] = n /\ (\A q \in Branches : q # p => branch'[q] = branch[q]) /\ pulls' = pulls
        /\ branch' \in [Branches -> 0 .. NoBranch]
    BY <1>2, <1>4 DEF DeliveryInv, CallsTyped, NoBranch
  <1>9. CallsTyped'
    BY <1>4, <1>5, <1>7, <1>8, OnwardOne DEF DeliveryInv, CallsTyped
  <1>10. BranchInv'
    BY <1>2, <1>3, <1>5, <1>6, <1>7, <1>8, HoldersMove DEF DeliveryInv, Holding, NoBranch
  <1>11. LinkInv'
    <2>1. link # NoLink => link.place # p /\ link.place \in Branches
      BY <1>3 DEF DeliveryInv, LinkInv
    <2> QED BY <1>4, <1>8, <2>1 DEF DeliveryInv, LinkInv, LinkIsDelivered, AllToldTheLink
  <1> QED BY <1>9, <1>10, <1>11 DEF DeliveryInv

\* The same holds of who opens the pull request.
LEMMA PullRequestIsOpened ==
  ASSUME DeliveryInv, NEW c \in Callers, CreateDraftPullRequest(c)
  PROVE  DeliveryInv'
  <1> DEFINE p == call[c].place
  <1>1. call[c] \in CallRow /\ call[c].at = "files" /\ call[c].n = NReviewed
    BY DEF CreateDraftPullRequest, DeliveryInv, CallsTyped
  <1>2. p \in Branches
    BY <1>1, RowAt
  <1>3. branch[p] = NReviewed /\ pulls[p] = 0
    BY <1>1 DEF DeliveryInv, BranchInv
  <1>4. /\ pulls' = [pulls EXCEPT ![p] = 1] /\ isOpen' = [isOpen EXCEPT ![p] = TRUE]
        /\ UNCHANGED <<active, heading, branch, link, drafted, recorded, told>>
    BY <1>3 DEF CreateDraftPullRequest
  <1>5. PICK next \in {Step("store", p, 1), Idle} : Onward(c, next)
    BY <1>3 DEF CreateDraftPullRequest, Called
  <1>6. \A d \in Callers : d # c /\ Holds(d) => call[d].place # p
    BY <1>1 DEF DeliveryInv, BranchInv, Holds, Holding
  <1> HIDE DEF p
  <1>7. /\ next \in CallRow /\ next.at \in {"store", "idle"}
        /\ next.at = "store" => next.place = p /\ next.n = 1
    BY <1>2, <1>5, StepRow, IdleRow
  <1>8. pulls'[p] = 1 /\ (\A q \in Branches : q # p => pulls'[q] = pulls[q]) /\ branch' = branch
        /\ pulls' \in [Branches -> Nat]
    BY <1>2, <1>4 DEF DeliveryInv, CallsTyped
  <1>9. isOpen' \in [Branches -> BOOLEAN]
    BY <1>2, <1>4 DEF DeliveryInv, CallsTyped
  <1>10. CallsTyped'
    BY <1>4, <1>5, <1>7, <1>8, <1>9, OnwardOne DEF DeliveryInv, CallsTyped
  <1>11. BranchInv'
    BY <1>2, <1>3, <1>5, <1>6, <1>7, <1>8, HoldersMove DEF DeliveryInv, Holding, NoBranch
  <1>12. LinkInv'
    <2>1. link # NoLink => link.place # p /\ link.place \in Branches
      BY <1>3 DEF DeliveryInv, LinkInv
    <2> QED BY <1>4, <1>8, <2>1 DEF DeliveryInv, LinkInv, LinkIsDelivered, AllToldTheLink
  <1> QED BY <1>10, <1>11, <1>12 DEF DeliveryInv

\* Reading the end of the log changes nothing of what the caller holds.
LEMMA LastEventIsRead ==
  ASSUME DeliveryInv, NEW c \in Callers, ReadLastEvent(c)
  PROVE  DeliveryInv'
  <1> DEFINE p == call[c].place
             next == [at |-> "stored", place |-> p, n |-> call[c].n, last |-> recorded]
  <1>1. call[c] \in CallRow /\ call[c].at = "store" /\ recorded \in Nat
    BY DEF ReadLastEvent, DeliveryInv, CallsTyped
  <1>2. p \in Branches /\ call[c].n \in Nat
    BY <1>1, RowAt
  <1>3. /\ next \in CallRow /\ next.at = "stored" /\ next.place = p /\ next.n = call[c].n
    BY <1>1, <1>2 DEF CallRow
  <1>4. branch[p] = NReviewed /\ pulls[p] = 1 /\ call[c].n = 1
    BY <1>1 DEF DeliveryInv, BranchInv
  <1>5. Onward(c, next)
        /\ UNCHANGED <<active, heading, branch, pulls, isOpen, link, drafted, recorded, told>>
    BY DEF ReadLastEvent
  <1>6. \A d \in Callers : d # c /\ Holds(d) => call[d].place # p
    BY <1>1 DEF DeliveryInv, BranchInv, Holds, Holding
  <1> HIDE DEF p, next
  <1>7. CallsTyped'
    BY <1>3, <1>5, OnwardOne DEF DeliveryInv, CallsTyped
  <1>8. BranchInv'
    BY <1>2, <1>3, <1>4, <1>5, <1>6, HoldersMove DEF DeliveryInv, Holding, NoBranch
  <1>9. LinkInv'
    BY <1>5 DEF DeliveryInv, LinkInv, LinkIsDelivered, AllToldTheLink
  <1> QED BY <1>7, <1>8, <1>9 DEF DeliveryInv

\* The first link is stored while nobody has been answered.
LEMMA LinkIsStored ==
  ASSUME DeliveryInv, NEW c \in Callers, StoreLink(c)
  PROVE  DeliveryInv'
  <1> DEFINE p == call[c].place
  <1>1. call[c] \in CallRow /\ call[c].at = "stored" /\ link = NoLink
    BY DEF StoreLink, DeliveryInv, CallsTyped
  <1>2. p \in Branches
    BY <1>1, RowAt
  <1>3. branch[p] = NReviewed /\ pulls[p] = 1 /\ call[c].n = 1
    BY <1>1 DEF DeliveryInv, BranchInv
  <1>4. /\ link' = [place |-> p, number |-> 1] /\ drafted' = drafted + 1
        /\ recorded' = recorded + 1 /\ Onward(c, Idle) /\ told' = told \cup {link'}
        /\ UNCHANGED <<active, heading, branch, pulls, isOpen>>
    BY <1>3 DEF StoreLink, Told
  <1> HIDE DEF p
  <1>5. link'.place = p /\ link'.number = 1 /\ link' # NoLink
    BY <1>4 DEF NoLink
  <1>6. CallsTyped'
    BY <1>4, IdleRow, OnwardOne DEF DeliveryInv, CallsTyped
  <1>7. BranchInv'
    BY <1>4, IdleRow, LetsGo DEF DeliveryInv, Holding
  <1>8. told = {} /\ drafted = 0
    BY <1>1 DEF DeliveryInv, LinkInv, LinkIsDelivered, AllToldTheLink
  <1>9. LinkInv'
    BY <1>2, <1>3, <1>4, <1>5, <1>8 DEF LinkInv, LinkIsDelivered, AllToldTheLink, NoLink
  <1> QED BY <1>6, <1>7, <1>9 DEF DeliveryInv

\* Connecting, renaming, closing and other events leave branch, link and answers.
LEMMA OthersAct ==
  ASSUME DeliveryInv,
         \/ \E r \in Repositories : ConnectRepository(r)
         \/ \E h \in Headings : RenameTask(h)
         \/ \E p \in Branches : ClosePullRequest(p)
         \/ OtherRunEvent
         \/ UNCHANGED deliveryVars
  PROVE  DeliveryInv'
  <1> USE DEF DeliveryInv
  <1>1. UNCHANGED <<branch, pulls, link, drafted, call, told>>
    BY DEF ConnectRepository, RenameTask, ClosePullRequest, OtherRunEvent, deliveryVars
  <1>2. active' \in Repositories /\ heading' \in Headings /\ recorded' \in Nat
    BY DEF ConnectRepository, RenameTask, ClosePullRequest, OtherRunEvent, deliveryVars, CallsTyped
  <1>3. isOpen' \in [Branches -> BOOLEAN]
    BY DEF ConnectRepository, RenameTask, ClosePullRequest, OtherRunEvent, deliveryVars, CallsTyped
  <1>4. CallsTyped'
    BY <1>1, <1>2, <1>3 DEF CallsTyped
  <1>5. BranchInv'
    BY <1>1 DEF BranchInv, Holds
  <1>6. LinkInv'
    BY <1>1 DEF LinkInv, LinkIsDelivered, AllToldTheLink
  <1> QED BY <1>4, <1>5, <1>6

\* There is no branch, link or answer at first.
LEMMA DeliveryStarts == DeliveryInit => DeliveryInv
  <1> SUFFICES ASSUME DeliveryInit PROVE DeliveryInv
    OBVIOUS
  <1>1. CallsTyped
    BY IdleRow DEF DeliveryInit, CallsTyped, NoBranch
  <1>2. BranchInv
    BY IdleRow DEF DeliveryInit, BranchInv, Holds, Holding
  <1>3. LinkInv
    BY DEF DeliveryInit, LinkInv, LinkIsDelivered, AllToldTheLink
  <1> QED BY <1>1, <1>2, <1>3 DEF DeliveryInv

\* Every step keeps the invariant.
LEMMA DeliverySteps == DeliveryInv /\ [DeliveryNext]_deliveryVars => DeliveryInv'
  BY FirstReads, BranchIsCut, FileIsPut, PullRequestIsOpened, LastEventIsRead, LinkIsStored, OthersAct
  DEF DeliveryNext, Ship

\* createDraftPrForRun, "idempotent": for any callers, repositories, titles and files,
\* with calls of GitHub that fail with or without their effect.
THEOREM AlwaysShippedOnce == DeliverySpec => []ShippedOnce
  <1>1. DeliveryInv => ShippedOnce
    <2>1. ASSUME DeliveryInv PROVE ShippedOnce
      BY <2>1 DEF DeliveryInv, BranchInv, LinkInv, ShippedOnce, OnePullRequest
    <2> QED BY <2>1
  <1> QED BY <1>1, DeliveryStarts, DeliverySteps, PTL DEF DeliverySpec

\* Every row, branch and call keeps its type.
THEOREM DeliveryTypeCorrect == DeliverySpec => []DeliveryTypeOK
  <1>1. DeliveryInv => DeliveryTypeOK
    <2>1. ASSUME DeliveryInv PROVE \A c \in Callers : call[c] = Idle \/ call[c].at \in Working
      BY <2>1, RowAt DEF DeliveryInv, CallsTyped
    <2> QED BY <2>1 DEF DeliveryInv, CallsTyped, DeliveryTypeOK
  <1> QED BY <1>1, DeliveryStarts, DeliverySteps, PTL DEF DeliverySpec
=============================================================================
