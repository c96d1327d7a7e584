-------------------------- MODULE TableCache_proofs --------------------------
(***************************************************************************)
(* Proofs about TableCache: the view a processor keeps follows its table,  *)
(* and an answer is the one of a processor that remembers nothing.         *)
(*                                                                         *)
(* The invariant relates three memories that are written at different      *)
(* times: m_current_queries, without the mutex; m_tracks and the merged    *)
(* table, with it; and the view.  They agree, except for a request that    *)
(* was overlapped, and after one that left rows of another behind.         *)
(***************************************************************************)
EXTENDS TableCache, NaturalsLemmas, TLAPS

Groups == { q.group : q \in Requests } \cup {None}
Orders == { q.sort : q \in Requests } \cup {None}

Views == [filter : Filters \cup {None}, lookup : SUBSET Rows, group : Groups,
          agg : SUBSET Rows, aggOrder : Orders, order : Orders, sort : Orders]

Answered == [ok : BOOLEAN, ran : BOOLEAN, exact : BOOLEAN, rows : SUBSET Rows,
             twice : SUBSET Rows, order : Orders]

\* The tracks and the window of a request.
Where(q) == [tracks |-> q.tracks, window |-> q.window]
Wheres   == { Where(q) : q \in Requests } \cup {Nothing}

\* The values the code gives its variables; a request is under way exactly while it has one.
TypeOK ==
    /\ tracks \in { Tracks(w) : w \in Wheres }
    /\ current \in { Statements(w) : w \in Wheres } /\ filled \in Wheres
    /\ merged \in SUBSET Rows /\ twice \in SUBSET Rows /\ view \in Views
    /\ timer \in {"off", "armed", "paused"} /\ acting \in BOOLEAN
    /\ pc \in [Clients -> {"idle", "checked", "saved", "running", "answered", "writing", "ending"}]
    /\ req \in [Clients -> Requests \cup {None}] /\ updated \in [Clients -> BOOLEAN]
    /\ answer \in [Clients -> Answered]
    /\ overlapped \in SUBSET Clients /\ dirty \in BOOLEAN
    /\ \A c \in Clients : pc[c] # "idle" => req[c] \in Requests

\* Filter and groups are those of the rows R.
Follows(v, R) ==
    v.filter \notin Broken =>
        /\ v.filter # None => v.lookup = Filtered(R, v.filter)
        /\ v.group # None => v.agg = Aggregated(Filtered(R, v.filter), v.group)

\* The remembered sort command is the order of the groups or, when it cannot be a command of
\* theirs, that of the rows.
Ordered(v) ==
    /\ v.group # None /\ v.sort # None => v.aggOrder = v.sort
    /\ v.sort # None /\ v.sort \notin Sorts(TRUE) => v.order = v.sort

\* A request whose sort command is never taken for another one.
OwnSort(q) == q.sort # None /\ SortsAlone(q)

Derived(v, R) == Follows(v, R) /\ Ordered(v)

\* A view is remembered for the table it was derived from.
ViewInv == LockFree /\ tracks # {} => Derived(view, merged)

\* One job works on the table, and an answer comes after the work.
WorkInv ==
    /\ \A c, d \in Clients : pc[c] = "running" /\ pc[d] = "running" => c = d
    /\ \A c \in Clients : pc[c] \in {"idle", "checked", "saved", "running"} => ~answer[c].ok
    /\ \A c \in Clients : pc[c] \in {"checked", "saved", "running"} => Tracks(req[c]) # {}
    /\ HasOps => twice = {}

\* A clean table is that of the last request, or empty.
Clean ==
    IF tracks = {} THEN merged = {}
    ELSE tracks = Tracks(filled) /\ merged = RowsOf(Tracks(filled), filled.window)

TableInv ==
    /\ LockFree /\ ~dirty => Clean
    /\ \A c \in Clients : pc[c] = "running" =>
          filled = Where(req[c]) /\ (~dirty => merged \subseteq RowsOf(req[c].tracks, req[c].window))

\* m_current_queries is that of the last request, or there is nothing it could be right about.
Empty == LockFree /\ tracks = {} /\ merged = {}
InStep == ~dirty => current = Statements(filled) \/ Empty

Alone(c) == \A d \in Clients : Waiting(d) => d = c

\* A request nobody overlaps has compared itself with the last one.
CurrentInv ==
    /\ (\A d \in Clients : ~Waiting(d)) => InStep
    /\ \A c \in Clients : pc[c] = "checked" /\ c \notin overlapped =>
          Alone(c) /\ InStep /\ (~updated[c] => TRUE \in Verdicts(req[c]))
    /\ \A c \in Clients : pc[c] = "saved" /\ c \notin overlapped =>
          /\ Alone(c) /\ current = Statements(req[c])
          /\ ~updated[c] /\ ~dirty =>
                \/ Empty \/ Tracks(filled) \cap Tracks(req[c]) = {}
                \/ filled.window = req[c].window

\* An export that nobody overlaps finds the table as its request has left it.
ExportInv ==
    \A c \in Clients :
        pc[c] \in {"answered", "writing"} /\ c \notin overlapped /\ answer[c].ok /\ answer[c].exact
        =>
        /\ LockFree /\ merged = RowsOf(req[c].tracks, req[c].window) /\ (tracks = {} => merged = {})
        /\ tracks # {} =>
              /\ view.filter = req[c].filter /\ view.group = req[c].group
              /\ OwnSort(req[c]) =>
                    IF req[c].group = None THEN view.order = req[c].sort
                    ELSE view.aggOrder = req[c].sort

\* What AnswerIsExact says of one answer.
IsExact(a, q) == HasRows(a, q) /\ (SortsAlone(q) => HasOrder(a, q))

TInv == TypeOK /\ ViewInv /\ WorkInv

FullInv == TInv /\ TableInv /\ CurrentInv /\ ExportInv /\ (HasOps => AnswerIsExact)

\* What the theorem about answers asks of the requests: that the statements find every row of
\* the window, and that those of two windows have no text in common.
StatementsFindAll == \A q \in Requests : Yield(q) = RowsOf(q.tracks, q.window)
TextsTellWindows  == \A p, q \in Requests : p.window # q.window => Statements(p) \cap Statements(q) = {}
WellCut           == StatementsFindAll /\ TextsTellWindows

-----------------------------------------------------------------------------
(* Statements.                                                             *)

\* The statements of a request depend on its tracks and its window.
LEMMA StatementsOfWhere ==
    ASSUME NEW q
    PROVE  Statements(Where(q)) = Statements(q) /\ Tracks(Where(q)) = Tracks(q)
<1>1. Where(q).tracks = q.tracks /\ Where(q).window = q.window  BY DEF Where
<1>2. \A t : Divider(Where(q), t) = Divider(q, t)  BY <1>1 DEF Divider
<1>3. \A t, j : Slice(Where(q), t, j) = Slice(q, t, j)  BY <1>1, <1>2 DEF Slice
<1>4. Slices(Where(q)) = Slices(q)  BY <1>1, <1>2, <1>3 DEF Slices
<1>5. QED  BY <1>4 DEF Statements, Tracks

LEMMA NoStatements == Statements(Nothing) = {} /\ Tracks(Nothing) = {}
<1>1. Slices(Nothing) = {}  BY DEF Slices, Nothing
<1>2. QED  BY <1>1 DEF Statements, Tracks

LEMMA NoTracks == {} \in { Tracks(w) : w \in Wheres }
<1>1. Nothing \in Wheres  BY DEF Wheres
<1>2. QED  BY <1>1, NoStatements

LEMMA YieldRows == ASSUME NEW q PROVE Yield(q) \in SUBSET Rows
BY DEF Yield, Found

\* The tracks that were dropped have no rows in the window.
LEMMA TracksFindAll ==
    ASSUME StatementsFindAll, NEW q \in Requests
    PROVE  /\ RowsOf(Tracks(q), q.window) = RowsOf(q.tracks, q.window)
           /\ Yield(q) = RowsOf(q.tracks, q.window)
<1>1. Yield(q) = RowsOf(q.tracks, q.window)  BY DEF StatementsFindAll
<1>2. Tracks(q) \subseteq q.tracks
  <2>1. \A s \in Statements(q) : s.track \in q.tracks  BY DEF Statements, Slices, Slice
  <2>2. QED  BY <2>1 DEF Tracks
<1>3. ASSUME NEW r \in RowsOf(q.tracks, q.window)  PROVE r \in RowsOf(Tracks(q), q.window)
  <2>1. PICK s \in Statements(q) : r \in Found(s)  BY <1>1 DEF Yield
  <2>2. s.track \in Tracks(q) /\ IsOn(r, s.track)  BY <2>1 DEF Tracks, Found
  <2>3. QED  BY <2>2 DEF RowsOf
<1>4. QED  BY <1>1, <1>2, <1>3 DEF RowsOf

-----------------------------------------------------------------------------
(* The stages of ProcessCompoundQuery.                                     *)

LEMMA RequestTypes ==
    ASSUME NEW q \in Requests
    PROVE  /\ q.filter \in Filters \cup {None}
           /\ q.group \in Groups /\ q.sort \in Orders /\ Where(q) \in Wheres
           /\ None \in Groups /\ None \in Orders /\ None \notin Broken
           /\ q.group # None => q.sort \in Sorts(TRUE)
<1>1. q.filter \in Filters \cup {None} /\ None \notin Broken
  BY TableAssumption
<1>2. q.group \in Groups /\ q.sort \in Orders /\ Where(q) \in Wheres
      /\ None \in Groups /\ None \in Orders
  BY DEF Groups, Orders, Wheres
<1>3. q.group # None => q.sort \in Sorts(TRUE)  BY DEF Sorts
<1>4. QED  BY <1>1, <1>2, <1>3

LEMMA FilteredRows ==
    ASSUME NEW R \in SUBSET Rows, NEW f \in Filters \cup {None}
    PROVE  Filtered(R, f) \in SUBSET Rows
BY DEF Filtered

\* The filter stage: the groups stay when the filter does.
LEMMA FilterStage ==
    ASSUME NEW v \in Views, NEW R \in SUBSET Rows, NEW q \in Requests
    PROVE  LET new == Filtering(v, R, q) IN
           /\ new \in Views /\ new.filter = q.filter
           /\ new.group = IF Regroups(v, q) THEN None ELSE v.group
           /\ new.lookup = IF q.filter \in {None} \cup Broken /\ Regroups(v, q) THEN {}
                           ELSE IF Regroups(v, q) THEN R \cap Passes[q.filter] ELSE v.lookup
           /\ new.agg = v.agg /\ new.aggOrder = v.aggOrder /\ new.order = v.order /\ new.sort = v.sort
<1> DEFINE G == IF Regroups(v, q) THEN None ELSE v.group
           L == IF q.filter \in {None} \cup Broken /\ Regroups(v, q) THEN {}
                ELSE IF Regroups(v, q) THEN R \cap Passes[q.filter] ELSE v.lookup
<1>1. Filtering(v, R, q) = [v EXCEPT !.filter = q.filter, !.group = G, !.lookup = L]
  BY DEF Filtering, Views
<1>2. G \in Groups  BY RequestTypes DEF Views
<1>3. L \in SUBSET Rows  BY DEF Views
<1>4. q.filter \in Filters \cup {None}  BY RequestTypes
<1> HIDE DEF G, L
<1>5. [v EXCEPT !.filter = q.filter, !.group = G, !.lookup = L] \in Views
  BY <1>2, <1>3, <1>4 DEF Views
<1>6. /\ Filtering(v, R, q).filter = q.filter /\ Filtering(v, R, q).group = G
      /\ Filtering(v, R, q).lookup = L
      /\ Filtering(v, R, q).agg = v.agg /\ Filtering(v, R, q).aggOrder = v.aggOrder
      /\ Filtering(v, R, q).order = v.order /\ Filtering(v, R, q).sort = v.sort
  BY <1>1 DEF Views
<1>7. QED  BY <1>1, <1>5, <1>6 DEF G, L

\* The group stage: new groups are not sorted yet.
LEMMA GroupStage ==
    ASSUME NEW v \in Views, NEW S \in SUBSET Rows, NEW q \in Requests
    PROVE  LET new == Grouping(v, S, q) IN
           /\ new \in Views /\ new.group = q.group
           /\ new.filter = v.filter /\ new.lookup = v.lookup /\ new.order = v.order
           /\ q.group = None => new.sort = v.sort
           /\ q.group # None /\ q.group = v.group =>
                 new.agg = v.agg /\ new.aggOrder = v.aggOrder /\ new.sort = v.sort
           /\ q.group # None /\ q.group # v.group =>
                 new.agg = Aggregated(S, q.group) /\ new.sort = None
<1>1. q.group \in Groups /\ None \in Groups /\ None \in Orders  BY RequestTypes
<1>2. CASE q.group = None
  <2>1. Grouping(v, S, q) = [v EXCEPT !.group = None, !.agg = {}, !.aggOrder = None]
    BY <1>2 DEF Grouping
  <2>2. [v EXCEPT !.group = None, !.agg = {}, !.aggOrder = None] \in Views  BY <1>1 DEF Views
  <2>3. QED  BY <1>2, <2>1, <2>2 DEF Views
<1>3. CASE q.group # None /\ q.group = v.group
  BY <1>3 DEF Grouping
<1>4. CASE q.group # None /\ q.group # v.group
  <2> DEFINE A == Aggregated(S, q.group)
  <2>1. Grouping(v, S, q) = [v EXCEPT !.group = q.group, !.agg = A, !.aggOrder = None, !.sort = None]
    BY <1>4 DEF Grouping
  <2>2. A \in SUBSET Rows  BY DEF Aggregated
  <2> HIDE DEF A
  <2>3. [v EXCEPT !.group = q.group, !.agg = A, !.aggOrder = None, !.sort = None] \in Views
    BY <1>1, <2>2 DEF Views
  <2>4. QED  BY <1>4, <2>1, <2>3 DEF Views, A
<1>5. QED  BY <1>2, <1>3, <1>4

\* The sort stage: a command that is remembered is not repeated.
LEMMA SortStage ==
    ASSUME NEW v \in Views, NEW q \in Requests
    PROVE  LET new == Sorting(v, q) IN
           /\ new \in Views
           /\ new.filter = v.filter /\ new.lookup = v.lookup /\ new.group = v.group /\ new.agg = v.agg
           /\ q.sort \in {None, v.sort} => new = v
           /\ q.sort \notin {None, v.sort} =>
                 /\ new.sort = q.sort
                 /\ q.group # None => new.aggOrder = q.sort /\ new.order = v.order
                 /\ q.group = None => new.order = q.sort /\ new.aggOrder = v.aggOrder
<1>1. q.sort \in Orders  BY RequestTypes
<1>2. CASE q.sort \in {None, v.sort}  BY <1>2 DEF Sorting
<1>3. CASE q.sort \notin {None, v.sort} /\ q.group # None
  <2>1. Sorting(v, q) = [v EXCEPT !.aggOrder = q.sort, !.sort = q.sort]  BY <1>3 DEF Sorting
  <2>2. [v EXCEPT !.aggOrder = q.sort, !.sort = q.sort] \in Views  BY <1>1 DEF Views
  <2>3. QED  BY <1>3, <2>1, <2>2 DEF Views
<1>4. CASE q.sort \notin {None, v.sort} /\ q.group = None
  <2>1. Sorting(v, q) = [v EXCEPT !.order = q.sort, !.sort = q.sort]  BY <1>4 DEF Sorting
  <2>2. [v EXCEPT !.order = q.sort, !.sort = q.sort] \in Views  BY <1>1 DEF Views
  <2>3. QED  BY <1>4, <2>1, <2>2 DEF Views
<1>5. QED  BY <1>2, <1>3, <1>4

\* The three of them: what a request sees is what it asks for, and what is remembered stays
\* derived from the rows, when it was before.
LEMMA ProcessedFollows ==
    ASSUME NEW v \in Views, NEW R \in SUBSET Rows, NEW q \in Requests, Derived(v, R)
    PROVE  /\ Processed(v, R, q) \in Views /\ Derived(Processed(v, R, q), R)
           /\ Processed(v, R, q).filter = q.filter /\ Processed(v, R, q).group = q.group
           /\ OwnSort(q) =>
                 IF q.group = None THEN Processed(v, R, q).order = q.sort
                 ELSE Processed(v, R, q).aggOrder = q.sort
           /\ Selected(v, R, q) \in SUBSET Rows
           /\ q.filter \notin Broken => Selected(v, R, q) = Filtered(R, q.filter)
<1> DEFINE F == Filtering(v, R, q)
           S == Selected(v, R, q)
           G == Grouping(F, S, q)
           P == Sorting(G, q)
<1>1. Processed(v, R, q) = P  BY DEF Processed
<1>2. /\ F \in Views /\ F.filter = q.filter /\ F.group = IF Regroups(v, q) THEN None ELSE v.group
      /\ F.lookup = IF q.filter \in {None} \cup Broken /\ Regroups(v, q) THEN {}
                    ELSE IF Regroups(v, q) THEN R \cap Passes[q.filter] ELSE v.lookup
      /\ F.agg = v.agg /\ F.aggOrder = v.aggOrder /\ F.order = v.order /\ F.sort = v.sort
  BY FilterStage
<1>3. S = IF IsFiltered(v, q) THEN F.lookup ELSE R  BY DEF Selected
<1>4. S \in SUBSET Rows  BY <1>2, <1>3 DEF Views
<1>5. q.filter \notin Broken /\ q.filter # None => F.lookup = Filtered(R, q.filter)
  BY <1>2 DEF Regroups, Derived, Follows, Filtered
<1>6. q.filter \notin Broken => S = Filtered(R, q.filter)
  BY <1>3, <1>5 DEF IsFiltered, Filtered
<1> HIDE DEF F, S
<1>7. /\ G \in Views /\ G.group = q.group
      /\ G.filter = F.filter /\ G.lookup = F.lookup /\ G.order = F.order
      /\ q.group = None => G.sort = F.sort
      /\ q.group # None /\ q.group = F.group =>
            G.agg = F.agg /\ G.aggOrder = F.aggOrder /\ G.sort = F.sort
      /\ q.group # None /\ q.group # F.group => G.agg = Aggregated(S, q.group) /\ G.sort = None
  BY <1>2, <1>4, GroupStage
<1> HIDE DEF G
<1>8. /\ P \in Views
      /\ P.filter = G.filter /\ P.lookup = G.lookup /\ P.group = G.group /\ P.agg = G.agg
      /\ q.sort \in {None, G.sort} => P = G
      /\ q.sort \notin {None, G.sort} =>
            /\ P.sort = q.sort
            /\ q.group # None => P.aggOrder = q.sort /\ P.order = G.order
            /\ q.group = None => P.order = q.sort /\ P.aggOrder = G.aggOrder
  BY <1>7, SortStage
<1> HIDE DEF P
<1>9. Follows(P, R)
  <2>1. SUFFICES ASSUME q.filter \notin Broken
                 PROVE  /\ q.filter # None => P.lookup = Filtered(R, q.filter)
                        /\ q.group # None => P.agg = Aggregated(Filtered(R, q.filter), q.group)
    BY <1>2, <1>7, <1>8 DEF Follows
  <2>2. q.filter # None => P.lookup = Filtered(R, q.filter)  BY <1>5, <1>7, <1>8, <2>1
  <2>3. CASE q.group # None /\ q.group = F.group
    <3>1. v.filter = q.filter /\ v.group # None  BY <1>2, <2>3 DEF Regroups
    <3>2. v.agg = Aggregated(Filtered(R, q.filter), q.group)
      BY <1>2, <2>1, <2>3, <3>1 DEF Derived, Follows
    <3>3. QED  BY <1>2, <1>7, <1>8, <2>2, <2>3, <3>2
  <2>4. CASE q.group # None /\ q.group # F.group  BY <1>6, <1>7, <1>8, <2>1, <2>2, <2>4
  <2>5. QED  BY <2>2, <2>3, <2>4
<1>10. /\ G.group # None /\ G.sort # None => G.aggOrder = G.sort
       /\ G.sort # None /\ G.sort \notin Sorts(TRUE) => G.order = G.sort
  BY <1>2, <1>7 DEF Derived, Ordered
<1>11. /\ q.group # None => q.sort \in Sorts(TRUE)
       /\ OwnSort(q) => q.sort # None /\ (q.group = None => q.sort \notin Sorts(TRUE))
  BY RequestTypes DEF OwnSort, SortsAlone
<1>12. Ordered(P)
  BY <1>7, <1>8, <1>10, <1>11 DEF Ordered
<1>13. OwnSort(q) => IF q.group = None THEN P.order = q.sort ELSE P.aggOrder = q.sort
  <2>1. CASE q.sort \notin {None, G.sort}  BY <1>8, <2>1
  <2>2. CASE OwnSort(q) /\ q.sort = G.sort
    <3>1. P = G /\ q.sort # None  BY <1>8, <1>11, <2>2
    <3>2. CASE q.group = None
      <4>1. G.order = q.sort  BY <1>10, <1>11, <2>2, <3>1, <3>2
      <4>2. QED  BY <3>1, <3>2, <4>1
    <3>3. CASE q.group # None
      <4>1. G.aggOrder = q.sort  BY <1>7, <1>10, <2>2, <3>1, <3>3
      <4>2. QED  BY <3>1, <3>3, <4>1
    <3>4. QED  BY <3>2, <3>3
  <2>3. QED  BY <1>11, <2>1, <2>2
<1>14. QED
  BY <1>1, <1>2, <1>4, <1>6, <1>7, <1>8, <1>9, <1>12, <1>13 DEF Derived, S

-----------------------------------------------------------------------------
(* Types, the view, and who works.                                         *)

LEMMA RequestOf == ASSUME NEW c \in Clients, NEW q \in Asks[c]  PROVE q \in Requests
BY DEF Requests

LEMMA TInvInit == Init => TInv
<1> SUFFICES ASSUME Init PROVE TInv  OBVIOUS
<1>1. view \in Views
  <2>1. None \in Groups /\ None \in Orders  BY DEF Groups, Orders
  <2>2. QED  BY <2>1 DEF Init, Views
<1>2. None \in Orders  BY DEF Orders
<1>3. answer \in [Clients -> Answered] /\ \A c \in Clients : answer[c] = NoAnswer
  BY <1>2 DEF Init, NoAnswer, Answered
<1>4. /\ tracks \in { Tracks(w) : w \in Wheres } /\ current \in { Statements(w) : w \in Wheres }
      /\ filled \in Wheres
  BY NoStatements DEF Init, Wheres
<1>5. TypeOK
  <2>1. /\ merged \in SUBSET Rows /\ twice \in SUBSET Rows /\ timer \in {"off", "armed", "paused"}
        /\ acting \in BOOLEAN /\ overlapped \in SUBSET Clients /\ dirty \in BOOLEAN
    BY DEF Init
  <2>2. /\ pc \in [Clients -> {"idle", "checked", "saved", "running", "answered", "writing", "ending"}]
        /\ req \in [Clients -> Requests \cup {None}] /\ updated \in [Clients -> BOOLEAN]
        /\ \A c \in Clients : pc[c] = "idle"
    BY DEF Init
  <2>3. QED  BY <1>1, <1>3, <1>4, <2>1, <2>2 DEF TypeOK
<1>6. ViewInv  BY DEF Init, ViewInv
<1>7. WorkInv  BY <1>3 DEF Init, WorkInv, NoAnswer
<1>8. QED  BY <1>5, <1>6, <1>7 DEF TInv

\* What an answer says about the view it is taken from.
LEMMA AnswerGiven ==
    ASSUME TypeOK, NEW c \in Clients, req[c] \in Requests,
           NEW v \in Views, NEW R \in SUBSET Rows, NEW ran \in BOOLEAN,
           Derived(v, R), dirty' \in BOOLEAN, twice' \in SUBSET Rows, Answers(c, v, R, ran)
    PROVE  /\ answer' \in [Clients -> Answered]
           /\ answer'[c].ok /\ (answer'[c].exact <=> ~dirty') /\ answer'[c].twice = twice'
           /\ req[c].filter \notin Broken =>
                 answer'[c].rows = Aggregated(Filtered(R, req[c].filter), req[c].group)
           /\ OwnSort(req[c]) => answer'[c].order = req[c].sort
           /\ \A d \in Clients : d # c => answer'[d] = answer[d]
<1> DEFINE q == req[c]
           P == Processed(v, R, q)
           S == Selected(v, R, q)
           rows == Shown(v, R, q).rows
           order == Shown(v, R, q).order
<1>1. rows = IF q.group # None THEN P.agg ELSE S  BY DEF Shown
<1>2. order = IF q.group # None THEN P.aggOrder ELSE P.order  BY DEF Shown
<1>3. /\ P \in Views /\ Derived(P, R) /\ P.filter = q.filter /\ P.group = q.group
      /\ OwnSort(q) => IF q.group = None THEN P.order = q.sort ELSE P.aggOrder = q.sort
      /\ S \in SUBSET Rows
      /\ q.filter \notin Broken => S = Filtered(R, q.filter)
  BY ProcessedFollows
<1> HIDE DEF P, S
<1>4. rows \in SUBSET Rows /\ order \in Orders  BY <1>1, <1>2, <1>3 DEF Views
<1>5. q.filter \notin Broken => rows = Aggregated(Filtered(R, q.filter), q.group)
  <2>1. None \notin BadGroups  BY TableAssumption
  <2>2. QED  BY <1>1, <1>3, <2>1 DEF Derived, Follows, Aggregated
<1>6. OwnSort(q) => order = q.sort  BY <1>2, <1>3
<1>7. answer' = [answer EXCEPT ![c] =
          [ok |-> TRUE, ran |-> ran, exact |-> ~dirty', twice |-> twice', rows |-> rows, order |-> order]]
  BY DEF Answers
<1> HIDE DEF rows, order
<1>8. answer \in [Clients -> Answered]  BY DEF TypeOK
<1>9. [ok |-> TRUE, ran |-> ran, exact |-> ~dirty', twice |-> twice', rows |-> rows, order |-> order]
         \in Answered
  BY <1>4 DEF Answered
<1>10. answer' \in [Clients -> Answered]  BY <1>7, <1>8, <1>9
<1>11. answer'[c] = [ok |-> TRUE, ran |-> ran, exact |-> ~dirty', twice |-> twice',
                     rows |-> rows, order |-> order]
  BY <1>7, <1>8
<1>12. \A d \in Clients : d # c => answer'[d] = answer[d]  BY <1>7, <1>8
<1>13. answer'[c].ok /\ answer'[c].twice = twice' /\ answer'[c].rows = rows /\ answer'[c].order = order
  BY <1>11
<1>14. answer'[c].exact <=> ~dirty'
  <2> DEFINE exact == ~dirty'
  <2>1. answer'[c] = [ok |-> TRUE, ran |-> ran, exact |-> exact, twice |-> twice',
                      rows |-> rows, order |-> order]
    BY <1>11
  <2> HIDE DEF exact
  <2>2. answer'[c].exact = exact  BY <2>1
  <2>3. QED  BY <2>2, Zenon DEF exact
<1>15. QED  BY <1>5, <1>6, <1>10, <1>12, <1>13, <1>14

\* A new table has a view of its own.
LEMMA RebuiltDerived ==
    ASSUME TypeOK, NEW R \in SUBSET Rows
    PROVE  Rebuilt \in Views /\ Derived(Rebuilt, R) /\ [view EXCEPT !.order = None] \in Views
<1>1. view \in Views /\ None \in Groups /\ None \in Orders /\ None \notin Broken
  <2>1. None \in Groups /\ None \in Orders  BY DEF Groups, Orders
  <2>2. QED  BY <2>1, TableAssumption DEF TypeOK
<1>2. [view EXCEPT !.order = None] \in Views  BY <1>1 DEF Views
<1> DEFINE w == [view EXCEPT !.order = None]
<1> HIDE DEF w
<1>3. Rebuilt = [w EXCEPT !.filter = None, !.group = None, !.sort = None]
  BY DEF Rebuilt, Invalidated, w
<1>4. w \in Views  BY <1>2 DEF w
<1>5. [w EXCEPT !.filter = None, !.group = None, !.sort = None] \in Views  BY <1>1, <1>4 DEF Views
<1>6. Rebuilt.filter = None /\ Rebuilt.group = None /\ Rebuilt.sort = None
  BY <1>3, <1>4 DEF Views
<1>7. QED  BY <1>2, <1>3, <1>5, <1>6 DEF Derived, Follows, Ordered

\* What the merge leaves: the table, its view and the answer.
LEMMA Merges ==
    ASSUME TInv, NEW c \in Clients, pc[c] = "running", NEW new \in SUBSET Rows, NEW ran \in BOOLEAN,
           dirty' \in BOOLEAN, MergeIn(c, new, ran)
    PROVE  /\ TInv' /\ req[c] \in Requests
           /\ answer'[c].ok /\ (answer'[c].exact <=> ~dirty') /\ answer'[c].twice = twice'
           /\ req[c].filter \notin Broken =>
                 answer'[c].rows = Aggregated(Filtered(merged', req[c].filter), req[c].group)
           /\ OwnSort(req[c]) => answer'[c].order = req[c].sort
           /\ \A d \in Clients : d # c => answer'[d] = answer[d] /\ pc'[d] = pc[d]
           /\ pc'[c] = "answered" /\ LockFree'
           /\ tracks' # {} =>
                 /\ view'.filter = req[c].filter /\ view'.group = req[c].group
                 /\ OwnSort(req[c]) =>
                       IF req[c].group = None THEN view'.order = req[c].sort
                       ELSE view'.aggOrder = req[c].sort
<1>1. TypeOK /\ WorkInv /\ req[c] \in Requests  BY DEF TInv, TypeOK
<1>2. merged' \in SUBSET Rows /\ twice' \in SUBSET Rows /\ (HasOps => twice' = {})
  BY <1>1 DEF MergeIn, TypeOK
<1>3. Rebuilt \in Views /\ Derived(Rebuilt, merged') /\ [view EXCEPT !.order = None] \in Views
  BY <1>1, <1>2, RebuiltDerived
<1>4. /\ answer' \in [Clients -> Answered]
      /\ answer'[c].ok /\ (answer'[c].exact <=> ~dirty') /\ answer'[c].twice = twice'
      /\ req[c].filter \notin Broken =>
            answer'[c].rows = Aggregated(Filtered(merged', req[c].filter), req[c].group)
      /\ OwnSort(req[c]) => answer'[c].order = req[c].sort
      /\ \A d \in Clients : d # c => answer'[d] = answer[d]
  <2>1. Answers(c, Rebuilt, merged', ran)  BY DEF MergeIn
  <2>2. QED  BY <1>1, <1>2, <1>3, <2>1, AnswerGiven
<1>5. pc'[c] = "answered" /\ \A d \in Clients : d # c => pc'[d] = pc[d]
  BY <1>1 DEF MergeIn, TypeOK
<1>6. LockFree'  BY <1>1, <1>5 DEF WorkInv, LockFree
<1>7. /\ tracks' \in { Tracks(w) : w \in Wheres }
      /\ merged' # {} => tracks' = Tracks(req[c]) /\ view' = Processed(Rebuilt, merged', req[c])
      /\ merged' = {} => tracks' = {} /\ view' = [view EXCEPT !.order = None]
  <2>1. Where(req[c]) \in Wheres /\ Tracks(Where(req[c])) = Tracks(req[c])
    BY <1>1, StatementsOfWhere, RequestTypes
  <2>2. QED  BY <2>1, NoTracks DEF MergeIn
<1>8. /\ Processed(Rebuilt, merged', req[c]) \in Views
      /\ Derived(Processed(Rebuilt, merged', req[c]), merged')
      /\ Processed(Rebuilt, merged', req[c]).filter = req[c].filter
      /\ Processed(Rebuilt, merged', req[c]).group = req[c].group
      /\ OwnSort(req[c]) =>
            IF req[c].group = None THEN Processed(Rebuilt, merged', req[c]).order = req[c].sort
            ELSE Processed(Rebuilt, merged', req[c]).aggOrder = req[c].sort
  BY <1>1, <1>2, <1>3, ProcessedFollows
<1>9. view' \in Views  BY <1>3, <1>7, <1>8
<1>10. TypeOK'
  <2>1. /\ pc' \in [Clients -> {"idle", "checked", "saved", "running", "answered", "writing", "ending"}]
        /\ overlapped' \in SUBSET Clients
    BY <1>1 DEF TypeOK, MergeIn, Disturbs
  <2>2. UNCHANGED <<current, timer, acting, req, updated, filled>>  BY DEF MergeIn, clock
  <2>3. \A d \in Clients : pc'[d] # "idle" => req[d] \in Requests  BY <1>1, <1>5 DEF TypeOK
  <2>4. QED  BY <1>1, <1>2, <1>4, <1>7, <1>9, <2>1, <2>2, <2>3 DEF TypeOK
<1>11. ViewInv'
  BY <1>7, <1>8 DEF ViewInv
<1>12. WorkInv'
  <2>1. UNCHANGED req  BY DEF MergeIn
  <2>2. QED  BY <1>1, <1>2, <1>4, <1>5, <2>1 DEF WorkInv
<1>13. QED
  BY <1>1, <1>4, <1>5, <1>6, <1>7, <1>8, <1>10, <1>11, <1>12 DEF TInv

\* A step of a job that does not work on the table, from one state of it to another.
LEMMA Moves ==
    ASSUME TypeOK, NEW c \in Clients, pc[c] # "running",
           NEW s \in {"idle", "checked", "saved", "answered", "writing", "ending"},
           pc' = [pc EXCEPT ![c] = s]
    PROVE  /\ pc' \in [Clients -> {"idle", "checked", "saved", "running", "answered", "writing", "ending"}]
           /\ pc'[c] = s /\ \A d \in Clients : d # c => pc'[d] = pc[d]
           /\ \A d \in Clients : pc'[d] = "running" <=> pc[d] = "running"
           /\ LockFree' <=> LockFree
BY DEF TypeOK, LockFree

LEMMA TInvCheck == ASSUME TInv, NEW c \in Clients, Check(c) PROVE TInv'
<1>1. TypeOK /\ pc[c] = "idle" /\ pc' = [pc EXCEPT ![c] = "checked"]  BY DEF TInv, Check, Starts
<1>0. PICK q \in Asks[c] : /\ Statements(q) # {} /\ req' = [req EXCEPT ![c] = q]
                            /\ \E v \in Verdicts(q) : updated' = [updated EXCEPT ![c] = ~v]
  BY DEF Check, Starts
<1>2. PICK v \in Verdicts(q) : updated' = [updated EXCEPT ![c] = ~v]  BY <1>0
<1>3. q \in Requests  BY RequestOf
<1>4. UNCHANGED <<tracks, current, merged, twice, view, timer, acting, answer, filled, dirty>>
  BY DEF Check, shared, clock
<1>5. /\ pc' \in [Clients -> {"idle", "checked", "saved", "running", "answered", "writing", "ending"}]
      /\ pc'[c] = "checked" /\ \A d \in Clients : d # c => pc'[d] = pc[d]
      /\ \A d \in Clients : pc'[d] = "running" <=> pc[d] = "running"
      /\ LockFree' <=> LockFree
  BY <1>1, Moves
<1>6. TypeOK'
  <2>1. /\ req' \in [Clients -> Requests \cup {None}] /\ updated' \in [Clients -> BOOLEAN]
        /\ \A d \in Clients : pc'[d] # "idle" => req'[d] \in Requests
    <3>1. (~v) \in BOOLEAN  OBVIOUS
    <3>2. QED  BY <1>0, <1>1, <1>2, <1>3, <1>5, <3>1 DEF TypeOK
  <2>2. overlapped' \in SUBSET Clients  BY <1>1 DEF Check, TypeOK
  <2>3. QED  BY <1>1, <1>4, <1>5, <2>1, <2>2 DEF TypeOK
<1>7. ViewInv'  BY <1>1, <1>4, <1>5 DEF TInv, ViewInv
<1>8. WorkInv'
  <2>1. Tracks(q) # {}  BY <1>0 DEF Tracks
  <2>2. /\ req'[c] = q /\ \A d \in Clients : d # c => req'[d] = req[d]
    BY <1>0, <1>1 DEF TypeOK
  <2>3. \A d \in Clients : pc'[d] \in {"checked", "saved", "running"} => Tracks(req'[d]) # {}
    BY <1>5, <2>1, <2>2 DEF TInv, WorkInv
  <2>4. QED  BY <1>1, <1>4, <1>5, <2>3 DEF TInv, WorkInv
<1>9. QED  BY <1>6, <1>7, <1>8 DEF TInv

\* A request without statements leaves everything but its answer alone.
LEMMA TInvRefuse == ASSUME TInv, NEW c \in Clients, Refuse(c) PROVE TInv'
<1>1. /\ TypeOK /\ WorkInv /\ pc[c] = "idle" /\ pc' = [pc EXCEPT ![c] = "ending"]
  BY DEF TInv, Refuse, Starts
<1>2. PICK q \in Asks[c] : req' = [req EXCEPT ![c] = q]  BY DEF Refuse, Starts
<1>3. q \in Requests  BY RequestOf
<1>4. UNCHANGED <<tracks, current, merged, twice, view, timer, acting, updated, filled, overlapped, dirty>>
  BY DEF Refuse, shared, clock, history
<1>5. /\ pc' \in [Clients -> {"idle", "checked", "saved", "running", "answered", "writing", "ending"}]
      /\ pc'[c] = "ending" /\ \A d \in Clients : d # c => pc'[d] = pc[d]
      /\ \A d \in Clients : pc'[d] = "running" <=> pc[d] = "running"
      /\ LockFree' <=> LockFree
  BY <1>1, Moves
<1>6. PICK a \in Answered : answer' = [answer EXCEPT ![c] = a]
  <2>1. NoAnswer \in Answered /\ [NoAnswer EXCEPT !.ok = TRUE, !.ran = TRUE, !.exact = TRUE] \in Answered
    BY DEF NoAnswer, Answered, Orders
  <2>2. QED  BY <2>1 DEF Refuse
<1>7. TypeOK'
  <2>1. answer' \in [Clients -> Answered]  BY <1>1, <1>6 DEF TypeOK
  <2>2. /\ req' \in [Clients -> Requests \cup {None}]
        /\ \A d \in Clients : pc'[d] # "idle" => req'[d] \in Requests
    BY <1>1, <1>2, <1>3, <1>5 DEF TypeOK
  <2>3. QED  BY <1>1, <1>4, <1>5, <2>1, <2>2 DEF TypeOK
<1>8. ViewInv'  BY <1>4, <1>5 DEF TInv, ViewInv
<1>9. WorkInv'
  <2>1. \A d \in Clients : d # c => req'[d] = req[d] /\ answer'[d] = answer[d]
    BY <1>1, <1>2, <1>6 DEF TypeOK
  <2>2. QED  BY <1>1, <1>4, <1>5, <2>1 DEF WorkInv
<1>10. QED  BY <1>7, <1>8, <1>9 DEF TInv

LEMMA TInvSave == ASSUME TInv, NEW c \in Clients, Save(c) PROVE TInv'
<1>1. TypeOK /\ pc[c] = "checked" /\ pc' = [pc EXCEPT ![c] = "saved"] /\ req[c] \in Requests
  BY DEF TInv, TypeOK, Save
<1>2. UNCHANGED <<tracks, merged, twice, view, acting, req, updated, answer, filled, overlapped, dirty>>
  BY DEF Save, history
<1>3. /\ pc' \in [Clients -> {"idle", "checked", "saved", "running", "answered", "writing", "ending"}]
      /\ pc'[c] = "saved" /\ \A d \in Clients : d # c => pc'[d] = pc[d]
      /\ \A d \in Clients : pc'[d] = "running" <=> pc[d] = "running"
      /\ LockFree' <=> LockFree
  BY <1>1, Moves
<1>4. current' \in { Statements(w) : w \in Wheres } /\ timer' = "paused"
  <2>1. Where(req[c]) \in Wheres /\ Statements(Where(req[c])) = Statements(req[c])
    BY <1>1, StatementsOfWhere, RequestTypes
  <2>2. QED  BY <2>1 DEF Save
<1>5. TypeOK'  BY <1>1, <1>2, <1>3, <1>4 DEF TypeOK
<1>6. ViewInv' /\ WorkInv'  BY <1>1, <1>2, <1>3 DEF TInv, ViewInv, WorkInv
<1>7. QED  BY <1>5, <1>6 DEF TInv

\* What a request finds that the table is right for.
LEMMA Reuses ==
    ASSUME TInv, NEW c \in Clients, Reuse(c)
    PROVE  /\ TInv' /\ req[c] \in Requests /\ tracks = Tracks(req[c]) /\ tracks # {}
           /\ answer'[c].ok /\ (answer'[c].exact <=> ~dirty') /\ answer'[c].twice = twice'
           /\ req[c].filter \notin Broken =>
                 answer'[c].rows = Aggregated(Filtered(merged, req[c].filter), req[c].group)
           /\ OwnSort(req[c]) => answer'[c].order = req[c].sort
           /\ \A d \in Clients : d # c => answer'[d] = answer[d] /\ pc'[d] = pc[d]
           /\ pc'[c] = "answered" /\ LockFree /\ LockFree'
           /\ view'.filter = req[c].filter /\ view'.group = req[c].group
           /\ OwnSort(req[c]) =>
                 IF req[c].group = None THEN view'.order = req[c].sort
                 ELSE view'.aggOrder = req[c].sort
<1>1. /\ TypeOK /\ WorkInv /\ pc[c] = "saved" /\ req[c] \in Requests /\ LockFree
      /\ pc' = [pc EXCEPT ![c] = "answered"] /\ tracks = Tracks(req[c])
      /\ view' = Processed(view, merged, req[c])
  BY DEF TInv, TypeOK, Reuse
<1>2. tracks # {}  BY <1>1 DEF WorkInv
<1>3. Derived(view, merged) /\ view \in Views /\ merged \in SUBSET Rows /\ twice \in SUBSET Rows
  BY <1>1, <1>2 DEF TInv, ViewInv, TypeOK
<1>4. UNCHANGED <<tracks, current, merged, twice, timer, acting, req, updated>>
  BY DEF Reuse, clock
<1>5. dirty' \in BOOLEAN  BY <1>1 DEF Reuse, TypeOK
<1>6. /\ answer' \in [Clients -> Answered]
      /\ answer'[c].ok /\ (answer'[c].exact <=> ~dirty') /\ answer'[c].twice = twice'
      /\ req[c].filter \notin Broken =>
            answer'[c].rows = Aggregated(Filtered(merged, req[c].filter), req[c].group)
      /\ OwnSort(req[c]) => answer'[c].order = req[c].sort
      /\ \A d \in Clients : d # c => answer'[d] = answer[d]
  <2>1. Answers(c, view, merged, TRUE)  BY DEF Reuse
  <2>2. QED  BY <1>1, <1>3, <1>4, <1>5, <2>1, AnswerGiven
<1>7. /\ view' \in Views /\ Derived(view', merged)
      /\ view'.filter = req[c].filter /\ view'.group = req[c].group
      /\ OwnSort(req[c]) =>
            IF req[c].group = None THEN view'.order = req[c].sort ELSE view'.aggOrder = req[c].sort
  BY <1>1, <1>3, ProcessedFollows
<1>8. /\ pc' \in [Clients -> {"idle", "checked", "saved", "running", "answered", "writing", "ending"}]
      /\ pc'[c] = "answered" /\ \A d \in Clients : d # c => pc'[d] = pc[d]
      /\ \A d \in Clients : pc'[d] = "running" <=> pc[d] = "running"
      /\ LockFree' <=> LockFree
  BY <1>1, Moves
<1>9. TypeOK'
  <2>1. filled' \in Wheres  BY <1>1 DEF Reuse, Works, Wheres, Where
  <2>2. overlapped' \in SUBSET Clients  BY <1>1 DEF Reuse, Disturbs, TypeOK
  <2>3. QED  BY <1>1, <1>4, <1>5, <1>6, <1>7, <1>8, <2>1, <2>2 DEF TypeOK
<1>10. ViewInv'  BY <1>4, <1>7 DEF ViewInv
<1>11. WorkInv'  BY <1>1, <1>4, <1>6, <1>8 DEF WorkInv
<1>12. QED
  BY <1>1, <1>2, <1>6, <1>7, <1>8, <1>9, <1>10, <1>11 DEF TInv

LEMMA TInvBegin ==
    ASSUME TInv, NEW c \in Clients, Begin(c)
    PROVE  /\ TInv' /\ pc'[c] = "running" /\ \A d \in Clients : d # c => pc'[d] = pc[d]
           /\ ~LockFree'
<1>1. /\ TypeOK /\ WorkInv /\ pc[c] = "saved" /\ req[c] \in Requests /\ LockFree
      /\ pc' = [pc EXCEPT ![c] = "running"]
      /\ UNCHANGED <<tracks, current, view, timer, acting, req, updated, answer>>
  BY DEF TInv, TypeOK, Begin, clock
<1>2. /\ pc' \in [Clients -> {"idle", "checked", "saved", "running", "answered", "writing", "ending"}]
      /\ pc'[c] = "running" /\ \A d \in Clients : d # c => pc'[d] = pc[d]
  BY <1>1 DEF TypeOK
<1>3. ~LockFree'  BY <1>2 DEF LockFree
<1>4. /\ merged' \in SUBSET merged /\ twice' \in SUBSET twice /\ dirty' \in BOOLEAN
  BY DEF Begin, Kept
<1>5. TypeOK'
  <2>1. filled' \in Wheres  BY <1>1 DEF Begin, Works, Wheres, Where
  <2>2. overlapped' \in SUBSET Clients  BY <1>1 DEF Begin, Disturbs, TypeOK
  <2>3. merged' \in SUBSET Rows /\ twice' \in SUBSET Rows  BY <1>1, <1>4 DEF TypeOK
  <2>4. \A d \in Clients : pc'[d] # "idle" => req'[d] \in Requests  BY <1>1, <1>2 DEF TypeOK
  <2>5. QED  BY <1>1, <1>2, <1>4, <2>1, <2>2, <2>3, <2>4 DEF TypeOK
<1>6. WorkInv'
  <2>1. \A d \in Clients : pc[d] # "running"  BY <1>1 DEF LockFree
  <2>2. HasOps => twice' = {}  BY <1>1, <1>4 DEF WorkInv
  <2>3. QED  BY <1>1, <1>2, <2>1, <2>2 DEF WorkInv
<1>7. QED  BY <1>2, <1>3, <1>5, <1>6 DEF TInv, ViewInv

LEMMA TInvFinish ==
    ASSUME TInv, NEW c \in Clients, Finish(c) \/ FinishInterrupted(c)
    PROVE  TInv'
<1>1. pc[c] = "running"  BY DEF Finish, FinishInterrupted
<1>2. CASE Finish(c)
  <2>1. dirty' \in BOOLEAN /\ Yield(req[c]) \in SUBSET Rows
    BY <1>2, YieldRows DEF Finish, TInv, TypeOK
  <2>2. QED  BY <1>1, <1>2, <2>1, Merges DEF Finish
<1>3. CASE FinishInterrupted(c)
  <2>1. PICK some \in SUBSET Yield(req[c]) : dirty' = TRUE /\ MergeIn(c, some, FALSE)
    BY <1>3 DEF FinishInterrupted
  <2>2. some \in SUBSET Rows  BY YieldRows
  <2>3. QED  BY <1>1, <2>1, <2>2, Merges
<1>4. QED  BY <1>2, <1>3

LEMMA TInvFailed ==
    ASSUME TInv, NEW c \in Clients, FinishFailed(c)
    PROVE  /\ TInv' /\ pc'[c] = "answered" /\ \A d \in Clients : d # c => pc'[d] = pc[d]
           /\ LockFree'
<1>1. /\ TypeOK /\ WorkInv /\ pc[c] = "running" /\ pc' = [pc EXCEPT ![c] = "answered"]
      /\ tracks' = {} /\ view' = [view EXCEPT !.order = None]
      /\ UNCHANGED <<current, merged, twice, timer, acting, req, updated, answer, filled>>
  BY DEF TInv, FinishFailed, clock
<1>2. /\ pc' \in [Clients -> {"idle", "checked", "saved", "running", "answered", "writing", "ending"}]
      /\ pc'[c] = "answered" /\ \A d \in Clients : d # c => pc'[d] = pc[d]
  BY <1>1 DEF TypeOK
<1>3. LockFree'  BY <1>1, <1>2 DEF WorkInv, LockFree
<1>4. TypeOK'
  <2>1. view' \in Views  BY <1>1, RebuiltDerived DEF TypeOK
  <2>2. tracks' \in { Tracks(w) : w \in Wheres }  BY <1>1, NoTracks
  <2>3. overlapped' \in SUBSET Clients /\ dirty' \in BOOLEAN
    BY <1>1 DEF FinishFailed, Disturbs, TypeOK
  <2>4. \A d \in Clients : pc'[d] # "idle" => req'[d] \in Requests  BY <1>1, <1>2 DEF TypeOK
  <2>5. QED  BY <1>1, <1>2, <2>1, <2>2, <2>3, <2>4 DEF TypeOK
<1>5. ViewInv' /\ WorkInv'  BY <1>1, <1>2 DEF ViewInv, WorkInv
<1>6. QED  BY <1>2, <1>3, <1>4, <1>5 DEF TInv

LEMMA TInvRestart == ASSUME TInv, NEW c \in Clients, Restart(c) PROVE TInv'
<1>1. TypeOK /\ WorkInv /\ pc[c] = "answered" /\ req[c] \in Requests  BY DEF TInv, TypeOK, Restart
<1>2. UNCHANGED <<tracks, current, merged, twice, view, acting, req, updated, answer, filled, overlapped,
                  dirty>>
  BY DEF Restart, shared, history
<1>3. PICK s \in {"writing", "ending"} : pc' = [pc EXCEPT ![c] = s]  BY DEF Restart
<1>4. /\ pc' \in [Clients -> {"idle", "checked", "saved", "running", "answered", "writing", "ending"}]
      /\ pc'[c] = s /\ \A d \in Clients : d # c => pc'[d] = pc[d]
      /\ \A d \in Clients : pc'[d] = "running" <=> pc[d] = "running"
      /\ LockFree' <=> LockFree
  BY <1>1, <1>3, Moves
<1>5. timer' \in {"off", "armed", "paused"}  BY <1>1 DEF Restart, TypeOK
<1>6. TypeOK'  BY <1>1, <1>2, <1>4, <1>5 DEF TypeOK
<1>7. ViewInv' /\ WorkInv'  BY <1>1, <1>2, <1>4 DEF TInv, ViewInv, WorkInv
<1>8. QED  BY <1>6, <1>7 DEF TInv

\* An export writes what the table and its view are by now.
LEMMA Writes ==
    ASSUME TypeOK, NEW c \in Clients, Write(c)
    PROVE  /\ answer' \in [Clients -> Answered]
           /\ answer'[c].ok = answer[c].ok /\ answer'[c].twice = twice
           /\ answer'[c].exact <=> answer[c].exact /\ StillOwn(c)
           /\ answer'[c].rows = IF view.group # None THEN view.agg
                                ELSE IF view.filter # None THEN merged \cap view.lookup ELSE merged
           /\ answer'[c].order = IF view.group # None THEN view.aggOrder ELSE view.order
           /\ \A d \in Clients : d # c => answer'[d] = answer[d]
<1> DEFINE exact == answer[c].exact /\ StillOwn(c)
           rows == IF view.group # None THEN view.agg
                   ELSE IF view.filter # None THEN merged \cap view.lookup ELSE merged
           order == IF view.group # None THEN view.aggOrder ELSE view.order
<1>1. answer \in [Clients -> Answered] /\ answer[c] \in Answered  BY DEF TypeOK
<1>2. answer' = [answer EXCEPT ![c].exact = exact, ![c].rows = rows, ![c].order = order,
                               ![c].twice = twice]
  BY <1>1 DEF Write, Answered
<1>3. exact \in BOOLEAN /\ rows \in SUBSET Rows /\ order \in Orders /\ twice \in SUBSET Rows
  BY <1>1 DEF TypeOK, Views, Answered
<1> HIDE DEF exact, rows, order
<1>4. answer' = [answer EXCEPT ![c] = [answer[c] EXCEPT !.exact = exact, !.rows = rows,
                                                        !.order = order, !.twice = twice]]
  BY <1>1, <1>2 DEF Answered
<1>5. [answer[c] EXCEPT !.exact = exact, !.rows = rows, !.order = order, !.twice = twice] \in Answered
  BY <1>1, <1>3 DEF Answered
<1>6. answer' \in [Clients -> Answered]  BY <1>1, <1>4, <1>5
<1>7. /\ answer'[c].ok = answer[c].ok /\ answer'[c].twice = twice /\ answer'[c].exact = exact
      /\ answer'[c].rows = rows /\ answer'[c].order = order
  BY <1>1, <1>4 DEF Answered
<1>8. \A d \in Clients : d # c => answer'[d] = answer[d]  BY <1>1, <1>4
<1>9. answer'[c].exact <=> exact  BY <1>7, Zenon
<1>10. QED  BY <1>6, <1>7, <1>8, <1>9 DEF exact, rows, order

LEMMA TInvWrite == ASSUME TInv, NEW c \in Clients, Write(c) PROVE TInv'
<1>1. /\ TypeOK /\ WorkInv /\ pc[c] = "writing" /\ req[c] \in Requests
      /\ pc' = [pc EXCEPT ![c] = "ending"]
  BY DEF TInv, TypeOK, Write
<1>2. UNCHANGED <<tracks, current, merged, twice, view, timer, acting, req, updated, filled, overlapped,
                  dirty>>
  BY DEF Write, shared, history, clock
<1>3. /\ pc' \in [Clients -> {"idle", "checked", "saved", "running", "answered", "writing", "ending"}]
      /\ pc'[c] = "ending" /\ \A d \in Clients : d # c => pc'[d] = pc[d]
      /\ \A d \in Clients : pc'[d] = "running" <=> pc[d] = "running"
      /\ LockFree' <=> LockFree
  BY <1>1, Moves
<1>4. answer' \in [Clients -> Answered] /\ \A d \in Clients : d # c => answer'[d] = answer[d]
  BY <1>1, Writes
<1>5. TypeOK'  BY <1>1, <1>2, <1>3, <1>4 DEF TypeOK
<1>6. ViewInv' /\ WorkInv'  BY <1>1, <1>2, <1>3, <1>4 DEF TInv, ViewInv, WorkInv
<1>7. QED  BY <1>5, <1>6 DEF TInv

LEMMA TInvEnd == ASSUME TInv, NEW c \in Clients, End(c) PROVE TInv'
<1>1. TypeOK /\ WorkInv /\ pc[c] = "ending" /\ pc' = [pc EXCEPT ![c] = "idle"]
  BY DEF TInv, End
<1>2. /\ UNCHANGED <<tracks, current, merged, twice, view, timer, acting, filled, dirty>>
      /\ req' = [req EXCEPT ![c] = None] /\ updated' = [updated EXCEPT ![c] = FALSE]
      /\ answer' = [answer EXCEPT ![c] = NoAnswer] /\ overlapped' = overlapped \ {c}
  BY DEF End, shared, clock
<1>3. /\ pc' \in [Clients -> {"idle", "checked", "saved", "running", "answered", "writing", "ending"}]
      /\ pc'[c] = "idle" /\ \A d \in Clients : d # c => pc'[d] = pc[d]
      /\ \A d \in Clients : pc'[d] = "running" <=> pc[d] = "running"
      /\ LockFree' <=> LockFree
  BY <1>1, Moves
<1>4. NoAnswer \in Answered /\ ~NoAnswer.ok  BY DEF NoAnswer, Answered, Orders
<1>5. TypeOK'
  <2>1. answer' \in [Clients -> Answered]  BY <1>1, <1>2, <1>4 DEF TypeOK
  <2>2. /\ req' \in [Clients -> Requests \cup {None}] /\ updated' \in [Clients -> BOOLEAN]
        /\ \A d \in Clients : pc'[d] # "idle" => req'[d] \in Requests
    BY <1>1, <1>2, <1>3 DEF TypeOK
  <2>3. overlapped' \in SUBSET Clients  BY <1>1, <1>2 DEF TypeOK
  <2>4. QED  BY <1>1, <1>2, <1>3, <2>1, <2>2, <2>3 DEF TypeOK
<1>6. ViewInv'  BY <1>2, <1>3 DEF TInv, ViewInv
<1>7. WorkInv'
  <2>1. \A d \in Clients : answer'[d] = IF d = c THEN NoAnswer ELSE answer[d]
    BY <1>1, <1>2 DEF TypeOK
  <2>2. QED  BY <1>1, <1>2, <1>3, <1>4, <2>1 DEF WorkInv
<1>8. QED  BY <1>5, <1>6, <1>7 DEF TInv

LEMMA TInvTimer == ASSUME TInv, Expire \/ Drop PROVE TInv'
<1>1. /\ TypeOK /\ WorkInv
      /\ UNCHANGED <<current, view, pc, req, updated, answer, filled>>
  BY DEF TInv, Expire, Drop, shared, clients, history
<1>2. LockFree' <=> LockFree  BY <1>1 DEF LockFree
<1>3. CASE Expire
  <2>1. /\ timer' = "off" /\ acting' = TRUE
        /\ UNCHANGED <<tracks, merged, twice, overlapped, dirty>>
    BY <1>3 DEF Expire, shared, history
  <2>2. TypeOK'  BY <1>1, <2>1 DEF TypeOK
  <2>3. ViewInv' /\ WorkInv'  BY <1>1, <1>2, <2>1 DEF TInv, ViewInv, WorkInv
  <2>4. QED  BY <2>2, <2>3 DEF TInv
<1>4. CASE Drop
  <2>1. /\ tracks' = {} /\ merged' = {} /\ twice' = {} /\ acting' = FALSE /\ dirty' = FALSE
        /\ UNCHANGED timer
    BY <1>4 DEF Drop, Forgotten
  <2>2. tracks' \in { Tracks(w) : w \in Wheres }  BY <2>1, NoTracks
  <2>3. TypeOK'
    <3>1. overlapped' \in SUBSET Clients  BY <1>1, <1>4 DEF Drop, TypeOK
    <3>2. QED  BY <1>1, <2>1, <2>2, <3>1 DEF TypeOK
  <2>4. ViewInv' /\ WorkInv'  BY <1>1, <2>1 DEF ViewInv, WorkInv
  <2>5. QED  BY <2>3, <2>4 DEF TInv
<1>5. QED  BY <1>3, <1>4

LEMMA TInvNext == TInv /\ [Next]_vars => TInv'
<1> SUFFICES ASSUME TInv, [Next]_vars PROVE TInv'  OBVIOUS
<1>1. CASE UNCHANGED vars
  <2>1. UNCHANGED <<tracks, current, merged, twice, view, timer, acting, pc, req, updated, answer,
                    filled, overlapped, dirty>>
    BY <1>1 DEF vars, shared, clock, clients, history
  <2>2. TypeOK'  BY <2>1 DEF TInv, TypeOK
  <2>3. ViewInv' /\ WorkInv'  BY <2>1 DEF TInv, ViewInv, LockFree, WorkInv
  <2>4. QED  BY <2>2, <2>3 DEF TInv
<1>2. ASSUME NEW c \in Clients, Check(c) \/ Refuse(c) \/ ClientStep(c)  PROVE TInv'
  BY <1>2, TInvCheck, TInvRefuse, TInvSave, Reuses, TInvBegin, TInvFinish, TInvFailed, TInvRestart, TInvWrite,
     TInvEnd DEF ClientStep
<1>3. CASE Expire \/ Drop  BY <1>3, TInvTimer
<1>4. QED  BY <1>1, <1>2, <1>3 DEF Next

LEMMA TInvHolds == Spec => []TInv
BY TInvInit, TInvNext, PTL DEF Spec

\* Every variable keeps its type, for any requests, rows and filters.
THEOREM TypeCorrect == Spec => []TypeOK
<1>1. TInv => TypeOK  BY DEF TInv
<1>2. QED  BY <1>1, TInvHolds, PTL

\* The filter's row numbers and the groups are those of the rows in the table, whatever has
\* failed or overlapped (ProcessCompoundQuery, RemoveRowsForSetOfTracks, m_last_filter_str,
\* m_last_group_str), for any requests, rows and filters.
THEOREM ViewFollows == Spec => []ViewFollowsTable
<1>1. TInv => ViewFollowsTable  BY DEF TInv, ViewInv, ViewFollowsTable, Derived, Follows
<1>2. QED  BY <1>1, TInvHolds, PTL

-----------------------------------------------------------------------------
(* Steps that leave the table alone.                                       *)

Flow == TableInv /\ CurrentInv /\ ExportInv /\ (HasOps => AnswerIsExact)

\* The table is still that of the last request, and the answers are the same.
LEMMA TableKept ==
    ASSUME FullInv, UNCHANGED <<tracks, merged, filled, dirty>>, LockFree' <=> LockFree,
           \A d \in Clients : pc'[d] = "running" => pc[d] = "running" /\ req'[d] = req[d]
    PROVE  TableInv' /\ (Empty' <=> Empty)
BY DEF FullInv, TableInv, Clean, Empty

LEMMA VerdictsKept ==
    ASSUME UNCHANGED current, NEW d \in Clients, req'[d] = req[d]
    PROVE  Verdicts(req[d])' = Verdicts(req[d])
BY DEF Verdicts, Compared

LEMMA AnswersKept ==
    ASSUME FullInv, NEW c \in Clients, HasOps,
           \A d \in Clients : d # c => answer'[d] = answer[d] /\ req'[d] = req[d],
           answer'[c].ok /\ answer'[c].exact /\ req'[c].filter \notin Broken => IsExact(answer'[c], req'[c])
    PROVE  AnswerIsExact'
BY DEF FullInv, AnswerIsExact, IsExact

LEMMA FlowCheck == ASSUME FullInv, NEW c \in Clients, Check(c) PROVE Flow'
<1>1. TypeOK /\ pc[c] = "idle" /\ pc' = [pc EXCEPT ![c] = "checked"] /\ ~answer[c].ok
  BY DEF FullInv, TInv, WorkInv, Check, Starts
<1>0. PICK q \in Asks[c] : /\ req' = [req EXCEPT ![c] = q]
                            /\ \E v \in Verdicts(q) : updated' = [updated EXCEPT ![c] = ~v]
  BY DEF Check, Starts
<1>2. PICK v \in Verdicts(q) : updated' = [updated EXCEPT ![c] = ~v]  BY <1>0
<1>3. UNCHANGED <<tracks, current, merged, twice, view, timer, acting, answer, filled, dirty>>
  BY DEF Check, shared, clock
<1>4. /\ pc'[c] = "checked" /\ \A d \in Clients : d # c => pc'[d] = pc[d]
      /\ \A d \in Clients : pc'[d] = "running" <=> pc[d] = "running"
      /\ LockFree' <=> LockFree
  BY <1>1, Moves
<1>5. /\ req'[c] = q /\ updated'[c] = ~v
      /\ \A d \in Clients : d # c => req'[d] = req[d] /\ updated'[d] = updated[d]
  BY <1>0, <1>1, <1>2 DEF TypeOK
<1>6. TableInv' /\ (Empty' <=> Empty)  BY <1>1, <1>3, <1>4, <1>5, TableKept
<1> DEFINE others == { d \in Clients : Waiting(d) }
<1>7. /\ others = {} => overlapped' = overlapped
      /\ others # {} => overlapped' = overlapped \cup others \cup {c}
  BY DEF Check
<1>8. \A d \in Clients : d # c => (Waiting(d)' <=> Waiting(d))  BY <1>4 DEF Waiting
<1>9. CurrentInv'
  <2>1. Waiting(c)'  BY <1>4 DEF Waiting
  <2>2. ASSUME NEW e \in Clients, Waiting(e)', e \notin overlapped'
        PROVE  e = c /\ others = {}
    BY <1>7, <1>8, <2>2
  <2>3. others = {} => Alone(c)' /\ InStep  BY <1>8 DEF FullInv, CurrentInv, Alone
  <2>4. InStep' <=> InStep  BY <1>3, <1>6 DEF InStep
  <2>5. ~updated'[c] => TRUE \in Verdicts(req[c])'
    <3>1. Verdicts(req[c])' = Verdicts(q)  BY <1>3, <1>5 DEF Verdicts, Compared
    <3>2. v \in BOOLEAN
      <4>1. CASE Compared(q) = {}  BY <1>2, <4>1 DEF Verdicts
      <4>2. CASE Compared(q) # {}
        <5>1. PICK s \in Compared(q) : v = (s \in current)  BY <1>2, <4>2 DEF Verdicts
        <5>2. QED  BY <5>1
      <4>3. QED  BY <4>1, <4>2
    <3>3. CASE v = TRUE  BY <1>2, <3>1, <3>3
    <3>4. CASE v = FALSE  BY <1>5, <3>4
    <3>5. QED  BY <3>2, <3>3, <3>4
  <2>6. ASSUME NEW e \in Clients, pc'[e] = "checked", e \notin overlapped'
        PROVE  Alone(e)' /\ InStep' /\ (~updated'[e] => TRUE \in Verdicts(req[e])')
    <3>1. e = c /\ others = {}  BY <2>2, <2>6 DEF Waiting
    <3>2. QED  BY <2>3, <2>4, <2>5, <3>1
  <2>7. ASSUME NEW e \in Clients, pc'[e] = "saved", e \notin overlapped'  PROVE FALSE
    BY <1>4, <2>2, <2>7 DEF Waiting
  <2>8. QED  BY <2>1, <2>6, <2>7 DEF CurrentInv
<1>10. ExportInv'
  BY <1>3, <1>4, <1>5, <1>7 DEF FullInv, ExportInv
<1>11. HasOps => AnswerIsExact'  BY <1>1, <1>3, <1>5, AnswersKept
<1>12. QED  BY <1>6, <1>9, <1>10, <1>11 DEF Flow

\* A request without statements asks for no rows.
LEMMA FlowRefuse == ASSUME FullInv, StatementsFindAll, NEW c \in Clients, Refuse(c) PROVE Flow'
<1>1. TypeOK /\ pc[c] = "idle" /\ pc' = [pc EXCEPT ![c] = "ending"]
  BY DEF FullInv, TInv, Refuse, Starts
<1>2. PICK q \in Asks[c] : Statements(q) = {} /\ req' = [req EXCEPT ![c] = q]
  BY DEF Refuse, Starts
<1>3. UNCHANGED <<tracks, current, merged, twice, view, timer, acting, updated, filled, overlapped, dirty>>
  BY DEF Refuse, shared, clock, history
<1>4. /\ pc'[c] = "ending" /\ \A d \in Clients : d # c => pc'[d] = pc[d]
      /\ \A d \in Clients : pc'[d] = "running" <=> pc[d] = "running"
      /\ LockFree' <=> LockFree
  BY <1>1, Moves
<1>5. /\ req'[c] = q /\ (answer'[c].ok => answer'[c].rows = {} /\ answer'[c].twice = {})
      /\ \A d \in Clients : d # c => req'[d] = req[d] /\ answer'[d] = answer[d]
  BY <1>1, <1>2 DEF TypeOK, Refuse, NoAnswer
<1>6. TableInv' /\ (Empty' <=> Empty)  BY <1>1, <1>3, <1>4, <1>5, TableKept
<1>7. \A d \in Clients : Waiting(d)' <=> Waiting(d)  BY <1>1, <1>4 DEF Waiting
<1>8. CurrentInv'
  <2>1. InStep' <=> InStep  BY <1>3, <1>6 DEF InStep
  <2>2. \A d \in Clients : d # c => Verdicts(req[d])' = Verdicts(req[d])  BY <1>3, <1>5, VerdictsKept
  <2>3. \A d \in Clients : Alone(d)' <=> Alone(d)  BY <1>7 DEF Alone
  <2>4. QED  BY <1>3, <1>4, <1>5, <1>6, <1>7, <2>1, <2>2, <2>3 DEF FullInv, CurrentInv
<1>9. ExportInv'  BY <1>3, <1>4, <1>5 DEF FullInv, ExportInv
<1>10. ASSUME HasOps  PROVE AnswerIsExact'
  <2>1. q \in Requests  BY RequestOf
  <2>2. RowsOf(q.tracks, q.window) = {}  BY <1>2, <2>1 DEF StatementsFindAll, Yield
  <2>3. Asked(q) = {}  BY <2>2 DEF Asked, Filtered, Aggregated
  <2>4. answer'[c].ok => IsExact(answer'[c], req'[c])
    BY <1>5, <2>3 DEF IsExact, HasRows, HasOrder
  <2>5. QED  BY <1>5, <1>10, <2>4, AnswersKept
<1>11. QED  BY <1>6, <1>8, <1>9, <1>10 DEF Flow

\* A text that is found is one of the same window.
LEMMA TextsMatch ==
    ASSUME TextsTellWindows, filled \in Wheres, current = Statements(filled),
           NEW q \in Requests, TRUE \in Verdicts(q)
    PROVE  Tracks(filled) \cap Tracks(q) = {} \/ filled.window = q.window
<1>1. CASE Compared(q) = {}
  BY <1>1 DEF Compared, Tracks
<1>2. CASE Compared(q) # {}
  <2>1. PICK s \in Compared(q) : s \in current  BY <1>2 DEF Verdicts
  <2>2. s \in Statements(q) /\ s \in Statements(filled)  BY <2>1 DEF Compared
  <2>3. filled # Nothing  BY <2>2, NoStatements
  <2>4. PICK p \in Requests : filled = Where(p)  BY <2>3 DEF Wheres
  <2>5. s \in Statements(p) /\ filled.window = p.window  BY <2>2, <2>4, StatementsOfWhere DEF Where
  <2>6. QED  BY <2>2, <2>5 DEF TextsTellWindows
<1>3. QED  BY <1>1, <1>2

LEMMA FlowSave == ASSUME FullInv, TextsTellWindows, NEW c \in Clients, Save(c) PROVE Flow'
<1>1. TypeOK /\ pc[c] = "checked" /\ pc' = [pc EXCEPT ![c] = "saved"] /\ req[c] \in Requests
  BY DEF FullInv, TInv, TypeOK, Save
<1>2. UNCHANGED <<tracks, merged, twice, view, acting, req, updated, answer, filled, overlapped, dirty>>
  BY DEF Save, history
<1>3. /\ pc'[c] = "saved" /\ \A d \in Clients : d # c => pc'[d] = pc[d]
      /\ \A d \in Clients : pc'[d] = "running" <=> pc[d] = "running"
      /\ LockFree' <=> LockFree
  BY <1>1, Moves
<1>4. TableInv' /\ (Empty' <=> Empty)  BY <1>2, <1>3, TableKept
<1>5. current' = Statements(req[c])  BY DEF Save
<1>6. \A d \in Clients : Waiting(d)' <=> Waiting(d)  BY <1>1, <1>3 DEF Waiting
<1>7. Waiting(c)  BY <1>1 DEF Waiting
<1>8. CurrentInv'
  <2>1. ASSUME NEW e \in Clients, pc'[e] = "checked", e \notin overlapped  PROVE FALSE
    BY <1>3, <1>7, <2>1 DEF FullInv, CurrentInv, Alone
  <2>2. ASSUME NEW e \in Clients, pc'[e] = "saved", e \notin overlapped  PROVE e = c
    BY <1>3, <1>7, <2>2 DEF FullInv, CurrentInv, Alone
  <2>3. ASSUME c \notin overlapped
        PROVE  /\ Alone(c)'
               /\ ~updated[c] /\ ~dirty =>
                     \/ Empty \/ Tracks(filled) \cap Tracks(req[c]) = {}
                     \/ filled.window = req[c].window
    <3>1. Alone(c) /\ InStep /\ (~updated[c] => TRUE \in Verdicts(req[c]))
      BY <1>1, <2>3 DEF FullInv, CurrentInv
    <3>2. Alone(c)'  BY <1>6, <3>1 DEF Alone
    <3>3. ASSUME current = Statements(filled), TRUE \in Verdicts(req[c])
          PROVE  Tracks(filled) \cap Tracks(req[c]) = {} \/ filled.window = req[c].window
      BY <1>1, <3>3, TextsMatch DEF TypeOK
    <3>4. QED  BY <3>1, <3>2, <3>3 DEF InStep
  <2>4. QED  BY <1>2, <1>4, <1>5, <1>6, <1>7, <2>1, <2>2, <2>3 DEF CurrentInv
<1>9. ExportInv'  BY <1>2, <1>3 DEF FullInv, ExportInv
<1>10. HasOps => AnswerIsExact'  BY <1>2 DEF FullInv, AnswerIsExact, IsExact
<1>11. QED  BY <1>4, <1>8, <1>9, <1>10 DEF Flow

\* A step of a job that has its answer.
LEMMA FlowRestart == ASSUME FullInv, NEW c \in Clients, Restart(c) PROVE Flow'
<1>1. TypeOK /\ pc[c] = "answered"  BY DEF FullInv, TInv, Restart
<1>2. UNCHANGED <<tracks, current, merged, twice, view, acting, req, updated, answer, filled, overlapped,
                  dirty>>
  BY DEF Restart, shared, history
<1>3. PICK s \in {"writing", "ending"} : pc' = [pc EXCEPT ![c] = s]  BY DEF Restart
<1>4. /\ pc'[c] = s /\ \A d \in Clients : d # c => pc'[d] = pc[d]
      /\ \A d \in Clients : pc'[d] = "running" <=> pc[d] = "running"
      /\ LockFree' <=> LockFree
  BY <1>1, <1>3, Moves
<1>5. TableInv' /\ (Empty' <=> Empty)  BY <1>2, <1>4, TableKept
<1>6. CurrentInv'
  BY <1>1, <1>2, <1>4, <1>5, VerdictsKept DEF FullInv, CurrentInv, Waiting, Alone, InStep
<1>7. ExportInv'  BY <1>1, <1>2, <1>4 DEF FullInv, ExportInv
<1>8. HasOps => AnswerIsExact'  BY <1>2 DEF FullInv, AnswerIsExact, IsExact
<1>9. QED  BY <1>5, <1>6, <1>7, <1>8 DEF Flow

LEMMA FlowWrite == ASSUME FullInv, NEW c \in Clients, Write(c) PROVE Flow'
<1>1. TypeOK /\ pc[c] = "writing" /\ pc' = [pc EXCEPT ![c] = "ending"] /\ req[c] \in Requests
  BY DEF FullInv, TInv, TypeOK, Write
<1>2. UNCHANGED <<tracks, current, merged, twice, view, timer, acting, req, updated, filled, overlapped,
                  dirty>>
  BY DEF Write, shared, clock, history
<1>3. /\ pc'[c] = "ending" /\ \A d \in Clients : d # c => pc'[d] = pc[d]
      /\ \A d \in Clients : pc'[d] = "running" <=> pc[d] = "running"
      /\ LockFree' <=> LockFree
  BY <1>1, Moves
<1>4. TableInv' /\ (Empty' <=> Empty)  BY <1>2, <1>3, TableKept
<1>5. /\ answer'[c].ok = answer[c].ok /\ answer'[c].twice = twice
      /\ answer'[c].exact <=> answer[c].exact /\ StillOwn(c)
      /\ answer'[c].rows = IF view.group # None THEN view.agg
                           ELSE IF view.filter # None THEN merged \cap view.lookup ELSE merged
      /\ answer'[c].order = IF view.group # None THEN view.aggOrder ELSE view.order
      /\ \A d \in Clients : d # c => answer'[d] = answer[d]
  BY <1>1, Writes
<1>6. CurrentInv'
  BY <1>1, <1>2, <1>3, <1>4, VerdictsKept DEF FullInv, CurrentInv, Waiting, Alone, InStep
<1>7. ExportInv'  BY <1>1, <1>2, <1>3, <1>5 DEF FullInv, ExportInv
<1>8. ASSUME HasOps  PROVE AnswerIsExact'
  <2>1. ASSUME answer'[c].ok, answer'[c].exact, req[c].filter \notin Broken
        PROVE  IsExact(answer'[c], req[c])
    <3>1. answer[c].ok /\ answer[c].exact /\ c \notin overlapped /\ (tracks = {} => view.group = None)
      BY <1>5, <2>1 DEF StillOwn
    <3>2. /\ LockFree /\ merged = RowsOf(req[c].tracks, req[c].window) /\ (tracks = {} => merged = {})
          /\ tracks # {} =>
                /\ view.filter = req[c].filter /\ view.group = req[c].group
                /\ OwnSort(req[c]) =>
                      IF req[c].group = None THEN view.order = req[c].sort
                      ELSE view.aggOrder = req[c].sort
      BY <1>1, <3>1 DEF FullInv, ExportInv
    <3>3. answer'[c].twice = {}  BY <1>5, <1>8 DEF FullInv, TInv, WorkInv
    <3>4. CASE tracks = {}
      <4>1. answer'[c].rows = {}  BY <1>5, <3>1, <3>2, <3>4
      <4>2. Asked(req[c]) = {}  BY <3>2, <3>4 DEF Asked, Filtered, Aggregated
      <4>3. QED  BY <3>3, <4>1, <4>2 DEF IsExact, HasRows, HasOrder
    <3>5. CASE tracks # {}
      <4>1. Derived(view, merged)  BY <3>2, <3>5 DEF FullInv, TInv, ViewInv
      <4>2. /\ view.filter # None => view.lookup = Filtered(merged, view.filter)
            /\ view.group # None => view.agg = Aggregated(Filtered(merged, view.filter), view.group)
        BY <2>1, <3>2, <3>5, <4>1 DEF Derived, Follows
      <4>3. view.filter # None => merged \cap view.lookup = Filtered(merged, view.filter)
        BY <4>2 DEF Filtered
      <4>4. answer'[c].rows = Aggregated(Filtered(merged, view.filter), view.group)
        <5>1. None \notin BadGroups  BY TableAssumption
        <5>2. QED  BY <1>5, <4>2, <4>3, <5>1 DEF Filtered, Aggregated
      <4>5. OwnSort(req[c]) => answer'[c].order = req[c].sort  BY <1>5, <3>2, <3>5
      <4>6. QED  BY <3>2, <3>3, <3>5, <4>4, <4>5 DEF IsExact, HasRows, HasOrder, Asked, OwnSort
    <3>6. QED  BY <3>4, <3>5
  <2>2. QED  BY <1>2, <1>5, <1>8, <2>1, AnswersKept
<1>9. QED  BY <1>4, <1>6, <1>7, <1>8 DEF Flow

LEMMA FlowEnd == ASSUME FullInv, NEW c \in Clients, End(c) PROVE Flow'
<1>1. TypeOK /\ pc[c] = "ending" /\ pc' = [pc EXCEPT ![c] = "idle"]
  BY DEF FullInv, TInv, End
<1>2. /\ UNCHANGED <<tracks, current, merged, twice, view, timer, acting, filled, dirty>>
      /\ req' = [req EXCEPT ![c] = None] /\ updated' = [updated EXCEPT ![c] = FALSE]
      /\ answer' = [answer EXCEPT ![c] = NoAnswer] /\ overlapped' = overlapped \ {c}
  BY DEF End, shared, clock
<1>3. /\ pc'[c] = "idle" /\ \A d \in Clients : d # c => pc'[d] = pc[d]
      /\ \A d \in Clients : pc'[d] = "running" <=> pc[d] = "running"
      /\ LockFree' <=> LockFree
  BY <1>1, Moves
<1>4. /\ answer'[c] = NoAnswer /\ ~answer'[c].ok
      /\ \A d \in Clients : d # c => req'[d] = req[d] /\ updated'[d] = updated[d] /\ answer'[d] = answer[d]
  BY <1>1, <1>2 DEF TypeOK, NoAnswer
<1>5. TableInv' /\ (Empty' <=> Empty)  BY <1>1, <1>2, <1>3, <1>4, TableKept
<1>6. CurrentInv'
  BY <1>1, <1>2, <1>3, <1>4, <1>5, VerdictsKept DEF FullInv, CurrentInv, Waiting, Alone, InStep
<1>7. ExportInv'  BY <1>1, <1>2, <1>3, <1>4 DEF FullInv, ExportInv
<1>8. HasOps => AnswerIsExact'  BY <1>4, AnswersKept
<1>9. QED  BY <1>5, <1>6, <1>7, <1>8 DEF Flow

-----------------------------------------------------------------------------
(* Steps that work on the table.                                           *)

\* Who had an answer before the table changed is overlapped.
LEMMA Disturbed ==
    ASSUME TypeOK, NEW c \in Clients, overlapped' = Disturbs(c),
           \A d \in Clients : d # c => pc'[d] = pc[d]
    PROVE  /\ \A d \in Clients : d \in overlapped => d \in overlapped'
           /\ \A d \in Clients : d # c /\ pc'[d] \in {"answered", "writing"} => d \in overlapped'
BY DEF Disturbs

\* A clean table has the rows of the request that reuses it: it has compared itself with the
\* last one, and no other has come in between.
LEMMA ReuseRight ==
    ASSUME FullInv, StatementsFindAll, NEW c \in Clients, Reuse(c), ~dirty'
    PROVE  /\ ~dirty /\ c \notin overlapped /\ current = Statements(req[c])
           /\ merged = RowsOf(req[c].tracks, req[c].window)
<1>1. /\ ~dirty /\ c \notin overlapped /\ pc[c] = "saved" /\ LockFree /\ ~updated[c]
      /\ tracks = Tracks(req[c]) /\ req[c] \in Requests
  BY DEF Reuse, FullInv, TInv, TypeOK
<1>2. tracks # {}  BY Reuses DEF FullInv
<1>3. tracks = Tracks(filled) /\ merged = RowsOf(Tracks(filled), filled.window)
  BY <1>1, <1>2 DEF FullInv, TableInv, Clean
<1>4. /\ current = Statements(req[c])
      /\ Empty \/ Tracks(filled) \cap Tracks(req[c]) = {} \/ filled.window = req[c].window
  BY <1>1 DEF FullInv, CurrentInv
<1>5. filled.window = req[c].window  BY <1>1, <1>2, <1>3, <1>4 DEF Empty
<1>6. QED  BY <1>1, <1>3, <1>4, <1>5, TracksFindAll

\* Rows that stay are rows of the request, when its window is theirs.
LEMMA KeptAreAsked ==
    ASSUME NEW T, NEW Q, NEW w
    PROVE  Kept(RowsOf(T, w), Q, T \ Q) \subseteq RowsOf(Q, w)
BY DEF Kept, RowsOf, Goes, IsOn

LEMMA BeginRight ==
    ASSUME FullInv, StatementsFindAll, NEW c \in Clients, Begin(c), ~dirty'
    PROVE  /\ c \notin overlapped /\ current = Statements(req[c])
           /\ merged' \subseteq RowsOf(req[c].tracks, req[c].window)
<1> DEFINE kept == IF updated[c] THEN {} ELSE Kept(merged, Tracks(req[c]), tracks \ Tracks(req[c]))
<1>1. /\ pc[c] = "saved" /\ LockFree /\ merged' = kept /\ req[c] \in Requests
      /\ c \notin overlapped /\ (kept = {} \/ (~dirty /\ ~OtherWindow(req[c])))
  BY DEF Begin, FullInv, TInv, TypeOK
<1>2. /\ current = Statements(req[c])
      /\ ~updated[c] /\ ~dirty =>
            \/ Empty \/ Tracks(filled) \cap Tracks(req[c]) = {}
            \/ filled.window = req[c].window
  BY <1>1 DEF FullInv, CurrentInv
<1>3. CASE kept = {}  BY <1>1, <1>2, <1>3
<1>4. CASE kept # {}
  <2>1. ~updated[c] /\ ~dirty /\ ~OtherWindow(req[c]) /\ merged # {}
    BY <1>1, <1>4 DEF Kept
  <2>2. tracks = Tracks(filled) /\ merged = RowsOf(Tracks(filled), filled.window)
    BY <1>1, <2>1 DEF FullInv, TableInv, Clean
  <2>3. filled.window = req[c].window
    BY <1>2, <2>1 DEF Empty, OtherWindow
  <2>4. kept = Kept(RowsOf(tracks, req[c].window), Tracks(req[c]), tracks \ Tracks(req[c]))
    BY <2>1, <2>2, <2>3
  <2>5. kept \subseteq RowsOf(req[c].tracks, req[c].window)
    BY <1>1, <2>4, KeptAreAsked, TracksFindAll
  <2>6. QED  BY <1>1, <1>2, <2>5
<1>5. QED  BY <1>3, <1>4

LEMMA FlowReuse == ASSUME FullInv, StatementsFindAll, NEW c \in Clients, Reuse(c) PROVE Flow'
<1>1. /\ TypeOK /\ TInv' /\ req[c] \in Requests /\ tracks = Tracks(req[c]) /\ tracks # {}
      /\ answer'[c].ok /\ (answer'[c].exact <=> ~dirty') /\ answer'[c].twice = twice'
      /\ req[c].filter \notin Broken =>
            answer'[c].rows = Aggregated(Filtered(merged, req[c].filter), req[c].group)
      /\ OwnSort(req[c]) => answer'[c].order = req[c].sort
      /\ \A d \in Clients : d # c => answer'[d] = answer[d] /\ pc'[d] = pc[d]
      /\ pc'[c] = "answered" /\ LockFree'
      /\ view'.filter = req[c].filter /\ view'.group = req[c].group
      /\ OwnSort(req[c]) =>
            IF req[c].group = None THEN view'.order = req[c].sort ELSE view'.aggOrder = req[c].sort
  BY Reuses DEF FullInv, TInv
<1>2. /\ pc[c] = "saved" /\ overlapped' = Disturbs(c) /\ filled' = Where(req[c])
      /\ UNCHANGED <<tracks, current, merged, twice, req, updated>>
  BY DEF Reuse, Works, Where
<1>3. ~dirty' => /\ ~dirty /\ c \notin overlapped /\ current = Statements(req[c])
                 /\ merged = RowsOf(req[c].tracks, req[c].window)
  BY ReuseRight
<1>4. /\ \A d \in Clients : d \in overlapped => d \in overlapped'
      /\ \A d \in Clients : d # c /\ pc'[d] \in {"answered", "writing"} => d \in overlapped'
  BY <1>1, <1>2, Disturbed
<1>5. TableInv'
  <2>1. /\ Tracks(filled') = Tracks(req[c]) /\ filled'.window = req[c].window
        /\ RowsOf(Tracks(req[c]), req[c].window) = RowsOf(req[c].tracks, req[c].window)
    BY <1>1, <1>2, StatementsOfWhere, TracksFindAll DEF Where
  <2>2. ~dirty' => Clean'  BY <1>1, <1>2, <1>3, <2>1 DEF Clean
  <2>3. QED  BY <1>1, <2>2 DEF TableInv, LockFree
<1>6. CurrentInv'
  <2>1. InStep'  BY <1>2, <1>3, StatementsOfWhere DEF InStep
  <2>2. Waiting(c)  BY <1>2 DEF Waiting
  <2>3. \A e \in Clients : pc'[e] \in {"checked", "saved"} => e \in overlapped'
    BY <1>1, <1>4, <2>2 DEF FullInv, CurrentInv, Alone
  <2>4. QED  BY <2>1, <2>3 DEF CurrentInv
<1>7. ExportInv'
  <2>1. ASSUME answer'[c].exact  PROVE merged' = RowsOf(req'[c].tracks, req'[c].window)
    BY <1>1, <1>2, <1>3, <2>1
  <2>2. QED  BY <1>1, <1>2, <1>4, <2>1 DEF ExportInv
<1>8. ASSUME HasOps  PROVE AnswerIsExact'
  <2>1. ASSUME answer'[c].exact, req[c].filter \notin Broken  PROVE IsExact(answer'[c], req[c])
    <3>1. answer'[c].rows = Asked(req[c])  BY <1>1, <1>3, <2>1 DEF Asked
    <3>2. answer'[c].twice = {}  BY <1>1, <1>8 DEF TInv, WorkInv
    <3>3. QED  BY <1>1, <3>1, <3>2 DEF IsExact, HasRows, HasOrder, OwnSort
  <2>2. QED  BY <1>1, <1>2, <1>8, <2>1, AnswersKept
<1>9. QED  BY <1>5, <1>6, <1>7, <1>8 DEF Flow

LEMMA FlowBegin == ASSUME FullInv, StatementsFindAll, NEW c \in Clients, Begin(c) PROVE Flow'
<1>1. /\ TypeOK /\ WorkInv' /\ pc'[c] = "running" /\ \A d \in Clients : d # c => pc'[d] = pc[d]
      /\ ~LockFree'
  BY TInvBegin DEF FullInv, TInv
<1>2. /\ pc[c] = "saved" /\ overlapped' = Disturbs(c) /\ filled' = Where(req[c])
      /\ UNCHANGED <<tracks, current, view, req, updated, answer>>
  BY DEF Begin, Works, Where
<1>3. ~dirty' => /\ c \notin overlapped /\ current = Statements(req[c])
                 /\ merged' \subseteq RowsOf(req[c].tracks, req[c].window)
  BY BeginRight
<1>4. /\ \A d \in Clients : d \in overlapped => d \in overlapped'
      /\ \A d \in Clients : d # c /\ pc'[d] \in {"answered", "writing"} => d \in overlapped'
  BY <1>1, <1>2, Disturbed
<1>5. TableInv'
  <2>1. \A d \in Clients : pc'[d] = "running" => d = c  BY <1>1 DEF WorkInv
  <2>2. QED  BY <1>1, <1>2, <1>3, <2>1 DEF TableInv
<1>6. CurrentInv'
  <2>1. InStep'  BY <1>2, <1>3, StatementsOfWhere DEF InStep
  <2>2. Waiting(c)  BY <1>2 DEF Waiting
  <2>3. \A e \in Clients : pc'[e] \in {"checked", "saved"} => e \in overlapped'
    BY <1>1, <1>4, <2>2 DEF FullInv, CurrentInv, Alone
  <2>4. QED  BY <2>1, <2>3 DEF CurrentInv
<1>7. ExportInv'  BY <1>1, <1>4 DEF ExportInv
<1>8. HasOps => AnswerIsExact'  BY <1>2 DEF FullInv, AnswerIsExact, IsExact
<1>9. QED  BY <1>5, <1>6, <1>7, <1>8 DEF Flow

\* The rows of the statements join those that were kept: all of them, or the table is dirty.
LEMMA FlowMerges ==
    ASSUME FullInv, StatementsFindAll, NEW c \in Clients, pc[c] = "running", NEW ran \in BOOLEAN,
           NEW new \in SUBSET Yield(req[c]), MergeIn(c, new, ran),
           \/ dirty' = dirty /\ new = Yield(req[c])
           \/ dirty' = TRUE
    PROVE  Flow'
<1>1. new \in SUBSET Rows /\ dirty' \in BOOLEAN  BY YieldRows DEF FullInv, TInv, TypeOK
<1>2. /\ TypeOK /\ TInv' /\ req[c] \in Requests
      /\ answer'[c].ok /\ (answer'[c].exact <=> ~dirty') /\ answer'[c].twice = twice'
      /\ req[c].filter \notin Broken =>
            answer'[c].rows = Aggregated(Filtered(merged', req[c].filter), req[c].group)
      /\ OwnSort(req[c]) => answer'[c].order = req[c].sort
      /\ \A d \in Clients : d # c => answer'[d] = answer[d] /\ pc'[d] = pc[d]
      /\ pc'[c] = "answered" /\ LockFree'
      /\ tracks' # {} =>
            /\ view'.filter = req[c].filter /\ view'.group = req[c].group
            /\ OwnSort(req[c]) =>
                  IF req[c].group = None THEN view'.order = req[c].sort
                  ELSE view'.aggOrder = req[c].sort
  <2>1. TInv /\ TypeOK  BY DEF FullInv, TInv
  <2>2. QED  BY <1>1, <2>1, Merges
<1>3. /\ merged' = merged \cup new /\ tracks' = (IF merged' = {} THEN {} ELSE Tracks(req[c]))
      /\ overlapped' = Disturbs(c) /\ UNCHANGED <<current, req, updated, filled>>
  BY DEF MergeIn
<1>4. filled = Where(req[c]) /\ (~dirty => merged \subseteq RowsOf(req[c].tracks, req[c].window))
  BY DEF FullInv, TableInv
<1>5. ~dirty' => ~dirty /\ merged' = RowsOf(req[c].tracks, req[c].window)  BY <1>2, <1>3, <1>4, TracksFindAll
<1>6. ~LockFree  BY DEF LockFree
<1>7. /\ \A d \in Clients : d \in overlapped => d \in overlapped'
      /\ \A d \in Clients : d # c /\ pc'[d] \in {"answered", "writing"} => d \in overlapped'
  BY <1>2, <1>3, Disturbed
<1>8. TableInv'
  <2>1. Tracks(req[c]) # {}  BY DEF FullInv, TInv, WorkInv
  <2>2. /\ Tracks(filled') = Tracks(req[c]) /\ filled'.window = req[c].window
        /\ RowsOf(Tracks(req[c]), req[c].window) = RowsOf(req[c].tracks, req[c].window)
    BY <1>2, <1>3, <1>4, StatementsOfWhere, TracksFindAll DEF Where
  <2>3. ~dirty' => Clean'  BY <1>3, <1>5, <2>1, <2>2 DEF Clean
  <2>4. QED  BY <1>2, <2>3 DEF TableInv, LockFree
<1>9. CurrentInv'
  <2>1. \A d \in Clients : Waiting(d)' <=> Waiting(d)  BY <1>2 DEF Waiting
  <2>2. InStep => InStep'  BY <1>3, <1>5, <1>6 DEF InStep, Empty
  <2>3. \A d \in Clients : pc'[d] \in {"checked", "saved"} => pc'[d] = pc[d]  BY <1>2
  <2>4. \A d \in Clients : Alone(d)' <=> Alone(d)  BY <2>1 DEF Alone
  <2>5. \A d \in Clients : Verdicts(req[d])' = Verdicts(req[d])  BY <1>3, VerdictsKept
  <2>6. (\A d \in Clients : ~Waiting(d)') => InStep'  BY <2>1, <2>2 DEF FullInv, CurrentInv
  <2>7. \A e \in Clients : pc'[e] = "checked" /\ e \notin overlapped' =>
           Alone(e)' /\ InStep' /\ (~updated'[e] => TRUE \in Verdicts(req[e])')
    BY <1>3, <1>7, <2>2, <2>3, <2>4, <2>5 DEF FullInv, CurrentInv
  <2>8. \A e \in Clients : pc'[e] = "saved" /\ e \notin overlapped' =>
           /\ Alone(e)' /\ current' = Statements(req'[e])
           /\ ~updated'[e] /\ ~dirty' =>
                 \/ Empty' \/ Tracks(filled') \cap Tracks(req'[e]) = {}
                 \/ filled'.window = req'[e].window
    BY <1>3, <1>5, <1>6, <1>7, <2>3, <2>4 DEF FullInv, CurrentInv, Empty
  <2>9. QED  BY <2>6, <2>7, <2>8 DEF CurrentInv
<1>10. ExportInv'
  <2>1. ASSUME answer'[c].exact  PROVE merged' = RowsOf(req'[c].tracks, req'[c].window)
    BY <1>2, <1>3, <1>5, <2>1
  <2>2. tracks' = {} => merged' = {}
    <3>1. Tracks(req[c]) # {}  BY DEF FullInv, TInv, WorkInv
    <3>2. QED  BY <1>3, <3>1
  <2>3. QED  BY <1>2, <1>3, <1>7, <2>1, <2>2 DEF ExportInv
<1>11. ASSUME HasOps  PROVE AnswerIsExact'
  <2>1. ASSUME answer'[c].exact, req[c].filter \notin Broken  PROVE IsExact(answer'[c], req[c])
    <3>1. answer'[c].rows = Asked(req[c])  BY <1>2, <1>5, <2>1 DEF Asked
    <3>2. answer'[c].twice = {}  BY <1>2, <1>11 DEF TInv, WorkInv
    <3>3. QED  BY <1>2, <3>1, <3>2 DEF IsExact, HasRows, HasOrder, OwnSort
  <2>2. QED  BY <1>2, <1>3, <1>11, <2>1, AnswersKept
<1>12. QED  BY <1>8, <1>9, <1>10, <1>11 DEF Flow

LEMMA FlowFinish ==
    ASSUME FullInv, StatementsFindAll, NEW c \in Clients, Finish(c) \/ FinishInterrupted(c)
    PROVE  Flow'
<1>1. CASE Finish(c)  BY <1>1, FlowMerges DEF Finish
<1>2. CASE FinishInterrupted(c)
  <2>1. PICK some \in SUBSET Yield(req[c]) : dirty' = TRUE /\ MergeIn(c, some, FALSE)
    BY <1>2 DEF FinishInterrupted
  <2>2. pc[c] = "running"  BY <1>2 DEF FinishInterrupted
  <2>3. QED  BY <2>1, <2>2, FlowMerges
<1>3. QED  BY <1>1, <1>2

\* A table without tracks: a request that failed, or the timer, leaves no rows, or a dirty table.
LEMMA FlowEmpties ==
    ASSUME FullInv, LockFree', tracks' = {}, ~dirty' => merged' = {},
           UNCHANGED <<current, req, updated, answer, filled>>,
           \A d \in Clients : pc'[d] \in {"checked", "saved"} <=> pc[d] \in {"checked", "saved"},
           \A d \in Clients : pc'[d] \in {"checked", "saved"} => pc'[d] = pc[d],
           \A d \in Clients : d \in overlapped => d \in overlapped',
           \A d \in Clients : pc'[d] \in {"answered", "writing"} /\ answer[d].ok => d \in overlapped'
    PROVE  Flow'
<1>1. ~dirty' => Empty'  BY DEF Empty
<1>2. InStep'  BY <1>1 DEF InStep
<1>3. TableInv'  BY DEF TableInv, LockFree, Clean
<1>4. CurrentInv'
  <2>1. \A d \in Clients : Waiting(d)' <=> Waiting(d)  BY DEF Waiting
  <2>2. \A d \in Clients : Alone(d)' <=> Alone(d)  BY <2>1 DEF Alone
  <2>3. \A d \in Clients : Verdicts(req[d])' = Verdicts(req[d])  BY VerdictsKept
  <2>4. \A e \in Clients : pc'[e] = "checked" /\ e \notin overlapped' =>
           Alone(e)' /\ InStep' /\ (~updated'[e] => TRUE \in Verdicts(req[e])')
    BY <1>2, <2>2, <2>3 DEF FullInv, CurrentInv
  <2>5. \A e \in Clients : pc'[e] = "saved" /\ e \notin overlapped' =>
           Alone(e)' /\ current' = Statements(req'[e]) /\ (~dirty' => Empty')
    BY <1>1, <2>2 DEF FullInv, CurrentInv
  <2>6. QED  BY <1>2, <2>4, <2>5 DEF CurrentInv
<1>5. ExportInv'  BY DEF ExportInv
<1>6. HasOps => AnswerIsExact'  BY DEF FullInv, AnswerIsExact, IsExact
<1>7. QED  BY <1>3, <1>4, <1>5, <1>6 DEF Flow

LEMMA FlowFailed == ASSUME FullInv, NEW c \in Clients, FinishFailed(c) PROVE Flow'
<1>1. /\ TypeOK /\ pc[c] = "running" /\ pc'[c] = "answered"
      /\ \A d \in Clients : d # c => pc'[d] = pc[d]
      /\ LockFree'
  BY TInvFailed DEF FullInv, TInv, FinishFailed
<1>2. /\ tracks' = {} /\ (~dirty' => merged' = {}) /\ overlapped' = Disturbs(c)
      /\ UNCHANGED <<current, req, updated, answer, filled>>
  BY DEF FinishFailed
<1>3. /\ \A d \in Clients : d \in overlapped => d \in overlapped'
      /\ \A d \in Clients : pc'[d] \in {"answered", "writing"} /\ answer[d].ok => d \in overlapped'
  <2>1. ~answer[c].ok  BY <1>1 DEF FullInv, TInv, WorkInv
  <2>2. QED  BY <1>1, <1>2, <2>1 DEF Disturbs
<1>4. QED  BY <1>1, <1>2, <1>3, FlowEmpties

LEMMA FlowDrop == FullInv /\ Drop => Flow'
<1> SUFFICES ASSUME FullInv, Drop PROVE Flow'  OBVIOUS
<1>1. /\ LockFree /\ tracks' = {} /\ merged' = {}
      /\ UNCHANGED <<current, pc, req, updated, answer, filled>>
      /\ \A d \in Clients : d \in overlapped => d \in overlapped'
      /\ \A d \in Clients : pc'[d] \in {"answered", "writing"} => d \in overlapped'
  BY DEF Drop, Forgotten, clients
<1>2. LockFree'  BY <1>1 DEF LockFree
<1>3. QED  BY <1>1, <1>2, FlowEmpties

\* A step of the timer that only wakes it, or no step.
LEMMA FlowRest ==
    ASSUME FullInv,
           UNCHANGED <<tracks, current, merged, view, pc, req, updated, answer, filled, overlapped, dirty>>
    PROVE  Flow'
<1>1. LockFree' <=> LockFree  BY DEF LockFree
<1>2. TableInv' /\ (Empty' <=> Empty)  BY <1>1, TableKept
<1>3. CurrentInv'  BY <1>2, VerdictsKept DEF FullInv, CurrentInv, Waiting, Alone, InStep
<1>4. ExportInv'  BY <1>1 DEF FullInv, ExportInv
<1>5. HasOps => AnswerIsExact'  BY DEF FullInv, AnswerIsExact, IsExact
<1>6. QED  BY <1>2, <1>3, <1>4, <1>5 DEF Flow

-----------------------------------------------------------------------------
(* All steps, and the theorem.                                             *)

LEMMA FlowInit == Init => Flow
<1> SUFFICES ASSUME Init PROVE Flow  OBVIOUS
<1>1. /\ tracks = {} /\ current = Statements(filled) /\ merged = {} /\ filled = Nothing
      /\ \A c \in Clients : pc[c] = "idle" /\ ~answer[c].ok
  BY NoStatements DEF Init, NoAnswer
<1>2. TableInv /\ CurrentInv /\ ExportInv /\ AnswerIsExact
  BY <1>1 DEF TableInv, LockFree, Clean, CurrentInv, InStep, ExportInv, AnswerIsExact
<1>3. QED  BY <1>2 DEF Flow

LEMMA FlowNext == WellCut /\ FullInv /\ [Next]_vars => Flow'
<1> SUFFICES ASSUME StatementsFindAll, TextsTellWindows, FullInv, [Next]_vars PROVE Flow'
  BY DEF WellCut
<1>1. CASE UNCHANGED vars \/ Expire
  <2>1. UNCHANGED <<tracks, current, merged, view, pc, req, updated, answer, filled, overlapped, dirty>>
    BY <1>1 DEF vars, shared, clock, clients, history, Expire
  <2>2. QED  BY <2>1, FlowRest
<1>2. ASSUME NEW c \in Clients, Check(c) \/ Refuse(c) \/ ClientStep(c)  PROVE Flow'
  BY <1>2, FlowCheck, FlowRefuse, FlowSave, FlowReuse, FlowBegin, FlowFinish, FlowFailed, FlowRestart, FlowWrite,
     FlowEnd DEF ClientStep
<1>3. QED  BY <1>1, <1>2, FlowDrop DEF Next

\* Rows that are kept, dropped by the timer, merged, filtered, grouped and sorted in the table
\* of the requests before are those a processor without a memory would give (IsCurrentQuery,
\* SaveCurrentQuery, ExecuteQuery, ProcessCompoundQuery, ExportToCSV), for any number of jobs,
\* requests, rows and filters: for tables of events, where duplicates are removed, and for requests
\* whose statements find all their rows and tell their windows apart (WellCut).
THEOREM AnswersAreExact == HasOps /\ WellCut => (Spec => []AnswerIsExact)
<1> SUFFICES ASSUME HasOps, WellCut PROVE Spec => []AnswerIsExact  OBVIOUS
<1>1. Init => FullInv  BY TInvInit, FlowInit DEF FullInv, Flow
<1>2. FullInv /\ [Next]_vars => FullInv'
  BY TInvNext, FlowNext DEF FullInv, Flow
<1>3. FullInv => AnswerIsExact  BY DEF FullInv
<1>4. QED  BY <1>1, <1>2, <1>3, PTL DEF Spec

-----------------------------------------------------------------------------
(* Requests that are not cut.                                              *)

\* Every event has a duration, none ends where a window begins, and no track is cut.
PlainRequests ==
    /\ HasOps /\ Large = {}
    /\ \A r \in Rows : r.start < r.end
    /\ \A q \in Requests, r \in Rows : r.end # q.window.from

LEMMA QuotientMonotonic ==
    ASSUME NEW a \in Nat, NEW b \in Nat, NEW d \in Nat \ {0}, a <= b
    PROVE  a \div d \in Nat /\ b \div d \in Nat /\ a \div d <= b \div d
<1> DEFINE p == a \div d
           q == b \div d
<1>1. p \in Nat /\ q \in Nat /\ p * d <= a /\ b < (q + 1) * d  BY Quotient
<1> HIDE DEF p, q
<1>2. ~(q + 1 <= p)
  <2>1. SUFFICES ASSUME q + 1 <= p PROVE FALSE  OBVIOUS
  <2>2. (q + 1) * d <= p * d  BY <1>1, <2>1, TimesMonotonic
  <2>3. p * d \in Int /\ (q + 1) * d \in Int  BY <1>1
  <2>4. QED  BY <1>1, <2>2, <2>3
<1>3. p \in Nat /\ q \in Nat /\ p <= q  BY <1>1, <1>2
<1>4. QED  BY <1>3 DEF p, q

\* One statement for each track, with the window of the request.
LEMMA Uncut ==
    ASSUME PlainRequests, NEW q \in Requests
    PROVE  Slices(q) = { [track |-> t, from |-> q.window.from, to |-> q.window.to, last |-> TRUE] : t \in q.tracks }
<1>1. q.window.from \in Nat /\ q.window.to \in Nat /\ q.window.from <= q.window.to
  BY TableAssumption
<1>2. \A t : Divider(q, t) = 1  BY DEF Divider, PlainRequests
<1>3. (q.window.to - q.window.from) \div 1 = q.window.to - q.window.from
  <2> DEFINE x == q.window.to - q.window.from
  <2>1. x \in Nat  BY <1>1
  <2> HIDE DEF x
  <2>2. x * 1 <= x /\ x < (x + 1) * 1  BY <2>1
  <2>3. x \div 1 = x  BY <2>1, <2>2, QuotientIs
  <2>4. QED  BY <2>3 DEF x
<1>4. \A t : Slice(q, t, 0) = [track |-> t, from |-> q.window.from, to |-> q.window.to, last |-> TRUE]
  <2> DEFINE step == q.window.to - q.window.from
  <2>1. \A t : Slice(q, t, 0) = [track |-> t, from |-> q.window.from + step * 0,
                                 to |-> q.window.from + step * 0 + step, last |-> 0 = 1 - 1]
    BY <1>2, <1>3 DEF Slice
  <2>2. q.window.from + step * 0 = q.window.from /\ q.window.from + step * 0 + step = q.window.to
    BY <1>1
  <2>3. (0 = 1 - 1) = TRUE  OBVIOUS
  <2> HIDE DEF step
  <2>4. QED  BY <2>1, <2>2, <2>3, Zenon
<1>5. Slices(q) = { Slice(q, t, 0) : t \in q.tracks }
  <2>1. ASSUME NEW x  PROVE x \in Slices(q) <=> \E t \in q.tracks : x = Slice(q, t, 0)
    <3>1. x \in Slices(q) <=> \E t \in q.tracks : \E j \in 0 .. Divider(q, t) - 1 : x = Slice(q, t, j)
      BY DEF Slices
    <3>2. \A t : 0 .. Divider(q, t) - 1 = {0}  BY <1>2
    <3>3. QED  BY <3>1, <3>2
  <2>2. QED  BY <2>1
<1>6. QED  BY <1>4, <1>5

\* An event of a window is in a bucket of it.
LEMMA InBuckets ==
    ASSUME PlainRequests, NEW q \in Requests, NEW r \in Rows,
           r.end >= q.window.from, r.start <= q.window.to
    PROVE  Buckets(r) \cap ((q.window.from \div Bucket) .. (q.window.to \div Bucket)) # {}
<1> DEFINE a == r.start \div Bucket
           b == (r.end - 1) \div Bucket
           c == q.window.from \div Bucket
           d == q.window.to \div Bucket
<1>1. /\ r.start \in Nat /\ r.end \in Nat /\ r.start < r.end /\ r.end # q.window.from
      /\ q.window.from \in Nat /\ q.window.to \in Nat /\ q.window.from <= q.window.to
      /\ Bucket \in Nat \ {0}
  BY TableAssumption DEF PlainRequests
<1>2. r.end - 1 \in Nat /\ r.start <= r.end - 1 /\ q.window.from <= r.end - 1  BY <1>1
<1>3. a \in Nat /\ b \in Nat /\ a <= b  BY <1>1, <1>2, QuotientMonotonic
<1>4. c \in Nat /\ d \in Nat /\ c <= d  BY <1>1, QuotientMonotonic
<1>5. a <= d  BY <1>1, QuotientMonotonic
<1>6. c <= b  BY <1>1, <1>2, QuotientMonotonic
<1>7. Buckets(r) = a .. b  BY <1>1 DEF Buckets, PlainRequests
<1> HIDE DEF a, b, c, d
<1>8. (a .. b) \cap (c .. d) # {}
  <2>1. CASE a <= c  BY <1>3, <1>4, <1>6, <2>1
  <2>2. CASE c <= a  BY <1>3, <1>4, <1>5, <2>2
  <2>3. QED  BY <1>3, <1>4, <2>1, <2>2
<1>9. QED  BY <1>7, <1>8 DEF c, d

LEMMA PlainRequestsAreWellCut == PlainRequests => WellCut
<1> SUFFICES ASSUME PlainRequests PROVE WellCut  OBVIOUS
<1>1. ASSUME NEW q \in Requests  PROVE Yield(q) = RowsOf(q.tracks, q.window)
  <2> DEFINE S(t) == [track |-> t, from |-> q.window.from, to |-> q.window.to, last |-> TRUE]
  <2>1. Slices(q) = { S(t) : t \in q.tracks }  BY Uncut
  <2>2. q.window.to \in Nat /\ \A r \in Rows : r.start \in Nat  BY TableAssumption
  <2>3. \A t : Found(S(t)) = { r \in Rows : IsOn(r, t) /\ r.end >= q.window.from /\ r.start <= q.window.to }
    BY <2>2 DEF Found
  <2>4. ASSUME NEW t \in q.tracks, NEW r \in Found(S(t))  PROVE r \in Yield(q)
    <3>1. r \in Rows /\ IsOn(r, t) /\ r.end >= q.window.from /\ r.start <= q.window.to  BY <2>3, <2>4
    <3>2. ~IsEmptyRange(t, q.window.from, q.window.to)  BY <3>1, InBuckets DEF IsEmptyRange
    <3>3. S(t) \in Statements(q)  BY <2>1, <3>2 DEF Statements
    <3>4. QED  BY <2>4, <3>3 DEF Yield
  <2>5. ASSUME NEW r \in Yield(q)  PROVE r \in RowsOf(q.tracks, q.window)
    <3>1. PICK s \in Statements(q) : r \in Found(s)  BY <2>5 DEF Yield
    <3>2. PICK t \in q.tracks : s = S(t)  BY <2>1, <3>1 DEF Statements
    <3>3. QED  BY <2>3, <3>1, <3>2 DEF RowsOf
  <2>6. ASSUME NEW r \in RowsOf(q.tracks, q.window)  PROVE r \in Yield(q)
    <3>1. PICK t \in q.tracks : IsOn(r, t)  BY <2>6 DEF RowsOf
    <3>2. r \in Found(S(t))  BY <2>3, <2>6, <3>1 DEF RowsOf
    <3>3. QED  BY <2>4, <3>2
  <2>7. QED  BY <2>5, <2>6
<1>2. ASSUME NEW p \in Requests, NEW q \in Requests, NEW s \in Statements(p), s \in Statements(q)
      PROVE  p.window = q.window
  <2>1. s.from = p.window.from /\ s.to = p.window.to  BY <1>2, Uncut DEF Statements
  <2>2. s.from = q.window.from /\ s.to = q.window.to  BY <1>2, Uncut DEF Statements
  <2>3. p.window \in [from : Nat, to : Nat] /\ q.window \in [from : Nat, to : Nat]  BY TableAssumption
  <2>4. \A w \in [from : Nat, to : Nat] : w = [from |-> w.from, to |-> w.to]  OBVIOUS
  <2>5. QED  BY <2>1, <2>2, <2>3, <2>4, Zenon
<1>3. QED  BY <1>1, <1>2 DEF WellCut, StatementsFindAll, TextsTellWindows

\* The hypotheses of AnswersAreExact hold for events that have a duration and do not end where
\* a window begins, on tracks that are too short to be cut (BuildCompoundQuery).
THEOREM PlainAnswersAreExact == PlainRequests => (Spec => []AnswerIsExact)
BY AnswersAreExact, PlainRequestsAreWellCut DEF PlainRequests

=============================================================================
