-------------------------------- MODULE MCBatch --------------------------------
(* Small instances for TLC of the programs that work through a batch: the     *)
(* deterministic matching (DeterministicMatch), the graph reconciliation      *)
(* (GraphReconciliation), the parsers of rows (TabularRows) and of PDF pages  *)
(* (PdfPages) and the training of the model (MLTraining).  They share no      *)
(* state, so the run is their sum: one of them moves while the others have    *)
(* not begun, and all but the matching beside one input of the matching.      *)
EXTENDS MCDeterministicMatch, GraphReconciliation, TabularRows, PdfPages, MLTraining

batchVars == <<vars, graphVars, rowVars, pdfVars, trainVars>>

BatchInit == Init /\ GraphInit /\ RowsInit /\ PdfInit /\ TrainInit

FirstInput ==
  /\ pc = "pairs" /\ i = 1
  /\ src = [s \in Sources |-> Plain(1)] /\ tgt = [t \in Targets |-> Plain(1)]

BatchNext ==
  \/ GraphInit /\ RowsInit /\ PdfInit /\ TrainInit /\ Next /\ UNCHANGED <<graphVars, rowVars, pdfVars, trainVars>>
  \/ FirstInput /\ RowsInit /\ PdfInit /\ TrainInit /\ GraphNext /\ UNCHANGED <<vars, rowVars, pdfVars, trainVars>>
  \/ FirstInput /\ GraphInit /\ PdfInit /\ TrainInit /\ RowsNext /\ UNCHANGED <<vars, graphVars, pdfVars, trainVars>>
  \/ FirstInput /\ GraphInit /\ RowsInit /\ TrainInit /\ PdfNext /\ UNCHANGED <<vars, graphVars, rowVars, trainVars>>
  \/ FirstInput /\ GraphInit /\ RowsInit /\ PdfInit /\ TrainNext /\ UNCHANGED <<vars, graphVars, rowVars, pdfVars>>

BatchSpec == BatchInit /\ [][BatchNext]_batchVars

TypesOK == TypeOK /\ GraphTypeOK /\ RowsTypeOK /\ PdfTypeOK /\ TrainTypeOK

-----------------------------------------------------------------------------
Node(t, a, d, f) == [type |-> t, amount |-> a, currency |-> "USD", date |-> d, fee |-> f]

\* Amounts that are equal, nearly equal, far apart and out of reach, that add up
\* with and without a fee, and a refund.
FourKinds == {Node("invoice", 100, 0, 0), Node("invoice", 110, 1, 0), Node("payment", 100, 0, 0),
              Node("payment", 60, 0, 0), Node("payment", 40, 1, 0), Node("payment", -10, 0, 0),
              Node("settlement", 90, 0, 10), [Node("settlement", 90, 0, 0) EXCEPT !.currency = "EUR"],
              Node("settlement", 9000, 2, 0)}
TwoArrivals == {<<1, 2, 3, 4>>, <<4, 2, 3, 1>>}

-----------------------------------------------------------------------------
RowOf(shape, a, d, c) == [shape |-> shape, amount |-> a, debit |-> d, credit |-> c, valid |-> shape = "cells"]
Total7 == RowOf("cells", 7, NoCell, NoCell)
EmptyRow == RowOf("empty", NoCell, NoCell, NoCell)
LineEnd == RowOf("line_end", NoCell, NoCell, NoCell)

\* Good and bad rows, either side of a ledger, zeros, and rows that are none.
RowShapes == {Total7, RowOf("cells", NoCell, NoCell, 5), RowOf("cells", NoCell, 5, NoCell), RowOf("cells", NoCell, 0, 5),
              RowOf("cells", NoCell, 0, NoCell), RowOf("cells", BadCell, NoCell, NoCell), [Total7 EXCEPT !.valid = FALSE], EmptyRow, LineEnd}
HeaderRow == RowOf("cells", BadCell, BadCell, BadCell)
SheetShapes ==
  {<<>>} \cup {lead \o <<HeaderRow, a, b>> : lead \in {<<>>, <<EmptyRow>>, <<LineEnd>>}, a, b \in RowShapes}
    \cup {<<HeaderRow, a, b, a>> : a, b \in RowShapes}
ExcelSheets == {s \in SheetShapes : LineEnd \notin {s[k] : k \in DOMAIN s}}
SmallBooks ==
  {[format |-> "csv", sheets |-> <<s>>] : s \in SheetShapes}
    \cup {[format |-> "xlsx", sheets |-> <<s>> \o rest] : s \in ExcelSheets, rest \in {<<>>, <<<<HeaderRow, Total7>>>>}}
    \cup {[format |-> "xlsx", sheets |-> <<s, <<HeaderRow, Total7>>, s>>] : s \in ExcelSheets}

-----------------------------------------------------------------------------
Page(native, lined, tables) == [native |-> native, lined |-> lined, tables |-> tables]
PageShapes == {Page(n, l, t) : n \in {0, 40, 85}, l \in BOOLEAN, t \in {<<>>, <<<<TRUE, FALSE>>>>, <<<<TRUE>>, <<TRUE>>>>}}
ManyWords == {<<>>, <<30>>, <<90, -1>>, <<81, 78>>, <<80, 79>>}
SmallPdfs == {<<p>> : p \in PageShapes} \cup {<<p, q>> : p, q \in PageShapes}

-----------------------------------------------------------------------------
Case(s, e, c, m, x) == [seed |-> s, entities |-> e, scenario |-> c, match |-> m, exposure |-> x]

\* The third case joins the worlds of the first two, two cases share an entity
\* that neither names first.
Bridged(x, m) ==
  <<Case(1, <<1>>, 1, TRUE, 100), Case(2, <<2, 8>>, 2, FALSE, x), Case(1, <<3>>, 2, m, 100),
    Case(4, <<4>>, 4, TRUE, 100), Case(5, <<4>>, 5, FALSE, x),
    Case(6, <<6, 8>>, 6, TRUE, 100), Case(7, <<7>>, 6, FALSE, 100)>>
SmallDatasets ==
  {Bridged(x, m) : x \in {100, 600}, m \in BOOLEAN}
    \cup {SubSeq(Bridged(100, TRUE), 1, 5), [Bridged(100, TRUE) EXCEPT ![7].match = TRUE],
          [Bridged(100, TRUE) EXCEPT ![7].entities = <<7, 7>>]}
Strict == [rate |-> 0, exposure |-> 0]
Loose == [rate |-> 50, exposure |-> 500]
==============================================================================
