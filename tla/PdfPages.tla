-------------------------------- MODULE PdfPages --------------------------------
(* extract_pdf of services/ingestion/pdf.py and the reading of its tables by  *)
(* _extract_records_from_pdf of services/ingestion/worker.py: native text,    *)
(* tables, OCR where the text is poor, then one record or error per row.      *)
(*                                                                            *)
(* A table is the sequence of its rows below the header, each TRUE if it can  *)
(* be normalized; a table found by its lines is surer than one found by text. *)
EXTENDS Integers, Sequences, SequencesExt, FiniteSetsExt

CONSTANTS Pdfs,       \* the documents: sequences of [native, lined, tables]
          OcrWords,   \* what OCR may read: the confidence of each word, -1 for none
          NoOcr       \* a page on which it was not attempted

ASSUME PdfAssumption ==
  /\ \A words \in OcrWords : words \in Seq(-1..100)
  /\ NoOcr \notin 0..100
  /\ \A doc \in Pdfs : doc \in Seq([native : 0..55 \cup {85}, lined : BOOLEAN, tables : Seq(Seq(BOOLEAN))])

VARIABLES pdf,
          extracting, \* "idle", "native", "ocr", "rows" or "done"
          pages,      \* the page dictionaries
          at,         \* the page the loop is at
          pdfRows     \* the records and errors of the worker

pdfVars == <<pdf, extracting, pages, at, pdfRows>>

PdfInit == pdf = <<>> /\ extracting = "idle" /\ pages = <<>> /\ at = 1 /\ pdfRows = <<>>

OCR_FALLBACK_THRESHOLD == 80

OpenPdf ==
  /\ extracting = "idle"
  /\ pdf' \in Pdfs
  /\ extracting' = "native"
  /\ UNCHANGED <<pages, at, pdfRows>>

\* _native_text_confidence is of the page (85, or less for a few words), and
\* _extract_tables_pdfplumber may raise after any number of tables: those it has
\* read are kept.
PageOf(page, read) ==
  [method |-> "native_text", confidence |-> page.native, ocr |-> NoOcr,
   has_native_text |-> page.native >= OCR_FALLBACK_THRESHOLD,
   fallback_required |-> page.native < OCR_FALLBACK_THRESHOLD,
   tables |-> SubSeq(page.tables, 1, read),
   table_confidence |-> IF page.lined THEN 95 ELSE 82]

ExtractPage ==
  /\ extracting = "native" /\ Len(pages) < Len(pdf)
  /\ \E read \in 0..Len(pdf[Len(pages) + 1].tables) :
       pages' = Append(pages, PageOf(pdf[Len(pages) + 1], read))
  /\ UNCHANGED <<pdf, extracting, at, pdfRows>>

StartOcr ==
  /\ extracting = "native" /\ Len(pages) = Len(pdf)
  /\ extracting' = "ocr"
  /\ UNCHANGED <<pdf, pages, at, pdfRows>>

-----------------------------------------------------------------------------
(* _apply_ocr_fallback.                                                       *)

\* _ocr_words: the mean of the words that are any, half to even.
OcrConfidence(words) ==
  LET read  == {k \in DOMAIN words : words[k] >= 0}
      count == Cardinality(read)
      total == MapThenSumSet(LAMBDA k : words[k], read)
      twice == 2 * (total % count)
      mean  == total \div count
  IN IF read = {} THEN 0
     ELSE IF twice > count \/ (twice = count /\ mean % 2 = 1) THEN mean + 1 ELSE mean

\* Mutant: the text is replaced, and it is still said to be wanting.
RecognizedStale(page, confidence) ==
  IF confidence <= page.confidence THEN [page EXCEPT !.ocr = confidence]
  ELSE [page EXCEPT !.ocr = confidence, !.method = "ocr", !.has_native_text = FALSE, !.confidence = confidence]

\* The text of the page is replaced by a better one only.
Recognized(page, confidence) ==
  IF confidence <= page.confidence THEN [page EXCEPT !.ocr = confidence]
  ELSE [page EXCEPT !.ocr = confidence, !.method = "ocr", !.has_native_text = FALSE,
                    !.confidence = confidence, !.fallback_required = confidence < OCR_FALLBACK_THRESHOLD]

OcrPage ==
  /\ extracting = "ocr" /\ at \in DOMAIN pages
  /\ IF pages[at].confidence < OCR_FALLBACK_THRESHOLD
     THEN \* OCR finds words, or raises.
          \/ \E words \in OcrWords : pages' = [pages EXCEPT ![at] = Recognized(@, OcrConfidence(words))]
          \/ pages' = [pages EXCEPT ![at].ocr = 0]
     ELSE UNCHANGED pages
  /\ at' = at + 1
  /\ UNCHANGED <<pdf, extracting, pdfRows>>

StartRows ==
  /\ extracting = "ocr" /\ at \notin DOMAIN pages
  /\ extracting' = "rows" /\ at' = 1
  /\ UNCHANGED <<pdf, pages, pdfRows>>

-----------------------------------------------------------------------------
(* _extract_records_from_pdf.                                                 *)

\* source_row: the row's place in its table, whichever of the page's tables.
SourceRow(row) == 1000 * at + row + 1

RowsOf(page) ==
  FlattenSeq([t \in DOMAIN page.tables |->
    [row \in DOMAIN page.tables[t] |->
       [page |-> at, table |-> t, row |-> row, source_row |-> SourceRow(row),
        normalized |-> page.tables[t][row],
        parser_confidence |-> Min({page.confidence, page.table_confidence})]]])

ReadTables ==
  /\ extracting = "rows" /\ at \in DOMAIN pages
  /\ pdfRows' = pdfRows \o RowsOf(pages[at])
  /\ at' = at + 1
  /\ UNCHANGED <<pdf, extracting, pages>>

FinishPdf ==
  /\ extracting = "rows" /\ at \notin DOMAIN pages
  /\ extracting' = "done"
  /\ UNCHANGED <<pdf, pages, at, pdfRows>>

PdfNext ==
  OpenPdf \/ ExtractPage \/ StartOcr \/ OcrPage \/ StartRows \/ ReadTables \/ FinishPdf

PdfSpec == PdfInit /\ [][PdfNext]_pdfVars

-----------------------------------------------------------------------------
PdfTypeOK ==
  /\ extracting \in {"idle", "native", "ocr", "rows", "done"} /\ at \in Nat
  /\ \A k \in DOMAIN pages :
       /\ pages[k].method \in {"native_text", "ocr"} /\ pages[k].confidence \in 0..100
       /\ pages[k].ocr \in 0..100 \cup {NoOcr}

\* What a page says of itself stays true when OCR replaces its text: the text is
\* never replaced by a worse one, a page says it needs OCR exactly as long as
\* its text is poor, and that its text is native only when good text is; no row
\* is surer than the text of its page or than its table.
PagesConsistent ==
  extracting \in {"rows", "done"} =>
    /\ \A k \in DOMAIN pages :
         /\ pages[k].confidence >= pdf[k].native
         /\ pages[k].fallback_required <=> pages[k].confidence < OCR_FALLBACK_THRESHOLD
         /\ pages[k].has_native_text <=> pages[k].method = "native_text" /\ ~pages[k].fallback_required
         /\ pages[k].method = "ocr" => pages[k].ocr = pages[k].confidence
    /\ \A r \in DOMAIN pdfRows :
         /\ pdfRows[r].parser_confidence <= pages[pdfRows[r].page].table_confidence
         /\ pages[pdfRows[r].page].fallback_required =>
              pdfRows[r].parser_confidence < OCR_FALLBACK_THRESHOLD

\* "pdfplumber extraction failed; will fall back to OCR" (pdf.py,
\* _extract_tables_pdfplumber): OCR is attempted on a page some of whose tables
\* could not be read.
LostTablesFallBack ==
  extracting = "done" =>
    \A k \in DOMAIN pages : Len(pages[k].tables) < Len(pdf[k].tables) => pages[k].ocr # NoOcr
==============================================================================
