---------------------------- MODULE ParsingProofs ------------------------------
(* Theorems of the parsers, for any documents, files, limits and readings: the *)
(* pages of a PDF (PdfPages) and the rows of a CSV file or a workbook          *)
(* (TabularRows).                                                             *)
EXTENDS TabularRows, PdfPages, InductionLemmas

(* PdfPages: what the pages and the rows say of themselves. *)

\* f joins the first n members of ss, as FlattenSeq does.
Joins(f, ss, n) == f = [i \in 1..n |-> IF i = 1 THEN ss[i] ELSE f[i - 1] \o ss[i]]

\* The function by which FlattenSeq joins sequences exists.
LEMMA JoinExists ==
  ASSUME NEW ss, NEW n \in Nat
  PROVE  \E f : Joins(f, ss, n)
<1> DEFINE Reached == {m \in Nat : \E f : Joins(f, ss, m)}
<1>1. 0 \in Reached
  <2>1. Joins([i \in 1..0 |-> <<>>], ss, 0)
    BY DEF Joins
  <2> QED  BY <2>1
<1>2. ASSUME NEW m \in Nat, m \in Reached PROVE m + 1 \in Reached
  <2>1. PICK g : Joins(g, ss, m)
    BY <1>2
  <2> DEFINE h == [i \in 1..(m + 1) |-> IF i = 1 THEN ss[i] ELSE g[i - 1] \o ss[i]]
  <2>2. ASSUME NEW i \in 1..m PROVE h[i] = g[i]
    <3>1. g[i] = IF i = 1 THEN ss[i] ELSE g[i - 1] \o ss[i]
      BY <2>1, Zenon DEF Joins
    <3>2. i \in 1..(m + 1)
      OBVIOUS
    <3>3. h[i] = IF i = 1 THEN ss[i] ELSE g[i - 1] \o ss[i]
      BY <3>2, Zenon
    <3> QED  BY <3>1, <3>3
  <2>3. ASSUME NEW i \in 1..(m + 1) PROVE h[i] = IF i = 1 THEN ss[i] ELSE h[i - 1] \o ss[i]
    <3>1. i # 1 => i - 1 \in 1..m
      OBVIOUS
    <3> QED  BY <2>2, <3>1
  <2>4. Joins(h, ss, m + 1)
    BY <2>3 DEF Joins
  <2> HIDE DEF h
  <2> QED  BY <2>4
<1>3. Nat \subseteq Reached
  <2> HIDE DEF Reached
  <2> QED  BY <1>1, <1>2, Counting
<1> QED  BY <1>3

\* What holds of the elements of sequences holds of those of their flattening.
LEMMA FlattenTyped ==
  ASSUME NEW S, NEW ss \in Seq(Seq(S))
  PROVE  FlattenSeq(ss) \in Seq(S)
<1> DEFINE flatten[i \in 1..Len(ss)] == IF i = 1 THEN ss[i] ELSE flatten[i - 1] \o ss[i]
<1>1. Len(ss) \in Nat /\ \A i \in 1..Len(ss) : ss[i] \in Seq(S)
  OBVIOUS
<1>2. CASE Len(ss) = 0
  <2>1. ss = <<>>
    BY <1>2
  <2> QED  BY <1>2, <2>1 DEF FlattenSeq
<1>3. CASE Len(ss) # 0
  <2>1. PICK f : Joins(f, ss, Len(ss))
    BY <1>1, JoinExists
  <2>2. f = [i \in 1..Len(ss) |-> IF i = 1 THEN ss[i] ELSE f[i - 1] \o ss[i]]
    BY <2>1 DEF Joins
  <2>3. flatten = [i \in 1..Len(ss) |-> IF i = 1 THEN ss[i] ELSE flatten[i - 1] \o ss[i]]
    BY <2>2
  <2>4. FlattenSeq(ss) = flatten[Len(ss)]
    BY <1>3 DEF FlattenSeq
  <2> HIDE DEF flatten
  <2> DEFINE Reached == {m \in Nat : m + 1 \in 1..Len(ss) => flatten[m + 1] \in Seq(S)}
  <2>5. 0 \in Reached
    BY <1>1, <2>3
  <2>6. ASSUME NEW m \in Nat, m \in Reached PROVE m + 1 \in Reached
    <3> SUFFICES ASSUME (m + 1) + 1 \in 1..Len(ss) PROVE flatten[(m + 1) + 1] \in Seq(S)
      OBVIOUS
    <3> DEFINE k == (m + 1) + 1
    <3>1. m + 1 \in 1..Len(ss) /\ k - 1 = m + 1 /\ k # 1 /\ k \in 1..Len(ss)
      BY <1>1
    <3>2. flatten[m + 1] \in Seq(S) /\ ss[k] \in Seq(S)
      BY <1>1, <2>6, <3>1
    <3> HIDE DEF k
    <3>3. flatten[k] = flatten[m + 1] \o ss[k]
      BY <2>3, <3>1
    <3> QED  BY <3>2, <3>3 DEF k
  <2>7. Nat \subseteq Reached
    <3> HIDE DEF Reached
    <3> QED  BY <2>5, <2>6, Counting
  <2>8. Len(ss) - 1 \in Nat /\ (Len(ss) - 1) + 1 = Len(ss) /\ Len(ss) \in 1..Len(ss)
    BY <1>1, <1>3
  <2>9. flatten[Len(ss)] \in Seq(S)
    BY <2>7, <2>8
  <2> QED  BY <2>4, <2>9
<1> QED  BY <1>2, <1>3

-----------------------------------------------------------------------------
\* The mean of what OCR has read is a whole number of hundredths, and rounding
\* it takes it no higher than the surest word may be.
LEMMA ConfidenceBounded == ASSUME NEW words \in OcrWords PROVE OcrConfidence(words) \in 0..100
<1> DEFINE read == {k \in DOMAIN words : words[k] >= 0}
           count == Cardinality(read)
           total == MapThenSumSet(LAMBDA k : words[k], read)
           word == [k \in read |-> words[k]]
           pick == [T \in SUBSET read |-> CHOOSE x \in T : TRUE]
           iter[T \in SUBSET read] ==
             IF T = {} THEN 0 ELSE words[CHOOSE x \in T : TRUE] + iter[T \ {CHOOSE x \in T : TRUE}]
<1>1. IsFiniteSet(read) /\ \A k \in read : words[k] \in 0..100
  <2>1. words \in Seq(-1..100)
    BY PdfAssumption
  <2> DEFINE Read == -1..100
  <2>2. DOMAIN words = 1..Len(words) /\ Len(words) \in Nat /\ \A k \in DOMAIN words : words[k] \in Int /\ words[k] <= 100
    <3>1. Read \subseteq Int /\ (\A r \in Read : r <= 100) /\ words \in Seq(Read)
      BY <2>1
    <3> HIDE DEF Read
    <3>2. DOMAIN words = 1..Len(words) /\ Len(words) \in Nat
      BY <3>1
    <3>3. \A k \in DOMAIN words : words[k] \in Read
      BY <3>1
    <3> QED  BY <3>1, <3>2, <3>3
  <2>3. IsFiniteSet(DOMAIN words)
    BY <2>2, FS_Interval
  <2>4. IsFiniteSet(read)
    BY <2>3, FS_Subset, read \subseteq DOMAIN words
  <2>5. ASSUME NEW k \in read PROVE words[k] \in 0..100
    <3>1. k \in DOMAIN words /\ words[k] >= 0
      OBVIOUS
    <3>2. words[k] \in Int /\ words[k] <= 100
      BY <2>2, <3>1
    <3> QED  BY <3>1, <3>2
  <2> QED  BY <2>4, <2>5
<1>2. \A T \in SUBSET read : T # {} => pick[T] \in T
  OBVIOUS
<1>3. \A T \in SUBSET read : pick[T] = CHOOSE x \in T : TRUE
  OBVIOUS
<1>4. PICK g : IsFold(g, word, pick, read)
  <2> HIDE DEF word, pick, read
  <2> QED  BY <1>1, <1>2, FoldExists
<1>5. \A k \in read : word[k] = words[k] /\ word[k] \in 0..100
  BY <1>1
<1>6. g = [T \in SUBSET read |-> IF T = {} THEN 0 ELSE words[CHOOSE x \in T : TRUE] + g[T \ {CHOOSE x \in T : TRUE}]]
  BY <1>2, <1>3, <1>4, <1>5 DEF IsFold
<1>7. iter = [T \in SUBSET read |-> IF T = {} THEN 0 ELSE words[CHOOSE x \in T : TRUE] + iter[T \ {CHOOSE x \in T : TRUE}]]
  BY <1>6
<1>8. total = iter[read]
  BY DEF MapThenSumSet, MapThenFoldSet
<1> HIDE DEF iter
<1>9. Adds(iter, word, read)
  BY <1>2, <1>3, <1>5, <1>7 DEF Adds
<1>10. total \in Nat /\ total <= 100 * count
  <2>1. \A T \in SUBSET read : iter[T] \in Nat /\ iter[T] <= 100 * Cardinality(T)
    <3> HIDE DEF word, read
    <3> QED  BY <1>1, <1>5, <1>9, SumAtMost, 100 \in Nat
  <2> QED  BY <1>8, <2>1
<1>11. read # {} => count \in Nat \ {0}
  BY <1>1, FS_CardinalityType, FS_EmptySet
<1> DEFINE rest == total % count
           mean == total \div count
           twice == 2 * rest
<1>12. OcrConfidence(words) = IF read = {} THEN 0
         ELSE IF twice > count \/ (twice = count /\ mean % 2 = 1) THEN mean + 1 ELSE mean
  BY DEF OcrConfidence
<1> HIDE DEF read, count, total
<1>13. read # {} => mean \in 0..100 /\ rest \in Nat /\ (mean = 100 => rest = 0)
  BY <1>10, <1>11, MeanAtMost
<1> HIDE DEF mean, rest
<1> QED  BY <1>11, <1>12, <1>13

\* The lesser of two numbers.
LEMMA MinOfPair == ASSUME NEW a \in Nat, NEW b \in Nat PROVE Min({a, b}) \in Nat /\ Min({a, b}) <= a /\ Min({a, b}) <= b
<1> DEFINE S == {a, b}
<1>1. S \subseteq Nat /\ S # {} /\ a \in S /\ b \in S
  OBVIOUS
<1>2. Min(S) \in S /\ Min(S) <= a /\ Min(S) <= b
  <2> HIDE DEF S
  <2> QED  BY <1>1, MinOfNaturals
<1> QED  BY <1>1, <1>2

-----------------------------------------------------------------------------
Tables == Seq(Seq(BOOLEAN))
PageDicts ==
  [method : {"native_text", "ocr"}, confidence : 0..100, ocr : 0..100 \cup {NoOcr}, has_native_text : BOOLEAN,
   fallback_required : BOOLEAN, tables : Tables, table_confidence : {82, 95}]

\* What a page says of itself.
Coherent(page) ==
  /\ page.fallback_required <=> page.confidence < OCR_FALLBACK_THRESHOLD
  /\ page.has_native_text <=> page.method = "native_text" /\ ~page.fallback_required
  /\ page.method = "ocr" => page.ocr = page.confidence

Honest(k) == pages[k].confidence >= pdf[k].native /\ Coherent(pages[k])

\* A page after OCR: not worse.
Replaces(new, old) == new \in PageDicts /\ Coherent(new) /\ new.confidence >= old.confidence

\* OCR comes to a page once: until then its text is native.
Untouched(k) == extracting = "native" \/ (extracting = "ocr" /\ k >= at) => pages[k].method = "native_text"

\* A row of a page that has been read, as sure as its page and table are.
SureRow(row) ==
  /\ row.page \in DOMAIN pages
  /\ row.parser_confidence = Min({pages[row.page].confidence, pages[row.page].table_confidence})

PagesHonest ==
  /\ extracting = "idle" => pages = <<>>
  /\ extracting # "idle" => pdf \in Pdfs
  /\ pages \in Seq(PageDicts) /\ Len(pages) <= Len(pdf) /\ at \in Nat
  /\ \A k \in DOMAIN pages : Honest(k) /\ Untouched(k)
  /\ extracting \in {"idle", "native", "ocr"} => pdfRows = <<>>
  /\ \A r \in DOMAIN pdfRows : SureRow(pdfRows[r])
  /\ pdfRows \in Seq({pdfRows[r] : r \in DOMAIN pdfRows})

PageShape == [native : 0..55 \cup {85}, lined : BOOLEAN, tables : Tables]

\* A page of a document has the fields of one.
LEMMA PdfShape ==
  ASSUME NEW doc \in Pdfs
  PROVE  /\ Len(doc) \in Nat /\ DOMAIN doc = 1..Len(doc)
         /\ \A k \in DOMAIN doc : doc[k] \in PageShape /\ doc[k].native \in Nat
<1>1. doc \in Seq(PageShape)
  BY PdfAssumption DEF PageShape, Tables
<1>2. \A s \in PageShape : s.native \in Nat
  BY DEF PageShape
<1> HIDE DEF PageShape
<1> QED  BY <1>1, <1>2

LEMMA HonestAtFirst == PdfInit => PagesHonest
BY DEF PdfInit, PagesHonest

\* The steps that touch neither a page nor a row.
LEMMA StepsHonest ==
  ASSUME PagesHonest, OpenPdf \/ StartOcr \/ StartRows \/ FinishPdf \/ UNCHANGED pdfVars
  PROVE  PagesHonest'
<1>1. UNCHANGED <<pages, pdfRows>>
  BY DEF OpenPdf, StartOcr, StartRows, FinishPdf, pdfVars
<1>2. UNCHANGED pdf \/ (OpenPdf /\ pages = <<>> /\ pdfRows = <<>>)
  BY DEF OpenPdf, StartOcr, StartRows, FinishPdf, pdfVars, PagesHonest
<1>3. \A k \in DOMAIN pages' : Honest(k)'
  BY <1>1, <1>2 DEF Honest, PagesHonest
<1>4. \A k \in DOMAIN pages' : Untouched(k)'
  BY <1>1 DEF Untouched, PagesHonest, OpenPdf, StartOcr, StartRows, FinishPdf, pdfVars
<1>5. \A r \in DOMAIN pdfRows' : SureRow(pdfRows[r])'
  BY <1>1 DEF SureRow, PagesHonest
<1>6. at' \in Nat /\ (extracting' # "idle" => pdf' \in Pdfs) /\ (extracting' = "idle" => pages' = <<>>)
  BY <1>1, <1>2 DEF OpenPdf, StartOcr, StartRows, FinishPdf, pdfVars, PagesHonest
<1>7. pages' \in Seq(PageDicts) /\ Len(pages') <= Len(pdf')
  <2>1. CASE UNCHANGED pdf
    BY <1>1, <2>1 DEF PagesHonest
  <2>2. CASE OpenPdf /\ pages = <<>>
    <3>1. Len(pdf') \in Nat
      BY <2>2, PdfShape DEF OpenPdf
    <3> QED  BY <1>1, <2>2, <3>1
  <2> QED  BY <1>2, <2>1, <2>2
<1>8. extracting' \in {"idle", "native", "ocr"} => pdfRows' = <<>>
  BY <1>1 DEF OpenPdf, StartOcr, StartRows, FinishPdf, pdfVars, PagesHonest
<1> QED  BY <1>1, <1>3, <1>4, <1>5, <1>6, <1>7, <1>8 DEF PagesHonest

\* A page comes with the confidence of its own text and its own tables.
LEMMA ExtractHonest == PagesHonest /\ ExtractPage => PagesHonest'
<1> SUFFICES ASSUME PagesHonest, ExtractPage PROVE PagesHonest'
  OBVIOUS
<1> DEFINE n == Len(pages)
           source == pdf[n + 1]
<1>1. /\ extracting = "native" /\ n < Len(pdf) /\ UNCHANGED <<pdf, extracting, at, pdfRows>>
      /\ pages \in Seq(PageDicts) /\ n \in Nat /\ pdf \in Pdfs /\ pdfRows = <<>>
  BY DEF ExtractPage, PagesHonest
<1>2. PICK read \in 0..Len(source.tables) : pages' = Append(pages, PageOf(source, read))
  BY DEF ExtractPage
<1>3. source \in PageShape /\ source.native \in Nat
  <2>1. n + 1 \in DOMAIN pdf
    BY <1>1, PdfShape
  <2> QED  BY <1>1, <2>1, PdfShape
<1> DEFINE new == PageOf(source, read)
<1>4. /\ new.method = "native_text" /\ new.confidence = source.native
      /\ new.has_native_text <=> source.native >= OCR_FALLBACK_THRESHOLD
      /\ new.fallback_required <=> source.native < OCR_FALLBACK_THRESHOLD
  BY DEF PageOf
<1>5. new \in PageDicts
  <2>1. SubSeq(source.tables, 1, read) \in Tables
    BY <1>2, <1>3 DEF PageShape, Tables
  <2>2. source.native \in 0..100
    BY <1>3 DEF PageShape
  <2> QED  BY <1>3, <2>1, <2>2 DEF PageOf, PageDicts, OCR_FALLBACK_THRESHOLD
<1> HIDE DEF new, source
<1>7. /\ pages' \in Seq(PageDicts) /\ DOMAIN pages = 1..n /\ DOMAIN pages' = 1..(n + 1) /\ Len(pages') = n + 1
      /\ \A k \in 1..n : pages'[k] = pages[k]
      /\ pages'[n + 1] = new
  BY <1>1, <1>2, <1>5 DEF new
<1>8. ASSUME NEW k \in DOMAIN pages' PROVE Honest(k)' /\ Untouched(k)'
  <2>1. CASE k \in 1..n
    BY <1>1, <1>7, <2>1 DEF Honest, Untouched, PagesHonest
  <2>2. CASE k = n + 1
    <3>1. Honest(k)'
      <4>1. Coherent(new) /\ new.confidence >= source.native
        BY <1>3, <1>4 DEF Coherent, OCR_FALLBACK_THRESHOLD
      <4> QED  BY <1>1, <1>7, <2>2, <4>1 DEF Honest, source
    <3>2. Untouched(k)'
      BY <1>4, <1>7, <2>2 DEF Untouched
    <3> QED  BY <3>1, <3>2
  <2> QED  BY <1>7, <2>1, <2>2
<1>9. Len(pages') <= Len(pdf')
  BY <1>1, <1>7, PdfShape
<1> QED  BY <1>1, <1>7, <1>8, <1>9 DEF PagesHonest

\* OCR replaces the text of a page it is not sure of, and the page says so.
LEMMA OcrHonest == PagesHonest /\ OcrPage => PagesHonest'
<1> SUFFICES ASSUME PagesHonest, OcrPage PROVE PagesHonest'
  OBVIOUS
<1>1. /\ extracting = "ocr" /\ at \in DOMAIN pages /\ at' = at + 1
      /\ UNCHANGED <<pdf, extracting, pdfRows>>
      /\ pages \in Seq(PageDicts) /\ at \in Nat /\ pdf \in Pdfs /\ pdfRows = <<>>
      /\ Len(pages) <= Len(pdf)
  BY DEF OcrPage, PagesHonest
<1> DEFINE old == pages[at]
<1>2. /\ old \in PageDicts /\ old.method = "native_text" /\ Honest(at)
  BY <1>1 DEF PagesHonest, Untouched
<1>3. PICK new : Replaces(new, old) /\ pages' = [pages EXCEPT ![at] = new]
  <2>1. CASE UNCHANGED pages
    <3>1. Replaces(old, old)
      BY <1>2 DEF Honest, Replaces, PageDicts
    <3>2. pages' = [pages EXCEPT ![at] = old]
      BY <1>1, <2>1
    <3> QED  BY <3>1, <3>2
  <2>2. ASSUME NEW words \in OcrWords, pages' = [pages EXCEPT ![at] = Recognized(@, OcrConfidence(words))]
        PROVE  \E new : Replaces(new, old) /\ pages' = [pages EXCEPT ![at] = new]
    <3> DEFINE confidence == OcrConfidence(words)
               new == Recognized(old, confidence)
    <3>1. confidence \in 0..100
      BY ConfidenceBounded
    <3>2. pages' = [pages EXCEPT ![at] = new]
      BY <2>2
    <3> HIDE DEF confidence
    <3>3. Replaces(new, old)
      <4>1. CASE confidence <= old.confidence
        <5>1. new = [old EXCEPT !.ocr = confidence]
          BY <4>1 DEF Recognized
        <5> HIDE DEF new
        <5> QED  BY <1>2, <3>1, <5>1 DEF Honest, Coherent, PageDicts, Replaces
      <4>2. CASE ~ (confidence <= old.confidence)
        <5>1. new = [old EXCEPT !.ocr = confidence, !.method = "ocr", !.has_native_text = FALSE,
                    !.confidence = confidence, !.fallback_required = confidence < OCR_FALLBACK_THRESHOLD]
          BY <4>2 DEF Recognized
        <5> HIDE DEF new
        <5>2. /\ new.ocr = confidence /\ new.method = "ocr" /\ new.has_native_text = FALSE
              /\ new.confidence = confidence
              /\ new.fallback_required = (confidence < OCR_FALLBACK_THRESHOLD)
          BY <1>2, <5>1 DEF PageDicts
        <5>3. new \in PageDicts
          <6> DEFINE poor == confidence < OCR_FALLBACK_THRESHOLD
          <6>1. poor \in BOOLEAN
            OBVIOUS
          <6> HIDE DEF poor
          <6> QED  BY <1>2, <3>1, <5>1, <6>1 DEF PageDicts, poor
        <5> QED  BY <1>2, <3>1, <4>2, <5>2, <5>3 DEF Coherent, PageDicts, Replaces
      <4> QED  BY <4>1, <4>2
    <3> HIDE DEF new
    <3> QED  BY <3>2, <3>3
  <2>3. CASE pages' = [pages EXCEPT ![at].ocr = 0]
    <3> DEFINE new == [old EXCEPT !.ocr = 0]
    <3>1. pages' = [pages EXCEPT ![at] = new]
      BY <2>3
    <3>2. Replaces(new, old)
      BY <1>2 DEF Honest, Coherent, PageDicts, Replaces
    <3> HIDE DEF new
    <3> QED  BY <3>1, <3>2
  <2> QED  BY <2>1, <2>2, <2>3 DEF OcrPage
<1>4. /\ pages' \in Seq(PageDicts) /\ DOMAIN pages' = DOMAIN pages /\ Len(pages') = Len(pages)
      /\ pages'[at] = new /\ \A k \in DOMAIN pages \ {at} : pages'[k] = pages[k]
      /\ DOMAIN pages = 1..Len(pages) /\ Len(pages) \in Nat
  BY <1>1, <1>3 DEF Replaces
<1>5. ASSUME NEW k \in DOMAIN pages' PROVE Honest(k)' /\ Untouched(k)'
  <2>1. CASE k = at
    <3>1. pdf[k].native \in Nat
      <4>1. k \in DOMAIN pdf
        BY <1>1, <1>4, PdfShape
      <4> QED  BY <1>1, <4>1, PdfShape
    <3>2. Honest(k)'
      <4>1. old.confidence \in Nat /\ new.confidence \in Nat
        BY <1>2, <1>3 DEF Replaces, PageDicts
      <4> QED  BY <1>1, <1>2, <1>3, <1>4, <2>1, <3>1, <4>1 DEF Honest, Replaces
    <3> QED  BY <1>1, <2>1, <3>2 DEF Untouched
  <2>2. CASE k # at
    BY <1>1, <1>4, <2>2 DEF PagesHonest, Honest, Untouched
  <2> QED  BY <2>1, <2>2
<1> QED  BY <1>1, <1>4, <1>5 DEF PagesHonest

\* The rows of a page are as sure as its text and its tables.
LEMMA RowsSure ==
  ASSUME NEW page, page.tables \in Tables
  PROVE  \E S : /\ RowsOf(page) \in Seq(S)
                /\ \A e \in S : e.page = at /\ e.parser_confidence = Min({page.confidence, page.table_confidence})
<1> DEFINE tables == page.tables
           sure == Min({page.confidence, page.table_confidence})
           RowAt(t, r) == [page |-> at, table |-> t, row |-> r, source_row |-> SourceRow(r),
                         normalized |-> tables[t][r], parser_confidence |-> sure]
           S == {RowAt(t, r) : t \in Nat, r \in Nat}
           ss == [t \in DOMAIN tables |-> [r \in DOMAIN tables[t] |-> RowAt(t, r)]]
<1>1. RowsOf(page) = FlattenSeq(ss)
  BY DEF RowsOf
<1>2. \A e \in S : e.page = at /\ e.parser_confidence = sure
  OBVIOUS
<1>3. \A t, r \in Nat : RowAt(t, r) \in S
  OBVIOUS
<1> HIDE DEF S, RowAt
<1>4. /\ DOMAIN tables = 1..Len(tables) /\ Len(tables) \in Nat
      /\ \A t \in DOMAIN tables : tables[t] \in Seq(BOOLEAN)
  BY DEF Tables
<1>5. ASSUME NEW t \in DOMAIN tables PROVE [r \in DOMAIN tables[t] |-> RowAt(t, r)] \in Seq(S)
  <2>1. DOMAIN tables[t] = 1..Len(tables[t]) /\ Len(tables[t]) \in Nat
    BY <1>4
  <2>2. t \in Nat
    BY <1>4
  <2> QED  BY <1>3, <2>1, <2>2
<1>6. ss \in Seq(Seq(S))
  BY <1>4, <1>5
<1>7. FlattenSeq(ss) \in Seq(S)
  <2> HIDE DEF ss
  <2> QED  BY <1>6, FlattenTyped
<1> HIDE DEF ss, sure
<1> QED  BY <1>1, <1>2, <1>7 DEF sure

\* The rows of a page are no surer than it and its tables.
LEMMA ReadHonest == PagesHonest /\ ReadTables => PagesHonest'
<1> SUFFICES ASSUME PagesHonest, ReadTables PROVE PagesHonest'
  OBVIOUS
<1> DEFINE page == pages[at]
           Old == {pdfRows[r] : r \in DOMAIN pdfRows}
<1>1. /\ extracting = "rows" /\ at \in DOMAIN pages /\ at' = at + 1
      /\ pdfRows' = pdfRows \o RowsOf(page)
      /\ UNCHANGED <<pdf, extracting, pages>>
      /\ pages \in Seq(PageDicts) /\ at \in Nat /\ pdfRows \in Seq(Old)
  BY DEF ReadTables, PagesHonest
<1>2. page.tables \in Tables
  <2>1. page \in PageDicts
    BY <1>1
  <2> QED  BY <2>1 DEF PageDicts
<1>3. PICK S : /\ RowsOf(page) \in Seq(S)
               /\ \A e \in S : e.page = at /\ e.parser_confidence = Min({page.confidence, page.table_confidence})
  BY <1>2, RowsSure
<1>4. \A e \in S \cup Old : SureRow(e)'
  <2>1. \A e \in S : SureRow(e)
    BY <1>1, <1>3 DEF SureRow
  <2>2. \A e \in Old : SureRow(e)
    BY DEF PagesHonest
  <2> QED  BY <1>1, <2>1, <2>2 DEF SureRow
<1> HIDE DEF Old, page
<1>5. pdfRows' \in Seq(S \cup Old)
  <2>1. pdfRows \in Seq(S \cup Old) /\ RowsOf(page) \in Seq(S \cup Old)
    BY <1>1, <1>3
  <2> HIDE DEF RowsOf
  <2> QED  BY <1>1, <2>1
<1>6. pdfRows' \in Seq({pdfRows'[r] : r \in DOMAIN pdfRows'}) /\ \A r \in DOMAIN pdfRows' : pdfRows'[r] \in S \cup Old
  BY <1>5
<1>7. \A k \in DOMAIN pages' : Honest(k)' /\ Untouched(k)'
  BY <1>1 DEF PagesHonest, Honest, Untouched
<1>8. \A r \in DOMAIN pdfRows' : SureRow(pdfRows[r])'
  BY <1>4, <1>6 DEF SureRow
<1>9. at' \in Nat /\ extracting' = "rows"
  BY <1>1
<1>10. pages' \in Seq(PageDicts) /\ Len(pages') <= Len(pdf') /\ pdf' \in Pdfs
  BY <1>1 DEF PagesHonest
<1> QED  BY <1>6, <1>7, <1>8, <1>9, <1>10 DEF PagesHonest

LEMMA HonestInductive == PagesHonest /\ [PdfNext]_pdfVars => PagesHonest'
BY StepsHonest, ExtractHonest, OcrHonest, ReadHonest DEF PdfNext

\* The worker is in one of its stages.
PdfTyped == extracting \in {"idle", "native", "ocr", "rows", "done"}

LEMMA PdfTypedAtFirst == PdfInit => PdfTyped
BY DEF PdfInit, PdfTyped

LEMMA PdfTypedInductive == PdfTyped /\ [PdfNext]_pdfVars => PdfTyped'
BY DEF PdfTyped, PdfNext, OpenPdf, ExtractPage, StartOcr, OcrPage, StartRows, ReadTables, FinishPdf, pdfVars

LEMMA PdfTypedOK == PagesHonest /\ PdfTyped => PdfTypeOK
<1> SUFFICES ASSUME PagesHonest, PdfTyped PROVE PdfTypeOK
  OBVIOUS
<1>1. \A k \in DOMAIN pages : pages[k] \in PageDicts
  BY DEF PagesHonest
<1>2. \A k \in DOMAIN pages : /\ pages[k].method \in {"native_text", "ocr"} /\ pages[k].confidence \in 0..100
                               /\ pages[k].ocr \in 0..100 \cup {NoOcr}
  BY <1>1 DEF PageDicts
<1> QED  BY <1>2 DEF PagesHonest, PdfTyped, PdfTypeOK

\* Honest pages are consistent ones.
LEMMA HonestConsistent == PagesHonest => PagesConsistent
<1> SUFFICES ASSUME PagesHonest PROVE PagesConsistent
  OBVIOUS
<1>1. pages \in Seq(PageDicts)
  BY DEF PagesHonest
<1>2. \A k \in DOMAIN pages : Honest(k)
  BY DEF PagesHonest
<1>3. ASSUME NEW r \in DOMAIN pdfRows
      PROVE  LET page == pages[pdfRows[r].page]
             IN  /\ pdfRows[r].parser_confidence <= page.table_confidence
                 /\ page.fallback_required => pdfRows[r].parser_confidence < OCR_FALLBACK_THRESHOLD
  <2> DEFINE k == pdfRows[r].page
             sure == pdfRows[r].parser_confidence
  <2>1. k \in DOMAIN pages /\ sure = Min({pages[k].confidence, pages[k].table_confidence})
    BY DEF PagesHonest, SureRow
  <2>2. pages[k] \in PageDicts
    BY <1>1, <2>1
  <2>3. pages[k].confidence \in Nat /\ pages[k].table_confidence \in Nat
    BY <2>2 DEF PageDicts
  <2>4. sure \in Nat /\ sure <= pages[k].confidence /\ sure <= pages[k].table_confidence
    BY <2>1, <2>3, MinOfPair
  <2>5. pages[k].fallback_required <=> pages[k].confidence < OCR_FALLBACK_THRESHOLD
    BY <1>2, <2>1 DEF Honest, Coherent
  <2> HIDE DEF k, sure
  <2>6. /\ sure <= pages[k].table_confidence
        /\ pages[k].fallback_required => sure < OCR_FALLBACK_THRESHOLD
    BY <2>3, <2>4, <2>5 DEF OCR_FALLBACK_THRESHOLD
  <2> QED  BY <2>6 DEF k, sure
<1> QED  BY <1>2, <1>3 DEF PagesConsistent, Honest, Coherent

\* What a page says of itself stays true when OCR replaces its text, OCR never
\* makes it worse, and no row is surer than its page or its table.
THEOREM PagesStayConsistent == PdfSpec => []PagesConsistent
BY HonestAtFirst, HonestInductive, HonestConsistent, PTL DEF PdfSpec

-----------------------------------------------------------------------------
(* TabularRows: what becomes of every row. *)

\* What the reader has passed.
Past(s, k) == s < sheet \/ (s = sheet /\ reading = "rows" /\ k <= line)

OfLine(e, s, k) == e.sheet = s /\ e.line = k
Only(entries, e, s, k) == \A d \in DOMAIN entries : OfLine(entries[d], s, k) <=> d = e
None(entries, s, k) == \A d \in DOMAIN entries : ~ OfLine(entries[d], s, k)

\* What an entry of a row says.
NumberedFrom(e, h, k) == book.format = "xlsx" => e.number = k - h + 1
Worth(e, row) == OneSided(row) => e.amount = IF row.debit = NoCell THEN -row.credit ELSE row.debit

Recorded(s, h, k) ==
  /\ None(rowErrors, s, k)
  /\ \E e \in DOMAIN rowRecords :
       Only(rowRecords, e, s, k) /\ NumberedFrom(rowRecords[e], h, k) /\ Worth(rowRecords[e], book.sheets[s][k])

Refused(s, h, k) ==
  /\ None(rowRecords, s, k)
  /\ \E e \in DOMAIN rowErrors : Only(rowErrors, e, s, k) /\ NumberedFrom(rowErrors[e], h, k)

Dropped(s, k) == \E e \in DOMAIN rowErrors : rowErrors[e].kind = "rows" /\ rowErrors[e].sheet = s /\ rowErrors[e].line <= k

Accounted(s, h, k) == Dropped(s, k) \/ Recorded(s, h, k) \/ Refused(s, h, k)

InOrder ==
  /\ sheet \in Nat \ {0} /\ line \in Nat /\ number \in Nat
  /\ book.format \in {"csv", "xlsx"} /\ IsSequence(book.sheets)
  /\ \A s \in DOMAIN book.sheets : IsSequence(book.sheets[s])
  /\ reading = "idle" => sheet = 1
  /\ reading = "rows" =>
       /\ sheet \in DOMAIN book.sheets /\ line <= Len(Rows)
       /\ \E h \in Header(Rows) : h <= line /\ (book.format = "xlsx" => number = line - h + 2)
  /\ reading = "done" => sheet \notin DOMAIN book.sheets

AllPast(entries) ==
  /\ IsSequence(entries)
  /\ \A e \in DOMAIN entries : entries[e].sheet \in Nat /\ entries[e].line \in Nat /\ Past(entries[e].sheet, entries[e].line)

\* The data rows below the headers: of sheet s, whose header is at h, row k.
DataRow(s, h, k) ==
  /\ s \in DOMAIN book.sheets /\ h \in Header(book.sheets[s])
  /\ k \in (h + 1)..Len(book.sheets[s]) /\ IsData(book.sheets[s][k])

RowsTold ==
  /\ InOrder
  /\ AllPast(rowRecords) /\ AllPast(rowErrors)
  /\ \A e \in DOMAIN rowErrors : rowErrors[e].kind # "record"
  /\ \A s, h, k : DataRow(s, h, k) /\ Past(s, k) => Accounted(s, h, k)

-----------------------------------------------------------------------------
\* The domain of a sequence, as of IsSequence.
LEMMA Sequenced ==
  ASSUME NEW s, IsSequence(s)
  PROVE  DOMAIN s = 1..Len(s) /\ Len(s) \in Nat
BY DEF IsSequence

LEMMA OfSet ==
  ASSUME NEW S, NEW s \in Seq(S)
  PROVE  IsSequence(s) /\ \A k \in DOMAIN s : s[k] \in S
BY DEF IsSequence

LEMMA Appended ==
  ASSUME NEW s, IsSequence(s), NEW x
  PROVE  /\ IsSequence(Append(s, x))
         /\ DOMAIN Append(s, x) = 1..(Len(s) + 1) /\ Len(Append(s, x)) = Len(s) + 1
         /\ Append(s, x)[Len(s) + 1] = x
         /\ \A d \in DOMAIN s : d \in 1..Len(s) /\ Append(s, x)[d] = s[d]
<1> DEFINE S == {s[k] : k \in DOMAIN s}
           t == Append(s, x)
<1>1. s \in Seq(S \cup {x})
  BY DEF IsSequence
<1>2. t \in Seq(S \cup {x}) /\ DOMAIN t = 1..(Len(s) + 1) /\ Len(t) = Len(s) + 1
      /\ DOMAIN s = 1..Len(s) /\ Len(s) \in Nat
  BY <1>1
<1>3. t[Len(s) + 1] = x /\ \A d \in 1..Len(s) : t[d] = s[d]
  BY <1>1
<1>4. t \in Seq({t[k] : k \in DOMAIN t})
  <2> HIDE DEF S, t
  <2> QED  BY <1>2
<1> QED  BY <1>2, <1>3, <1>4 DEF IsSequence

\* One more entry, of another line, changes nothing of a line.
LEMMA AppendElsewhere ==
  ASSUME NEW entries, IsSequence(entries), NEW x, NEW s, NEW k, ~ OfLine(x, s, k)
  PROVE  /\ None(entries, s, k) => None(Append(entries, x), s, k)
         /\ \A e \in DOMAIN entries :
              /\ e \in DOMAIN Append(entries, x) /\ Append(entries, x)[e] = entries[e]
              /\ Only(entries, e, s, k) => Only(Append(entries, x), e, s, k)
<1> DEFINE t == Append(entries, x)
           n == Len(entries)
<1>1. DOMAIN entries = 1..n /\ n \in Nat
  BY Sequenced
<1>2. DOMAIN t = 1..(n + 1) /\ t[n + 1] = x /\ \A d \in DOMAIN entries : t[d] = entries[d]
  BY Appended
<1>3. \A d \in DOMAIN t : d \in DOMAIN entries \/ d = n + 1
  BY <1>1, <1>2
<1>4. n + 1 \notin DOMAIN entries /\ DOMAIN entries \subseteq DOMAIN t
  BY <1>1, <1>2
<1> HIDE DEF t, n
<1>5. None(entries, s, k) => None(t, s, k)
  BY <1>2, <1>3 DEF None
<1>6. \A e \in DOMAIN entries : Only(entries, e, s, k) => Only(t, e, s, k)
  BY <1>2, <1>3, <1>4 DEF Only
<1> QED  BY <1>2, <1>4, <1>5, <1>6 DEF t

\* And where a line has none, it is the only one of its line.
LEMMA AppendHere ==
  ASSUME NEW entries, IsSequence(entries), NEW x, NEW s, NEW k, OfLine(x, s, k), None(entries, s, k)
  PROVE  Only(Append(entries, x), Len(entries) + 1, s, k)
<1> DEFINE t == Append(entries, x)
           n == Len(entries)
<1>1. DOMAIN entries = 1..n /\ n \in Nat
  BY Sequenced
<1>2. DOMAIN t = 1..(n + 1) /\ t[n + 1] = x /\ \A d \in DOMAIN entries : t[d] = entries[d]
  BY Appended
<1>3. \A d \in DOMAIN t : (d \in DOMAIN entries /\ d # n + 1) \/ d = n + 1
  BY <1>1, <1>2
<1> HIDE DEF t, n
<1>4. Only(t, n + 1, s, k)
  BY <1>2, <1>3 DEF None, Only
<1> QED  BY <1>4 DEF t, n

\* A sheet has one header.
LEMMA HeaderUnique ==
  ASSUME NEW rows, IsSequence(rows), book.format \in {"csv", "xlsx"}
  PROVE  /\ Header(rows) \subseteq DOMAIN rows
         /\ \A g, h \in Header(rows) : g = h
<1>1. DOMAIN rows = 1..Len(rows) /\ Len(rows) \in Nat
  BY Sequenced
<1>2. Header(rows) \subseteq DOMAIN rows
  BY DEF Header
<1>3. ASSUME NEW g \in Header(rows), NEW h \in Header(rows) PROVE g = h
  <2>1. CASE book.format = "csv"
    BY <2>1 DEF Header
  <2>2. CASE book.format = "xlsx"
    <3>1. g \in Nat /\ h \in Nat /\ g >= 1 /\ h >= 1
      BY <1>1, <1>2
    <3>2. rows[g].shape = "cells" /\ rows[h].shape = "cells"
      BY <2>2 DEF Header
    <3>3. (\A j \in 1..(g - 1) : rows[j].shape # "cells") /\ (\A j \in 1..(h - 1) : rows[j].shape # "cells")
      BY <2>2 DEF Header
    <3>4. ~ (g < h) /\ ~ (h < g)
      BY <3>1, <3>2, <3>3
    <3> QED  BY <3>1, <3>4
  <2> QED  BY <2>1, <2>2
<1> QED  BY <1>2, <1>3

-----------------------------------------------------------------------------
\* A data row is a line of a sheet.
LEMMA RowPlace ==
  ASSUME InOrder, NEW s, NEW h, NEW k, DataRow(s, h, k)
  PROVE  s \in Nat /\ k \in Nat /\ h \in Nat /\ k > h /\ k <= Len(book.sheets[s]) /\ Len(book.sheets[s]) \in Nat
<1>1. s \in DOMAIN book.sheets /\ h \in Header(book.sheets[s]) /\ k \in (h + 1)..Len(book.sheets[s])
  BY DEF DataRow
<1>2. IsSequence(book.sheets) /\ IsSequence(book.sheets[s]) /\ book.format \in {"csv", "xlsx"}
  BY <1>1 DEF InOrder
<1>3. s \in Nat /\ h \in DOMAIN book.sheets[s]
  BY <1>1, <1>2, Sequenced, HeaderUnique
<1>4. h \in Nat /\ Len(book.sheets[s]) \in Nat
  BY <1>2, <1>3, Sequenced
<1> QED  BY <1>1, <1>3, <1>4

LEMMA ToldAtFirst == RowsInit => RowsTold
<1> SUFFICES ASSUME RowsInit PROVE RowsTold
  OBVIOUS
<1>1. book.sheets = <<>> /\ book.format = "csv" /\ rowRecords = <<>> /\ rowErrors = <<>>
  BY DEF RowsInit
<1>2. IsSequence(<<>>) /\ DOMAIN <<>> = {}
  BY DEF IsSequence
<1>3. InOrder
  BY <1>1, <1>2 DEF RowsInit, InOrder
<1> QED  BY <1>1, <1>2, <1>3 DEF RowsTold, AllPast, DataRow

\* A file that is opened has told nothing yet.
LEMMA OpenTold ==
  ASSUME RowsTold, OpenFile
  PROVE  RowsTold'
<1>1. sheet = 1 /\ reading' = "header" /\ UNCHANGED <<sheet, line, number, rowRecords>>
  BY DEF OpenFile, RowsTold, InOrder
<1>2. PICK b \in Books :
        LET limited == b.format = "xlsx" /\ Len(b.sheets) > MaxSheets IN
        /\ book' = IF limited THEN [b EXCEPT !.sheets = SubSeq(@, 1, MaxSheets)] ELSE b
        /\ rowErrors' = IF limited THEN <<[sheet |-> 0, number |-> 1, line |-> 0, kind |-> "sheets", amount |-> NoCell]>>
                        ELSE <<>>
  BY DEF OpenFile
<1> DEFINE limited == b.format = "xlsx" /\ Len(b.sheets) > MaxSheets
           error == [sheet |-> 0, number |-> 1, line |-> 0, kind |-> "sheets", amount |-> NoCell]
<1>3. /\ b = [format |-> b.format, sheets |-> b.sheets] /\ b.format \in {"csv", "xlsx"}
      /\ IsSequence(b.sheets) /\ \A s \in DOMAIN b.sheets : IsSequence(b.sheets[s])
      /\ MaxSheets \in Nat
  BY TabularAssumption
<1>4. book'.format = b.format /\ book'.sheets = IF limited THEN SubSeq(b.sheets, 1, MaxSheets) ELSE b.sheets
  BY <1>2, <1>3
<1>5. IsSequence(book'.sheets) /\ \A s \in DOMAIN book'.sheets : IsSequence(book'.sheets[s])
  <2>1. CASE limited
    <3> DEFINE S == {b.sheets[k] : k \in DOMAIN b.sheets}
               t == SubSeq(b.sheets, 1, MaxSheets)
    <3>1. b.sheets \in Seq(S) /\ Len(b.sheets) \in Nat /\ MaxSheets < Len(b.sheets) /\ DOMAIN b.sheets = 1..Len(b.sheets)
      BY <1>3, <2>1 DEF IsSequence
    <3>2. t \in Seq(S)
      <4> HIDE DEF S
      <4> QED  BY <1>3, <3>1
    <3>3. IsSequence(t) /\ \A s \in DOMAIN t : t[s] \in S
      <4> HIDE DEF S, t
      <4> QED  BY <3>2, OfSet
    <3>4. \A x \in S : IsSequence(x)
      BY <1>3
    <3>6. book'.sheets = t
      BY <1>4, <2>1
    <3> HIDE DEF S, t
    <3> QED  BY <3>3, <3>4, <3>6
  <2>2. CASE ~ limited
    BY <1>3, <1>4, <2>2
  <2> QED  BY <2>1, <2>2
<1>6. InOrder'
  BY <1>1, <1>3, <1>4, <1>5 DEF RowsTold, InOrder
<1>7. IsSequence(rowErrors') /\ \A e \in DOMAIN rowErrors' : rowErrors'[e] = error
  <2>1. rowErrors' = <<error>> \/ rowErrors' = <<>>
    BY <1>2
  <2> HIDE DEF error
  <2>2. <<error>> \in Seq({error}) /\ <<>> \in Seq({error})
    OBVIOUS
  <2>3. rowErrors' \in Seq({error})
    BY <2>1, <2>2, Zenon
  <2> QED  BY <2>3, OfSet
<1>8. AllPast(rowErrors)' /\ \A e \in DOMAIN rowErrors' : rowErrors'[e].kind # "record"
  BY <1>1, <1>7 DEF AllPast, Past
<1>9. AllPast(rowRecords)'
  BY <1>1 DEF RowsTold, AllPast, Past, OpenFile
<1>10. ASSUME NEW s, NEW h, NEW k, DataRow(s, h, k)' PROVE ~ Past(s, k)'
  <2>1. s \in DOMAIN book'.sheets
    BY <1>10 DEF DataRow
  <2>2. s \in Nat /\ s >= 1
    BY <1>5, <2>1, Sequenced
  <2> QED  BY <1>1, <2>2 DEF Past
<1> QED  BY <1>6, <1>8, <1>9, <1>10 DEF RowsTold

\* The steps that pass no data row.
LEMMA PassingTold ==
  ASSUME RowsTold, UNCHANGED <<book, rowRecords, rowErrors>>, InOrder',
         \A s, k \in Nat : Past(s, k) => Past(s, k)',
         \A s, h, k : DataRow(s, h, k) /\ Past(s, k)' => Past(s, k)
  PROVE  RowsTold'
<1>1. AllPast(rowRecords)' /\ AllPast(rowErrors)'
  BY DEF RowsTold, AllPast
<1>2. ASSUME NEW s, NEW h, NEW k, DataRow(s, h, k)', Past(s, k)' PROVE Accounted(s, h, k)'
  <2>1. DataRow(s, h, k)
    BY <1>2 DEF DataRow, Header, IsData
  <2>2. Accounted(s, h, k)
    BY <1>2, <2>1 DEF RowsTold
  <2> QED  BY <2>2 DEF Accounted, Dropped, Recorded, Refused, NumberedFrom, Worth, None, Only
<1> QED  BY <1>1, <1>2 DEF RowsTold

\* A header is past once it is read, and is no data.
LEMMA HeaderTold == ASSUME RowsTold, ReadHeader PROVE RowsTold'
<1>1. /\ reading = "header" /\ sheet \in DOMAIN book.sheets /\ number' = 2
      /\ UNCHANGED <<book, rowRecords, rowErrors>>
  BY DEF ReadHeader
<1>2. sheet \in Nat \ {0} /\ line \in Nat /\ book.format \in {"csv", "xlsx"} /\ IsSequence(Rows)
  BY <1>1 DEF RowsTold, InOrder, Rows
<1>3. CASE Header(Rows) = {} /\ reading' = "raised" /\ UNCHANGED <<sheet, line>>
  <2>1. InOrder'
    BY <1>1, <1>2, <1>3 DEF RowsTold, InOrder
  <2> QED  BY <1>1, <1>3, <2>1, PassingTold DEF Past
<1>4. CASE Header(Rows) = {} /\ sheet' = sheet + 1 /\ UNCHANGED <<reading, line>>
  <2>1. InOrder'
    BY <1>1, <1>2, <1>4 DEF RowsTold, InOrder
  <2>2. \A s, k \in Nat : Past(s, k) => Past(s, k)'
    BY <1>1, <1>2, <1>4 DEF Past
  <2>3. ASSUME NEW s, NEW h, NEW k, DataRow(s, h, k), Past(s, k)' PROVE Past(s, k)
    <3>1. s \in Nat
      BY <2>3, Sequenced DEF DataRow, RowsTold, InOrder
    <3>2. s # sheet
      BY <1>4, <2>3 DEF DataRow, Rows
    <3> QED  BY <1>1, <1>2, <1>4, <2>3, <3>1, <3>2 DEF Past
  <2> QED  BY <1>1, <2>1, <2>2, <2>3, PassingTold
<1>5. CASE line' \in Header(Rows) /\ reading' = "rows" /\ UNCHANGED sheet
  <2>1. line' \in DOMAIN Rows /\ DOMAIN Rows = 1..Len(Rows) /\ Len(Rows) \in Nat
    BY <1>2, <1>5, HeaderUnique, Sequenced
  <2>2. line' \in Nat /\ line' <= Len(Rows)
    BY <2>1
  <2>3. InOrder'
    <3>1. Header(Rows)' = Header(Rows) /\ Rows' = Rows
      BY <1>1, <1>5 DEF Header, Rows
    <3>2. \A top \in Nat : top <= top /\ 2 = top - top + 2
      OBVIOUS
    <3>3. \E h \in Header(Rows)' : h <= line' /\ (book'.format = "xlsx" => number' = line' - h + 2)
      BY <1>1, <1>5, <2>2, <3>1, <3>2
    <3> QED  BY <1>1, <1>2, <1>5, <2>2, <3>1, <3>3 DEF RowsTold, InOrder
  <2>4. \A s, k \in Nat : Past(s, k) => Past(s, k)'
    BY <1>1, <1>2, <1>5 DEF Past
  <2>5. ASSUME NEW s, NEW h, NEW k, DataRow(s, h, k), Past(s, k)' PROVE Past(s, k)
    <3>1. CASE s = sheet
      <4>1. h = line' /\ k \in (h + 1)..Len(Rows)
        BY <1>2, <1>5, <2>5, <3>1, HeaderUnique DEF DataRow, Rows
      <4>2. \A top \in Nat, n \in Nat : k \in (top + 1)..n => ~ (k <= top)
        OBVIOUS
      <4>3. ~ (k <= line')
        BY <2>1, <2>2, <4>1, <4>2
      <4> QED  BY <1>1, <1>2, <1>5, <2>5, <3>1, <4>3 DEF Past
    <3>2. CASE s # sheet
      BY <1>5, <2>5, <3>2 DEF Past
    <3> QED  BY <3>1, <3>2
  <2> QED  BY <1>1, <2>3, <2>4, <2>5, PassingTold
<1> QED  BY <1>3, <1>4, <1>5 DEF ReadHeader

\* Where the reader is within a sheet.
LEMMA WithinSheet ==
  ASSUME RowsTold, reading = "rows"
  PROVE  /\ sheet \in DOMAIN book.sheets /\ sheet \in Nat \ {0} /\ line \in Nat /\ number \in Nat
         /\ book.format \in {"csv", "xlsx"}
         /\ DOMAIN Rows = 1..Len(Rows) /\ Len(Rows) \in Nat /\ line <= Len(Rows)
         /\ \A h \in Header(Rows) : h \in Nat /\ h <= line
         /\ book.format = "xlsx" => \A h \in Header(Rows) : number = line - h + 2
<1>1. IsSequence(Rows) /\ sheet \in DOMAIN book.sheets /\ book.format \in {"csv", "xlsx"}
  BY DEF RowsTold, InOrder, Rows
<1>2. DOMAIN Rows = 1..Len(Rows) /\ Len(Rows) \in Nat
  BY <1>1, Sequenced
<1>3. PICK h \in Header(Rows) : h <= line /\ (book.format = "xlsx" => number = line - h + 2)
  BY DEF RowsTold, InOrder
<1>4. h \in Nat /\ \A g \in Header(Rows) : g = h
  BY <1>1, <1>2, HeaderUnique
<1> QED  BY <1>1, <1>2, <1>3, <1>4 DEF RowsTold, InOrder

\* A blank line is no data.
LEMMA SkipTold == ASSUME RowsTold, SkipLineEnd PROVE RowsTold'
<1>1. /\ reading = "rows" /\ line < Len(Rows) /\ book.format = "csv" /\ Row.shape = "line_end" /\ line' = line + 1
      /\ UNCHANGED <<book, reading, sheet, number, rowRecords, rowErrors>>
  BY DEF SkipLineEnd, MoreRows
<1>2. /\ sheet \in Nat \ {0} /\ line \in Nat /\ Len(Rows) \in Nat
      /\ \A h \in Header(Rows) : h \in Nat /\ h <= line
  BY <1>1, WithinSheet
<1>3. InOrder'
  <2>1. Header(Rows)' = Header(Rows) /\ Rows' = Rows
    BY <1>1 DEF Header, Rows
  <2>2. line + 1 \in Nat /\ line + 1 <= Len(Rows) /\ \A h \in Header(Rows) : h <= line + 1
    BY <1>1, <1>2
  <2>3. \E h \in Header(Rows) : TRUE
    BY <1>1 DEF RowsTold, InOrder
  <2> QED  BY <1>1, <2>1, <2>2, <2>3 DEF RowsTold, InOrder
<1>4. \A s, k \in Nat : Past(s, k) => Past(s, k)'
  BY <1>1, <1>2 DEF Past
<1>5. ASSUME NEW s, NEW h, NEW k, DataRow(s, h, k), Past(s, k)' PROVE Past(s, k)
  <2>1. CASE s = sheet
    <3>1. k # line + 1
      BY <1>1, <1>5, <2>1 DEF DataRow, IsData, Row, Rows
    <3>2. k \in Nat /\ k <= line + 1
      <4>1. h \in Nat /\ k \in (h + 1)..Len(Rows)
        BY <1>2, <1>5, <2>1 DEF DataRow, Rows
      <4>2. k <= line + 1
        BY <1>1, <1>2, <1>5, <2>1 DEF Past
      <4> QED  BY <4>1, <4>2
    <3>3. k <= line
      BY <1>2, <3>1, <3>2
    <3> QED  BY <1>1, <2>1, <3>3 DEF Past
  <2>2. CASE s # sheet
    BY <1>1, <1>5, <2>2 DEF Past
  <2> QED  BY <2>1, <2>2
<1> QED  BY <1>1, <1>3, <1>4, <1>5, PassingTold

\* A data row of the sheet the reader is in, told when its line is passed.
LEMMA LeftTold ==
  ASSUME RowsTold, reading = "rows", LeaveSheet, UNCHANGED <<book, number>>
  PROVE  /\ InOrder'
         /\ \A s, k \in Nat : s <= sheet => Past(s, k)'
         /\ \A s, k \in Nat : Past(s, k)' => s <= sheet
         /\ \A s, h, k : DataRow(s, h, k)' => DataRow(s, h, k) /\ s \in Nat /\ k \in Nat
<1>1. /\ sheet' = sheet + 1 /\ line' = 0 /\ reading' = "header" /\ UNCHANGED <<book, number>>
      /\ sheet \in Nat \ {0}
  BY WithinSheet DEF LeaveSheet
<1>2. InOrder'
  BY <1>1 DEF RowsTold, InOrder
<1>3. ASSUME NEW s \in Nat, NEW k \in Nat PROVE (s <= sheet => Past(s, k)') /\ (Past(s, k)' => s <= sheet)
  BY <1>1 DEF Past
<1>4. ASSUME NEW s, NEW h, NEW k, DataRow(s, h, k)' PROVE DataRow(s, h, k) /\ s \in Nat /\ k \in Nat
  <2>1. DataRow(s, h, k)
    BY <1>1, <1>4 DEF DataRow, Header, IsData
  <2> QED  BY <2>1, RowPlace DEF RowsTold
<1> QED  BY <1>2, <1>3, <1>4

\* The rows past when a sheet ends are those of it.
LEMMA EndSheetTold == ASSUME RowsTold, EndSheet PROVE RowsTold'
<1>1. reading = "rows" /\ LeaveSheet /\ line = Len(Rows) /\ UNCHANGED <<book, number, rowRecords, rowErrors>>
  BY DEF EndSheet
<1>2. sheet \in Nat \ {0} /\ line \in Nat
  BY <1>1, WithinSheet
<1>3. \A s, k \in Nat : Past(s, k) => Past(s, k)'
  <2>1. \A s, k \in Nat : Past(s, k) => s <= sheet
    BY <1>2 DEF Past
  <2> QED  BY <1>1, <2>1, LeftTold
<1>4. ASSUME NEW s, NEW h, NEW k, DataRow(s, h, k), Past(s, k)' PROVE Past(s, k)
  <2>1. s \in Nat /\ k \in Nat /\ k <= Len(book.sheets[s])
    BY <1>4, RowPlace DEF RowsTold
  <2>2. s <= sheet
    BY <1>1, <1>4, <2>1, LeftTold
  <2> QED  BY <1>1, <1>2, <2>1, <2>2 DEF Past, Rows
<1> QED  BY <1>1, <1>3, <1>4, LeftTold, PassingTold

\* One more entry, of the line the reader is at, leaves the accounts of the lines
\* it has passed as they are.
LEMMA AccountKept ==
  ASSUME AllPast(rowRecords), AllPast(rowErrors), UNCHANGED book,
         NEW x,
         \/ rowRecords' = Append(rowRecords, x) /\ UNCHANGED rowErrors
         \/ rowErrors' = Append(rowErrors, x) /\ UNCHANGED rowRecords,
         NEW s, NEW h, NEW k, ~ OfLine(x, s, k), Accounted(s, h, k)
  PROVE  Accounted(s, h, k)'
<1>1. IsSequence(rowRecords) /\ IsSequence(rowErrors)
  BY DEF AllPast
<1>2. CASE rowRecords' = Append(rowRecords, x) /\ UNCHANGED rowErrors
  <2>1. CASE Dropped(s, k)
    BY <1>2, <2>1 DEF Accounted, Dropped
  <2>2. CASE Recorded(s, h, k)
    <3>1. None(rowErrors, s, k)'
      BY <1>2, <2>2 DEF Recorded, None
    <3>2. PICK e \in DOMAIN rowRecords :
            Only(rowRecords, e, s, k) /\ NumberedFrom(rowRecords[e], h, k) /\ Worth(rowRecords[e], book.sheets[s][k])
      BY <2>2 DEF Recorded
    <3>3. e \in DOMAIN rowRecords' /\ rowRecords'[e] = rowRecords[e] /\ Only(rowRecords', e, s, k)
      BY <1>1, <1>2, <3>2, AppendElsewhere
    <3>4. NumberedFrom(rowRecords[e], h, k)' /\ Worth(rowRecords[e], book.sheets[s][k])'
      BY <3>2, <3>3 DEF NumberedFrom, Worth
    <3>5. Only(rowRecords, e, s, k)'
      BY <3>3 DEF Only
    <3> QED  BY <3>1, <3>3, <3>4, <3>5 DEF Accounted, Recorded
  <2>3. CASE Refused(s, h, k)
    <3>1. None(rowRecords, s, k)'
      <4>1. None(rowRecords', s, k)
        BY <1>1, <1>2, <2>3, AppendElsewhere DEF Refused
      <4> QED  BY <4>1 DEF None
    <3> QED  BY <1>2, <2>3, <3>1 DEF Accounted, Refused, Only, NumberedFrom
  <2> QED  BY <2>1, <2>2, <2>3 DEF Accounted
<1>3. CASE rowErrors' = Append(rowErrors, x) /\ UNCHANGED rowRecords
  <2>1. \A e \in DOMAIN rowErrors : e \in DOMAIN rowErrors' /\ rowErrors'[e] = rowErrors[e]
    BY <1>1, <1>3, AppendElsewhere
  <2>2. CASE Dropped(s, k)
    BY <2>1, <2>2 DEF Accounted, Dropped
  <2>3. CASE Recorded(s, h, k)
    <3>1. None(rowErrors, s, k)'
      <4>1. None(rowErrors', s, k)
        BY <1>1, <1>3, <2>3, AppendElsewhere DEF Recorded
      <4> QED  BY <4>1 DEF None
    <3> QED  BY <1>3, <2>3, <3>1 DEF Accounted, Recorded, Only, NumberedFrom, Worth
  <2>4. CASE Refused(s, h, k)
    <3>1. None(rowRecords, s, k)'
      BY <1>3, <2>4 DEF Refused, None
    <3>2. PICK e \in DOMAIN rowErrors : Only(rowErrors, e, s, k) /\ NumberedFrom(rowErrors[e], h, k)
      BY <2>4 DEF Refused
    <3>3. e \in DOMAIN rowErrors' /\ rowErrors'[e] = rowErrors[e] /\ Only(rowErrors', e, s, k)
      BY <1>1, <1>3, <3>2, AppendElsewhere
    <3>4. NumberedFrom(rowErrors[e], h, k)' /\ Only(rowErrors, e, s, k)'
      BY <3>2, <3>3 DEF NumberedFrom, Only
    <3> QED  BY <3>1, <3>3, <3>4 DEF Accounted, Refused
  <2> QED  BY <2>2, <2>3, <2>4 DEF Accounted
<1> QED  BY <1>2, <1>3

\* An entry of the line the reader is at keeps entries behind the reader.
LEMMA AllPastAppend ==
  ASSUME NEW entries, AllPast(entries), NEW x, x.sheet \in Nat, x.line \in Nat, Past(x.sheet, x.line)',
         \A s, k \in Nat : Past(s, k) => Past(s, k)'
  PROVE  LET t == Append(entries, x)
         IN  IsSequence(t) /\ \A e \in DOMAIN t :
               t[e].sheet \in Nat /\ t[e].line \in Nat /\ Past(t[e].sheet, t[e].line)'
<1> DEFINE t == Append(entries, x)
<1>1. IsSequence(entries)
  BY DEF AllPast
<1>2. /\ IsSequence(t) /\ DOMAIN t = 1..(Len(entries) + 1) /\ t[Len(entries) + 1] = x
      /\ \A d \in DOMAIN entries : t[d] = entries[d]
  BY <1>1, Appended
<1>3. \A e \in DOMAIN t : e \in DOMAIN entries \/ e = Len(entries) + 1
  BY <1>1, <1>2, Sequenced
<1> HIDE DEF t
<1>4. ASSUME NEW e \in DOMAIN t PROVE t[e].sheet \in Nat /\ t[e].line \in Nat /\ Past(t[e].sheet, t[e].line)'
  <2>1. CASE e \in DOMAIN entries
    <3>1. t[e] = entries[e] /\ entries[e].sheet \in Nat /\ entries[e].line \in Nat
          /\ Past(entries[e].sheet, entries[e].line)
      BY <1>2, <2>1 DEF AllPast
    <3> QED  BY <3>1
  <2>2. CASE e = Len(entries) + 1
    BY <1>2, <2>2
  <2> QED  BY <1>3, <2>1, <2>2
<1> QED  BY <1>2, <1>4 DEF t

\* The error of a limit accounts for the row it stops at, and all below.
LEMMA OverLimitTold == ASSUME RowsTold, OverLimit PROVE RowsTold'
<1> PICK x : x = Entry("rows", NoCell)
  OBVIOUS
<1>1. /\ reading = "rows" /\ LeaveSheet /\ line < Len(Rows) /\ rowErrors' = Append(rowErrors, x)
      /\ UNCHANGED <<book, number, rowRecords>>
  BY DEF OverLimit, Given, MoreRows
<1>2. sheet \in Nat \ {0} /\ line \in Nat
  BY <1>1, WithinSheet
<1>3. x.sheet = sheet /\ x.line = line + 1 /\ x.kind = "rows"
  BY DEF Entry
<1>4. /\ \A s, k \in Nat : s <= sheet => Past(s, k)'
      /\ \A s, k \in Nat : Past(s, k)' => s <= sheet
      /\ \A s, h, k : DataRow(s, h, k)' => DataRow(s, h, k) /\ s \in Nat /\ k \in Nat
  BY <1>1, LeftTold
<1>5. \A s, k \in Nat : Past(s, k) => Past(s, k)'
  <2>1. \A s, k \in Nat : Past(s, k) => s <= sheet
    BY <1>2 DEF Past
  <2> QED  BY <1>4, <2>1
<1>6. AllPast(rowRecords)'
  BY <1>1, <1>5 DEF RowsTold, AllPast
<1>7. AllPast(rowErrors)'
  <2>1. x.sheet \in Nat /\ x.line \in Nat /\ Past(x.sheet, x.line)'
    BY <1>2, <1>3, <1>4
  <2>2. AllPast(rowErrors)
    BY DEF RowsTold
  <2> QED  BY <1>1, <1>5, <2>1, <2>2, AllPastAppend DEF AllPast
<1>8. IsSequence(rowErrors)
  BY DEF RowsTold, AllPast
<1>9. Len(rowErrors) + 1 \in DOMAIN rowErrors' /\ rowErrors'[Len(rowErrors) + 1] = x
  BY <1>1, <1>8, Appended, Sequenced
<1>10. \A e \in DOMAIN rowErrors' : rowErrors'[e].kind # "record"
  <2>1. \A e \in DOMAIN rowErrors' : e \in DOMAIN rowErrors \/ e = Len(rowErrors) + 1
    BY <1>1, <1>8, Appended, Sequenced
  <2>2. \A e \in DOMAIN rowErrors : rowErrors'[e] = rowErrors[e]
    BY <1>1, <1>8, Appended
  <2>3. \A e \in DOMAIN rowErrors : rowErrors[e].kind # "record"
    BY DEF RowsTold
  <2> QED  BY <1>3, <1>9, <2>1, <2>2, <2>3
<1>11. ASSUME NEW s, NEW h, NEW k, DataRow(s, h, k)', Past(s, k)' PROVE Accounted(s, h, k)'
  <2>1. DataRow(s, h, k) /\ s \in Nat /\ k \in Nat /\ s <= sheet
    BY <1>4, <1>11
  <2>2. CASE Past(s, k)
    <3>1. Accounted(s, h, k) /\ AllPast(rowRecords) /\ AllPast(rowErrors)
      BY <2>1, <2>2 DEF RowsTold
    <3>2. ~ OfLine(x, s, k)
      BY <1>2, <1>3, <2>1, <2>2 DEF OfLine, Past
    <3> QED  BY <1>1, <3>1, <3>2, AccountKept
  <2>3. CASE ~ Past(s, k)
    <3>1. s = sheet /\ line + 1 <= k
      BY <1>1, <1>2, <2>1, <2>3 DEF Past
    <3>2. Dropped(s, k)'
      BY <1>3, <1>9, <3>1 DEF Dropped
    <3> QED  BY <3>2 DEF Accounted
  <2> QED  BY <2>2, <2>3
<1> QED  BY <1>1, <1>6, <1>7, <1>10, <1>11, LeftTold DEF RowsTold

-----------------------------------------------------------------------------
\* A row with one side is worth what that side is.
LEMMA OneSidedWorth ==
  ASSUME NEW row, OneSided(row), IsDecimal(AmountOf(row))
  PROVE  AmountOf(row) = IF row.debit = NoCell THEN -row.credit ELSE row.debit
<1> DEFINE side == IF ~Falsy(row.debit) THEN row.debit ELSE row.credit
<1>1. row.amount = NoCell /\ (row.debit = NoCell \/ row.credit = NoCell)
  BY DEF OneSided
<1>2. AmountOf(row) = IF row.debit = NoCell /\ IsDecimal(side) THEN -side ELSE side
  BY <1>1 DEF AmountOf
<1>3. CASE row.debit = NoCell
  <2>1. side = row.credit
    BY <1>3 DEF Falsy
  <2>2. IsDecimal(side)
    BY <1>2
  <2> QED  BY <1>2, <1>3, <2>1, <2>2
<1>4. CASE row.debit # NoCell
  <2>1. AmountOf(row) = side
    BY <1>2, <1>4
  <2>2. side # NoCell
    BY <2>1 DEF IsDecimal
  <2>3. side = row.debit
    BY <1>1, <1>4, <2>2
  <2> QED  BY <1>4, <2>1, <2>3
<1> QED  BY <1>3, <1>4

\* A row becomes one record, or one error.
LEMMA ReadRowTold == ASSUME RowsTold, ReadRow PROVE RowsTold'
<1>1. /\ reading = "rows" /\ line < Len(Rows) /\ (book.format = "csv" => Row.shape # "line_end")
      /\ line' = line + 1 /\ number' = number + 1 /\ UNCHANGED <<book, reading, sheet>>
  BY DEF ReadRow, Given, MoreRows
<1>2. /\ sheet \in Nat \ {0} /\ line \in Nat /\ Len(Rows) \in Nat /\ number \in Nat
      /\ \A h \in Header(Rows) : h \in Nat /\ h <= line
      /\ book.format = "xlsx" => \A h \in Header(Rows) : number = line - h + 2
      /\ book.format \in {"csv", "xlsx"}
  BY <1>1, WithinSheet
<1>3. InOrder'
  <2>1. Header(Rows)' = Header(Rows) /\ Rows' = Rows
    BY <1>1 DEF Header, Rows
  <2>2. line + 1 \in Nat /\ line + 1 <= Len(Rows) /\ number + 1 \in Nat
    BY <1>1, <1>2
  <2>3. PICK h \in Header(Rows) : TRUE
    BY <1>1 DEF RowsTold, InOrder
  <2>4. h <= line + 1 /\ (book.format = "xlsx" => number + 1 = (line + 1) - h + 2)
    BY <1>2
  <2>5. \E g \in Header(Rows)' : g <= line' /\ (book'.format = "xlsx" => number' = line' - g + 2)
    BY <1>1, <2>1, <2>4
  <2> QED  BY <1>1, <2>1, <2>2, <2>5 DEF RowsTold, InOrder
<1>4. \A s, k \in Nat : Past(s, k) => Past(s, k)'
  BY <1>1, <1>2 DEF Past
<1>5. ASSUME NEW s, NEW h, NEW k, DataRow(s, h, k)
      PROVE  s \in Nat /\ k \in Nat /\ (Past(s, k)' => Past(s, k) \/ (s = sheet /\ k = line + 1))
  <2>1. s \in Nat /\ k \in Nat
    BY <1>5, RowPlace DEF RowsTold
  <2> QED  BY <1>1, <1>2, <2>1 DEF Past
<1>6. CASE book.format = "xlsx" /\ Row.shape # "cells" /\ UNCHANGED <<rowRecords, rowErrors>>
  <2>1. ASSUME NEW s, NEW h, NEW k, DataRow(s, h, k), Past(s, k)' PROVE Past(s, k)
    <3>1. ~ (s = sheet /\ k = line + 1)
      BY <1>6, <2>1 DEF DataRow, IsData, Row, Rows
    <3> QED  BY <1>5, <2>1, <3>1
  <2> QED  BY <1>1, <1>3, <1>4, <1>6, <2>1, PassingTold
<1>7. \A s, h, k : DataRow(s, h, k)' => DataRow(s, h, k)
  BY <1>1 DEF DataRow, Header, IsData
<1>8. IsSequence(rowRecords) /\ IsSequence(rowErrors) /\ AllPast(rowRecords) /\ AllPast(rowErrors)
  BY DEF RowsTold, AllPast
\* The entry is of the line the reader is at, which none is of yet.
<1>9. ASSUME NEW x, x.sheet = sheet, x.line = line + 1,
             \/ rowRecords' = Append(rowRecords, x) /\ UNCHANGED rowErrors
             \/ rowErrors' = Append(rowErrors, x) /\ UNCHANGED rowRecords,
             \A e \in DOMAIN rowErrors' : rowErrors'[e].kind # "record",
             \A s, h, k : s = sheet /\ k = line + 1 /\ DataRow(s, h, k) => Accounted(s, h, k)'
      PROVE  RowsTold'
  <2>1. x.sheet \in Nat /\ x.line \in Nat /\ Past(x.sheet, x.line)'
    BY <1>1, <1>2, <1>9 DEF Past
  <2>2. AllPast(rowRecords)' /\ AllPast(rowErrors)'
    <3>1. CASE rowRecords' = Append(rowRecords, x) /\ UNCHANGED rowErrors
      BY <1>4, <1>8, <2>1, <3>1, AllPastAppend DEF AllPast
    <3>2. CASE rowErrors' = Append(rowErrors, x) /\ UNCHANGED rowRecords
      BY <1>4, <1>8, <2>1, <3>2, AllPastAppend DEF AllPast
    <3> QED  BY <1>9, <3>1, <3>2
  <2>3. ASSUME NEW s, NEW h, NEW k, DataRow(s, h, k)', Past(s, k)' PROVE Accounted(s, h, k)'
    <3>1. DataRow(s, h, k) /\ s \in Nat /\ k \in Nat
      BY <1>5, <1>7, <2>3
    <3>2. CASE s = sheet /\ k = line + 1
      BY <1>9, <3>1, <3>2
    <3>3. CASE ~ (s = sheet /\ k = line + 1)
      <4>1. Past(s, k) /\ ~ OfLine(x, s, k)
        BY <1>5, <1>9, <2>3, <3>1, <3>3 DEF OfLine
      <4>2. Accounted(s, h, k)
        BY <3>1, <4>1 DEF RowsTold
      <4> QED  BY <1>1, <1>8, <1>9, <4>1, <4>2, AccountKept
    <3> QED  BY <3>2, <3>3
  <2> QED  BY <1>3, <1>9, <2>2, <2>3 DEF RowsTold
<1>10. None(rowRecords, sheet, line + 1) /\ None(rowErrors, sheet, line + 1)
  <2>1. ASSUME NEW e, e.sheet \in Nat, e.line \in Nat, Past(e.sheet, e.line) PROVE ~ OfLine(e, sheet, line + 1)
    BY <1>2, <2>1 DEF Past, OfLine
  <2> QED  BY <1>8, <2>1 DEF None, AllPast
<1>11. ASSUME NEW h, DataRow(sheet, h, line + 1), book.format = "xlsx" PROVE number = (line + 1) - h + 1
  <2>1. h \in Header(Rows)
    BY <1>11 DEF DataRow, Rows
  <2> QED  BY <1>2, <1>11, <2>1
<1>12. ASSUME AcceptRow PROVE RowsTold'
  <2> DEFINE x == Entry("record", AmountOf(Row))
             n == Len(rowRecords) + 1
  <2>1. rowRecords' = Append(rowRecords, x) /\ UNCHANGED rowErrors /\ IsDecimal(AmountOf(Row))
    BY <1>12 DEF AcceptRow, Normalized
  <2>2. x.sheet = sheet /\ x.line = line + 1 /\ x.number = number /\ x.amount = AmountOf(Row)
    BY DEF Entry
  <2>3. Worth(x, Row)
    BY <2>1, <2>2, OneSidedWorth DEF Worth
  <2> HIDE DEF x
  <2>4. \A e \in DOMAIN rowErrors' : rowErrors'[e].kind # "record"
    BY <2>1 DEF RowsTold
  <2>5. OfLine(x, sheet, line + 1)
    BY <2>2 DEF OfLine
  <2>6. n \in DOMAIN rowRecords' /\ rowRecords'[n] = x /\ Only(rowRecords', n, sheet, line + 1)
    BY <1>8, <1>10, <2>1, <2>5, Appended, Sequenced, AppendHere
  <2>7. ASSUME NEW s, NEW h, NEW k, s = sheet, k = line + 1, DataRow(s, h, k) PROVE Accounted(s, h, k)'
    <3>1. NumberedFrom(x, h, k) /\ Row = book.sheets[s][k]
      BY <1>11, <2>2, <2>7 DEF NumberedFrom, Row, Rows
    <3> HIDE DEF n
    <3>2. None(rowErrors', s, k)
      BY <1>10, <2>1, <2>7
    <3>3. Only(rowRecords', n, s, k) /\ NumberedFrom(rowRecords'[n], h, k) /\ Worth(rowRecords'[n], book.sheets[s][k])
      BY <2>3, <2>6, <2>7, <3>1
    <3>4. Recorded(s, h, k)'
      BY <1>1, <2>6, <3>2, <3>3 DEF Recorded, Only, None, NumberedFrom, Worth
    <3> QED  BY <3>4 DEF Accounted
  <2> QED  BY <1>9, <2>1, <2>2, <2>4, <2>7
<1>13. ASSUME RefuseRow PROVE RowsTold'
  <2> DEFINE x == Entry("row", NoCell)
             n == Len(rowErrors) + 1
  <2>1. rowErrors' = Append(rowErrors, x) /\ UNCHANGED rowRecords
    BY <1>13 DEF RefuseRow
  <2>2. x.sheet = sheet /\ x.line = line + 1 /\ x.number = number /\ x.kind # "record"
    BY DEF Entry
  <2> HIDE DEF x
  <2>3. OfLine(x, sheet, line + 1)
    BY <2>2 DEF OfLine
  <2>4. n \in DOMAIN rowErrors' /\ rowErrors'[n] = x /\ Only(rowErrors', n, sheet, line + 1)
    BY <1>8, <1>10, <2>1, <2>3, Appended, Sequenced, AppendHere
  <2>5. \A e \in DOMAIN rowErrors' : rowErrors'[e].kind # "record"
    <3>1. \A e \in DOMAIN rowErrors' : e \in DOMAIN rowErrors \/ e = n
      BY <1>8, <2>1, Appended, Sequenced
    <3>2. \A e \in DOMAIN rowErrors : rowErrors'[e] = rowErrors[e] /\ rowErrors[e].kind # "record"
      BY <1>8, <2>1, Appended DEF RowsTold
    <3> QED  BY <2>2, <2>4, <3>1, <3>2
  <2>6. ASSUME NEW s, NEW h, NEW k, s = sheet, k = line + 1, DataRow(s, h, k) PROVE Accounted(s, h, k)'
    <3>1. NumberedFrom(x, h, k)
      BY <1>11, <2>2, <2>6 DEF NumberedFrom
    <3> HIDE DEF n
    <3>2. Refused(s, h, k)'
      BY <1>1, <1>10, <2>1, <2>4, <2>6, <3>1 DEF Refused, Only, None, NumberedFrom
    <3> QED  BY <3>2 DEF Accounted
  <2> QED  BY <1>9, <2>1, <2>2, <2>5, <2>6
<1> QED  BY <1>6, <1>12, <1>13 DEF ReadRow

LEMMA ToldInductive == RowsTold /\ [RowsNext]_rowVars => RowsTold'
<1> SUFFICES ASSUME RowsTold, [RowsNext]_rowVars PROVE RowsTold'
  OBVIOUS
<1>1. ASSUME EndFile PROVE RowsTold'
  <2>1. InOrder'
    BY <1>1 DEF EndFile, RowsTold, InOrder
  <2> QED  BY <1>1, <2>1, PassingTold DEF EndFile, Past
<1>2. ASSUME UNCHANGED rowVars PROVE RowsTold'
  <2>1. InOrder'
    BY <1>2 DEF rowVars, RowsTold, InOrder, Header, Rows
  <2> QED  BY <1>2, <2>1, PassingTold DEF rowVars, Past
<1> QED  BY <1>1, <1>2, OpenTold, HeaderTold, SkipTold, OverLimitTold, ReadRowTold, EndSheetTold DEF RowsNext

\* What is the only entry of its line in one of the two lists, and of no line of
\* the other, is the only one in both.
LEMMA ToldAccounted == RowsTold => RowsAccounted
<1> SUFFICES ASSUME RowsTold, reading = "done",
                    NEW s \in DOMAIN book.sheets, NEW h \in Header(book.sheets[s]),
                    NEW k \in (h + 1)..Len(book.sheets[s]), IsData(book.sheets[s][k]), ~ Dropped(s, k)
             PROVE  \E e \in DOMAIN Entries :
                      /\ About(s, k) = {e}
                      /\ book.format = "xlsx" => Entries[e].number = k - h + 1
                      /\ Entries[e].kind = "record" /\ OneSided(book.sheets[s][k]) =>
                           Entries[e].amount = IF book.sheets[s][k].debit = NoCell THEN -book.sheets[s][k].credit
                                               ELSE book.sheets[s][k].debit
  BY DEF RowsAccounted, Dropped
<1> DEFINE row == book.sheets[s][k]
           m == Len(rowRecords)
           n == Len(rowErrors)
<1>1. DataRow(s, h, k)
  BY DEF DataRow
<1>2. Past(s, k)
  <2>1. sheet \notin DOMAIN book.sheets /\ DOMAIN book.sheets = 1..Len(book.sheets) /\ Len(book.sheets) \in Nat
        /\ sheet \in Nat \ {0}
    BY Sequenced DEF RowsTold, InOrder
  <2> QED  BY <2>1 DEF Past
<1>3. Recorded(s, h, k) \/ Refused(s, h, k)
  BY <1>1, <1>2 DEF RowsTold, Accounted
<1>4. IsSequence(rowRecords) /\ IsSequence(rowErrors)
  BY DEF RowsTold, AllPast
<1>5. m \in Nat /\ n \in Nat /\ DOMAIN rowRecords = 1..m /\ DOMAIN rowErrors = 1..n
  BY <1>4, Sequenced
<1>6. /\ DOMAIN Entries = 1..(m + n)
      /\ \A d \in 1..m : Entries[d] = rowRecords[d]
      /\ \A d \in 1..n : Entries[m + d] = rowErrors[d]
  <2> DEFINE A == {rowRecords[d] : d \in DOMAIN rowRecords}
             B == {rowErrors[d] : d \in DOMAIN rowErrors}
  <2>1. rowRecords \in Seq(A \cup B) /\ rowErrors \in Seq(A \cup B)
    BY <1>4 DEF IsSequence
  <2> HIDE DEF A, B
  <2> QED  BY <2>1 DEF Entries
<1> HIDE DEF m, n, row
<1>7. CASE Recorded(s, h, k)
  <2>1. PICK e \in DOMAIN rowRecords :
          Only(rowRecords, e, s, k) /\ NumberedFrom(rowRecords[e], h, k) /\ Worth(rowRecords[e], row)
    BY <1>7 DEF Recorded, row
  <2>2. e \in 1..m /\ e \in 1..(m + n) /\ Entries[e] = rowRecords[e]
    BY <1>5, <1>6, <2>1
  <2>3. \A d \in 1..(m + n) : OfLine(Entries[d], s, k) <=> d = e
    <3> SUFFICES ASSUME NEW d \in 1..(m + n) PROVE OfLine(Entries[d], s, k) <=> d = e
      OBVIOUS
    <3>1. CASE d \in 1..m
      BY <1>5, <1>6, <2>1, <3>1 DEF Only
    <3>2. CASE d \notin 1..m
      <4>1. d - m \in 1..n /\ m + (d - m) = d
        BY <1>5, <3>2
      <4>2. Entries[d] = rowErrors[d - m]
        BY <1>6, <4>1
      <4>3. ~ OfLine(rowErrors[d - m], s, k)
        BY <1>5, <1>7, <4>1 DEF Recorded, None
      <4> QED  BY <2>2, <3>2, <4>2, <4>3
    <3> QED  BY <3>1, <3>2
  <2>4. About(s, k) = {e}
    BY <1>6, <2>2, <2>3 DEF About, OfLine
  <2> QED  BY <1>6, <2>1, <2>2, <2>4 DEF NumberedFrom, Worth, row
<1>8. CASE Refused(s, h, k)
  <2>1. PICK e \in DOMAIN rowErrors : Only(rowErrors, e, s, k) /\ NumberedFrom(rowErrors[e], h, k)
    BY <1>8 DEF Refused
  <2> DEFINE f == m + e
  <2>2. e \in 1..n /\ f \in 1..(m + n) /\ f \notin 1..m /\ Entries[f] = rowErrors[e]
    BY <1>5, <1>6, <2>1
  <2>3. \A d \in 1..(m + n) : OfLine(Entries[d], s, k) <=> d = f
    <3> SUFFICES ASSUME NEW d \in 1..(m + n) PROVE OfLine(Entries[d], s, k) <=> d = f
      OBVIOUS
    <3>1. CASE d \in 1..m
      <4>1. ~ OfLine(rowRecords[d], s, k)
        BY <1>5, <1>8, <3>1 DEF Refused, None
      <4> QED  BY <1>6, <2>2, <3>1, <4>1
    <3>2. CASE d \notin 1..m
      <4>1. d - m \in 1..n /\ m + (d - m) = d
        BY <1>5, <3>2
      <4>2. Entries[d] = rowErrors[d - m]
        BY <1>6, <4>1
      <4>3. OfLine(rowErrors[d - m], s, k) <=> d - m = e
        BY <1>5, <2>1, <4>1 DEF Only
      <4>4. d - m = e <=> d = f
        BY <1>5, <2>2, <4>1
      <4> QED  BY <4>2, <4>3, <4>4
    <3> QED  BY <3>1, <3>2
  <2>4. rowErrors[e].kind # "record"
    BY <2>1 DEF RowsTold
  <2> HIDE DEF f
  <2>5. About(s, k) = {f}
    BY <1>6, <2>2, <2>3 DEF About, OfLine
  <2> QED  BY <1>6, <2>1, <2>2, <2>4, <2>5 DEF NumberedFrom
<1> QED  BY <1>3, <1>7, <1>8

\* When the parser returns, every row below a header is one record or one error,
\* or lies past a limit that has left an error; the rows of a worksheet are
\* numbered from its header, and a row with one side is worth debit minus credit.
THEOREM EveryRowAccounted == RowsSpec => []RowsAccounted
BY ToldAtFirst, ToldInductive, ToldAccounted, PTL DEF RowsSpec

-----------------------------------------------------------------------------
\* Row numbers stop one past the limit, and the reader one sheet past the last.
RowsTyped ==
  /\ reading \in {"idle", "header", "rows", "done", "raised"}
  /\ sheet <= Len(book.sheets) + 1 /\ number \in 2..(MaxRows + 2)
  /\ \A k \in DOMAIN rowRecords : rowRecords[k].kind = "record"

LEMMA RowsTypedAtFirst == RowsInit => RowsTyped
BY TabularAssumption DEF RowsInit, RowsTyped

\* A file has sheets, and one that is in it is not past them.
LEMMA SheetNumber == ASSUME RowsTold PROVE Len(book.sheets) \in Nat /\ DOMAIN book.sheets = 1..Len(book.sheets)
BY Sequenced DEF RowsTold, InOrder

LEMMA RowsTypedInductive == RowsTold /\ RowsTyped /\ [RowsNext]_rowVars => RowsTyped'
<1> SUFFICES ASSUME RowsTold, RowsTyped, [RowsNext]_rowVars PROVE RowsTyped'
  OBVIOUS
<1>1. /\ Len(book.sheets) \in Nat /\ DOMAIN book.sheets = 1..Len(book.sheets) /\ sheet \in Nat /\ MaxRows \in Nat
      /\ number \in Nat
  BY SheetNumber, TabularAssumption DEF RowsTold, InOrder
<1>2. RowsTold'
  BY ToldInductive
<1>3. CASE OpenFile
  <2>1. UNCHANGED <<sheet, number, rowRecords>> /\ reading' = "header" /\ sheet = 1
    BY <1>3 DEF OpenFile, RowsTold, InOrder
  <2>2. Len(book'.sheets) \in Nat
    BY <1>2, SheetNumber DEF RowsTold, InOrder, IsSequence
  <2> QED  BY <2>1, <2>2 DEF RowsTyped
<1>4. CASE ReadHeader
  BY <1>1, <1>4 DEF ReadHeader, RowsTyped
<1>5. CASE SkipLineEnd \/ EndFile \/ UNCHANGED rowVars
  BY <1>5 DEF SkipLineEnd, EndFile, MoreRows, rowVars, RowsTyped
<1>6. CASE OverLimit \/ EndSheet
  <2>1. reading = "rows" /\ sheet' = sheet + 1 /\ reading' = "header" /\ UNCHANGED <<book, number, rowRecords>>
    BY <1>6 DEF OverLimit, EndSheet, LeaveSheet, Given, MoreRows
  <2>2. sheet \in DOMAIN book.sheets
    BY <2>1 DEF RowsTold, InOrder
  <2> QED  BY <1>1, <2>1, <2>2 DEF RowsTyped
<1>7. CASE ReadRow
  <2>1. number - 1 <= MaxRows /\ number' = number + 1 /\ UNCHANGED <<book, reading, sheet>>
    BY <1>7 DEF ReadRow
  <2>2. number' \in 2..(MaxRows + 2)
    BY <1>1, <2>1 DEF RowsTyped
  <2>3. ASSUME NEW k \in DOMAIN rowRecords' PROVE rowRecords'[k].kind = "record"
    <3>1. CASE UNCHANGED rowRecords
      BY <2>3, <3>1 DEF RowsTyped
    <3>2. CASE AcceptRow
      <4> DEFINE entry == Entry("record", AmountOf(Row))
      <4>1. rowRecords' = Append(rowRecords, entry) /\ entry.kind = "record"
        BY <3>2 DEF AcceptRow, Entry
      <4> HIDE DEF entry
      <4>2. IsSequence(rowRecords)
        BY DEF RowsTold, AllPast
      <4>3. (k \in DOMAIN rowRecords /\ rowRecords'[k] = rowRecords[k]) \/ rowRecords'[k] = entry
        BY <2>3, <4>1, <4>2, Appended
      <4> QED  BY <4>1, <4>3 DEF RowsTyped
    <3> QED  BY <1>7, <3>1, <3>2 DEF ReadRow, RefuseRow
  <2> QED  BY <2>1, <2>2, <2>3 DEF RowsTyped
<1> QED  BY <1>3, <1>4, <1>5, <1>6, <1>7 DEF RowsNext

LEMMA RowsTypedOK == RowsTold /\ RowsTyped => RowsTypeOK
BY SheetNumber DEF RowsTold, InOrder, RowsTyped, RowsTypeOK
================================================================================
