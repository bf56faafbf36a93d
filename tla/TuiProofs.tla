----------------------------- MODULE TuiProofs ------------------------------
(***************************************************************************)
(* The explorer's three modules proved for any file and tree and any       *)
(* number of keys.  The panes: any sources, sizes and window, any resizes, *)
(* and answers in any order.  The search: any objects and queries, and any *)
(* number of tasks still running.  The tree, selection and inspector: any  *)
(* batches, failures and retries.                                          *)
(***************************************************************************)
EXTENDS TuiPanes, SearchState, TreeState, WellFoundedInduction, SequenceTheorems, TLAPS

-----------------------------------------------------------------------------
(* The panes.                                                               *)

\* What Min and Max give for two integers.
LEMMA MinOfTwo ==
    ASSUME NEW a \in Int, NEW b \in Int
    PROVE  Min({a, b}) = IF a <= b THEN a ELSE b
<1> DEFINE m == IF a <= b THEN a ELSE b
<1>1. m \in {a, b} /\ \A y \in {a, b} : m <= y
  OBVIOUS
<1>2. \A x \in {a, b} : (\A y \in {a, b} : x <= y) => x = m
  OBVIOUS
<1>. QED
  BY <1>1, <1>2 DEF Min

LEMMA MaxOfTwo ==
    ASSUME NEW a \in Int, NEW b \in Int
    PROVE  Max({a, b}) = IF a >= b THEN a ELSE b
<1> DEFINE m == IF a >= b THEN a ELSE b
<1>1. m \in {a, b} /\ \A y \in {a, b} : m >= y
  OBVIOUS
<1>2. \A x \in {a, b} : (\A y \in {a, b} : x >= y) => x = m
  OBVIOUS
<1>. QED
  BY <1>1, <1>2 DEF Max

\* A window starts at the line it is looked up for, or before it.
LEMMA WindowStartsBefore ==
    ASSUME NEW line \in Nat
    PROVE  WindowOf(line) \in Nat /\ WindowOf(line) <= line
<1> DEFINE q == line \div Window
<1>1. q \in Nat /\ Window * q <= line
  BY TuiPanesAssumption
<1>2. WindowOf(line) = Window * q
  BY <1>1, TuiPanesAssumption DEF WindowOf
<1>. HIDE DEF q
<1>3. Window * q \in Nat
  BY <1>1, TuiPanesAssumption
<1>. QED
  BY <1>1, <1>2, <1>3

\* Where a scroll ends, and what it then wants to fetch.
LEMMA ScrollStaysInside ==
    ASSUME TypeOK, NEW line \in Nat
    PROVE  \E end \in Nat : /\ ScrolledTo(hex, line) = [hex EXCEPT !.scroll = end]
                            /\ end <= Max({0, hex.total - 1})
<1> DEFINE max == Max({0, hex.total - 1})
<1>1. max \in Nat
  BY MaxOfTwo DEF TypeOK, Hexes
<1>. HIDE DEF max
<1>2. Min({line, max}) \in Nat /\ Min({line, max}) <= max
  BY <1>1, MinOfTwo
<1>3. ScrolledTo(hex, line) = [hex EXCEPT !.scroll = Min({line, max})]
  BY DEF ScrolledTo, max
<1>. QED
  BY <1>2, <1>3 DEF max

LEMMA MissingIsInside ==
    ASSUME NEW h \in Hexes, NEW rows \in Nat, h.count <= h.total,
           h.scroll <= Max({0, h.total - 1}), h.from + h.count <= h.total \/ h.count = 0,
           Missing(h, rows) # NoWindow
    PROVE  /\ h.source # NoSource /\ h.total # 0
           /\ Missing(h, rows) \in Nat /\ Missing(h, rows) <= h.total
<1> DEFINE last == Min({h.scroll + rows, h.total})
           end == h.from + h.count
           uncovered == IF h.scroll < h.from \/ h.scroll >= end THEN h.scroll ELSE end
<1>1. h.source # NoSource /\ h.total # 0 /\ Missing(h, rows) = WindowOf(uncovered)
  BY DEF Missing
<1>2. h.scroll <= h.total
  BY <1>1, MaxOfTwo DEF Hexes
<1>3. uncovered \in Nat /\ uncovered <= h.total
  BY <1>2 DEF Hexes
<1>. HIDE DEF uncovered
<1>. QED
  BY <1>1, <1>3, WindowStartsBefore DEF Hexes

LEMMA InitInv == Init => IInv
<1>. SUFFICES ASSUME Init PROVE IInv
  OBVIOUS
<1>1. selected \in Nodes /\ selected.page = NoPage /\ selected.hex = NoSource
  BY TuiPanesAssumption DEF Init
<1>2. Max({0, hex.total - 1}) = 0
  BY MaxOfTwo DEF Init, Empty
<1>3. TypeOK
  BY <1>1, <1>2, TuiPanesAssumption
     DEF Init, TypeOK, Hexes, Previews, Markdowns, Empty, None, NoPage
<1>. QED
  BY <1>1, <1>3
     DEF Init, IInv, HexShowsItsSource, HexAnswersFit, TotalIsOfTheSource, PanesShowTheirPage,
         RendersFit, ExtractsFit, PreviewFitsThePane, PanesFollowSelection, Empty, None, NoPage

-----------------------------------------------------------------------------
LEMMA ScrollHexInv ==
    ASSUME IInv, ScrollHex
    PROVE  IInv'
<1>. USE DEF IInv, HexShowsItsSource, TypeOK
<1>1. PICK line \in {0, Max({0, hex.total - 1}), Max({0, hex.scroll - 1}), hex.scroll + 1,
                     Max({0, hex.scroll - size.rows}), hex.scroll + size.rows} :
        LET scrolled == ScrolledTo(hex, line)
            missing  == Missing(scrolled, size.rows)
        IN  IF missing = NoWindow
            THEN hex' = scrolled /\ UNCHANGED answers
            ELSE /\ hex' = [scrolled EXCEPT !.loading = TRUE, !.gen = @ + 1]
                 /\ answers' = answers \cup {LoadHex(hex.source, missing, hex.gen + 1)}
  BY DEF ScrollHex
<1>2. line \in Nat
  <2>1. hex.total \in Nat /\ hex.scroll \in Nat /\ size.rows \in Nat
    BY TuiPanesAssumption DEF Hexes
  <2>2. /\ Max({0, hex.total - 1}) \in Nat /\ Max({0, hex.scroll - 1}) \in Nat
        /\ Max({0, hex.scroll - size.rows}) \in Nat
    BY <2>1, MaxOfTwo
  <2>. QED
    BY <1>1, <2>1, <2>2
<1>3. PICK end \in Nat : /\ ScrolledTo(hex, line) = [hex EXCEPT !.scroll = end]
                         /\ end <= Max({0, hex.total - 1})
  BY <1>2, ScrollStaysInside
<1> DEFINE h == [hex EXCEPT !.scroll = end]
           missing == Missing(h, size.rows)
<1>4. h \in Hexes /\ h.scroll = end
  BY DEF Hexes
<1>5. /\ UNCHANGED <<pages, selected, size, preview, markdown>> /\ keys' \in 0..MaxKeys
      /\ hex.source = selected.hex
  BY TuiPanesAssumption DEF ScrollHex, Pressed
<1>6. CASE missing = NoWindow
  <2>1. hex' = h /\ UNCHANGED answers
    BY <1>1, <1>3, <1>6
  <2>2. TypeOK'
    BY <1>3, <1>4, <1>5, <2>1 DEF Hexes
  <2>. QED
    BY <1>5, <2>1, <2>2
       DEF HexAnswersFit, TotalIsOfTheSource, PanesShowTheirPage, RendersFit, ExtractsFit,
           PreviewFitsThePane, PanesFollowSelection, Hexes
<1>7. CASE missing # NoWindow
  <2>1. /\ hex' = [h EXCEPT !.loading = TRUE, !.gen = @ + 1]
        /\ answers' = answers \cup {LoadHex(hex.source, missing, hex.gen + 1)}
    BY <1>1, <1>3, <1>7
  <2>2. /\ hex.source # NoSource /\ hex.total # 0
        /\ missing \in Nat /\ missing <= hex.total
    <3>1. /\ h.count <= h.total /\ h.scroll <= Max({0, h.total - 1})
          /\ h.from + h.count <= h.total \/ h.count = 0
          /\ h.source = hex.source /\ h.total = hex.total /\ size.rows \in Nat
      BY <1>3, <1>4, TuiPanesAssumption DEF Hexes
    <3>. HIDE DEF h
    <3>. QED
      BY <1>4, <1>7, <3>1, MissingIsInside
  <2>. HIDE DEF missing
  <2>3. LoadHex(hex.source, missing, hex.gen + 1) \in Requests
    BY <2>2 DEF Requests, LoadHex, Hexes
  <2>4. /\ hex' \in Hexes /\ hex'.scroll = end /\ hex'.gen = hex.gen + 1
        /\ hex'.source = hex.source /\ hex'.of = hex.of /\ hex'.total = hex.total
        /\ hex'.from = hex.from /\ hex'.count = hex.count
    <3>1. hex \in Hexes
      OBVIOUS
    <3>2. hex' = [hex EXCEPT !.scroll = end, !.loading = TRUE, !.gen = hex.gen + 1]
      BY <2>1, <3>1 DEF Hexes
    <3>3. hex.gen + 1 \in Nat
      BY <3>1 DEF Hexes
    <3>4. hex' \in Hexes
      BY <3>1, <3>2, <3>3, Zenon DEF Hexes
    <3>. QED
      BY <3>1, <3>2, <3>4 DEF Hexes
  <2>5. TypeOK'
    BY <1>3, <1>5, <2>1, <2>3, <2>4
  <2>6. HexAnswersFit'
    <3>1. missing <= hex.source.len
      BY <2>2 DEF TotalIsOfTheSource
    <3>2. \A a \in answers : a.pane = "hex" => a.gen \in Nat
      BY DEF Requests
    <3>. QED
      BY <2>1, <2>4, <3>1, <3>2 DEF HexAnswersFit, LoadHex, Hexes
  <2>7. HexShowsItsSource' /\ TotalIsOfTheSource'
    BY <1>5, <2>4, <2>5 DEF TotalIsOfTheSource
  <2>. QED
    BY <1>5, <2>1, <2>5, <2>6, <2>7
       DEF PanesShowTheirPage, RendersFit, ExtractsFit, PreviewFitsThePane,
           PanesFollowSelection, LoadHex
<1>. QED
  BY <1>6, <1>7

\* `request_preview`: either the file has no pages and the pane closes, or it
\* waits for the page and size asked for, under a generation no answer has yet.
LEMMA RequestPreviewFits ==
    ASSUME TypeOK, RendersFit, PanesShowTheirPage,
           NEW n \in Nodes, NEW busy \in SUBSET Requests,
           \A a \in busy : a.pane = "preview" => a \in answers,
           UNCHANGED pages, size' \in Sizes, RequestPreview(n, size', busy)
    PROVE  /\ preview' \in Previews /\ RendersFit' /\ PreviewFitsThePane'
           /\ ~preview'.rendering /\ ~preview'.error => preview'.pixmap.page = preview'.page
           /\ preview'.active => pages # 0 /\ preview'.page = PageOf(n)
           /\ answers' \in SUBSET Requests /\ busy \subseteq answers'
           /\ \A a \in answers' \ busy : a.pane = "preview"
<1>1. PageOf(n) \in Nat
  BY TuiPanesAssumption DEF PageOf, NoPage
<1>2. preview \in Previews /\ preview.gen \in Nat /\ Debounce \in Nat
  BY TuiPanesAssumption DEF TypeOK, Previews
<1>3. CASE pages = 0
  <2>1. preview' = [preview EXCEPT !.active = FALSE] /\ answers' = busy
    BY <1>3 DEF RequestPreview
  <2>. QED
    BY <1>2, <2>1 DEF Previews, RendersFit, PanesShowTheirPage, PreviewFitsThePane
<1>4. CASE pages # 0
  <2> DEFINE a0 == [pane |-> "preview", gen |-> preview.gen + 1, page |-> PageOf(n), size |-> size']
  <2>1. preview' = [preview EXCEPT !.active = TRUE, !.gen = preview.gen + 1, !.page = PageOf(n),
                                   !.rendering = TRUE, !.error = FALSE, !.debounce = 0]
    BY <1>2, <1>4 DEF RequestPreview, StartRender, Previews
  <2>2. answers' = busy \cup {a0}
    BY <1>4 DEF RequestPreview, Render
  <2>3. a0 \in Requests
    BY <1>1, <1>2 DEF Requests
  <2>4. /\ preview' \in Previews /\ preview'.rendering /\ preview'.active
        /\ preview'.page = PageOf(n) /\ preview'.gen = preview.gen + 1
    <3>1. preview.gen + 1 \in Nat /\ 0 \in 0..Debounce
      BY <1>2
    <3>2. preview' \in Previews
      BY <1>1, <1>2, <2>1, <3>1, Zenon DEF Previews
    <3>. QED
      BY <1>2, <2>1, <3>2 DEF Previews
  <2>5. RendersFit'
    <3>1. \A a \in busy : a.pane = "preview" => a.gen \in Nat /\ a.gen <= preview.gen
      BY DEF RendersFit, Requests
    <3>2. a0.gen = preview'.gen /\ a0.page = preview'.page /\ a0.size = size'
      BY <2>4
    <3>. QED
      BY <1>2, <2>2, <2>4, <3>1, <3>2 DEF RendersFit
  <2>. QED
    BY <1>4, <2>2, <2>3, <2>4, <2>5 DEF PreviewFitsThePane
<1>. QED
  BY <1>3, <1>4

\* `request_markdown`, likewise.
LEMMA RequestMarkdownFits ==
    ASSUME TypeOK, ExtractsFit, PanesShowTheirPage,
           NEW n \in Nodes, NEW busy \in SUBSET Requests,
           \A a \in busy : a.pane = "markdown" => a \in answers,
           RequestMarkdown(n, busy)
    PROVE  /\ markdown' \in Markdowns /\ ExtractsFit'
           /\ ~markdown'.loading /\ ~markdown'.error => markdown'.source = markdown'.page
           /\ markdown'.active => pages # 0 /\ markdown'.page = PageOf(n)
           /\ answers' \in SUBSET Requests /\ busy \subseteq answers'
           /\ \A a \in answers' \ busy : a.pane = "markdown"
<1>1. PageOf(n) \in Nat
  BY TuiPanesAssumption DEF PageOf, NoPage
<1>2. markdown \in Markdowns /\ markdown.gen \in Nat
  BY DEF TypeOK, Markdowns
<1>3. CASE pages = 0
  <2>1. markdown' = [markdown EXCEPT !.active = FALSE] /\ answers' = busy
    BY <1>3 DEF RequestMarkdown
  <2>. QED
    BY <1>2, <2>1 DEF Markdowns, ExtractsFit, PanesShowTheirPage
<1>4. CASE pages # 0
  <2> DEFINE a0 == [pane |-> "markdown", gen |-> markdown.gen + 1, page |-> PageOf(n)]
  <2>1. markdown' = [markdown EXCEPT !.active = TRUE, !.gen = markdown.gen + 1,
                        !.page = PageOf(n), !.loading = TRUE, !.source = NoPage, !.error = FALSE]
    BY <1>2, <1>4 DEF RequestMarkdown, StartExtract, Markdowns
  <2>2. answers' = busy \cup {a0}
    BY <1>4 DEF RequestMarkdown, Extract
  <2>3. a0 \in Requests
    BY <1>1, <1>2 DEF Requests
  <2>4. /\ markdown' \in Markdowns /\ markdown'.loading
        /\ markdown'.page = PageOf(n) /\ markdown'.gen = markdown.gen + 1
    <3>1. markdown.gen + 1 \in Nat /\ NoPage \in Nat
      BY <1>2 DEF NoPage
    <3>2. markdown' \in Markdowns
      BY <1>1, <1>2, <2>1, <3>1, Zenon DEF Markdowns
    <3>. QED
      BY <1>2, <2>1, <3>2 DEF Markdowns
  <2>5. ExtractsFit'
    <3>1. \A a \in busy : a.pane = "markdown" => a.gen \in Nat /\ a.gen <= markdown.gen
      BY DEF ExtractsFit, Requests
    <3>2. a0.gen = markdown'.gen /\ a0.page = markdown'.page
      BY <2>4
    <3>. QED
      BY <1>2, <2>2, <2>4, <3>1, <3>2 DEF ExtractsFit
  <2>. QED
    BY <1>4, <2>2, <2>3, <2>4, <2>5
<1>. QED
  BY <1>3, <1>4

\* What remains of the invariant when the hex pane is left alone, and what is
\* new under way is for other panes.
LEMMA HexLeftAlone ==
    ASSUME HexAnswersFit, TotalIsOfTheSource, UNCHANGED hex,
           \A a \in answers' : a.pane = "hex" => a \in answers
    PROVE  HexAnswersFit' /\ TotalIsOfTheSource'
BY DEF HexAnswersFit, TotalIsOfTheSource

LEMMA TogglePreviewInv ==
    ASSUME IInv, TogglePreview
    PROVE  IInv'
<1>. USE DEF IInv, HexShowsItsSource
<1>1. /\ UNCHANGED <<pages, selected, size, hex>> /\ keys' \in 0..MaxKeys
      /\ selected \in Nodes /\ preview \in Previews /\ markdown \in Markdowns
      /\ answers \in SUBSET Requests /\ size' \in Sizes
  BY TuiPanesAssumption DEF TogglePreview, Pressed, TypeOK
<1>2. CASE preview' = [preview EXCEPT !.active = FALSE] /\ UNCHANGED <<markdown, answers>>
  <2>1. preview' \in Previews
    BY <1>1, <1>2, Zenon DEF Previews
  <2>2. /\ ~preview'.active /\ preview'.page = preview.page /\ preview'.gen = preview.gen
        /\ preview'.rendering = preview.rendering /\ preview'.error = preview.error
        /\ preview'.pixmap = preview.pixmap
    BY <1>1, <1>2 DEF Previews
  <2>3. TypeOK'
    BY <1>1, <1>2, <2>1, <2>2 DEF TypeOK
  <2>. QED
    BY <1>1, <1>2, <2>2, <2>3, HexLeftAlone
       DEF PanesShowTheirPage, RendersFit, ExtractsFit, PreviewFitsThePane, PanesFollowSelection
<1>3. CASE /\ markdown' = [markdown EXCEPT !.active = FALSE]
           /\ RequestPreview(selected, size, answers)
  <2>1. RequestPreview(selected, size', answers)
    BY <1>1, <1>3
  <2>2. markdown' \in Markdowns
    BY <1>1, <1>3, Zenon DEF Markdowns
  <2>3. /\ ~markdown'.active /\ markdown'.page = markdown.page /\ markdown'.gen = markdown.gen
        /\ markdown'.loading = markdown.loading /\ markdown'.error = markdown.error
        /\ markdown'.source = markdown.source
    BY <1>1, <1>3 DEF Markdowns
  <2>4. /\ preview' \in Previews /\ RendersFit' /\ PreviewFitsThePane'
        /\ ~preview'.rendering /\ ~preview'.error => preview'.pixmap.page = preview'.page
        /\ preview'.active => pages # 0 /\ preview'.page = PageOf(selected)
        /\ answers' \in SUBSET Requests /\ answers \subseteq answers'
        /\ \A a \in answers' \ answers : a.pane = "preview"
    BY <1>1, <2>1, RequestPreviewFits
  <2>5. TypeOK'
    BY <1>1, <2>2, <2>3, <2>4 DEF TypeOK
  <2>6. PanesShowTheirPage' /\ ExtractsFit' /\ PanesFollowSelection'
    BY <1>1, <2>3, <2>4
       DEF PanesShowTheirPage, ExtractsFit, PanesFollowSelection, PageOf
  <2>. QED
    BY <1>1, <2>4, <2>5, <2>6, HexLeftAlone
<1>. QED
  BY <1>2, <1>3 DEF TogglePreview

LEMMA ToggleMarkdownInv ==
    ASSUME IInv, ToggleMarkdown
    PROVE  IInv'
<1>. USE DEF IInv, HexShowsItsSource
<1>1. /\ UNCHANGED <<pages, selected, size, hex>> /\ keys' \in 0..MaxKeys
      /\ selected \in Nodes /\ preview \in Previews /\ markdown \in Markdowns
      /\ answers \in SUBSET Requests
  BY TuiPanesAssumption DEF ToggleMarkdown, Pressed, TypeOK
<1>2. CASE markdown' = [markdown EXCEPT !.active = FALSE] /\ UNCHANGED <<preview, answers>>
  <2>1. markdown' \in Markdowns
    BY <1>1, <1>2, Zenon DEF Markdowns
  <2>2. /\ ~markdown'.active /\ markdown'.page = markdown.page /\ markdown'.gen = markdown.gen
        /\ markdown'.loading = markdown.loading /\ markdown'.error = markdown.error
        /\ markdown'.source = markdown.source
    BY <1>1, <1>2 DEF Markdowns
  <2>3. TypeOK'
    BY <1>1, <1>2, <2>1, <2>2 DEF TypeOK
  <2>. QED
    BY <1>1, <1>2, <2>2, <2>3, HexLeftAlone
       DEF PanesShowTheirPage, RendersFit, ExtractsFit, PreviewFitsThePane, PanesFollowSelection
<1>3. CASE /\ preview' = [preview EXCEPT !.active = FALSE]
           /\ RequestMarkdown(selected, answers)
  <2>1. preview' \in Previews
    BY <1>1, <1>3, Zenon DEF Previews
  <2>2. /\ ~preview'.active /\ preview'.page = preview.page /\ preview'.gen = preview.gen
        /\ preview'.rendering = preview.rendering /\ preview'.error = preview.error
        /\ preview'.pixmap = preview.pixmap
    BY <1>1, <1>3 DEF Previews
  <2>3. /\ markdown' \in Markdowns /\ ExtractsFit'
        /\ ~markdown'.loading /\ ~markdown'.error => markdown'.source = markdown'.page
        /\ markdown'.active => pages # 0 /\ markdown'.page = PageOf(selected)
        /\ answers' \in SUBSET Requests /\ answers \subseteq answers'
        /\ \A a \in answers' \ answers : a.pane = "markdown"
    BY <1>1, <1>3, RequestMarkdownFits
  <2>4. TypeOK'
    BY <1>1, <2>1, <2>2, <2>3 DEF TypeOK
  <2>5. RendersFit'
    BY <1>1, <2>2, <2>3 DEF RendersFit
  <2>6. PanesShowTheirPage' /\ PreviewFitsThePane' /\ PanesFollowSelection'
    BY <1>1, <2>2, <2>3
       DEF PanesShowTheirPage, PreviewFitsThePane, PanesFollowSelection, PageOf
  <2>. QED
    BY <1>1, <2>3, <2>4, <2>5, <2>6, HexLeftAlone
<1>. QED
  BY <1>2, <1>3 DEF ToggleMarkdown

LEMMA ResizeInv ==
    ASSUME IInv, NEW s \in Sizes, Resize(s)
    PROVE  IInv'
<1>. USE DEF IInv, HexShowsItsSource
<1>1. /\ UNCHANGED <<pages, selected, hex, markdown, answers>> /\ keys' \in 0..MaxKeys
      /\ size' = s /\ preview \in Previews
      /\ preview' = IF preview.active THEN [preview EXCEPT !.debounce = Debounce] ELSE preview
  BY TuiPanesAssumption DEF Resize, Pressed, TypeOK
<1>2. Debounce \in 0..Debounce /\ Debounce # 0
  BY TuiPanesAssumption
<1>3. preview' \in Previews
  BY <1>1, <1>2, Zenon DEF Previews
<1>4. /\ preview'.active = preview.active /\ preview'.page = preview.page
      /\ preview'.gen = preview.gen /\ preview'.rendering = preview.rendering
      /\ preview'.error = preview.error /\ preview'.pixmap = preview.pixmap
      /\ preview.active => preview'.debounce = Debounce
  BY <1>1 DEF Previews
<1>5. TypeOK'
  BY <1>1, <1>3, <1>4 DEF TypeOK
<1>. QED
  BY <1>1, <1>2, <1>4, <1>5, HexLeftAlone
     DEF PanesShowTheirPage, RendersFit, ExtractsFit, PreviewFitsThePane, PanesFollowSelection

LEMMA MoveDividerInv ==
    ASSUME IInv, NEW s \in Sizes, MoveDivider(s)
    PROVE  IInv'
<1>. USE DEF IInv, HexShowsItsSource
<1>1. /\ UNCHANGED <<pages, selected, hex, markdown>> /\ keys' \in 0..MaxKeys
      /\ size' = s /\ selected \in Nodes /\ preview \in Previews
      /\ answers \in SUBSET Requests /\ size' \in Sizes
  BY TuiPanesAssumption DEF MoveDivider, Pressed, TypeOK
<1>2. CASE ~preview.active
  <2>1. UNCHANGED <<preview, answers>>
    BY <1>2 DEF MoveDivider
  <2>2. TypeOK'
    BY <1>1, <2>1 DEF TypeOK
  <2>. QED
    BY <1>1, <1>2, <2>1, <2>2, HexLeftAlone
       DEF PanesShowTheirPage, RendersFit, ExtractsFit, PreviewFitsThePane, PanesFollowSelection
<1>3. CASE preview.active
  <2>1. RequestPreview(selected, size', answers)
    BY <1>1, <1>3 DEF MoveDivider
  <2>2. /\ preview' \in Previews /\ RendersFit' /\ PreviewFitsThePane'
        /\ ~preview'.rendering /\ ~preview'.error => preview'.pixmap.page = preview'.page
        /\ preview'.active => pages # 0 /\ preview'.page = PageOf(selected)
        /\ answers' \in SUBSET Requests /\ answers \subseteq answers'
        /\ \A a \in answers' \ answers : a.pane = "preview"
    BY <1>1, <2>1, RequestPreviewFits
  <2>3. TypeOK'
    BY <1>1, <1>3, <2>2 DEF TypeOK
  <2>4. PanesShowTheirPage' /\ ExtractsFit' /\ PanesFollowSelection'
    BY <1>1, <2>2
       DEF PanesShowTheirPage, ExtractsFit, PanesFollowSelection, PageOf
  <2>. QED
    BY <1>1, <2>2, <2>3, <2>4, HexLeftAlone
<1>. QED
  BY <1>2, <1>3

LEMMA TickInv ==
    ASSUME IInv, Tick
    PROVE  IInv'
<1>. USE DEF IInv, HexShowsItsSource
<1>1. /\ UNCHANGED <<pages, selected, size, hex, markdown, keys>>
      /\ selected \in Nodes /\ preview \in Previews /\ size' \in Sizes
      /\ answers \in SUBSET Requests
      /\ preview.debounce \in 1..Debounce
  BY TuiPanesAssumption DEF Tick, TypeOK, Previews
<1>2. CASE preview.debounce = 1 /\ preview.active
  <2>1. RequestPreview(selected, size', answers)
    BY <1>1, <1>2 DEF Tick
  <2>2. /\ preview' \in Previews /\ RendersFit' /\ PreviewFitsThePane'
        /\ ~preview'.rendering /\ ~preview'.error => preview'.pixmap.page = preview'.page
        /\ preview'.active => pages # 0 /\ preview'.page = PageOf(selected)
        /\ answers' \in SUBSET Requests /\ answers \subseteq answers'
        /\ \A a \in answers' \ answers : a.pane = "preview"
    BY <1>1, <2>1, RequestPreviewFits
  <2>3. TypeOK'
    BY <1>1, <1>2, <2>2 DEF TypeOK
  <2>4. PanesShowTheirPage' /\ ExtractsFit' /\ PanesFollowSelection'
    BY <1>1, <2>2
       DEF PanesShowTheirPage, ExtractsFit, PanesFollowSelection, PageOf
  <2>. QED
    BY <1>1, <2>2, <2>3, <2>4, HexLeftAlone
<1>3. CASE ~(preview.debounce = 1 /\ preview.active)
  <2>1. UNCHANGED answers /\ preview' = [preview EXCEPT !.debounce = preview.debounce - 1]
    BY <1>1, <1>3 DEF Tick, Previews
  <2>2. preview.debounce - 1 \in 0..Debounce /\ Debounce \in Nat
    BY <1>1, TuiPanesAssumption
  <2>3. preview' \in Previews
    BY <1>1, <2>1, <2>2, Zenon DEF Previews
  <2>4. /\ preview'.active = preview.active /\ preview'.page = preview.page
        /\ preview'.gen = preview.gen /\ preview'.rendering = preview.rendering
        /\ preview'.error = preview.error /\ preview'.pixmap = preview.pixmap
        /\ preview'.debounce = preview.debounce - 1
    BY <1>1, <2>1 DEF Previews
  <2>5. preview.active => preview'.debounce # 0
    BY <1>1, <1>3, <2>4
  <2>6. TypeOK'
    BY <1>1, <2>1, <2>3, <2>4 DEF TypeOK
  <2>. QED
    BY <1>1, <2>1, <2>4, <2>5, <2>6, HexLeftAlone
       DEF PanesShowTheirPage, RendersFit, ExtractsFit, PreviewFitsThePane, PanesFollowSelection
<1>. QED
  BY <1>2, <1>3

-----------------------------------------------------------------------------
\* What runs when the hex pane of n has been asked for.
Running(n) == answers \cup (IF n.hex = NoSource THEN {} ELSE {LoadHex(n.hex, 0, hex.gen + 1)})

\* `on_select`, of the hex pane: a generation no answer has, of the new source.
LEMMA SourceFits ==
    ASSUME TypeOK, HexAnswersFit, NEW n \in Nodes,
           hex' = IF n.hex = NoSource THEN Cleared(hex.gen + 1) ELSE Source(n.hex, hex.gen + 1)
    PROVE  /\ hex' \in Hexes /\ TotalIsOfTheSource'
           /\ hex'.source = n.hex /\ hex'.count = 0
           /\ hex'.scroll <= Max({0, hex'.total - 1})
           /\ Running(n) \in SUBSET Requests
           /\ \A a \in Running(n) \ answers : a.pane = "hex"
           /\ \A a \in Running(n) : a.pane = "hex" =>
                 /\ a.gen <= hex'.gen /\ a.from <= a.source.len
                 /\ a.gen = hex'.gen => a.source = hex'.source
<1> DEFINE busy == Running(n)
<1>1. /\ hex.gen \in Nat /\ hex.gen + 1 \in Nat /\ 0 \in Nat
      /\ NoSource \in Sources \cup {NoSource}
      /\ n.hex \in Sources \cup {NoSource}
      /\ n.hex # NoSource => n.hex.len \in Nat
  BY TuiPanesAssumption DEF TypeOK, Hexes
<1>2. \A a \in answers : a.pane = "hex" => a.gen \in Nat /\ a.gen <= hex.gen
  BY DEF TypeOK, Requests, HexAnswersFit
<1>3. CASE n.hex = NoSource
  <2>1. hex' = [Empty EXCEPT !.gen = hex.gen + 1] /\ busy = answers
    BY <1>3 DEF Cleared, Running
  <2>2. /\ hex'.source = NoSource /\ hex'.count = 0 /\ hex'.total = 0 /\ hex'.scroll = 0
        /\ hex'.gen = hex.gen + 1
    BY <2>1 DEF Empty
  <2>3. hex' \in Hexes
    BY <1>1, <2>1, Zenon DEF Empty, Hexes
  <2>4. 0 <= Max({0, hex'.total - 1})
    BY <2>2, MaxOfTwo
  <2>. QED
    BY <1>1, <1>2, <1>3, <2>1, <2>2, <2>3, <2>4
       DEF TotalIsOfTheSource, HexAnswersFit, TypeOK
<1>4. CASE n.hex # NoSource
  <2> DEFINE total == IF n.hex.kind = "file" THEN n.hex.len ELSE 0
             a0 == [pane |-> "hex", gen |-> hex.gen + 1, source |-> n.hex, from |-> 0]
  <2>1. /\ hex' = [Empty EXCEPT !.source = n.hex, !.total = total, !.loading = TRUE,
                                !.gen = hex.gen + 1]
        /\ busy = answers \cup {a0}
    BY <1>4 DEF Source, LoadHex, Running
  <2>2. total \in Nat
    BY <1>1, <1>4
  <2>3. hex' \in Hexes
    <3>. HIDE DEF total
    <3>. QED
      BY <1>1, <2>1, <2>2, Zenon DEF Empty, Hexes
  <2>4. /\ hex'.source = n.hex /\ hex'.count = 0 /\ hex'.total = total /\ hex'.scroll = 0
        /\ hex'.gen = hex.gen + 1
    BY <2>1 DEF Empty
  <2>5. 0 <= Max({0, hex'.total - 1})
    <3>. HIDE DEF total
    <3>. QED
      BY <2>2, <2>4, MaxOfTwo
  <2>6. a0 \in Requests
    BY <1>1, <1>4 DEF Requests
  <2>7. TotalIsOfTheSource'
    BY <1>4, <2>4 DEF TotalIsOfTheSource
  <2>8. busy \in SUBSET Requests /\ \A a \in busy \ answers : a.pane = "hex"
    BY <2>1, <2>6 DEF TypeOK
  <2>9. \A a \in busy : a.pane = "hex" =>
           /\ a.gen <= hex'.gen /\ a.from <= a.source.len
           /\ a.gen = hex'.gen => a.source = hex'.source
    BY <1>1, <1>2, <1>4, <2>1, <2>4 DEF HexAnswersFit
  <2>. QED
    BY <2>3, <2>4, <2>5, <2>7, <2>8, <2>9
<1>. QED
  BY <1>3, <1>4

LEMMA SelectInv ==
    ASSUME IInv, NEW n \in Nodes, Select(n)
    PROVE  IInv'
<1>. USE DEF IInv, HexShowsItsSource
<1> DEFINE busy == Running(n)
<1>1. /\ UNCHANGED <<pages, size>> /\ keys' \in 0..MaxKeys /\ selected' = n
      /\ n.page <= pages /\ n.page \in Nat /\ pages \in Nat
      /\ size' \in Sizes /\ preview \in Previews /\ markdown \in Markdowns
      /\ hex' = IF n.hex = NoSource THEN Cleared(hex.gen + 1) ELSE Source(n.hex, hex.gen + 1)
  BY TuiPanesAssumption DEF Select, Pressed, TypeOK
<1>2. /\ hex' \in Hexes /\ TotalIsOfTheSource'
      /\ hex'.source = n.hex /\ hex'.count = 0
      /\ hex'.scroll <= Max({0, hex'.total - 1})
      /\ busy \in SUBSET Requests
      /\ \A a \in busy \ answers : a.pane = "hex"
      /\ \A a \in busy : a.pane = "hex" =>
            /\ a.gen <= hex'.gen /\ a.from <= a.source.len
            /\ a.gen = hex'.gen => a.source = hex'.source
  BY <1>1, SourceFits
<1>3. \/ Moved(preview, n) /\ RequestPreview(n, size, busy) /\ UNCHANGED markdown
      \/ /\ ~Moved(preview, n) /\ Moved(markdown, n)
         /\ RequestMarkdown(n, busy) /\ UNCHANGED preview
      \/ /\ ~Moved(preview, n) /\ ~Moved(markdown, n)
         /\ answers' = busy /\ UNCHANGED <<preview, markdown>>
  BY DEF Select, Running
<1>4. 0 <= hex'.total /\ hex'.count = 0
  BY <1>2 DEF Hexes
<1>. HIDE DEF busy
<1>5. CASE Moved(preview, n) /\ RequestPreview(n, size, busy) /\ UNCHANGED markdown
  <2>1. RequestPreview(n, size', busy)
    BY <1>1, <1>5
  <2>2. /\ preview' \in Previews /\ RendersFit' /\ PreviewFitsThePane'
        /\ ~preview'.rendering /\ ~preview'.error => preview'.pixmap.page = preview'.page
        /\ preview'.active => pages # 0 /\ preview'.page = PageOf(n)
        /\ answers' \in SUBSET Requests /\ busy \subseteq answers'
        /\ \A a \in answers' \ busy : a.pane = "preview"
    <3>1. \A a \in busy : a.pane = "preview" => a \in answers
      BY <1>2
    <3>. QED
      BY <1>1, <1>2, <2>1, <3>1, RequestPreviewFits
  <2>3. ~markdown.active /\ n.page # NoPage
    BY <1>5 DEF Moved, TypeOK
  <2>4. TypeOK'
    BY <1>1, <1>2, <1>4, <1>5, <2>2, <2>3 DEF TypeOK
  <2>5. HexAnswersFit' /\ ExtractsFit'
    BY <1>2, <1>5, <2>2 DEF HexAnswersFit, ExtractsFit
  <2>6. PanesShowTheirPage' /\ PanesFollowSelection'
    BY <1>1, <1>5, <2>2, <2>3 DEF PanesShowTheirPage, PanesFollowSelection, PageOf
  <2>. QED
    BY <1>1, <1>2, <1>4, <2>2, <2>4, <2>5, <2>6
<1>6. CASE /\ ~Moved(preview, n) /\ Moved(markdown, n)
           /\ RequestMarkdown(n, busy) /\ UNCHANGED preview
  <2>1. /\ markdown' \in Markdowns /\ ExtractsFit'
        /\ ~markdown'.loading /\ ~markdown'.error => markdown'.source = markdown'.page
        /\ markdown'.active => pages # 0 /\ markdown'.page = PageOf(n)
        /\ answers' \in SUBSET Requests /\ busy \subseteq answers'
        /\ \A a \in answers' \ busy : a.pane = "markdown"
    <3>1. \A a \in busy : a.pane = "markdown" => a \in answers
      BY <1>2
    <3>. QED
      BY <1>2, <1>6, <3>1, RequestMarkdownFits
  <2>2. ~preview.active /\ n.page # NoPage
    BY <1>6 DEF Moved, TypeOK
  <2>3. TypeOK'
    BY <1>1, <1>2, <1>4, <1>6, <2>1, <2>2 DEF TypeOK
  <2>4. HexAnswersFit' /\ RendersFit'
    BY <1>1, <1>2, <1>6, <2>1 DEF HexAnswersFit, RendersFit
  <2>5. PanesShowTheirPage' /\ PanesFollowSelection' /\ PreviewFitsThePane'
    BY <1>1, <1>6, <2>1, <2>2
       DEF PanesShowTheirPage, PanesFollowSelection, PreviewFitsThePane, PageOf
  <2>. QED
    BY <1>1, <1>2, <1>4, <2>1, <2>3, <2>4, <2>5
<1>7. CASE /\ ~Moved(preview, n) /\ ~Moved(markdown, n)
           /\ answers' = busy /\ UNCHANGED <<preview, markdown>>
  <2>1. TypeOK'
    BY <1>1, <1>2, <1>4, <1>7 DEF TypeOK
  <2>2. HexAnswersFit' /\ RendersFit' /\ ExtractsFit'
    BY <1>1, <1>2, <1>7 DEF HexAnswersFit, RendersFit, ExtractsFit
  <2>3. PanesFollowSelection'
    BY <1>1, <1>7 DEF Moved, PanesFollowSelection
  <2>4. PanesShowTheirPage' /\ PreviewFitsThePane'
    BY <1>1, <1>7 DEF PanesShowTheirPage, PreviewFitsThePane
  <2>. QED
    BY <1>1, <1>2, <1>4, <2>1, <2>2, <2>3, <2>4
<1>. QED
  BY <1>3, <1>5, <1>6, <1>7

-----------------------------------------------------------------------------
\* The bytes of an answer lie in the source, which it gives the length of.
LEMMA HexLoadedInv ==
    ASSUME IInv, NEW a \in answers, HexLoaded(a)
    PROVE  IInv'
<1>. USE DEF IInv, HexShowsItsSource
<1>1. /\ UNCHANGED <<pages, selected, size, preview, markdown, keys>>
      /\ a.pane = "hex" /\ answers' = answers \ {a} /\ answers' \in SUBSET Requests
      /\ hex \in Hexes
  BY DEF HexLoaded, TypeOK
<1>2. /\ a.gen \in Nat /\ a.from \in Nat /\ a.source \in Sources
      /\ a.source.len \in Nat /\ a.from <= a.source.len /\ a.source # NoSource
  BY <1>1, TuiPanesAssumption DEF TypeOK, Requests, HexAnswersFit
<1>3. PanesShowTheirPage' /\ RendersFit' /\ ExtractsFit' /\ PreviewFitsThePane'
      /\ PanesFollowSelection'
  BY <1>1 DEF PanesShowTheirPage, RendersFit, ExtractsFit, PreviewFitsThePane,
              PanesFollowSelection
<1>4. CASE ~Current(hex, a)
  <2>1. UNCHANGED hex
    BY <1>4 DEF HexLoaded
  <2>2. TypeOK'
    BY <1>1, <2>1 DEF TypeOK
  <2>. QED
    BY <1>1, <1>3, <2>1, <2>2, HexLeftAlone
<1>5. CASE Current(hex, a)
  <2>1. a.source = hex.source
    BY <1>1, <1>5 DEF Current, HexAnswersFit
  <2> DEFINE len == a.source.len
             from == IF a.source.kind = "file" THEN a.from ELSE 0
             end == IF a.source.kind = "file" THEN Min({from + Window, len}) ELSE len
  <2>2. hex' = [hex EXCEPT !.of = a.source, !.from = from, !.count = end - from,
                           !.total = len, !.loading = FALSE, !.error = FALSE]
    BY <1>5 DEF HexLoaded
  <2>3. from \in Nat /\ from <= len
    BY <1>2
  <2>4. end - from \in Nat /\ end <= len
    <3>1. Min({from + Window, len}) = IF from + Window <= len THEN from + Window ELSE len
      BY <1>2, <2>3, MinOfTwo, TuiPanesAssumption
    <3>. QED
      BY <1>2, <2>3, <3>1, TuiPanesAssumption
  <2>5. len \in Nat /\ a.source \in Sources \cup {NoSource}
    BY <1>2
  <2>. HIDE DEF len, from, end
  <2>6. hex' \in Hexes
    BY <1>1, <2>2, <2>3, <2>4, <2>5, Zenon DEF Hexes
  <2>7. /\ hex'.of = hex.source /\ hex'.from = from /\ hex'.count = end - from
        /\ hex'.total = len /\ hex'.source = hex.source /\ hex'.scroll = hex.scroll
        /\ hex'.gen = hex.gen
    BY <1>1, <2>1, <2>2 DEF Hexes
  <2>8. hex'.count <= hex'.total /\ hex'.from + hex'.count <= hex'.total
    <3>1. end \in Int
      BY <1>2, <2>3, MinOfTwo, TuiPanesAssumption DEF end, len
    <3>. QED
      BY <2>3, <2>4, <2>5, <2>7, <3>1
  <2>9. hex.scroll <= Max({0, hex'.total - 1})
    <3>1. CASE hex.total = len
      BY <2>7, <3>1 DEF TypeOK
    <3>2. CASE hex.total # len
      <4>1. hex.total = 0
        BY <1>2, <2>1, <3>2 DEF TotalIsOfTheSource, len
      <4>2. hex.scroll = 0
        BY <1>1, <4>1, MaxOfTwo DEF TypeOK, Hexes
      <4>3. Max({0, len - 1}) \in Nat
        BY <2>5, MaxOfTwo
      <4>. QED
        BY <2>7, <4>2, <4>3
    <3>. QED
      BY <3>1, <3>2
  <2>10. TypeOK'
    BY <1>1, <2>6, <2>7, <2>8, <2>9 DEF TypeOK
  <2>11. HexAnswersFit' /\ TotalIsOfTheSource'
    BY <1>1, <1>2, <2>1, <2>7 DEF HexAnswersFit, TotalIsOfTheSource, len
  <2>12. hex'.source = selected'.hex /\ hex'.total = hex'.source.len
    BY <1>1, <2>1, <2>7 DEF len
  <2>. QED
    BY <1>3, <2>7, <2>8, <2>10, <2>11, <2>12
<1>. QED
  BY <1>4, <1>5

LEMMA HexFailedInv ==
    ASSUME IInv, NEW a \in answers, HexFailed(a)
    PROVE  IInv'
<1>. USE DEF IInv, HexShowsItsSource
<1>1. /\ UNCHANGED <<pages, selected, size, preview, markdown, keys>>
      /\ answers' = answers \ {a} /\ answers' \in SUBSET Requests /\ hex \in Hexes
      /\ hex' = IF Current(hex, a) THEN [hex EXCEPT !.loading = FALSE, !.error = TRUE] ELSE hex
  BY DEF HexFailed, TypeOK
<1>2. hex' \in Hexes
  BY <1>1, Zenon DEF Hexes
<1>3. /\ hex'.of = hex.of /\ hex'.from = hex.from /\ hex'.count = hex.count
      /\ hex'.total = hex.total /\ hex'.source = hex.source /\ hex'.scroll = hex.scroll
      /\ hex'.gen = hex.gen
  BY <1>1 DEF Hexes
<1>4. TypeOK'
  BY <1>1, <1>2, <1>3 DEF TypeOK
<1>. QED
  BY <1>1, <1>3, <1>4
     DEF HexAnswersFit, TotalIsOfTheSource, PanesShowTheirPage, RendersFit, ExtractsFit,
         PreviewFitsThePane, PanesFollowSelection

LEMMA PreviewReadyInv ==
    ASSUME IInv, NEW a \in answers, NEW ok \in BOOLEAN, PreviewReady(a, ok)
    PROVE  IInv'
<1>. USE DEF IInv, HexShowsItsSource
<1> DEFINE kept == [preview EXCEPT !.cached = @ \/ ok]
<1>1. /\ UNCHANGED <<pages, selected, size, hex, markdown, keys>>
      /\ a.pane = "preview" /\ answers' = answers \ {a} /\ answers' \in SUBSET Requests
      /\ preview \in Previews
      /\ preview' = IF ~Current(preview, a) THEN kept
                    ELSE IF ok
                    THEN [kept EXCEPT !.rendering = FALSE, !.error = FALSE,
                                      !.pixmap = [page |-> a.page, size |-> a.size]]
                    ELSE [kept EXCEPT !.rendering = FALSE, !.error = TRUE]
  BY DEF PreviewReady, TypeOK
<1>2. a.page \in Nat /\ a.size \in Sizes \cup {None.size}
  BY <1>1 DEF TypeOK, Requests
<1>3. kept \in Previews
  <2>1. (preview.cached \/ ok) \in BOOLEAN
    OBVIOUS
  <2>. QED
    BY <1>1, <2>1, Zenon DEF Previews
<1>4. /\ kept.active = preview.active /\ kept.page = preview.page /\ kept.gen = preview.gen
      /\ kept.rendering = preview.rendering /\ kept.error = preview.error
      /\ kept.pixmap = preview.pixmap /\ kept.debounce = preview.debounce
  BY <1>1 DEF Previews
<1>. HIDE DEF kept
<1>5. CASE ~Current(preview, a)
  <2>1. preview' = kept
    BY <1>1, <1>5
  <2>2. TypeOK'
    BY <1>1, <1>3, <1>4, <2>1 DEF TypeOK
  <2>. QED
    <3>1. RendersFit' /\ ExtractsFit'
      BY <1>1, <1>4, <2>1 DEF RendersFit, ExtractsFit
    <3>2. PanesShowTheirPage'
      BY <1>1, <1>4, <2>1 DEF PanesShowTheirPage
    <3>3. PreviewFitsThePane'
      BY <1>1, <1>4, <2>1 DEF PreviewFitsThePane
    <3>4. PanesFollowSelection'
      BY <1>1, <1>4, <2>1 DEF PanesFollowSelection
    <3>. QED
      BY <1>1, <2>2, <3>1, <3>2, <3>3, <3>4, HexLeftAlone
<1>6. CASE Current(preview, a) /\ ok
  <2> DEFINE pixmap == [page |-> a.page, size |-> a.size]
  <2>1. preview' = [kept EXCEPT !.rendering = FALSE, !.error = FALSE, !.pixmap = pixmap]
    BY <1>1, <1>6
  <2>2. pixmap \in [page : Nat, size : Sizes \cup {None.size}]
    BY <1>2
  <2>3. pixmap.page = a.page /\ pixmap.size = a.size
    OBVIOUS
  <2>. HIDE DEF pixmap
  <2>4. preview' \in Previews
    BY <1>3, <2>1, <2>2, Zenon DEF Previews
  <2>5. /\ preview'.active = preview.active /\ preview'.page = preview.page
        /\ preview'.gen = preview.gen /\ preview'.debounce = preview.debounce
        /\ preview'.pixmap = pixmap
    BY <1>3, <1>4, <2>1 DEF Previews
  <2>6. TypeOK'
    BY <1>1, <2>4, <2>5 DEF TypeOK
  <2>7. a.page = preview.page /\ (preview.active /\ preview.debounce = 0 => a.size = size)
    BY <1>1, <1>6 DEF RendersFit, Current
  <2>. QED
    BY <1>1, <2>3, <2>5, <2>6, <2>7, HexLeftAlone
       DEF PanesShowTheirPage, RendersFit, ExtractsFit, PreviewFitsThePane, PanesFollowSelection
<1>7. CASE Current(preview, a) /\ ~ok
  <2>1. preview' = [kept EXCEPT !.rendering = FALSE, !.error = TRUE]
    BY <1>1, <1>7
  <2>2. preview' \in Previews
    BY <1>3, <2>1, Zenon DEF Previews
  <2>3. /\ preview'.active = preview.active /\ preview'.page = preview.page
        /\ preview'.gen = preview.gen /\ preview'.debounce = preview.debounce
        /\ preview'.error
    BY <1>3, <1>4, <2>1 DEF Previews
  <2>4. TypeOK'
    BY <1>1, <2>2, <2>3 DEF TypeOK
  <2>. QED
    BY <1>1, <2>3, <2>4, HexLeftAlone
       DEF PanesShowTheirPage, RendersFit, ExtractsFit, PreviewFitsThePane, PanesFollowSelection
<1>. QED
  BY <1>5, <1>6, <1>7

LEMMA MarkdownReadyInv ==
    ASSUME IInv, NEW a \in answers, NEW ok \in BOOLEAN, MarkdownReady(a, ok)
    PROVE  IInv'
<1>. USE DEF IInv, HexShowsItsSource
<1>1. /\ UNCHANGED <<pages, selected, size, hex, preview, keys>>
      /\ a.pane = "markdown" /\ answers' = answers \ {a} /\ answers' \in SUBSET Requests
      /\ markdown \in Markdowns
      /\ markdown' = IF ~Current(markdown, a) THEN markdown
                     ELSE IF ok
                     THEN [markdown EXCEPT !.loading = FALSE, !.error = FALSE, !.source = a.page]
                     ELSE [markdown EXCEPT !.loading = FALSE, !.error = TRUE]
  BY DEF MarkdownReady, TypeOK
<1>2. a.page \in Nat
  BY <1>1 DEF TypeOK, Requests
<1>3. markdown' \in Markdowns
  BY <1>1, <1>2, Zenon DEF Markdowns
<1>4. /\ markdown'.active = markdown.active /\ markdown'.page = markdown.page
      /\ markdown'.gen = markdown.gen
  BY <1>1 DEF Markdowns
<1>5. ~markdown'.loading /\ ~markdown'.error => markdown'.source = markdown'.page
  BY <1>1 DEF Markdowns, Current, ExtractsFit, PanesShowTheirPage
<1>6. TypeOK'
  BY <1>1, <1>3, <1>4 DEF TypeOK
<1>. QED
  BY <1>1, <1>4, <1>5, <1>6, HexLeftAlone
     DEF PanesShowTheirPage, RendersFit, ExtractsFit, PreviewFitsThePane, PanesFollowSelection

LEMMA NextInv == IInv /\ [Next]_vars => IInv'
<1>. SUFFICES ASSUME IInv, [Next]_vars PROVE IInv'
  OBVIOUS
<1>1. CASE UNCHANGED vars
  BY <1>1
     DEF vars, IInv, HexShowsItsSource, HexAnswersFit, TotalIsOfTheSource, PanesShowTheirPage,
         RendersFit, ExtractsFit, PreviewFitsThePane, PanesFollowSelection, TypeOK
<1>2. CASE Key
  BY <1>2, ScrollHexInv, TogglePreviewInv, ToggleMarkdownInv, SelectInv, ResizeInv,
     MoveDividerInv DEF Key
<1>3. CASE Tick
  BY <1>3, TickInv
<1>4. ASSUME NEW a \in answers, Answer(a) PROVE IInv'
  BY <1>4, HexLoadedInv, HexFailedInv, PreviewReadyInv, MarkdownReadyInv DEF Answer
<1>. QED
  BY <1>1, <1>2, <1>3, <1>4 DEF Next

-----------------------------------------------------------------------------
\* Every answer under way is of a request its pane still waits for, or of one it
\* has overtaken (app.rs 247-251, 315-325).
THEOREM AnswersFitTheirPanes == Spec => []IInv
<1>1. Init => IInv
  BY InitInv
<1>2. IInv /\ [Next]_vars => IInv'
  BY NextInv
<1>. QED
  BY <1>1, <1>2, PTL DEF Spec

\* A settled page pane shows the page its title names (preview.rs 73-82).
THEOREM SettledPanesShowTheirPage == Spec => []PanesShowTheirPage
<1>1. IInv => PanesShowTheirPage
  BY DEF IInv
<1>. QED
  BY <1>1, AnswersFitTheirPanes, PTL

\* A settled preview was rendered for the pane as it is (app.rs 984-985).
THEOREM SettledPreviewsFit == Spec => []PreviewFitsThePane
<1>1. IInv => PreviewFitsThePane
  BY DEF IInv
<1>. QED
  BY <1>1, AnswersFitTheirPanes, PTL

\* An active pane is on the page of a selection that has one (app.rs 923-925).
THEOREM ActivePanesFollow == Spec => []PanesFollowSelection
<1>1. IInv => PanesFollowSelection
  BY DEF IInv
<1>. QED
  BY <1>1, AnswersFitTheirPanes, PTL

\* The bytes of the hex pane are the selection's, and where they are shown
\* (app.rs 315-325, hexview.rs 92-109).
THEOREM HexBytesAreTheSelections == Spec => []HexShowsItsSource
<1>1. IInv => HexShowsItsSource
  BY DEF IInv
<1>. QED
  BY <1>1, AnswersFitTheirPanes, PTL

-----------------------------------------------------------------------------
\* The other two modules, under names of their own.  What they promise is stated in
\* `SearchState` and `TreeState`.  A theorem is about one module's specification
\* alone, so variables of one name in two of them say nothing of each other.
CONSTANTS MaxQuery, Batch
VARIABLES channel, trailer, fetches

Search == INSTANCE TuiSearch
Explorer == INSTANCE TuiExplorer

-----------------------------------------------------------------------------
(* Picking the elements of a sequence at some positions.                    *)

\* Induction stated on a set of numbers, with the set for the predicate.
LEMMA NatInductionOnSets ==
    ASSUME NEW T, 0 \in T, \A n \in Nat : n \in T => n + 1 \in T
    PROVE  Nat \subseteq T
<1> DEFINE C == Nat \ T
<1>1. SUFFICES ASSUME C # {} PROVE FALSE
  OBVIOUS
<1>2. C \subseteq Nat
  OBVIOUS
<1> HIDE DEF C
<1>3. PICK x \in C : \A y \in C : ~(<<y, x>> \in OpToRel(<, Nat))
  BY <1>1, <1>2, NatLessThanWellFounded, WFMin, Zenon
<1>4. \A y \in C : ~(y < x)
  BY <1>2, <1>3 DEF OpToRel
<1>5. x \in Nat /\ x # 0
  BY <1>3 DEF C
<1>6. x - 1 \in Nat /\ x - 1 < x /\ (x - 1) + 1 = x
  BY <1>5
<1>7. x - 1 \in T
  BY <1>4, <1>6 DEF C
<1>8. x \in T
  BY <1>6, <1>7
<1>. QED
  BY <1>3, <1>8 DEF C

\* Picking exists, one element after the other.
PickNext(s, at, k, before) == IF k \in at THEN Append(before, s[k]) ELSE before
Picking(s, at, u, k) ==
    IF k = 0 THEN <<>> ELSE IF k \in at THEN Append(u[k - 1], s[k]) ELSE u[k - 1]
IsUpto(s, at, n, u) == u = [k \in 0..n |-> Picking(s, at, u, k)]

\* Picking, position by position.
LEMMA UptoIs ==
    ASSUME NEW s, NEW at, NEW n \in Nat, NEW u, IsUpto(s, at, n, u)
    PROVE  \A k \in 0..n : u[k] = Picking(s, at, u, k)
BY DEF IsUpto

\* One element picked after the earlier ones.
LEMMA PickingIs ==
    ASSUME NEW s, NEW at, NEW u, NEW k \in Nat
    PROVE  Picking(s, at, u, k) = IF k = 0 THEN <<>> ELSE PickNext(s, at, k, u[k - 1])
BY DEF Picking, PickNext

\* The function of PicksUpto exists, so that CHOOSE returns it.
LEMMA UptoExists ==
    ASSUME NEW s, NEW at
    PROVE  \A n \in Nat : \E u : IsUpto(s, at, n, u)
<1> DEFINE T == {n \in Nat : \E u : IsUpto(s, at, n, u)}
<1>1. 0 \in T
  <2> DEFINE u == [k \in 0..0 |-> <<>>]
  <2>1. 0..0 = {0} /\ \A k \in 0..0 : Picking(s, at, u, k) = <<>>
    BY DEF Picking
  <2>2. u = [k \in 0..0 |-> Picking(s, at, u, k)]
    BY <2>1
  <2>3. IsUpto(s, at, 0, u)
    BY <2>2 DEF IsUpto
  <2>. QED
    BY <2>3
<1>2. ASSUME NEW n \in Nat, n \in T PROVE n + 1 \in T
  <2>1. PICK u : IsUpto(s, at, n, u)
    BY <1>2
  <2> DEFINE x == PickNext(s, at, n + 1, u[n])
             v == [k \in 0..(n + 1) |-> IF k = n + 1 THEN x ELSE u[k]]
  <2>2. v[n + 1] = x /\ \A k \in 0..n : v[k] = u[k]
    OBVIOUS
  <2>3. v = [k \in 0..(n + 1) |-> v[k]]
    OBVIOUS
  <2>. HIDE DEF v
  <2>4. ASSUME NEW k \in 0..(n + 1) PROVE v[k] = Picking(s, at, v, k)
    <3>1. CASE k = n + 1
      <4>1. Picking(s, at, v, k) = PickNext(s, at, n + 1, v[(n + 1) - 1])
        BY <3>1, PickingIs
      <4>2. (n + 1) - 1 = n /\ n \in 0..n
        OBVIOUS
      <4>. QED
        BY <2>2, <3>1, <4>1, <4>2
    <3>2. CASE k \in 0..n
      <4>1. u[k] = Picking(s, at, u, k)
        BY <2>1, <3>2, UptoIs
      <4>2. k # 0 => v[k - 1] = u[k - 1]
        BY <2>2, <3>2
      <4>3. Picking(s, at, v, k) = Picking(s, at, u, k)
        BY <3>2, <4>2, PickingIs
      <4>. QED
        BY <2>2, <3>2, <4>1, <4>3
    <3>. QED
      BY <3>1, <3>2
  <2>5. v = [k \in 0..(n + 1) |-> Picking(s, at, v, k)]
    BY <2>3, <2>4, Zenon
  <2>6. IsUpto(s, at, n + 1, v)
    BY <2>5 DEF IsUpto
  <2>. QED
    BY <2>6
<1>. HIDE DEF T
<1>3. Nat \subseteq T
  BY <1>1, <1>2, NatInductionOnSets
<1>. QED
  BY <1>3 DEF T

\* What Picks gives: at each position the element is picked, or nothing is.
LEMMA PicksNext ==
    ASSUME NEW s, Len(s) \in Nat, NEW at
    PROVE  /\ PicksUpto(s, at)[0] = <<>>
           /\ \A k \in 1..Len(s) :
                 PicksUpto(s, at)[k] = PickNext(s, at, k, PicksUpto(s, at)[k - 1])
<1> DEFINE u == PicksUpto(s, at)
<1>1. u = CHOOSE x : IsUpto(s, at, Len(s), x)
  BY Zenon DEF PicksUpto, IsUpto, Picking
<1>2. \E x : IsUpto(s, at, Len(s), x)
  BY UptoExists
<1>3. IsUpto(s, at, Len(s), u)
  BY <1>1, <1>2, Zenon
<1>. HIDE DEF u
<1>4. u[0] = <<>> /\ \A k \in 1..Len(s) : u[k] = PickNext(s, at, k, u[k - 1])
  <2>1. \A k \in 0..Len(s) : u[k] = Picking(s, at, u, k)
    BY <1>3, UptoIs
  <2>2. \A k \in 0..Len(s) :
           u[k] = IF k = 0 THEN <<>> ELSE PickNext(s, at, k, u[k - 1])
    BY <2>1, PickingIs
  <2>. QED
    BY <2>2
<1>. QED
  BY <1>4 DEF u

\* What is picked is a sequence of the elements.
LEMMA PicksSeq ==
    ASSUME NEW S, NEW s \in Seq(S), NEW at
    PROVE  \A k \in 0..Len(s) : PicksUpto(s, at)[k] \in Seq(S)
<1> DEFINE u == PicksUpto(s, at)
           T == {n \in Nat : n <= Len(s) => u[n] \in Seq(S)}
<1>1. 0 \in T
  <2>1. u[0] = <<>>
    BY PicksNext
  <2>2. <<>> \in Seq(S)
    OBVIOUS
  <2>3. u[0] \in Seq(S)
    BY <2>1, <2>2, Zenon
  <2>. HIDE DEF u
  <2>. QED
    BY <2>3
<1>2. ASSUME NEW n \in Nat, n \in T PROVE n + 1 \in T
  <2>1. SUFFICES ASSUME n + 1 <= Len(s) PROVE u[n + 1] \in Seq(S)
    OBVIOUS
  <2>2. u[n] \in Seq(S) /\ n + 1 \in 1..Len(s) /\ (n + 1) - 1 = n /\ s[n + 1] \in S
    BY <1>2, <2>1
  <2>3. u[n + 1] = PickNext(s, at, n + 1, u[n])
    BY <2>2, PicksNext
  <2>. HIDE DEF u
  <2>. QED
    BY <2>2, <2>3 DEF PickNext
<1>. HIDE DEF T
<1>3. Nat \subseteq T
  BY <1>1, <1>2, NatInductionOnSets
<1>. QED
  BY <1>3 DEF T

\* What is picked so far begins what is picked later.
GrowsFrom(s, at, j, k) ==
    /\ Len(PicksUpto(s, at)[j]) <= Len(PicksUpto(s, at)[k])
    /\ \A i \in 1..Len(PicksUpto(s, at)[j]) : PicksUpto(s, at)[k][i] = PicksUpto(s, at)[j][i]

LEMMA PicksGrow ==
    ASSUME NEW S, NEW s \in Seq(S), NEW at, NEW j \in 0..Len(s), NEW k \in j..Len(s)
    PROVE  GrowsFrom(s, at, j, k)
<1> DEFINE u == PicksUpto(s, at)
           Begins(n) == Len(u[j]) <= Len(u[n]) /\ \A i \in 1..Len(u[j]) : u[n][i] = u[j][i]
           T == {n \in Nat : j <= n /\ n <= Len(s) => Begins(n)}
<1>0. \A n \in 0..Len(s) : u[n] \in Seq(S)
  BY PicksSeq
<1>00. \A n \in 1..Len(s) : u[n] = PickNext(s, at, n, u[n - 1])
  BY PicksNext
<1>. HIDE DEF u
<1>1. 0 \in T
  <2>1. SUFFICES ASSUME j <= 0 PROVE Begins(0)
    OBVIOUS
  <2>2. j = 0
    BY <2>1
  <2>. QED
    BY <1>0, <2>2
<1>2. ASSUME NEW n \in Nat, n \in T PROVE n + 1 \in T
  <2>1. SUFFICES ASSUME j <= n + 1, n + 1 <= Len(s) PROVE Begins(n + 1)
    OBVIOUS
  <2>2. CASE j = n + 1
    BY <1>0, <2>2
  <2>3. CASE j <= n
    <3>1. Begins(n) /\ n \in 0..Len(s) /\ n + 1 \in 1..Len(s) /\ (n + 1) - 1 = n
      BY <1>2, <2>1, <2>3
    <3>2. u[n + 1] = PickNext(s, at, n + 1, u[n]) /\ u[n] \in Seq(S) /\ u[j] \in Seq(S)
      BY <1>0, <1>00, <3>1
    <3>3. s[n + 1] \in S
      BY <3>1
    <3>4. CASE n + 1 \in at
      <4> DEFINE e == s[n + 1]
                 a == u[n]
                 b == u[n + 1]
                 c == u[j]
      <4>1. b = Append(a, e) /\ a \in Seq(S) /\ e \in S /\ c \in Seq(S)
        BY <3>2, <3>3, <3>4 DEF PickNext
      <4>2. Len(c) <= Len(a) /\ \A i \in 1..Len(c) : a[i] = c[i]
        BY <3>1
      <4>. HIDE DEF e, a, b, c
      <4>3. Len(b) = Len(a) + 1 /\ \A i \in 1..Len(a) : b[i] = a[i]
        BY <4>1
      <4>4. Len(c) \in Nat /\ Len(a) \in Nat
        BY <4>1
      <4>5. Len(c) <= Len(b) /\ \A i \in 1..Len(c) : b[i] = c[i]
        BY <4>2, <4>3, <4>4
      <4>. QED
        BY <4>5 DEF b, c
    <3>5. CASE n + 1 \notin at
      BY <3>1, <3>2, <3>5 DEF PickNext
    <3>. QED
      BY <3>4, <3>5
  <2>. QED
    BY <2>1, <2>2, <2>3
<1>. HIDE DEF T
<1>3. Nat \subseteq T
  BY <1>1, <1>2, NatInductionOnSets
<1>4. Begins(k)
  BY <1>3 DEF T
<1>. QED
  BY <1>4 DEF u, GrowsFrom

\* The elements picked are those at the positions, once each.
AreOf(q, s, at, n) ==
    \A e : (\E i \in 1..Len(q) : q[i] = e) <=> (\E i \in 1..n : i \in at /\ s[i] = e)

\* It holds exactly the elements at the positions.
LEMMA PicksAre ==
    ASSUME NEW S, NEW s \in Seq(S), NEW at
    PROVE  \A k \in 0..Len(s) : AreOf(PicksUpto(s, at)[k], s, at, k)
<1> DEFINE u == PicksUpto(s, at)
           T == {n \in Nat : n <= Len(s) => AreOf(u[n], s, at, n)}
<1>0. \A n \in 0..Len(s) : u[n] \in Seq(S)
  BY PicksSeq
<1>00. u[0] = <<>> /\ \A n \in 1..Len(s) : u[n] = PickNext(s, at, n, u[n - 1])
  BY PicksNext
<1>. HIDE DEF u
<1>1. 0 \in T
  <2>1. Len(u[0]) = 0
    BY <1>00
  <2>2. AreOf(u[0], s, at, 0)
    BY <2>1 DEF AreOf
  <2>. QED
    BY <2>2
<1>2. ASSUME NEW n \in Nat, n \in T PROVE n + 1 \in T
  <2>1. SUFFICES ASSUME n + 1 <= Len(s) PROVE AreOf(u[n + 1], s, at, n + 1)
    OBVIOUS
  <2>2. AreOf(u[n], s, at, n) /\ n \in 0..Len(s) /\ n + 1 \in 1..Len(s) /\ (n + 1) - 1 = n
    BY <1>2, <2>1
  <2> DEFINE a == u[n]
             b == u[n + 1]
             x == s[n + 1]
  <2>3. a \in Seq(S) /\ x \in S /\ b = PickNext(s, at, n + 1, a)
    BY <1>0, <1>00, <2>2
  <2>4. \A e : (\E i \in 1..Len(a) : a[i] = e) <=> (\E i \in 1..n : i \in at /\ s[i] = e)
    BY <2>2 DEF AreOf
  <2>5. \A e : (\E i \in 1..(n + 1) : i \in at /\ s[i] = e) <=>
               (\E i \in 1..n : i \in at /\ s[i] = e) \/ (n + 1 \in at /\ e = x)
    <3>1. 1..(n + 1) = 1..n \cup {n + 1}
      OBVIOUS
    <3>. QED
      BY <3>1
  <2>. HIDE DEF a, b, x
  <2>6. \A e : (\E i \in 1..Len(b) : b[i] = e) <=>
               (\E i \in 1..Len(a) : a[i] = e) \/ (n + 1 \in at /\ e = x)
    <3>1. CASE n + 1 \in at
      <4>0. b = Append(a, x)
        BY <2>3, <3>1, Zenon DEF PickNext, x
      <4>1. b = Append(a, x) /\ Len(a) \in Nat
        BY <2>3, <4>0
      <4>2. Len(b) = Len(a) + 1 /\ b[Len(a) + 1] = x /\ \A i \in 1..Len(a) : b[i] = a[i]
        BY <2>3, <4>1
      <4>3. 1..(Len(a) + 1) = 1..Len(a) \cup {Len(a) + 1}
        BY <4>1
      <4>4. ASSUME NEW e PROVE (\E i \in 1..Len(b) : b[i] = e) <=> (\E i \in 1..Len(a) : a[i] = e) \/ e = x
        <5>1. ASSUME NEW i \in 1..Len(b), b[i] = e PROVE (\E k \in 1..Len(a) : a[k] = e) \/ e = x
          <6>1. i \in 1..Len(a) \/ i = Len(a) + 1
            BY <4>2, <4>3
          <6>. QED
            BY <4>2, <5>1, <6>1
        <5>2. ASSUME NEW i \in 1..Len(a), a[i] = e PROVE \E k \in 1..Len(b) : b[k] = e
          <6>1. i \in 1..Len(b) /\ b[i] = e
            BY <4>2, <4>3, <5>2
          <6>. QED
            BY <6>1
        <5>3. e = x => \E k \in 1..Len(b) : b[k] = e
          <6>1. Len(b) \in 1..Len(b) /\ b[Len(b)] = x
            BY <4>1, <4>2
          <6>. QED
            BY <6>1
        <5>. QED
          BY <5>1, <5>2, <5>3
      <4>. QED
        BY <3>1, <4>4
    <3>2. CASE n + 1 \notin at
      BY <2>3, <3>2 DEF PickNext
    <3>. QED
      BY <3>1, <3>2
  <2>7. \A e : (\E i \in 1..Len(b) : b[i] = e) <=> (\E i \in 1..(n + 1) : i \in at /\ s[i] = e)
    BY <2>4, <2>5, <2>6
  <2>. QED
    BY <2>7 DEF b, AreOf
<1>. HIDE DEF T
<1>3. Nat \subseteq T
  BY <1>1, <1>2, NatInductionOnSets
<1>. QED
  BY <1>3 DEF T, u

\* Elements that differ are picked once each.
LEMMA PicksOnce ==
    ASSUME NEW S, NEW s \in Seq(S), NEW at, IsInjective(s)
    PROVE  \A k \in 0..Len(s) : IsInjective(PicksUpto(s, at)[k])
<1> DEFINE u == PicksUpto(s, at)
           T == {n \in Nat : n <= Len(s) => IsInjective(u[n])}
<1>0. \A n \in 0..Len(s) : u[n] \in Seq(S)
  BY PicksSeq
<1>00. u[0] = <<>> /\ \A n \in 1..Len(s) : u[n] = PickNext(s, at, n, u[n - 1])
  BY PicksNext
<1>000. ASSUME NEW n \in 0..Len(s), NEW i \in 1..Len(u[n]) PROVE \E j \in 1..n : s[j] = u[n][i]
  <2>1. AreOf(u[n], s, at, n)
    BY PicksAre
  <2>. HIDE DEF u
  <2>. QED
    BY <2>1 DEF AreOf
<1>. HIDE DEF u
<1>1. 0 \in T
  BY <1>00 DEF IsInjective
<1>2. ASSUME NEW n \in Nat, n \in T PROVE n + 1 \in T
  <2>1. SUFFICES ASSUME n + 1 <= Len(s) PROVE IsInjective(u[n + 1])
    OBVIOUS
  <2>2. IsInjective(u[n]) /\ n \in 0..Len(s) /\ n + 1 \in 1..Len(s) /\ (n + 1) - 1 = n
    BY <1>2, <2>1
  <2> DEFINE a == u[n]
             b == u[n + 1]
             x == s[n + 1]
  <2>3. a \in Seq(S) /\ x \in S /\ b = PickNext(s, at, n + 1, a) /\ IsInjective(a)
    BY <1>0, <1>00, <2>2
  <2>4. ASSUME NEW i \in 1..Len(a) PROVE a[i] # x
    <3>1. PICK j \in 1..n : s[j] = a[i]
      BY <1>000, <2>2
    <3>2. j \in DOMAIN s /\ n + 1 \in DOMAIN s /\ j # n + 1
      BY <2>2
    <3>. HIDE DEF a, b
    <3>3. s[j] # s[n + 1]
      BY <3>2 DEF IsInjective
    <3>. QED
      BY <3>1, <3>3
  <2>. HIDE DEF a, b, x
  <2>5. CASE n + 1 \in at
    <3>0. b = Append(a, x)
      BY <2>3, <2>5, Zenon DEF PickNext, x
    <3>1. b = Append(a, x) /\ Len(a) \in Nat
      BY <2>3, <3>0
    <3>2. /\ Len(b) = Len(a) + 1 /\ b[Len(a) + 1] = x /\ \A i \in 1..Len(a) : b[i] = a[i]
          /\ DOMAIN b = 1..(Len(a) + 1) /\ DOMAIN a = 1..Len(a)
      BY <2>3, <3>1
    <3>3. ASSUME NEW i \in 1..(Len(a) + 1), NEW j \in 1..(Len(a) + 1), b[i] = b[j], i # j PROVE FALSE
      <4>1. CASE i \in 1..Len(a) /\ j \in 1..Len(a)
        BY <2>3, <3>2, <3>3, <4>1 DEF IsInjective
      <4>2. CASE i = Len(a) + 1
        <5>1. j \in 1..Len(a)
          BY <3>1, <3>3, <4>2
        <5>. QED
          BY <2>4, <3>2, <3>3, <4>2, <5>1
      <4>3. CASE j = Len(a) + 1
        <5>1. i \in 1..Len(a)
          BY <3>1, <3>3, <4>3
        <5>. QED
          BY <2>4, <3>2, <3>3, <4>3, <5>1
      <4>4. (i \in 1..Len(a) /\ j \in 1..Len(a)) \/ i = Len(a) + 1 \/ j = Len(a) + 1
        BY <3>1
      <4>. QED
        BY <4>1, <4>2, <4>3, <4>4
    <3>4. IsInjective(b)
      BY <3>2, <3>3 DEF IsInjective
    <3>. QED
      BY <3>4 DEF b
  <2>6. CASE n + 1 \notin at
    BY <2>3, <2>6 DEF PickNext, b
  <2>. QED
    BY <2>5, <2>6
<1>. HIDE DEF T
<1>3. Nat \subseteq T
  BY <1>1, <1>2, NatInductionOnSets
<1>. QED
  BY <1>3 DEF T, u

-----------------------------------------------------------------------------
(* The search.  What a query matches, and what is counted of it.            *)
MatchesAt(q) == {i \in DOMAIN Objects : Objects[i] \in Matches(q)}
SentOf(q, visited) == PicksUpto(Objects, MatchesAt(q))[visited]
AllOf(q) == SentOf(q, Len(Objects))

Mine(m, g) == m.type = "SearchResult" /\ m.generation = g
MineDone(m, g) == m.type = "SearchDone" /\ m.generation = g
Messages == [type : {"SearchResult"}, generation : Nat, hit : ToSet(Objects)]
            \cup [type : {"SearchDone"}, generation : Nat, hit : {Objects[1]}]

\* c[j] is how many hits are listed once j messages more were delivered.
Counts(c, ch, g, listed, all) ==
    /\ c \in [0..Len(ch) -> 0..Len(all)] /\ c[0] = listed
    /\ \A j \in 1..Len(ch) :
          /\ c[j] = IF Mine(ch[j], g) THEN c[j - 1] + 1 ELSE c[j - 1]
          /\ Mine(ch[j], g) => ch[j].hit = all[c[j]]
          /\ MineDone(ch[j], g) => c[j] = Len(all)
Coming(ch, g, listed, all, sent) ==
    \E c : Counts(c, ch, g, listed, all) /\ c[Len(ch)] = sent

TaskOK(k) ==
    /\ k \in [query : Seq(Chars), visited : 0..Len(Objects), checked : BOOLEAN]
    /\ k.checked => k.visited < Len(Objects) /\ k.visited + 1 \in MatchesAt(k.query)

\* How many hits the search of generation g has sent, given its query.
Sent(ts, g, q) == IF g \in DOMAIN ts THEN Len(SentOf(q, ts[g].visited)) ELSE Len(AllOf(q))

Begins(h, all) == Len(h) <= Len(all) /\ \A i \in 1..Len(h) : h[i] = all[i]

Listing ==
    /\ epoch = generation
    /\ generation \in DOMAIN tasks => tasks[generation].query = query
    /\ Begins(hits, AllOf(query))
    /\ Coming(channel, generation, Len(hits), AllOf(query), Sent(tasks, generation, query))
    /\ ~running => Len(hits) = Len(AllOf(query))

SearchInv ==
    /\ Search!SearchTypes
    /\ channel \in Seq(Messages) /\ \A j \in 1..Len(channel) : channel[j].generation <= generation
    /\ \A g \in DOMAIN tasks : TaskOK(tasks[g])
    /\ query # <<>> => Listing

\* The objects are a sequence; ToSet is the same operator under both names.
LEMMA ObjectsSeq ==
    ASSUME Search!ObjectsAreListed
    PROVE  /\ Objects \in Seq(ToSet(Objects)) /\ Len(Objects) \in Nat
           /\ Search!ToSet(Objects) = ToSet(Objects)
           /\ \A i \in 1..Len(Objects) : Objects[i] \in ToSet(Objects)
<1>1. Search!ToSet(Objects) = ToSet(Objects)
  BY DEF Search!ToSet, ToSet
<1>2. Objects \in Seq(ToSet(Objects))
  BY <1>1 DEF Search!ObjectsAreListed
<1>. QED
  BY <1>1, <1>2

\* A task sends nothing at first, then the hit at each position that matches.
LEMMA SentGrows ==
    ASSUME Search!ObjectsAreListed, NEW q
    PROVE  /\ SentOf(q, 0) = <<>>
           /\ \A k \in 0..Len(Objects) :
                 /\ SentOf(q, k) \in Seq(ToSet(Objects)) /\ AllOf(q) \in Seq(ToSet(Objects))
                 /\ Begins(SentOf(q, k), AllOf(q))
           /\ \A k \in 0..(Len(Objects) - 1) :
                 SentOf(q, k + 1) = IF k + 1 \in MatchesAt(q)
                                    THEN Append(SentOf(q, k), Objects[k + 1]) ELSE SentOf(q, k)
<1>1. Objects \in Seq(ToSet(Objects)) /\ Len(Objects) \in Nat
  BY ObjectsSeq
<1>2. SentOf(q, 0) = <<>>
  BY <1>1, PicksNext DEF SentOf
<1>3. ASSUME NEW k \in 0..Len(Objects)
      PROVE  /\ SentOf(q, k) \in Seq(ToSet(Objects)) /\ AllOf(q) \in Seq(ToSet(Objects))
             /\ Begins(SentOf(q, k), AllOf(q))
  <2>1. Len(Objects) \in k..Len(Objects) /\ Len(Objects) \in 0..Len(Objects)
    BY <1>1
  <2>2. SentOf(q, k) \in Seq(ToSet(Objects)) /\ AllOf(q) \in Seq(ToSet(Objects))
    BY <1>1, <2>1, PicksSeq DEF SentOf, AllOf
  <2>3. Begins(SentOf(q, k), AllOf(q))
    <3> DEFINE S == ToSet(Objects)
               at == MatchesAt(q)
               n == Len(Objects)
    <3>1. Objects \in Seq(S) /\ k \in 0..Len(Objects) /\ n \in k..Len(Objects)
      BY <1>1, <2>1
    <3>. HIDE DEF S, at, n
    <3>2. GrowsFrom(Objects, at, k, n)
      BY <3>1, PicksGrow
    <3>. QED
      BY <3>2 DEF GrowsFrom, SentOf, AllOf, Begins, at, n
  <2>. QED
    BY <2>2, <2>3
<1>4. ASSUME NEW k \in 0..(Len(Objects) - 1)
      PROVE  SentOf(q, k + 1) = IF k + 1 \in MatchesAt(q)
                                THEN Append(SentOf(q, k), Objects[k + 1]) ELSE SentOf(q, k)
  <2>1. k + 1 \in 1..Len(Objects) /\ (k + 1) - 1 = k
    BY <1>1
  <2>2. SentOf(q, k + 1) = PickNext(Objects, MatchesAt(q), k + 1, SentOf(q, k))
    BY <1>1, <2>1, PicksNext DEF SentOf
  <2>. QED
    BY <2>2 DEF PickNext
<1>. QED
  BY <1>2, <1>3, <1>4

\* Everything sent at the end is everything the query matches.
LEMMA AllHitsAre ==
    ASSUME NEW q, q # <<>>
    PROVE  Search!AllHits(q) = AllOf(q)
BY DEF Search!AllHits, AllOf, SentOf, MatchesAt, Search!Picks, Search!PicksUpto, PicksUpto

-----------------------------------------------------------------------------
\* No message of the search is under way when none carries its generation.
LEMMA NoneComing ==
    ASSUME NEW ch, Len(ch) \in Nat, NEW g, NEW all, Len(all) \in Nat,
           \A j \in 1..Len(ch) : ch[j].generation # g
    PROVE  Coming(ch, g, 0, all, 0)
<1> DEFINE c == [j \in 0..Len(ch) |-> 0]
<1>1. /\ c \in [0..Len(ch) -> 0..Len(all)] /\ c[0] = 0 /\ c[Len(ch)] = 0
      /\ \A j \in 1..Len(ch) : c[j] = 0 /\ c[j - 1] = 0
  OBVIOUS
<1>. HIDE DEF c
<1>2. \A j \in 1..Len(ch) : ~Mine(ch[j], g) /\ ~MineDone(ch[j], g)
  BY DEF Mine, MineDone
<1>3. Counts(c, ch, g, 0, all)
  BY <1>1, <1>2 DEF Counts
<1>. QED
  BY <1>1, <1>3 DEF Coming

\* A delivered message: the next hit if it is one of the search, and what remains
\* belongs to it in the same way; its end only when all hits are listed.
LEMMA LessComing ==
    ASSUME NEW S, NEW ch \in Seq(S), ch # <<>>, NEW g, NEW listed, NEW all, NEW sent,
           Len(all) \in Nat, Coming(ch, g, listed, all, sent)
    PROVE  /\ listed \in 0..Len(all)
           /\ Mine(Head(ch), g) => /\ listed + 1 \in 0..Len(all) /\ Head(ch).hit = all[listed + 1]
                                   /\ Coming(Tail(ch), g, listed + 1, all, sent)
           /\ ~Mine(Head(ch), g) => Coming(Tail(ch), g, listed, all, sent)
           /\ MineDone(Head(ch), g) => listed = Len(all)
<1>1. PICK c : Counts(c, ch, g, listed, all) /\ c[Len(ch)] = sent
  BY DEF Coming
<1> DEFINE t == Tail(ch)
           d == [j \in 0..Len(t) |-> c[j + 1]]
<1>2. /\ Len(ch) \in Nat \ {0} /\ Len(t) = Len(ch) - 1 /\ Head(ch) = ch[1]
      /\ \A j \in 1..Len(t) : t[j] = ch[j + 1]
  OBVIOUS
<1>. HIDE DEF t
<1>3. c \in [0..Len(ch) -> 0..Len(all)] /\ c[0] = listed
  BY <1>1 DEF Counts
<1>4. /\ d \in [0..Len(t) -> 0..Len(all)] /\ d[0] = c[1] /\ d[Len(t)] = sent
      /\ \A j \in 1..Len(t) : d[j] = c[j + 1] /\ d[j - 1] = c[j]
  <2>1. \A j \in 0..Len(t) : j + 1 \in 0..Len(ch)
    BY <1>2
  <2>2. Len(t) + 1 = Len(ch) /\ Len(t) \in Nat
    BY <1>2
  <2>3. \A j \in 1..Len(t) : (j - 1) + 1 = j /\ j - 1 \in 0..Len(t)
    BY <2>2
  <2>. QED
    BY <1>1, <1>3, <2>1, <2>2, <2>3
<1>. HIDE DEF d
<1>5. /\ c[1] = IF Mine(ch[1], g) THEN c[0] + 1 ELSE c[0]
      /\ Mine(ch[1], g) => ch[1].hit = all[c[1]]
      /\ MineDone(ch[1], g) => c[1] = Len(all)
  <2>1. 1 \in 1..Len(ch) /\ 1 - 1 = 0
    BY <1>2
  <2>. QED
    BY <1>1, <2>1 DEF Counts
<1>6. Counts(d, t, g, c[1], all)
  <2>1. ASSUME NEW j \in 1..Len(t)
        PROVE  /\ d[j] = IF Mine(t[j], g) THEN d[j - 1] + 1 ELSE d[j - 1]
               /\ Mine(t[j], g) => t[j].hit = all[d[j]]
               /\ MineDone(t[j], g) => d[j] = Len(all)
    <3>1. j + 1 \in 1..Len(ch) /\ (j + 1) - 1 = j
      BY <1>2
    <3>2. /\ c[j + 1] = IF Mine(ch[j + 1], g) THEN c[j] + 1 ELSE c[j]
          /\ Mine(ch[j + 1], g) => ch[j + 1].hit = all[c[j + 1]]
          /\ MineDone(ch[j + 1], g) => c[j + 1] = Len(all)
      BY <1>1, <3>1 DEF Counts
    <3>3. t[j] = ch[j + 1] /\ d[j] = c[j + 1] /\ d[j - 1] = c[j]
      BY <1>2, <1>4
    <3>. QED
      BY <3>2, <3>3
  <2>. QED
    BY <1>4, <2>1 DEF Counts
<1>7. Coming(t, g, c[1], all, sent)
  BY <1>4, <1>6 DEF Coming
<1>8. c[1] \in 0..Len(all) /\ listed \in 0..Len(all)
  BY <1>2, <1>3
<1>9. ~(Mine(ch[1], g) /\ MineDone(ch[1], g))
  BY DEF Mine, MineDone
<1>. QED
  BY <1>2, <1>3, <1>5, <1>7, <1>8, <1>9 DEF t

\* A message sent: the next hit of the search, its end, or one of another search.
LEMMA MoreComing ==
    ASSUME NEW S, NEW ch \in Seq(S), NEW m \in S, NEW g, NEW listed, NEW all, NEW sent,
           Len(all) \in Nat, Coming(ch, g, listed, all, sent), NEW now \in 0..Len(all),
           now = IF Mine(m, g) THEN sent + 1 ELSE sent,
           Mine(m, g) => m.hit = all[now], MineDone(m, g) => now = Len(all)
    PROVE  Coming(Append(ch, m), g, listed, all, now)
<1>1. PICK c : Counts(c, ch, g, listed, all) /\ c[Len(ch)] = sent
  BY DEF Coming
<1> DEFINE a == Append(ch, m)
           n == Len(ch)
           d == [j \in 0..(n + 1) |-> IF j = n + 1 THEN now ELSE c[j]]
<1>2. n \in Nat /\ Len(a) = n + 1 /\ a[n + 1] = m /\ \A j \in 1..n : a[j] = ch[j]
  OBVIOUS
<1>3. c \in [0..n -> 0..Len(all)] /\ c[0] = listed /\ c[n] = sent
  BY <1>1 DEF Counts
<1>4. \A j \in 1..n : /\ c[j] = IF Mine(ch[j], g) THEN c[j - 1] + 1 ELSE c[j - 1]
                      /\ Mine(ch[j], g) => ch[j].hit = all[c[j]]
                      /\ MineDone(ch[j], g) => c[j] = Len(all)
  BY <1>1 DEF Counts
<1>. HIDE DEF a, n
<1>5. /\ d \in [0..(n + 1) -> 0..Len(all)] /\ d[0] = listed /\ d[n + 1] = now
      /\ \A j \in 0..n : d[j] = c[j]
  BY <1>2, <1>3
<1>. HIDE DEF d
<1>6. ASSUME NEW j \in 1..(n + 1)
      PROVE  /\ d[j] = IF Mine(a[j], g) THEN d[j - 1] + 1 ELSE d[j - 1]
             /\ Mine(a[j], g) => a[j].hit = all[d[j]]
             /\ MineDone(a[j], g) => d[j] = Len(all)
  <2>1. CASE j = n + 1
    <3>1. d[j - 1] = sent /\ d[j] = now /\ a[j] = m
      BY <1>2, <1>3, <1>5, <2>1
    <3>. QED
      BY <3>1
  <2>2. CASE j # n + 1
    <3>1. j \in 1..n
      BY <1>2, <2>2
    <3>2. j \in 0..n /\ j - 1 \in 0..n
      BY <1>2, <3>1
    <3>3. d[j - 1] = c[j - 1] /\ d[j] = c[j] /\ a[j] = ch[j]
      BY <1>2, <1>5, <3>1, <3>2
    <3>. QED
      BY <1>4, <3>1, <3>3
  <2>. QED
    BY <2>1, <2>2
<1>7. Counts(d, a, g, listed, all) /\ d[Len(a)] = now
  BY <1>2, <1>5, <1>6 DEF Counts
<1>8. Coming(a, g, listed, all, now)
  BY <1>7 DEF Coming
<1>. QED
  BY <1>8 DEF a

\* What the invariant says, the list apart.
LEMMA SearchFacts ==
    ASSUME SearchInv, Search!ObjectsAreListed
    PROVE  /\ active \in BOOLEAN /\ running \in BOOLEAN /\ query \in Seq(Chars)
           /\ hits \in Seq(ToSet(Objects)) /\ cursor \in 0..Len(hits)
           /\ generation \in Nat /\ epoch \in 0..generation /\ DOMAIN tasks \subseteq 1..generation
           /\ channel \in Seq(Messages)
           /\ \A j \in 1..Len(channel) : channel[j].generation <= generation
           /\ \A g \in DOMAIN tasks : TaskOK(tasks[g])
           /\ query # <<>> => Listing
BY ObjectsSeq DEF SearchInv, Search!SearchTypes

\* What establishes the invariant.
LEMMA SearchFits ==
    ASSUME Search!ObjectsAreListed,
           active' \in BOOLEAN, running' \in BOOLEAN, query' \in Seq(Chars),
           hits' \in Seq(ToSet(Objects)), cursor' \in 0..Len(hits'),
           generation' \in Nat, epoch' \in 0..generation', DOMAIN tasks' \subseteq 1..generation',
           channel' \in Seq(Messages),
           \A j \in 1..Len(channel') : channel'[j].generation <= generation',
           \A g \in DOMAIN tasks' : TaskOK(tasks'[g]), query' # <<>> => Listing'
    PROVE  SearchInv'
BY ObjectsSeq DEF SearchInv, Search!SearchTypes

\* The list means the same while nothing it speaks of changes.
LEMMA SameListing ==
    ASSUME UNCHANGED <<query, hits, generation, running, epoch, tasks, channel>>
    PROVE  Listing' <=> Listing
BY DEF Listing

\* At first nothing is typed, listed or under way.
LEMMA SearchInit ==
    ASSUME Search!ObjectsAreListed, Search!Init
    PROVE  SearchInv
<1>1. channel = <<>> /\ hits = <<>> /\ query = <<>> /\ tasks = <<>>
  BY DEF Search!Init
<1>2. DOMAIN tasks = {} /\ Len(channel) = 0 /\ Len(hits) = 0
  BY <1>1
<1>3. /\ active \in BOOLEAN /\ running \in BOOLEAN
      /\ cursor \in 0..Len(hits) /\ generation \in Nat /\ epoch \in 0..generation
  <2>1. active \in BOOLEAN /\ running \in BOOLEAN
    BY Zenon DEF Search!Init
  <2>2. cursor = 0 /\ generation = 0 /\ epoch = 0
    BY DEF Search!Init
  <2>. QED
    BY <1>2, <2>1, <2>2
<1>4. Search!SearchTypes
  BY <1>1, <1>2, <1>3 DEF Search!SearchTypes
<1>. QED
  BY <1>1, <1>2, <1>4 DEF SearchInv

\* A step that clears the bar, whatever the tasks go on with.
Quiet ==
    /\ query' = <<>> /\ hits' = <<>> /\ cursor' = 0
    /\ generation' \in {generation, generation + 1} /\ epoch' \in {epoch, generation'}
    /\ UNCHANGED <<tasks, channel>>

\* Clearing the bar keeps the invariant.
LEMMA QuietInv ==
    ASSUME SearchInv, Search!ObjectsAreListed, Quiet, active' \in BOOLEAN, running' \in BOOLEAN
    PROVE  SearchInv'
<1>1. generation' \in Nat /\ generation <= generation' /\ epoch' \in 0..generation' /\ DOMAIN tasks' \subseteq 1..generation'
  BY SearchFacts DEF Quiet
<1>2. \A j \in 1..Len(channel') : channel'[j].generation <= generation'
  <2>1. \A m \in Messages : m.generation \in Nat
    BY DEF Messages
  <2>2. channel \in Seq(Messages) /\ generation \in Nat /\ channel' = channel
    BY SearchFacts DEF Quiet
  <2>3. \A j \in 1..Len(channel) : channel[j].generation \in Nat /\ channel[j].generation <= generation
    BY <2>1, <2>2, SearchFacts
  <2>. QED
    BY <1>1, <2>2, <2>3
<1>3. query' = <<>> /\ hits' = <<>> /\ cursor' = 0
  BY DEF Quiet
<1>4. query' \in Seq(Chars) /\ hits' \in Seq(ToSet(Objects)) /\ cursor' \in 0..Len(hits')
  BY <1>3
<1>5. channel' \in Seq(Messages)
  BY SearchFacts DEF Quiet
<1>6. \A g \in DOMAIN tasks' : TaskOK(tasks'[g])
  BY SearchFacts DEF Quiet
<1>. QED
  BY <1>1, <1>2, <1>3, <1>4, <1>5, <1>6, SearchFits

\* The keys.  A search that starts has nothing under way.
LEMMA RestartInv ==
    ASSUME SearchInv, Search!ObjectsAreListed, NEW q \in Seq(Chars), Search!Restart(q),
           UNCHANGED <<active, channel>>
    PROVE  SearchInv'
<1>1. /\ query' = q /\ hits' = <<>> /\ cursor' = 0 /\ generation' = generation + 1
      /\ running' = (q # <<>>)
  BY DEF Search!Restart
<1>2. CASE q = <<>>
  <2>1. UNCHANGED <<epoch, tasks>>
    BY <1>2 DEF Search!Restart
  <2>2. Quiet
    BY <1>1, <1>2, <2>1, SearchFacts DEF Quiet
  <2>3. active' \in BOOLEAN /\ running' \in BOOLEAN
    BY <1>1, SearchFacts, Zenon
  <2>. QED
    BY <2>2, <2>3, QuietInv
<1>3. CASE q # <<>>
  <2> DEFINE g == generation + 1
             k == [query |-> q, visited |-> 0, checked |-> FALSE]
  <2>1. /\ epoch' = g
        /\ tasks' = [h \in DOMAIN tasks \cup {g} |-> IF h = g THEN k ELSE tasks[h]]
    BY <1>1, <1>3 DEF Search!Restart, Search!StartSearch, Search!Task
  <2>2. k.query = q /\ k.visited = 0 /\ TaskOK(k)
    BY ObjectsSeq DEF TaskOK
  <2>. HIDE DEF k
  <2>3. /\ DOMAIN tasks' = DOMAIN tasks \cup {g} /\ tasks'[g] = k
        /\ \A h \in DOMAIN tasks' : h # g => h \in DOMAIN tasks /\ tasks'[h] = tasks[h]
    BY <2>1
  <2>4. generation' \in Nat /\ epoch' \in 0..generation' /\ DOMAIN tasks' \subseteq 1..generation'
    BY <1>1, <2>1, <2>3, SearchFacts
  <2>5. \A h \in DOMAIN tasks' : TaskOK(tasks'[h])
    BY <2>2, <2>3, SearchFacts
  <2>6. /\ channel \in Seq(Messages) /\ Len(channel) \in Nat
        /\ \A j \in 1..Len(channel) : channel[j].generation # g /\ channel[j].generation <= g
    <3>1. channel \in Seq(Messages) /\ generation \in Nat
      BY SearchFacts
    <3>2. \A m \in Messages : m.generation \in Nat
      BY DEF Messages
    <3>3. \A j \in 1..Len(channel) : channel[j].generation \in Nat /\ channel[j].generation <= generation
      BY <3>1, <3>2, SearchFacts
    <3>. QED
      BY <3>1, <3>3
  <2>7. AllOf(q) \in Seq(ToSet(Objects)) /\ SentOf(q, 0) = <<>>
    BY SentGrows, ObjectsSeq
  <2>8. Coming(channel, g, 0, AllOf(q), 0)
    BY <2>6, <2>7, NoneComing
  <2>9. Sent(tasks', g, q) = 0
    BY <2>2, <2>3, <2>7 DEF Sent
  <2>10. Begins(<<>>, AllOf(q)) /\ Len(<<>>) = 0
    BY <2>7 DEF Begins
  <2>11. Listing'
    BY <1>1, <1>3, <2>1, <2>2, <2>3, <2>8, <2>9, <2>10 DEF Listing
  <2>12. /\ active' \in BOOLEAN /\ running' \in BOOLEAN /\ query' \in Seq(Chars)
         /\ hits' \in Seq(ToSet(Objects)) /\ cursor' \in 0..Len(hits')
    BY <1>1, SearchFacts
  <2>13. channel' \in Seq(Messages) /\ \A j \in 1..Len(channel') : channel'[j].generation <= generation'
    BY <1>1, <2>6
  <2>. QED
    BY <2>4, <2>5, <2>11, <2>12, <2>13, SearchFits
<1>. QED
  BY <1>2, <1>3

\* Every key keeps it.
LEMMA KeyInv ==
    ASSUME SearchInv, Search!ObjectsAreListed, Search!Key
    PROVE  SearchInv'
<1>0. Search!ObjectsAreListed'
  BY DEF Search!ObjectsAreListed
<1>1. CASE Search!OpenSearch
  <2>1. active' \in BOOLEAN /\ running' \in BOOLEAN
    BY <1>1, Zenon DEF Search!OpenSearch
  <2>2. Quiet
    BY <1>1 DEF Search!OpenSearch, Quiet
  <2>. QED
    BY <2>1, <2>2, QuietInv
<1>2. CASE Search!SearchAccept
  <2>1. Listing' <=> Listing
    BY <1>2, SameListing DEF Search!SearchAccept
  <2>. QED
    BY <1>2, <2>1, SearchFacts, SearchFits DEF Search!SearchAccept
<1>3. CASE Search!SearchCancel
  <2>1. active' \in BOOLEAN /\ running' \in BOOLEAN
    BY <1>3, Zenon DEF Search!SearchCancel
  <2>2. Quiet
    BY <1>3 DEF Search!SearchCancel, Quiet
  <2>. QED
    BY <2>1, <2>2, QuietInv
<1>4. ASSUME NEW c \in Chars, Search!SearchChar(c) PROVE SearchInv'
  <2>1. Append(query, c) \in Seq(Chars)
    BY SearchFacts
  <2>. QED
    BY <1>4, <2>1, RestartInv DEF Search!SearchChar
<1>5. CASE Search!SearchBackspace
  <2>1. CASE query = <<>>
    BY <1>5, <2>1, SearchFacts, SearchFits DEF Search!SearchBackspace
  <2>2. CASE query # <<>>
    <3>1. Search!Front(query) \in Seq(Chars)
      <4>1. query \in Seq(Chars) /\ Len(query) \in Nat
        BY SearchFacts
      <4>. QED
        BY <4>1 DEF Search!Front
    <3>. QED
      BY <1>5, <2>2, <3>1, RestartInv DEF Search!SearchBackspace
  <2>. QED
    BY <2>1, <2>2
<1>6. CASE Search!NextHit \/ Search!PrevHit
  <2>1. UNCHANGED <<active, query, hits, generation, running, epoch, tasks, channel>>
    BY <1>6 DEF Search!NextHit, Search!PrevHit
  <2>2. Listing' <=> Listing
    BY <2>1, SameListing
  <2>3. cursor' \in 0..Len(hits')
    <3>1. Len(hits) \in Nat /\ hits # <<>> /\ cursor \in 0..Len(hits) /\ hits' = hits
      BY <1>6, SearchFacts DEF Search!NextHit, Search!PrevHit
    <3>2. Len(hits) # 0
      BY <3>1, SearchFacts
    <3>. QED
      BY <1>6, <3>1, <3>2 DEF Search!NextHit, Search!PrevHit
  <2>. QED
    BY <2>1, <2>2, <2>3, SearchFacts, SearchFits
<1>. QED
  BY <1>1, <1>2, <1>3, <1>4, <1>5, <1>6 DEF Search!Key

-----------------------------------------------------------------------------
\* The messages.
LEMMA NextMessage ==
    ASSUME SearchInv, Search!ObjectsAreListed, channel # <<>>
    PROVE  /\ Head(channel) \in Messages /\ Tail(channel) \in Seq(Messages)
           /\ Head(channel).generation \in Nat
           /\ \A j \in 1..Len(Tail(channel)) : Tail(channel)[j].generation <= generation
           /\ Head(channel).type = "SearchResult" => Head(channel).hit \in ToSet(Objects)
<1>1. channel \in Seq(Messages) /\ \A j \in 1..Len(channel) : channel[j].generation <= generation
  BY SearchFacts
<1>2. /\ Head(channel) \in Messages /\ Tail(channel) \in Seq(Messages)
      /\ \A j \in 1..Len(Tail(channel)) : j + 1 \in 1..Len(channel) /\ Tail(channel)[j] = channel[j + 1]
  BY <1>1
<1>3. \A m \in Messages : m.generation \in Nat /\ (m.type = "SearchResult" => m.hit \in ToSet(Objects))
  BY DEF Messages
<1>. QED
  BY <1>1, <1>2, <1>3

\* What the bar shows, when a message of its own search or of another arrives.
LEMMA ListingAfter ==
    ASSUME SearchInv, Search!ObjectsAreListed, query # <<>>, channel # <<>>,
           channel' = Tail(channel), UNCHANGED <<query, generation, epoch, tasks>>,
           Mine(Head(channel), generation) => /\ hits' = Append(hits, Head(channel).hit)
                                              /\ UNCHANGED running,
           ~Mine(Head(channel), generation) => UNCHANGED hits,
           ~running' => ~running \/ MineDone(Head(channel), generation)
    PROVE  Listing'
<1> DEFINE all == AllOf(query)
           sent == Sent(tasks, generation, query)
<1>1. Listing /\ channel \in Seq(Messages) /\ hits \in Seq(ToSet(Objects))
  BY SearchFacts
<1>2. all \in Seq(ToSet(Objects)) /\ Len(all) \in Nat /\ Len(hits) \in Nat
  <2>1. Len(Objects) \in Nat
    BY ObjectsSeq
  <2>2. all \in Seq(ToSet(Objects))
    BY <2>1, SentGrows
  <2>. HIDE DEF all
  <2>. QED
    BY <1>1, <2>2
<1>3. /\ Begins(hits, all) /\ Coming(channel, generation, Len(hits), all, sent)
      /\ ~running => Len(hits) = Len(all)
  BY <1>1 DEF Listing
<1>4. epoch = generation /\ (generation \in DOMAIN tasks => tasks[generation].query = query)
  BY <1>1 DEF Listing
<1>. HIDE DEF all, sent
<1>5. /\ Mine(Head(channel), generation) =>
            /\ Len(hits) + 1 \in 0..Len(all) /\ Head(channel).hit = all[Len(hits) + 1]
            /\ Coming(Tail(channel), generation, Len(hits) + 1, all, sent)
      /\ ~Mine(Head(channel), generation) => Coming(Tail(channel), generation, Len(hits), all, sent)
      /\ MineDone(Head(channel), generation) => Len(hits) = Len(all)
  BY <1>1, <1>2, <1>3, LessComing
<1>6. /\ Begins(hits', all) /\ Coming(channel', generation, Len(hits'), all, sent)
      /\ ~running' => Len(hits') = Len(all)
  <2>1. CASE Mine(Head(channel), generation)
    <3>1. hits' = Append(hits, Head(channel).hit) /\ UNCHANGED running
      BY <2>1
    <3>2. Len(hits') = Len(hits) + 1 /\ \A i \in 1..Len(hits') :
             hits'[i] = IF i = Len(hits) + 1 THEN Head(channel).hit ELSE hits[i]
      BY <1>1, <3>1
    <3>3. Begins(hits', all)
      BY <1>2, <1>3, <1>5, <2>1, <3>2 DEF Begins
    <3>4. ~MineDone(Head(channel), generation)
      BY <2>1 DEF Mine, MineDone
    <3>5. running
      BY <1>2, <1>3, <1>5, <2>1
    <3>. QED
      BY <1>5, <2>1, <3>1, <3>2, <3>3, <3>5
  <2>2. CASE ~Mine(Head(channel), generation)
    BY <1>3, <1>5, <2>2
  <2>. QED
    BY <2>1, <2>2
<1>. QED
  BY <1>4, <1>6 DEF Listing, all, sent

\* Every message delivered keeps it.
LEMMA ReceiveInv ==
    ASSUME SearchInv, Search!ObjectsAreListed, Search!Receive
    PROVE  SearchInv'
<1>1. CASE Search!SearchResult
  <2>1. /\ channel # <<>> /\ Head(channel).type = "SearchResult" /\ channel' = Tail(channel)
        /\ UNCHANGED <<active, query, cursor, generation, running, epoch, tasks>>
        /\ hits' = IF Head(channel).generation = generation
                   THEN Append(hits, Head(channel).hit) ELSE hits
    BY <1>1 DEF Search!SearchResult, Search!Deliver
  <2>2. Mine(Head(channel), generation) <=> Head(channel).generation = generation
    BY <2>1 DEF Mine
  <2>3. hits' \in Seq(ToSet(Objects)) /\ cursor' \in 0..Len(hits')
    <3>1. hits \in Seq(ToSet(Objects)) /\ Head(channel).hit \in ToSet(Objects) /\ cursor \in 0..Len(hits)
      BY <2>1, NextMessage, SearchFacts
    <3>. QED
      BY <2>1, <3>1
  <2>4. query' # <<>> => Listing'
    BY <2>1, <2>2, ListingAfter
  <2>. QED
    BY <2>1, <2>3, <2>4, NextMessage, SearchFacts, SearchFits
<1>2. CASE Search!SearchDone
  <2>1. /\ channel # <<>> /\ Head(channel).type = "SearchDone" /\ channel' = Tail(channel)
        /\ UNCHANGED <<active, query, hits, cursor, generation, epoch, tasks>>
        /\ running' = (running /\ Head(channel).generation # generation)
    BY <1>2 DEF Search!SearchDone, Search!Deliver
  <2>2. ~Mine(Head(channel), generation)
    BY <2>1 DEF Mine
  <2>3. ~running' => ~running \/ MineDone(Head(channel), generation)
    BY <2>1, Zenon DEF MineDone
  <2>4. query' # <<>> => Listing'
    BY <2>1, <2>2, <2>3, ListingAfter
  <2>5. running' \in BOOLEAN
    BY <2>1, Zenon
  <2>. QED
    BY <2>1, <2>4, <2>5, NextMessage, SearchFacts, SearchFits
<1>. QED
  BY <1>1, <1>2 DEF Search!Receive

-----------------------------------------------------------------------------
\* The tasks.  A step of the task of generation g.
WorkFits(g) ==
    /\ UNCHANGED <<active, query, hits, cursor, generation, running, epoch>>
    /\ DOMAIN tasks' \subseteq DOMAIN tasks
    /\ \A h \in DOMAIN tasks \ {g} : h \in DOMAIN tasks' /\ tasks'[h] = tasks[h]
    /\ g \in DOMAIN tasks' => TaskOK(tasks'[g]) /\ tasks'[g].query = tasks[g].query

\* A step of a task keeps it when its channel still owes the list the right hits.
LEMMA WorkInv ==
    ASSUME SearchInv, Search!ObjectsAreListed, NEW g \in DOMAIN tasks, WorkFits(g),
           channel' \in Seq(Messages),
           \A j \in 1..Len(channel') : channel'[j].generation <= generation,
           query # <<>> => Coming(channel', generation, Len(hits), AllOf(query),
                                  Sent(tasks', generation, query))
    PROVE  SearchInv'
<1>1. UNCHANGED <<active, query, hits, cursor, generation, running, epoch>>
  BY DEF WorkFits
<1>2. DOMAIN tasks' \subseteq DOMAIN tasks
  BY DEF WorkFits
<1>3. \A h \in DOMAIN tasks' : TaskOK(tasks'[h]) /\ tasks'[h].query = tasks[h].query
  <2>1. ASSUME NEW h \in DOMAIN tasks' PROVE TaskOK(tasks'[h]) /\ tasks'[h].query = tasks[h].query
    <3>1. CASE h = g
      BY <3>1 DEF WorkFits
    <3>2. CASE h # g
      <4>1. h \in DOMAIN tasks \ {g}
        BY <1>2, <3>2
      <4>2. tasks'[h] = tasks[h]
        BY <4>1 DEF WorkFits
      <4>. QED
        BY <4>1, <4>2, SearchFacts
    <3>. QED
      BY <3>1, <3>2
  <2>. QED
    BY <2>1
<1>4. query' # <<>> => Listing'
  BY <1>1, <1>2, <1>3, SearchFacts DEF Listing
<1>. QED
  BY <1>1, <1>2, <1>3, <1>4, SearchFacts, SearchFits

\* A task that is there, and what it has sent.
LEMMA TaskFacts ==
    ASSUME SearchInv, Search!ObjectsAreListed, NEW g \in DOMAIN tasks
    PROVE  /\ g \in Nat /\ g <= generation /\ TaskOK(tasks[g])
           /\ tasks[g] \in [query : Seq(Chars), visited : 0..Len(Objects), checked : BOOLEAN]
           /\ Len(Objects) \in Nat /\ tasks[g].visited \in Nat
           /\ query # <<>> => /\ Coming(channel, generation, Len(hits), AllOf(query),
                                        Sent(tasks, generation, query))
                              /\ AllOf(query) \in Seq(ToSet(Objects)) /\ epoch = generation
                              /\ g = generation => tasks[g].query = query
<1>1. g \in Nat /\ g <= generation /\ TaskOK(tasks[g])
  BY SearchFacts
<1>2. Len(Objects) \in Nat
  BY ObjectsSeq
<1>3. tasks[g] \in [query : Seq(Chars), visited : 0..Len(Objects), checked : BOOLEAN]
  BY <1>1 DEF TaskOK
<1>4. AllOf(query) \in Seq(ToSet(Objects))
  BY <1>2, SentGrows
<1>. QED
  BY <1>1, <1>2, <1>3, <1>4, SearchFacts DEF Listing

\* A step that sends nothing leaves the channel what it was.
LEMMA SilentWorkInv ==
    ASSUME SearchInv, Search!ObjectsAreListed, NEW g \in DOMAIN tasks, WorkFits(g),
           UNCHANGED channel,
           query # <<>> => Sent(tasks', generation, query) = Sent(tasks, generation, query)
    PROVE  SearchInv'
BY TaskFacts, WorkInv, SearchFacts

\* A task that sees a newer epoch was not the one of the bar.
LEMMA StopInv ==
    ASSUME SearchInv, Search!ObjectsAreListed, NEW g, Search!Stop(g)
    PROVE  SearchInv'
<1>1. /\ g \in DOMAIN tasks /\ epoch # g /\ UNCHANGED channel
      /\ tasks' = [h \in DOMAIN tasks \ {g} |-> tasks[h]]
      /\ UNCHANGED <<active, query, hits, cursor, generation, running, epoch>>
  BY DEF Search!Stop, Search!Alive, Search!End, Search!barVars
<1>2. WorkFits(g)
  BY <1>1 DEF WorkFits
<1>3. query # <<>> => Sent(tasks', generation, query) = Sent(tasks, generation, query)
  <2>1. query # <<>> => generation # g
    BY <1>1, TaskFacts
  <2>2. generation # g => /\ generation \in DOMAIN tasks' <=> generation \in DOMAIN tasks
                          /\ generation \in DOMAIN tasks => tasks'[generation] = tasks[generation]
    BY <1>1
  <2>. QED
    BY <2>1, <2>2 DEF Sent
<1>. QED
  BY <1>1, <1>2, <1>3, SilentWorkInv

\* A task with a field rewritten.
EditsAre(k, v, c) ==
    /\ [k EXCEPT !.checked = c] = [query |-> k.query, visited |-> k.visited, checked |-> c]
    /\ [k EXCEPT !.visited = v] = [query |-> k.query, visited |-> v, checked |-> k.checked]

\* Both edits, field by field.
LEMMA TaskEdits ==
    ASSUME NEW S, NEW T, NEW C, NEW k \in [query : S, visited : T, checked : C], NEW v, NEW c
    PROVE  EditsAre(k, v, c)
<1>1. [k EXCEPT !.checked = c] = [query |-> k.query, visited |-> k.visited, checked |-> c]
  OBVIOUS
<1>2. [k EXCEPT !.visited = v] = [query |-> k.query, visited |-> v, checked |-> k.checked]
  OBVIOUS
<1>. QED
  BY <1>1, <1>2 DEF EditsAre

\* Checking an object sends nothing yet.
LEMMA CheckInv ==
    ASSUME SearchInv, Search!ObjectsAreListed, NEW g, Search!Check(g)
    PROVE  SearchInv'
<1> DEFINE k == tasks[g]
           at == k.visited + 1 \in MatchesAt(k.query)
           now == [query |-> k.query, visited |-> IF at THEN k.visited ELSE k.visited + 1,
                   checked |-> at]
<1>1. /\ g \in DOMAIN tasks /\ ~k.checked /\ k.visited < Len(Objects) /\ UNCHANGED channel
      /\ UNCHANGED <<active, query, hits, cursor, generation, running, epoch>>
  BY DEF Search!Check, Search!Alive, Search!barVars
<1>2. /\ k \in [query : Seq(Chars), visited : 0..Len(Objects), checked : BOOLEAN]
      /\ Len(Objects) \in Nat /\ k.visited \in Nat
  BY <1>1, TaskFacts
<1>3. at <=> Objects[k.visited + 1] \in Matches(k.query)
  <2>1. k.visited + 1 \in 1..Len(Objects) /\ DOMAIN Objects = 1..Len(Objects)
    BY <1>1, <1>2, ObjectsSeq
  <2>. QED
    BY <2>1 DEF MatchesAt
<1>4. now = IF Objects[k.visited + 1] \in Matches(k.query)
            THEN [k EXCEPT !.checked = TRUE] ELSE [k EXCEPT !.visited = k.visited + 1]
  <2>1. /\ [k EXCEPT !.checked = TRUE] = [query |-> k.query, visited |-> k.visited, checked |-> TRUE]
        /\ [k EXCEPT !.visited = k.visited + 1]
             = [query |-> k.query, visited |-> k.visited + 1, checked |-> k.checked]
    <3>1. EditsAre(k, k.visited + 1, TRUE)
      BY <1>2, TaskEdits
    <3>. HIDE DEF k
    <3>. QED
      BY <3>1, Zenon DEF EditsAre
  <2>2. k.checked = FALSE
    BY <1>1, <1>2
  <2>3. CASE at
    <3>1. now = [query |-> k.query, visited |-> k.visited, checked |-> TRUE]
      BY <2>3
    <3>. HIDE DEF now, k, at
    <3>. QED
      BY <1>3, <2>1, <2>3, <3>1, Zenon
  <2>4. CASE ~at
    <3>1. now = [query |-> k.query, visited |-> k.visited + 1, checked |-> FALSE]
      <4>1. at = FALSE
        BY <2>4
      <4>. HIDE DEF k, at
      <4>. QED
        BY <4>1
    <3>. HIDE DEF now, k, at
    <3>. QED
      BY <1>3, <2>1, <2>2, <2>4, <3>1, Zenon
  <2>. QED
    BY <2>3, <2>4
<1>5. tasks' = [tasks EXCEPT ![g] = now]
  <2>1. tasks' = [tasks EXCEPT ![g] = IF Objects[k.visited + 1] \in Matches(k.query)
            THEN [k EXCEPT !.checked = TRUE] ELSE [k EXCEPT !.visited = k.visited + 1]]
    BY Zenon DEF Search!Check, Search!Passed
  <2>. HIDE DEF now, k
  <2>. QED
    BY <1>4, <2>1, Zenon
<1>6. TaskOK(now) /\ now.query = k.query
  <2>1. now \in [query : Seq(Chars), visited : 0..Len(Objects), checked : BOOLEAN]
    BY <1>1, <1>2
  <2>2. now.checked => now.visited < Len(Objects) /\ now.visited + 1 \in MatchesAt(now.query)
    BY <1>1
  <2>. QED
    BY <2>1, <2>2 DEF TaskOK
<1>7. SentOf(k.query, now.visited) = SentOf(k.query, k.visited)
  <2>1. k.visited \in 0..(Len(Objects) - 1)
    BY <1>1, <1>2
  <2>2. ~at => SentOf(k.query, k.visited + 1) = SentOf(k.query, k.visited)
    BY <2>1, SentGrows
  <2>. QED
    BY <2>2
<1>. HIDE DEF now
<1>8. /\ DOMAIN tasks' = DOMAIN tasks /\ tasks'[g] = now
      /\ \A h \in DOMAIN tasks \ {g} : tasks'[h] = tasks[h]
  BY <1>1, <1>5
<1>9. WorkFits(g)
  BY <1>1, <1>6, <1>8 DEF WorkFits
<1>10. query # <<>> => Sent(tasks', generation, query) = Sent(tasks, generation, query)
  <2>1. CASE generation = g
    BY <1>1, <1>7, <1>8, <2>1, TaskFacts DEF Sent
  <2>2. CASE generation # g
    BY <1>8, <2>2 DEF Sent
  <2>. QED
    BY <2>1, <2>2
<1>. QED
  BY <1>1, <1>9, <1>10, SilentWorkInv

\* A message of generation g joins the channel.
LEMMA Posts ==
    ASSUME SearchInv, NEW m \in Messages, m.generation <= generation,
           channel' = Append(channel, m)
    PROVE  /\ channel' \in Seq(Messages) /\ channel \in Seq(Messages)
           /\ \A j \in 1..Len(channel') : channel'[j].generation <= generation
<1>1. channel \in Seq(Messages) /\ \A j \in 1..Len(channel) : channel[j].generation <= generation
  BY DEF SearchInv
<1>2. Len(channel') = Len(channel) + 1 /\ \A j \in 1..Len(channel') :
         IF j = Len(channel) + 1 THEN channel'[j] = m ELSE j \in 1..Len(channel) /\ channel'[j] = channel[j]
  BY <1>1
<1>. QED
  BY <1>1, <1>2

\* What is sent is within all that matches.
LEMMA SentIsBounded ==
    ASSUME NEW S, NEW ch \in Seq(S), NEW g, NEW listed, NEW all, NEW sent,
           Coming(ch, g, listed, all, sent)
    PROVE  sent \in 0..Len(all)
<1>1. PICK c : Counts(c, ch, g, listed, all) /\ c[Len(ch)] = sent
  BY DEF Coming
<1>2. c \in [0..Len(ch) -> 0..Len(all)] /\ Len(ch) \in 0..Len(ch)
  BY <1>1 DEF Counts
<1>. QED
  BY <1>1, <1>2

\* A hit is sent.
LEMMA SendInv ==
    ASSUME SearchInv, Search!ObjectsAreListed, NEW g, Search!Send(g)
    PROVE  SearchInv'
<1> DEFINE k == tasks[g]
           at == k.visited + 1
           m == [type |-> "SearchResult", generation |-> g, hit |-> Objects[at]]
           now == [query |-> k.query, visited |-> at, checked |-> FALSE]
<1>1. /\ g \in DOMAIN tasks /\ k.checked /\ channel' = Append(channel, m)
      /\ UNCHANGED <<active, query, hits, cursor, generation, running, epoch>>
  BY DEF Search!Send, Search!Alive, Search!barVars, Search!Result
<1>2. /\ k \in [query : Seq(Chars), visited : 0..Len(Objects), checked : BOOLEAN]
      /\ Len(Objects) \in Nat /\ k.visited \in Nat /\ g \in Nat /\ g <= generation
      /\ k.visited < Len(Objects) /\ at \in MatchesAt(k.query)
  BY <1>1, TaskFacts DEF TaskOK
<1>3. tasks' = [tasks EXCEPT ![g] = now]
  <2>2. tasks' = [tasks EXCEPT ![g].checked = FALSE, ![g].visited = @ + 1]
    BY DEF Search!Send
  <2>3. now = [[k EXCEPT !.checked = FALSE] EXCEPT !.visited = k.visited + 1]
    <3> DEFINE r == [query |-> k.query, visited |-> k.visited, checked |-> FALSE]
    <3>1. [k EXCEPT !.checked = FALSE] = r
      <4>1. EditsAre(k, 0, FALSE)
        BY <1>2, TaskEdits
      <4>. HIDE DEF k
      <4>. QED
        BY <4>1, Zenon DEF EditsAre
    <3>2. /\ r \in [query : Seq(Chars), visited : 0..Len(Objects), checked : BOOLEAN]
          /\ r.query = k.query /\ r.checked = FALSE
      BY <1>2
    <3>. HIDE DEF r
    <3>3. [r EXCEPT !.visited = k.visited + 1] = now
      <4>1. EditsAre(r, k.visited + 1, FALSE)
        BY <3>2, TaskEdits
      <4>. HIDE DEF k
      <4>. QED
        BY <3>2, <4>1, Zenon DEF EditsAre
    <3>. QED
      BY <3>1, <3>3, Zenon
  <2>4. tasks' = [tasks EXCEPT ![g] = [[k EXCEPT !.checked = FALSE] EXCEPT !.visited = k.visited + 1]]
    BY <1>1, <1>2, <2>2
  <2>. HIDE DEF now
  <2>. QED
    BY <2>3, <2>4, Zenon
<1>4. TaskOK(now) /\ now.query = k.query /\ now.visited = k.visited + 1
  <2>1. now \in [query : Seq(Chars), visited : 0..Len(Objects), checked : BOOLEAN]
    BY <1>2
  <2>. QED
    BY <2>1 DEF TaskOK
<1>. HIDE DEF now
<1>5. /\ DOMAIN tasks' = DOMAIN tasks /\ tasks'[g] = now
      /\ \A h \in DOMAIN tasks \ {g} : tasks'[h] = tasks[h]
  BY <1>1, <1>3
<1>6. WorkFits(g)
  BY <1>1, <1>4, <1>5 DEF WorkFits
<1>7. /\ m \in Messages /\ m.generation = g /\ m.type = "SearchResult" /\ m.hit = Objects[at]
      /\ \A h : ~MineDone(m, h)
  <2>1. at \in 1..Len(Objects)
    BY <1>2
  <2>2. Objects[at] \in ToSet(Objects)
    BY <2>1, ObjectsSeq
  <2>. QED
    BY <1>2, <2>2 DEF Messages, MineDone
<1>. HIDE DEF m
<1>8. /\ channel' \in Seq(Messages) /\ channel \in Seq(Messages)
      /\ \A j \in 1..Len(channel') : channel'[j].generation <= generation
  BY <1>1, <1>2, <1>7, Posts
<1>9. ASSUME query # <<>>
      PROVE  Coming(channel', generation, Len(hits), AllOf(query), Sent(tasks', generation, query))
  <2> DEFINE all == AllOf(query)
             sent == Sent(tasks, generation, query)
             then == Sent(tasks', generation, query)
  <2>1. Coming(channel, generation, Len(hits), all, sent) /\ all \in Seq(ToSet(Objects))
    BY <1>1, <1>9, TaskFacts
  <2>2. Len(all) \in Nat
    BY <2>1
  <2>3. /\ then \in 0..Len(all) /\ then = IF Mine(m, generation) THEN sent + 1 ELSE sent
        /\ Mine(m, generation) => m.hit = all[then]
    <3>1. CASE generation = g
      <4>1. k.query = query
        BY <1>1, <1>9, <3>1, TaskFacts
      <4>2. /\ sent = Len(SentOf(query, k.visited)) /\ then = Len(SentOf(query, at))
        BY <1>1, <1>4, <1>5, <3>1, <4>1 DEF Sent
      <4>3. k.visited \in 0..(Len(Objects) - 1) /\ k.visited \in 0..Len(Objects) /\ at \in 0..Len(Objects)
        BY <1>2
      <4>4. SentOf(query, at) = Append(SentOf(query, k.visited), Objects[at])
        BY <1>2, <4>1, <4>3, SentGrows
      <4>5. SentOf(query, k.visited) \in Seq(ToSet(Objects)) /\ Begins(SentOf(query, at), all)
        BY <4>3, SentGrows
      <4>. HIDE DEF all, sent, then, at, k
      <4>6. /\ Len(SentOf(query, at)) = sent + 1 /\ SentOf(query, at)[sent + 1] = Objects[at]
            /\ sent \in Nat
        BY <4>2, <4>4, <4>5
      <4>7. sent + 1 <= Len(all) /\ all[sent + 1] = Objects[at]
        BY <4>5, <4>6 DEF Begins
      <4>8. Mine(m, generation)
        BY <1>7, <3>1 DEF Mine
      <4>. QED
        BY <1>7, <2>2, <4>2, <4>6, <4>7, <4>8
    <3>2. CASE generation # g
      <4>1. ~Mine(m, generation)
        BY <1>7, <3>2 DEF Mine
      <4>2. then = sent
        BY <1>5, <3>2 DEF Sent
      <4>3. sent \in 0..Len(all)
        <5>. HIDE DEF all, sent
        <5>. QED
          BY <1>8, <2>1, <2>2, SentIsBounded
      <4>. QED
        BY <4>1, <4>2, <4>3
    <3>. QED
      BY <3>1, <3>2
  <2>. HIDE DEF all, sent, then
  <2>4. Coming(Append(channel, m), generation, Len(hits), all, then)
    BY <1>7, <1>8, <2>1, <2>2, <2>3, MoreComing
  <2>. QED
    BY <1>1, <2>4 DEF all, then
<1>. QED
  BY <1>1, <1>6, <1>8, <1>9, WorkInv

\* A task ends when it has sent all its hits.
LEMMA FinishInv ==
    ASSUME SearchInv, Search!ObjectsAreListed, NEW g, Search!Finish(g)
    PROVE  SearchInv'
<1> DEFINE m == [type |-> "SearchDone", generation |-> g, hit |-> Objects[1]]
<1>1. /\ g \in DOMAIN tasks /\ tasks[g].visited = Len(Objects) /\ channel' = Append(channel, m)
      /\ tasks' = [h \in DOMAIN tasks \ {g} |-> tasks[h]]
      /\ UNCHANGED <<active, query, hits, cursor, generation, running, epoch>>
  BY DEF Search!Finish, Search!Alive, Search!End, Search!barVars, Search!Done
<1>2. WorkFits(g)
  BY <1>1 DEF WorkFits
<1>3. g \in Nat /\ g <= generation
  BY <1>1, TaskFacts
<1>4. /\ m \in Messages /\ m.generation = g /\ \A h : ~Mine(m, h)
  BY <1>3 DEF Messages, Mine
<1>. HIDE DEF m
<1>5. /\ channel' \in Seq(Messages) /\ channel \in Seq(Messages)
      /\ \A j \in 1..Len(channel') : channel'[j].generation <= generation
  BY <1>1, <1>3, <1>4, Posts
<1>6. ASSUME query # <<>>
      PROVE  Coming(channel', generation, Len(hits), AllOf(query), Sent(tasks', generation, query))
  <2> DEFINE all == AllOf(query)
             sent == Sent(tasks, generation, query)
             then == Sent(tasks', generation, query)
  <2>1. Coming(channel, generation, Len(hits), all, sent) /\ all \in Seq(ToSet(Objects))
    BY <1>1, <1>6, TaskFacts
  <2>2. then = sent
    <3>1. CASE generation = g
      <4>1. tasks[g].query = query
        BY <1>1, <1>6, <3>1, TaskFacts
      <4>2. sent = Len(SentOf(query, Len(Objects)))
        BY <1>1, <3>1 DEF Sent
      <4>3. then = Len(all)
        BY <1>1, <3>1 DEF Sent
      <4>. QED
        BY <4>2, <4>3 DEF AllOf
    <3>2. CASE generation # g
      BY <1>1, <3>2 DEF Sent
    <3>. QED
      BY <3>1, <3>2
  <2>3. MineDone(m, generation) => then = Len(all)
    <3>1. MineDone(m, generation) => generation = g
      BY <1>4 DEF MineDone
    <3>. QED
      BY <1>1, <3>1 DEF Sent
  <2>. HIDE DEF all, sent, then
  <2>4. Len(all) \in Nat /\ sent \in 0..Len(all)
    BY <1>5, <2>1, SentIsBounded
  <2>5. Coming(Append(channel, m), generation, Len(hits), all, then)
    BY <1>4, <1>5, <2>1, <2>2, <2>3, <2>4, MoreComing
  <2>. QED
    BY <1>1, <2>5 DEF all, then
<1>. QED
  BY <1>1, <1>2, <1>5, <1>6, WorkInv

\* Nothing happens.
LEMMA SearchStutters ==
    ASSUME SearchInv, Search!ObjectsAreListed, UNCHANGED Search!vars
    PROVE  SearchInv'
<1>1. UNCHANGED <<active, query, hits, cursor, generation, running, epoch, tasks, channel>>
  BY DEF Search!vars, Search!barVars
<1>2. Listing' <=> Listing
  BY <1>1, SameListing
<1>. QED
  BY <1>1, <1>2, SearchFacts, SearchFits

\* The invariant gives the property.
LEMMA ListedHits ==
    ASSUME SearchInv, Search!ObjectsAreListed
    PROVE  Search!HitsOfTheQuery
<1>1. ASSUME query # <<>>
      PROVE  /\ Search!IsPrefix(hits, Search!AllHits(query))
             /\ ~running => hits = Search!AllHits(query)
  <2> DEFINE all == AllOf(query)
  <2>1. Search!AllHits(query) = all
    BY <1>1, AllHitsAre
  <2>2. all \in Seq(ToSet(Objects)) /\ hits \in Seq(ToSet(Objects))
    <3>1. Len(Objects) \in Nat
      BY ObjectsSeq
    <3>. QED
      BY <3>1, SentGrows, SearchFacts
  <2>3. Begins(hits, all) /\ (~running => Len(hits) = Len(all))
    BY <1>1, SearchFacts DEF Listing
  <2>. HIDE DEF all
  <2>4. Search!IsPrefix(hits, all)
    <3>1. SubSeq(hits, 1, Len(hits)) = SubSeq(all, 1, Len(hits))
      BY <2>2, <2>3 DEF Begins
    <3>. QED
      BY <2>2, <2>3, <3>1 DEF Begins, Search!IsPrefix
  <2>5. ~running => hits = all
    BY <2>2, <2>3 DEF Begins
  <2>. QED
    BY <2>1, <2>4, <2>5
<1>2. Search!SearchTypes
  BY DEF SearchInv
<1>. QED
  BY <1>1, <1>2 DEF Search!HitsOfTheQuery

\* The promises of `SearchState`, as they are and as `TuiSearch` has them.
LEMMA SameSearch ==
    /\ ObjectsAreListed <=> Search!ObjectsAreListed
    /\ HitsOfTheQuery <=> Search!HitsOfTheQuery
<1>1. \A q : Search!AllHits(q) = AllHits(q)
  BY DEF Search!AllHits, AllHits, Search!Picks, Picks, Search!PicksUpto, PicksUpto
<1>2. ToSet(Objects) = Search!ToSet(Objects)
  BY DEF Search!ToSet, ToSet
<1>3. SearchTypes <=> Search!SearchTypes
  BY <1>2 DEF SearchTypes, Search!SearchTypes
<1>4. \A h, all : Search!IsPrefix(h, all) <=> IsPrefix(h, all)
  BY DEF Search!IsPrefix, IsPrefix
<1>5. ObjectsAreListed <=> Search!ObjectsAreListed
  BY <1>2 DEF ObjectsAreListed, Search!ObjectsAreListed
<1>. QED
  BY <1>1, <1>3, <1>4, <1>5 DEF HitsOfTheQuery, Search!HitsOfTheQuery

\* For any objects and queries and however many searches were restarted while
\* their tasks ran, the state is well typed, the list of hits holds a prefix of
\* exactly the matches of the typed query, in order, and all of them once the bar
\* stops saying it is searching (search.rs 85-99, lib.rs 475-505).
THEOREM TheHitsAreTheQuerys ==
    ASSUME ObjectsAreListed
    PROVE  Search!Spec => []HitsOfTheQuery
<1>. USE SameSearch
<1>1. Search!Init => SearchInv
  BY SearchInit
<1>2. SearchInv /\ [Search!Next]_Search!vars => SearchInv'
  <2>. SUFFICES ASSUME SearchInv, [Search!Next]_Search!vars PROVE SearchInv'
    OBVIOUS
  <2>1. CASE Search!Key
    BY <2>1, KeyInv
  <2>2. CASE Search!Receive
    BY <2>2, ReceiveInv
  <2>3. ASSUME NEW g \in Search!Generations, Search!Work(g) PROVE SearchInv'
    BY <2>3, StopInv, CheckInv, SendInv, FinishInv DEF Search!Work
  <2>4. CASE UNCHANGED Search!vars
    BY <2>4, SearchStutters
  <2>. QED
    BY <2>1, <2>2, <2>3, <2>4 DEF Search!Next
<1>3. SearchInv => HitsOfTheQuery
  BY ListedHits
<1>. QED
  BY <1>1, <1>2, <1>3, PTL DEF Search!Spec

-----------------------------------------------------------------------------
(* The explorer's tree, selection and inspector.                            *)
AllElements == ToSet(Physical) \cup ToSet(Logical)
Loads == {"NotLoaded", "Loading", "Loaded"}
RefsOrNone == Refs \cup {NoRef}

\* How far the elements of a section may be in the tree: as far as its running
\* pass has read, or all of it once it is loaded.
Reached(ld, ps, req) ==
    IF ps[req] # Explorer!NoPass THEN ps[req]
    ELSE IF ld[req] = "Loaded" THEN Len(Explorer!Elements(req)) ELSE 0

PassOK(ld, ps, req) ==
    /\ ps[req] = Explorer!NoPass \/ ps[req] \in 0..Len(Explorer!Elements(req))
    /\ ld[req] = "Loading" <=> ps[req] # Explorer!NoPass

PassesOK(ld, ps) ==
    /\ ld \in [Explorer!Passes -> Loads]
    /\ ps \in [Explorer!Passes -> Int]
    /\ \A req \in Explorer!Passes : PassOK(ld, ps, req)

\* Node n is one of the first `upto` elements of the pass.
Is(n, req, upto) == \E p \in 1..upto : p \in DOMAIN Explorer!Elements(req) /\ n = Explorer!Elements(req)[p]

TreeOK(ld, ps, ns) ==
    /\ PassesOK(ld, ps)
    /\ ns \in Seq(AllElements) /\ IsInjective(ns)
    /\ \A i \in 1..Len(ns) : \E req \in Explorer!Passes : Is(ns[i], req, Reached(ld, ps, req))

\* Every Contents folder waits for one task while it loads, and has its streams once.
FolderOK(i) ==
    /\ contents[i].tasks = IF contents[i].load = "Loading" THEN 1 ELSE 0
    /\ contents[i].streams = IF contents[i].load = "Loaded" THEN PageContents[i] ELSE <<>>

ContentsOK ==
    /\ contents \in [Explorer!PageIndexes -> Explorer!FolderStates]
    /\ \A i \in Explorer!PageIndexes : FolderOK(i)

Fetched(fs, g, n) ==
    \A f \in fs : /\ f \in [generation : Nat, r : RefsOrNone] /\ f.generation <= g
                  /\ f.generation = g => f.r = n.r

ShownOK(shown, n) ==
    \E what \in {"message", "dict", "loading", "object", "error"} : shown = [about |-> n, shows |-> what]

SelectionInv ==
    /\ selected \in Explorer!TreeNodes
    /\ history \in Seq(Explorer!TreeNodes) /\ Len(history) <= HistoryCap
    /\ pendingJump \in RefsOrNone
    /\ Explorer!JumpsWait
    /\ generation \in Nat
    /\ ShownOK(inspector, selected)
    /\ Fetched(fetches, generation, selected)

ExplorerInv == TreeOK(load, pass, nodes) /\ ContentsOK /\ SelectionInv

ElementsAre ==
    /\ \A req \in Explorer!Passes :
          /\ Len(Explorer!Elements(req)) \in Nat
          /\ DOMAIN Explorer!Elements(req) = 1..Len(Explorer!Elements(req))
          /\ Explorer!Elements(req) \in Seq(AllElements)
          /\ IsInjective(Explorer!Elements(req))
    /\ \A n \in AllElements : n.r \in RefsOrNone
    /\ \A q, r \in Explorer!Passes : \A i \in DOMAIN Explorer!Elements(q), j \in DOMAIN Explorer!Elements(r) :
          Explorer!Elements(q)[i] = Explorer!Elements(r)[j] => q = r

\* What the file gives: the two passes name different elements, each once.
LEMMA FileFacts ==
    ASSUME Explorer!FileIsListed
    PROVE  /\ ElementsAre
           /\ Physical \in Seq([kind : {"object", "trailer"}, r : RefsOrNone])
           /\ Logical \in Seq([kind : {"page"}, r : RefsOrNone, index : Nat])
<1> DEFINE P == [kind : {"object", "trailer"}, r : RefsOrNone]
           L == [kind : {"page"}, r : RefsOrNone, index : Nat]
<1>1. /\ Physical \in Seq(P) /\ Logical \in Seq(L) /\ IsInjective(Physical) /\ IsInjective(Logical)
  BY DEF Explorer!FileIsListed, Explorer!IsInjective, IsInjective, RefsOrNone
<1>2. /\ \A n \in P : n.r \in RefsOrNone /\ n.kind # "page"
      /\ \A n \in L : n.r \in RefsOrNone /\ n.kind = "page"
  OBVIOUS
<1>. HIDE DEF P, L
<1>3. /\ \A i \in DOMAIN Physical : Physical[i] \in P /\ Physical[i] \in ToSet(Physical)
      /\ \A i \in DOMAIN Logical : Logical[i] \in L /\ Logical[i] \in ToSet(Logical)
      /\ \A n \in ToSet(Physical) : n \in P
      /\ \A n \in ToSet(Logical) : n \in L
      /\ Len(Physical) \in Nat /\ DOMAIN Physical = 1..Len(Physical)
      /\ Len(Logical) \in Nat /\ DOMAIN Logical = 1..Len(Logical)
  BY <1>1 DEF ToSet
<1>4. Physical \in Seq(AllElements) /\ Logical \in Seq(AllElements)
  BY <1>1, <1>3 DEF AllElements
<1>5. \A n \in AllElements : n.r \in RefsOrNone
  BY <1>2, <1>3 DEF AllElements
<1>6. /\ Explorer!Elements("physical") = Physical /\ Explorer!Elements("logical") = Logical
      /\ Explorer!Passes = {"physical", "logical"}
  BY DEF Explorer!Elements, Explorer!Passes
<1>7. \A i \in DOMAIN Physical, j \in DOMAIN Logical : Physical[i] # Logical[j]
  BY <1>2, <1>3
<1>8. ElementsAre
  BY <1>1, <1>3, <1>4, <1>5, <1>6, <1>7 DEF ElementsAre
<1>. QED
  BY <1>1, <1>8 DEF P, L

\* A running pass has read at least as far as the tree holds its elements.
LEMMA ReachedIs ==
    ASSUME ElementsAre, NEW ld, NEW ps, PassesOK(ld, ps), NEW req \in Explorer!Passes
    PROVE  /\ Reached(ld, ps, req) \in 0..Len(Explorer!Elements(req))
           /\ ps[req] # Explorer!NoPass => /\ Reached(ld, ps, req) <= ps[req]
                                           /\ ps[req] \in 0..Len(Explorer!Elements(req))
<1>1. Len(Explorer!Elements(req)) \in Nat /\ PassOK(ld, ps, req)
      /\ ps[req] \in Int
  BY DEF ElementsAre, PassesOK
<1>2. CASE ps[req] = Explorer!NoPass
  BY <1>1, <1>2 DEF Reached
<1>3. CASE ps[req] # Explorer!NoPass
  <2>1. ps[req] \in 0..Len(Explorer!Elements(req)) /\ ld[req] = "Loading"
    BY <1>1, <1>3 DEF PassOK
  <2>. QED
    BY <1>1, <1>3, <2>1 DEF Reached
<1>. QED
  BY <1>2, <1>3

\* What changes of one pass.
PassFits(l, p, req) ==
    /\ l \in Loads /\ p \in Int
    /\ p = Explorer!NoPass \/ p \in 0..Len(Explorer!Elements(req))
    /\ l = "Loading" <=> p # Explorer!NoPass

Becomes(a, b, ld, ps, req, l, p) == a = [ld EXCEPT ![req] = l] /\ b = [ps EXCEPT ![req] = p]

LEMMA OtherPass ==
    ASSUME NEW ld, NEW ps, PassesOK(ld, ps), NEW req \in Explorer!Passes,
           NEW l, NEW p, PassFits(l, p, req), NEW a, NEW b, Becomes(a, b, ld, ps, req, l, p)
    PROVE  /\ PassesOK(a, b) /\ a[req] = l /\ b[req] = p
           /\ \A q \in Explorer!Passes \ {req} :
                 a[q] = ld[q] /\ b[q] = ps[q] /\ Reached(a, b, q) = Reached(ld, ps, q)
<1>1. /\ a \in [Explorer!Passes -> Loads] /\ b \in [Explorer!Passes -> Int]
      /\ a[req] = l /\ b[req] = p
      /\ \A q \in Explorer!Passes \ {req} : a[q] = ld[q] /\ b[q] = ps[q]
  BY DEF PassesOK, PassFits, Becomes
<1>2. \A q \in Explorer!Passes : PassOK(a, b, q)
  BY <1>1 DEF PassesOK, PassOK, PassFits
<1>3. PassesOK(a, b)
  BY <1>1, <1>2 DEF PassesOK
<1>4. \A q \in Explorer!Passes \ {req} : Reached(a, b, q) = Reached(ld, ps, q)
  BY <1>1 DEF Reached
<1>. QED
  BY <1>1, <1>3, <1>4

\* A section nothing of which is in the tree starts its pass.
LEMMA StartsOK ==
    ASSUME ElementsAre, NEW ld, NEW ps, NEW ns, TreeOK(ld, ps, ns), NEW req \in Explorer!Passes,
           ld[req] = "NotLoaded"
    PROVE  TreeOK([ld EXCEPT ![req] = "Loading"], [ps EXCEPT ![req] = Explorer!NewPass], ns)
<1> DEFINE a == [ld EXCEPT ![req] = "Loading"]
           b == [ps EXCEPT ![req] = Explorer!NewPass]
<1>1. PassesOK(ld, ps) /\ Len(Explorer!Elements(req)) \in Nat
  BY DEF TreeOK, ElementsAre
<1>2. Explorer!NewPass = 0 /\ Explorer!NewPass # Explorer!NoPass
  BY DEF Explorer!NewPass, Explorer!NoPass
<1>3. /\ PassesOK(a, b) /\ a[req] = "Loading" /\ b[req] = Explorer!NewPass
      /\ \A q \in Explorer!Passes \ {req} : Reached(a, b, q) = Reached(ld, ps, q)
  <2>1. PassFits("Loading", Explorer!NewPass, req)
    BY <1>1, <1>2 DEF Loads, PassFits
  <2>3. Becomes(a, b, ld, ps, req, "Loading", Explorer!NewPass)
    BY DEF Becomes
  <2>. HIDE DEF a, b
  <2>. QED
    BY <1>1, <2>1, <2>3, OtherPass
<1>4. Reached(ld, ps, req) = 0 /\ Reached(a, b, req) = 0
  <2>1. PassOK(ld, ps, req)
    BY <1>1 DEF PassesOK
  <2>2. ps[req] = Explorer!NoPass
    BY <2>1 DEF PassOK
  <2>. QED
    BY <1>2, <1>3, <2>2 DEF Reached
<1>. HIDE DEF a, b
<1>5. \A q \in Explorer!Passes : Reached(a, b, q) = Reached(ld, ps, q)
  BY <1>3, <1>4
<1>6. TreeOK(a, b, ns)
  BY <1>3, <1>5 DEF TreeOK
<1>. QED
  BY <1>6 DEF a, b

\* An element among the first few is among more of them.
LEMMA IsMore ==
    ASSUME NEW n, NEW req, NEW j \in Nat, NEW k \in Nat, j <= k, Is(n, req, j)
    PROVE  Is(n, req, k)
BY DEF Is

\* More nodes, and as many streams or more, make a larger tree.
LEMMA TreeGrows ==
    ASSUME \A i \in DOMAIN nodes : i \in DOMAIN nodes' /\ nodes'[i] = nodes[i], UNCHANGED contents
    PROVE  Explorer!TreeNodes \subseteq Explorer!TreeNodes'
<1>1. {nodes[i] : i \in DOMAIN nodes} \subseteq {nodes'[i] : i \in DOMAIN nodes'}
  OBVIOUS
<1>2. {Explorer!ContentsNode(nodes[j].index) : j \in {k \in DOMAIN nodes : nodes[k].kind = "page"}}
      \subseteq {Explorer!ContentsNode(nodes'[j].index) : j \in {k \in DOMAIN nodes' : nodes'[k].kind = "page"}}
  OBVIOUS
<1>3. UNION {{Explorer!StreamNode(i, k) : k \in DOMAIN contents[i].streams} : i \in Explorer!PageIndexes}
      = UNION {{Explorer!StreamNode(i, k)' : k \in DOMAIN contents'[i].streams} : i \in Explorer!PageIndexes}
  BY DEF Explorer!StreamNode
<1>. QED
  BY <1>1, <1>2, <1>3 DEF Explorer!TreeNodes, Explorer!ToSet, Explorer!ContentsNode, Explorer!StreamNode

\* A pass reads on, and what it could read joins the tree.
LEMMA AppliesOK ==
    ASSUME ElementsAre, TreeOK(load, pass, nodes), NEW req \in Explorer!Passes, NEW until, NEW ok,
           Explorer!Yields(req, until, ok), Explorer!Apply(req, ok), UNCHANGED contents
    PROVE  /\ nodes' \in Seq(AllElements) /\ IsInjective(nodes')
           /\ until \in 0..Len(Explorer!Elements(req))
           /\ \A i \in 1..Len(nodes') :
                 \/ Is(nodes'[i], req, until)
                 \/ \E q \in Explorer!Passes \ {req} : Is(nodes'[i], q, Reached(load, pass, q))
           /\ Explorer!TreeNodes \subseteq Explorer!TreeNodes'
<1> DEFINE s == Explorer!Elements(req)
           at == {i \in ok : s[i].kind # "trailer"}
           new == Picks(s, at)
           was == pass[req]
<1>1. /\ PassesOK(load, pass) /\ nodes \in Seq(AllElements) /\ IsInjective(nodes)
      /\ \A i \in 1..Len(nodes) : \E q \in Explorer!Passes : Is(nodes[i], q, Reached(load, pass, q))
  BY DEF TreeOK
<1>2. /\ s \in Seq(AllElements) /\ IsInjective(s) /\ Len(s) \in Nat /\ DOMAIN s = 1..Len(s)
  BY DEF ElementsAre
<1>3. /\ was \in 0..Len(s) /\ Reached(load, pass, req) <= was /\ Reached(load, pass, req) \in Nat
      /\ until \in was..Len(s) /\ ok \subseteq (was + 1)..until
  <2>1. until \in was..Len(s) /\ ok \subseteq (was + 1)..until /\ pass[req] # Explorer!NoPass
    BY DEF Explorer!Yields
  <2>. QED
    BY <1>1, <2>1, ReachedIs
<1>4. nodes' = nodes \o new
  BY DEF Explorer!Apply, Explorer!Picks, Explorer!PicksUpto, Picks, PicksUpto
<1>. HIDE DEF s, was
<1>5. at \subseteq (was + 1)..until
  BY <1>3
<1>6. /\ new \in Seq(AllElements) /\ IsInjective(new) /\ AreOf(new, s, at, Len(s))
  <2>1. Len(s) \in 0..Len(s)
    BY <1>2
  <2>. HIDE DEF at
  <2>. QED
    BY <1>2, <2>1, PicksSeq, PicksOnce, PicksAre DEF Picks
<1>. HIDE DEF new, at
<1>7. \A i \in 1..Len(new) : \E p \in (was + 1)..until : p \in 1..Len(s) /\ s[p] = new[i]
  <2>1. \A i \in 1..Len(new) : \E p \in 1..Len(s) : p \in at /\ s[p] = new[i]
    BY <1>6 DEF AreOf
  <2>. QED
    BY <1>5, <2>1
<1>8. /\ Len(new) \in Nat /\ Len(nodes) \in Nat /\ Len(nodes') = Len(nodes) + Len(new)
      /\ \A i \in 1..Len(nodes) : nodes'[i] = nodes[i]
      /\ \A i \in 1..Len(nodes') : i \notin 1..Len(nodes) =>
            i - Len(nodes) \in 1..Len(new) /\ nodes'[i] = new[i - Len(nodes)]
      /\ nodes' \in Seq(AllElements)
  BY <1>1, <1>4, <1>6
<1>9. ASSUME NEW i \in 1..Len(nodes), NEW j \in 1..Len(new) PROVE nodes[i] # new[j]
  <2>1. PICK q \in Explorer!Passes : Is(nodes[i], q, Reached(load, pass, q))
    BY <1>1
  <2>2. PICK p \in 1..Reached(load, pass, q) :
           p \in DOMAIN Explorer!Elements(q) /\ nodes[i] = Explorer!Elements(q)[p]
    BY <2>1 DEF Is
  <2>3. PICK r \in (was + 1)..until : r \in 1..Len(s) /\ s[r] = new[j]
    BY <1>7
  <2>4. CASE q = req
    <3>1. p \in DOMAIN s /\ nodes[i] = s[p] /\ p <= was
      BY <1>3, <2>2, <2>4 DEF s
    <3>2. r \in DOMAIN s /\ r # p
      BY <1>2, <1>3, <2>3, <3>1
    <3>. QED
      BY <1>2, <2>3, <3>1, <3>2 DEF IsInjective
  <2>5. CASE q # req
    <3>1. r \in DOMAIN Explorer!Elements(req) /\ Explorer!Elements(req)[r] = new[j]
      BY <1>2, <2>3 DEF s
    <3>. QED
      BY <2>2, <2>5, <3>1 DEF ElementsAre
  <2>. QED
    BY <2>4, <2>5
<1>10. IsInjective(nodes')
  <2>1. DOMAIN nodes' = 1..Len(nodes') /\ DOMAIN nodes = 1..Len(nodes) /\ DOMAIN new = 1..Len(new)
    BY <1>1, <1>6, <1>8
  <2>2. ASSUME NEW i \in 1..Len(nodes'), NEW j \in 1..Len(nodes'), nodes'[i] = nodes'[j] PROVE i = j
    <3>1. CASE i \in 1..Len(nodes) /\ j \in 1..Len(nodes)
      BY <1>1, <1>8, <2>1, <2>2, <3>1 DEF IsInjective
    <3>2. CASE i \notin 1..Len(nodes) /\ j \notin 1..Len(nodes)
      <4>1. i - Len(nodes) = j - Len(nodes)
        BY <1>6, <1>8, <2>1, <2>2, <3>2 DEF IsInjective
      <4>. QED
        BY <1>8, <4>1
    <3>3. CASE i \in 1..Len(nodes) /\ j \notin 1..Len(nodes)
      BY <1>8, <1>9, <2>2, <3>3
    <3>4. CASE i \notin 1..Len(nodes) /\ j \in 1..Len(nodes)
      BY <1>8, <1>9, <2>2, <3>4
    <3>. QED
      BY <3>1, <3>2, <3>3, <3>4
  <2>. QED
    BY <2>1, <2>2 DEF IsInjective
<1>11. ASSUME NEW i \in 1..Len(nodes')
       PROVE  \/ Is(nodes'[i], req, until)
              \/ \E q \in Explorer!Passes \ {req} : Is(nodes'[i], q, Reached(load, pass, q))
  <2>1. CASE i \in 1..Len(nodes)
    <3>1. PICK q \in Explorer!Passes : Is(nodes'[i], q, Reached(load, pass, q))
      BY <1>1, <1>8, <2>1
    <3>2. CASE q = req
      <4>1. Reached(load, pass, req) <= until /\ until \in Nat
        BY <1>2, <1>3
      <4>. QED
        BY <1>3, <3>1, <3>2, <4>1, IsMore
    <3>. QED
      BY <3>1, <3>2
  <2>2. CASE i \notin 1..Len(nodes)
    <3>1. PICK p \in (was + 1)..until : p \in 1..Len(s) /\ s[p] = nodes'[i]
      BY <1>7, <1>8, <2>2
    <3>2. p \in 1..until /\ p \in DOMAIN s
      BY <1>2, <1>3, <3>1
    <3>. QED
      BY <3>1, <3>2 DEF Is, s
  <2>. QED
    BY <2>1, <2>2
<1>12. Explorer!TreeNodes \subseteq Explorer!TreeNodes'
  <2>1. DOMAIN nodes = 1..Len(nodes) /\ DOMAIN nodes' = 1..Len(nodes')
    BY <1>1, <1>8
  <2>2. \A i \in DOMAIN nodes : i \in DOMAIN nodes' /\ nodes'[i] = nodes[i]
    BY <1>8, <2>1
  <2>. QED
    BY <2>2, TreeGrows
<1>. QED
  BY <1>2, <1>3, <1>8, <1>10, <1>11, <1>12 DEF s

\* A node of the tree names an object the user can follow, or none.
LEMMA NodesAre ==
    ASSUME ElementsAre, nodes \in Seq(AllElements), ContentsOK
    PROVE  /\ Explorer!Root \in Explorer!TreeNodes
           /\ \A n \in Explorer!TreeNodes : n.r \in RefsOrNone
<1>1. \A n \in Explorer!Folders : n.r = NoRef
  BY DEF Explorer!Folders, Explorer!Root, Explorer!TrailerNode, Explorer!Folder
<1>2. \A n \in Explorer!ToSet(nodes) : n.r \in RefsOrNone
  BY DEF ElementsAre, Explorer!ToSet
<1>3. \A i : Explorer!ContentsNode(i).r = NoRef
  BY DEF Explorer!ContentsNode
<1>4. ASSUME NEW i \in Explorer!PageIndexes, NEW k \in DOMAIN contents[i].streams
      PROVE  Explorer!StreamNode(i, k).r \in Refs
  <2>1. contents[i].streams \in Seq(Refs)
    BY DEF ContentsOK, Explorer!FolderStates
  <2>. QED
    BY <2>1 DEF Explorer!StreamNode
<1>5. \A n \in Explorer!TreeNodes : n.r \in RefsOrNone
  BY <1>1, <1>2, <1>3, <1>4 DEF Explorer!TreeNodes, RefsOrNone
<1>. QED
  BY <1>5 DEF Explorer!TreeNodes, Explorer!Folders

\* A selection, and what it asks for.  `ahead` is empty or the node selected.
LEMMA SelectsOK ==
    ASSUME ElementsAre, NEW n, n.r \in RefsOrNone, NEW ahead \in {<<>>, <<n>>},
           NEW ld, NEW ps, NEW ns, NEW known, TreeOK(ld, ps, ns), generation \in Nat,
           \A f \in fetches : f \in [generation : Nat, r : RefsOrNone] /\ f.generation <= generation,
           Explorer!OnSelect(n, ahead, ld, ps, ns, known)
    PROVE  /\ TreeOK(load', pass', ns) /\ generation' \in Nat
           /\ ShownOK(inspector', n) /\ Fetched(fetches', generation', n)
           /\ \/ load'["physical"] = ld["physical"]
              \/ ld["physical"] = "NotLoaded" /\ load'["physical"] = "Loading"
<1> DEFINE all == Append(ahead, n)
           asked == {i \in 1..(Len(ahead) + 1) : all[i].kind \in Explorer!Viewed}
<1>1. /\ generation' = generation + 1 + Len(ahead)
      /\ fetches' = fetches \cup {[generation |-> generation + i, r |-> all[i].r] : i \in asked}
  BY DEF Explorer!OnSelect
<1>2. Len(ahead) \in Nat /\ \A i \in 1..(Len(ahead) + 1) : all[i] = n
  <2>1. CASE ahead = <<>>
    BY <2>1
  <2>2. CASE ahead = <<n>>
    BY <2>2
  <2>. QED
    BY <2>1, <2>2
<1>3. \A i \in asked : i \in 1..(Len(ahead) + 1) /\ all[i] = n
  BY <1>2
<1>. HIDE DEF all, asked
<1>4. generation' \in Nat
  BY <1>1, <1>2
<1>5. Fetched(fetches', generation', n)
  <2>1. ASSUME NEW f \in fetches'
        PROVE  /\ f \in [generation : Nat, r : RefsOrNone] /\ f.generation <= generation'
               /\ f.generation = generation' => f.r = n.r
    <3>1. CASE f \in fetches
      <4>1. f \in [generation : Nat, r : RefsOrNone] /\ f.generation <= generation
        BY <3>1
      <4>. QED
        BY <1>1, <1>2, <4>1
    <3>2. CASE f \notin fetches
      <4>1. PICK i \in asked : f = [generation |-> generation + i, r |-> all[i].r]
        BY <1>1, <3>2
      <4>2. i \in 1..(Len(ahead) + 1) /\ all[i] = n
        BY <1>3
      <4>3. f.r = n.r /\ f.generation = generation + i /\ f = [generation |-> generation + i, r |-> n.r]
        BY <4>1, <4>2
      <4>4. generation + i \in Nat /\ generation + i <= generation'
        BY <1>1, <1>2, <4>2
      <4>. QED
        BY <4>3, <4>4
    <3>. QED
      BY <3>1, <3>2
  <2>. QED
    BY <2>1 DEF Fetched
<1>6. ShownOK(inspector', n)
  <2>1. inspector' = [about |-> n, shows |-> Explorer!Shown(n, ld, known)]
    BY DEF Explorer!OnSelect, Explorer!Showing
  <2>2. Explorer!Shown(n, ld, known) \in {"message", "dict", "loading", "object", "error"}
    BY DEF Explorer!Shown
  <2>. QED
    BY <2>1, <2>2 DEF ShownOK
<1>7. /\ TreeOK(load', pass', ns)
      /\ \/ load'["physical"] = ld["physical"]
         \/ ld["physical"] = "NotLoaded" /\ load'["physical"] = "Loading"
  <2>1. "physical" \in Explorer!Passes
    BY DEF Explorer!Passes
  <2>2. CASE load' = ld /\ pass' = ps
    BY <2>2
  <2>3. CASE ld["physical"] = "NotLoaded" /\ Explorer!StartPass(ld, ps, "physical")
    <3>1. /\ load' = [ld EXCEPT !["physical"] = "Loading"]
          /\ pass' = [ps EXCEPT !["physical"] = Explorer!NewPass]
      BY <2>3 DEF Explorer!StartPass
    <3>2. TreeOK(load', pass', ns)
      BY <2>1, <2>3, <3>1, StartsOK
    <3>3. load'["physical"] = "Loading"
      <4>1. ld \in [Explorer!Passes -> Loads]
        BY DEF TreeOK, PassesOK
      <4>. QED
        BY <2>1, <3>1, <4>1
    <3>. QED
      BY <2>3, <3>2, <3>3
  <2>. QED
    BY <2>2, <2>3 DEF Explorer!OnSelect
<1>. QED
  BY <1>4, <1>5, <1>6, <1>7

\* What the invariant of the selection says, and what establishes it.
LEMMA SelectionFacts ==
    ASSUME SelectionInv
    PROVE  /\ selected \in Explorer!TreeNodes
           /\ history \in Seq(Explorer!TreeNodes) /\ Len(history) <= HistoryCap
           /\ pendingJump \in RefsOrNone
           /\ pendingJump # NoRef => load["physical"] = "Loading"
           /\ generation \in Nat
           /\ ShownOK(inspector, selected)
           /\ Fetched(fetches, generation, selected)
           /\ \A f \in fetches : f \in [generation : Nat, r : RefsOrNone] /\ f.generation <= generation
BY DEF SelectionInv, Explorer!JumpsWait, Fetched

\* What establishes the invariant of the selection.
LEMMA SelectionFits ==
    ASSUME selected' \in Explorer!TreeNodes',
           history' \in Seq(Explorer!TreeNodes'), Len(history') <= HistoryCap,
           pendingJump' \in RefsOrNone,
           pendingJump' # NoRef => load'["physical"] = "Loading",
           generation' \in Nat, ShownOK(inspector', selected'),
           Fetched(fetches', generation', selected')
    PROVE  SelectionInv'
BY DEF SelectionInv, Explorer!JumpsWait

\* A sequence over a larger set.
LEMMA Widens ==
    ASSUME NEW S, NEW T, S \subseteq T, NEW s \in Seq(S)
    PROVE  s \in Seq(T)
OBVIOUS

\* The newest selections are remembered.
LEMMA RemembersOK ==
    ASSUME NEW S, NEW h \in Seq(S), NEW n \in S, Len(h) <= HistoryCap, HistoryCap \in Nat \ {0}
    PROVE  /\ Explorer!Remember(h, n) \in Seq(S)
           /\ Len(Explorer!Remember(h, n)) <= HistoryCap
<1> DEFINE all == Append(h, n)
<1>1. all \in Seq(S) /\ Len(all) = Len(h) + 1 /\ Len(h) \in Nat /\ all # <<>>
  OBVIOUS
<1>2. Explorer!Remember(h, n) = IF Len(all) > HistoryCap THEN Tail(all) ELSE all
  BY DEF Explorer!Remember
<1>. HIDE DEF all
<1>3. Tail(all) \in Seq(S) /\ Len(Tail(all)) = Len(all) - 1
  BY <1>1
<1>. QED
  BY <1>1, <1>2, <1>3

\* The nodes depend on the tree alone.
LEMMA SameNodes ==
    ASSUME UNCHANGED <<nodes, contents>>
    PROVE  Explorer!TreeNodes' = Explorer!TreeNodes
BY DEF Explorer!TreeNodes, Explorer!StreamNode

\* So do the Contents folders.
LEMMA SameFolders ==
    ASSUME ContentsOK, UNCHANGED contents
    PROVE  ContentsOK'
BY DEF ContentsOK, FolderOK

\* A selection in an unchanged tree.
LEMMA SelectionStep ==
    ASSUME ExplorerInv, ElementsAre, selected' \in Explorer!TreeNodes,
           history' \in Seq(Explorer!TreeNodes), Len(history') <= HistoryCap,
           UNCHANGED <<nodes, contents, pendingJump>>,
           Explorer!OnSelect(selected', <<>>, load, pass, nodes, trailer)
    PROVE  ExplorerInv'
<1>1. TreeOK(load, pass, nodes) /\ ContentsOK /\ SelectionInv
  BY DEF ExplorerInv
<1>2. selected'.r \in RefsOrNone
  BY <1>1, NodesAre DEF TreeOK
<1>3. /\ TreeOK(load', pass', nodes) /\ generation' \in Nat
      /\ ShownOK(inspector', selected') /\ Fetched(fetches', generation', selected')
      /\ \/ load'["physical"] = load["physical"]
         \/ load["physical"] = "NotLoaded" /\ load'["physical"] = "Loading"
  <2> DEFINE n == selected'
  <2>1. /\ n.r \in RefsOrNone /\ generation \in Nat
        /\ \A f \in fetches : f \in [generation : Nat, r : RefsOrNone] /\ f.generation <= generation
        /\ Explorer!OnSelect(n, <<>>, load, pass, nodes, trailer)
    BY <1>1, <1>2, SelectionFacts
  <2>. HIDE DEF n
  <2>2. /\ TreeOK(load', pass', nodes) /\ generation' \in Nat
        /\ ShownOK(inspector', n) /\ Fetched(fetches', generation', n)
        /\ \/ load'["physical"] = load["physical"]
           \/ load["physical"] = "NotLoaded" /\ load'["physical"] = "Loading"
    BY <1>1, <2>1, SelectsOK
  <2>. QED
    BY <2>2 DEF n
<1>4. Explorer!TreeNodes' = Explorer!TreeNodes
  BY SameNodes
<1>5. pendingJump' # NoRef => load'["physical"] = "Loading"
  BY <1>1, <1>3, SelectionFacts
<1>6. SelectionInv'
  BY <1>1, <1>3, <1>4, <1>5, SelectionFacts, SelectionFits
<1>. QED
  BY <1>1, <1>3, <1>6, SameFolders DEF ExplorerInv

\* A step that leaves the selection alone.
LEMMA TreeStep ==
    ASSUME ExplorerInv, ElementsAre, TreeOK(load', pass', nodes'), ContentsOK',
           UNCHANGED <<selected, history, generation, inspector, fetches>>,
           Explorer!TreeNodes \subseteq Explorer!TreeNodes',
           pendingJump' \in RefsOrNone,
           pendingJump' # NoRef => load'["physical"] = "Loading"
    PROVE  ExplorerInv'
<1>1. SelectionInv
  BY DEF ExplorerInv
<1>2. selected' \in Explorer!TreeNodes' /\ history' \in Seq(Explorer!TreeNodes')
  BY <1>1, SelectionFacts, Widens
<1>3. SelectionInv'
  BY <1>1, <1>2, SelectionFacts, SelectionFits
<1>. QED
  BY <1>3 DEF ExplorerInv

\* An object found in the tree is one of its nodes.
LEMMA FoundIsANode ==
    ASSUME NEW r, Explorer!Found(nodes, r)
    PROVE  Explorer!ObjectNode(r) \in Explorer!TreeNodes
BY DEF Explorer!Found, Explorer!TreeNodes, Explorer!ToSet

\* Moving the selection.
LEMMA MoveInv ==
    ASSUME ExplorerInv, ElementsAre, NEW n, Explorer!Move(n)
    PROVE  ExplorerInv'
<1>1. /\ selected' = n /\ n \in Explorer!TreeNodes /\ UNCHANGED <<nodes, contents, history, pendingJump>>
      /\ Explorer!OnSelect(selected', <<>>, load, pass, nodes, trailer)
  BY DEF Explorer!Move
<1>2. history' \in Seq(Explorer!TreeNodes) /\ Len(history') <= HistoryCap
  BY <1>1, SelectionFacts DEF ExplorerInv
<1>. QED
  BY <1>1, <1>2, SelectionStep

\* Expanding a section.
LEMMA ExpandInv ==
    ASSUME ExplorerInv, ElementsAre, NEW req \in Explorer!Passes, Explorer!Expand(req)
    PROVE  ExplorerInv'
<1>0. load \in [Explorer!Passes -> Loads]
  BY DEF ExplorerInv, TreeOK, PassesOK
<1>1. /\ load[req] = "NotLoaded" /\ Explorer!StartPass(load, pass, req)
      /\ UNCHANGED <<nodes, contents, selected, history, pendingJump, generation, inspector, fetches>>
  BY <1>0 DEF Explorer!Expand, Explorer!selectionVars, Loads
<1>2. /\ load' = [load EXCEPT ![req] = "Loading"]
      /\ pass' = [pass EXCEPT ![req] = Explorer!NewPass]
  BY <1>1 DEF Explorer!StartPass
<1>3. TreeOK(load', pass', nodes')
  BY <1>1, <1>2, StartsOK DEF ExplorerInv
<1>4. pendingJump' # NoRef => load'["physical"] = "Loading"
  <2>1. load \in [Explorer!Passes -> Loads] /\ "physical" \in Explorer!Passes
    BY DEF ExplorerInv, TreeOK, PassesOK, Explorer!Passes
  <2>2. load'["physical"] = load["physical"] \/ load'["physical"] = "Loading"
    BY <1>2, <2>1
  <2>. QED
    BY <1>1, <2>2, SelectionFacts DEF ExplorerInv
<1>5. pendingJump' \in RefsOrNone
  BY <1>1, SelectionFacts DEF ExplorerInv
<1>6. ContentsOK'
  BY <1>1, SameFolders DEF ExplorerInv
<1>. QED
  BY <1>1, <1>3, <1>4, <1>5, <1>6, SameNodes, TreeStep

\* Jumping now or later.
LEMMA JumpInv ==
    ASSUME ExplorerInv, ElementsAre, HistoryCap \in Nat \ {0}, NEW r \in Refs, Explorer!Jump(r)
    PROVE  ExplorerInv'
<1>1. CASE Explorer!JumpNow(r)
  <2>1. /\ selected' = Explorer!ObjectNode(r) /\ Explorer!Found(nodes, r)
        /\ history' = Explorer!Remember(history, selected)
        /\ UNCHANGED <<nodes, contents, pendingJump>>
        /\ Explorer!OnSelect(selected', <<>>, load, pass, nodes, trailer)
    BY <1>1 DEF Explorer!JumpNow
  <2>2. history' \in Seq(Explorer!TreeNodes) /\ Len(history') <= HistoryCap
    BY <2>1, SelectionFacts, RemembersOK DEF ExplorerInv
  <2>. QED
    BY <2>1, <2>2, FoundIsANode, SelectionStep
<1>2. CASE Explorer!JumpLater(r)
  <2>1. /\ UNCHANGED <<nodes, contents, selected, history, generation, inspector, fetches>>
        /\ IF load["physical"] \in {"NotLoaded", "Loading"}
           THEN pendingJump' = r ELSE UNCHANGED pendingJump
    BY <1>2 DEF Explorer!JumpLater
  <2>2. load \in [Explorer!Passes -> Loads] /\ "physical" \in Explorer!Passes
    BY DEF ExplorerInv, TreeOK, PassesOK, Explorer!Passes
  <2>5. ContentsOK'
    BY <2>1, SameFolders DEF ExplorerInv
  <2>3. CASE load["physical"] = "NotLoaded"
    <3>1. /\ load' = [load EXCEPT !["physical"] = "Loading"]
          /\ pass' = [pass EXCEPT !["physical"] = Explorer!NewPass]
      BY <1>2, <2>3 DEF Explorer!JumpLater, Explorer!StartPass
    <3>2. TreeOK(load', pass', nodes')
      BY <2>1, <2>2, <2>3, <3>1, StartsOK DEF ExplorerInv
    <3>3. load'["physical"] = "Loading" /\ pendingJump' \in RefsOrNone
      BY <2>1, <2>2, <2>3, <3>1 DEF RefsOrNone
    <3>. QED
      BY <2>1, <2>5, <3>2, <3>3, SameNodes, TreeStep
  <2>4. CASE load["physical"] # "NotLoaded"
    <3>1. UNCHANGED <<load, pass>>
      BY <1>2, <2>4 DEF Explorer!JumpLater
    <3>2. TreeOK(load', pass', nodes')
      BY <2>1, <3>1 DEF ExplorerInv
    <3>3. /\ pendingJump' \in RefsOrNone
          /\ pendingJump' # NoRef => load'["physical"] = "Loading"
      BY <2>1, <2>2, <2>4, <3>1, SelectionFacts DEF ExplorerInv, RefsOrNone, Loads
    <3>. QED
      BY <2>1, <2>5, <3>2, <3>3, SameNodes, TreeStep
  <2>. QED
    BY <2>3, <2>4
<1>. QED
  BY <1>1, <1>2 DEF Explorer!Jump

\* Going back.
LEMMA BackInv ==
    ASSUME ExplorerInv, ElementsAre, HistoryCap \in Nat \ {0}, Explorer!Back
    PROVE  ExplorerInv'
<1>1. /\ history # <<>> /\ selected' = Explorer!Last(history) /\ history' = Explorer!Front(history)
      /\ UNCHANGED <<nodes, contents, pendingJump>>
  BY DEF Explorer!Back
<1>2. history \in Seq(Explorer!TreeNodes) /\ Len(history) <= HistoryCap
      /\ SelectionInv /\ ContentsOK
  BY SelectionFacts DEF ExplorerInv
<1>3. /\ selected' \in Explorer!TreeNodes /\ history' \in Seq(Explorer!TreeNodes)
      /\ Len(history') <= HistoryCap
  <2>1. Len(history) \in Nat \ {0} /\ Len(history) \in 1..Len(history)
    BY <1>1, <1>2
  <2>2. history[Len(history)] \in Explorer!TreeNodes
    BY <1>2, <2>1
  <2>3. Len(history) - 1 \in Int /\ 1 \in Int /\ \A i \in 1..(Len(history) - 1) : history[i] \in Explorer!TreeNodes
    BY <1>2, <2>1
  <2>4. /\ SubSeq(history, 1, Len(history) - 1) \in Seq(Explorer!TreeNodes)
        /\ Len(SubSeq(history, 1, Len(history) - 1)) = Len(history) - 1
    <3> DEFINE h == history
               m == Len(history) - 1
    <3>1. m \in Int /\ 1 \in Int /\ \A i \in 1..m : h[i] \in Explorer!TreeNodes
      BY <2>3
    <3>2. IF 1 <= m THEN m - 1 + 1 = m ELSE m = 0
      BY <2>1
    <3>. HIDE DEF h, m
    <3>3. SubSeq(h, 1, m) \in Seq(Explorer!TreeNodes) /\ Len(SubSeq(h, 1, m)) = IF 1 <= m THEN m - 1 + 1 ELSE 0
      BY <3>1, SubSeqProperties
    <3>4. Len(SubSeq(h, 1, m)) = m
      BY <3>2, <3>3
    <3>. QED
      BY <3>3, <3>4 DEF h, m
  <2>5. Len(history) - 1 <= HistoryCap
    BY <1>2, <2>1
  <2>. QED
    BY <1>1, <2>2, <2>4, <2>5 DEF Explorer!Last, Explorer!Front
<1>4. CASE selected' = selected
  <2>1. UNCHANGED <<load, pass, generation, inspector, fetches>>
    BY <1>4 DEF Explorer!Back
  <2>2. SelectionInv'
    BY <1>1, <1>2, <1>3, <1>4, <2>1, SameNodes, SelectionFacts, SelectionFits
  <2>. QED
    BY <1>1, <1>2, <2>1, <2>2, SameFolders DEF ExplorerInv
<1>5. CASE selected' # selected
  <2>1. Explorer!OnSelect(selected', <<>>, load, pass, nodes, trailer)
    BY <1>5 DEF Explorer!Back
  <2>. QED
    BY <1>1, <1>3, <2>1, SelectionStep
<1>. QED
  BY <1>4, <1>5

\* A pass that ends or goes on after a batch leaves the tree in order.
LEMMA PassMoves ==
    ASSUME ElementsAre, TreeOK(load, pass, nodes), NEW req \in Explorer!Passes, NEW until, NEW ok,
           Explorer!Yields(req, until, ok), Explorer!Apply(req, ok), UNCHANGED contents,
           NEW l, NEW p, PassFits(l, p, req), NEW a, NEW b, Becomes(a, b, load, pass, req, l, p),
           until <= Reached(a, b, req)
    PROVE  TreeOK(a, b, nodes')
<1>1. PassesOK(load, pass)
  BY DEF TreeOK
<1>2. /\ PassesOK(a, b)
      /\ \A q \in Explorer!Passes \ {req} : Reached(a, b, q) = Reached(load, pass, q)
  BY <1>1, OtherPass
<1>3. /\ nodes' \in Seq(AllElements) /\ IsInjective(nodes')
      /\ until \in Nat
      /\ \A i \in 1..Len(nodes') :
            \/ Is(nodes'[i], req, until)
            \/ \E q \in Explorer!Passes \ {req} : Is(nodes'[i], q, Reached(load, pass, q))
  BY AppliesOK
<1>4. Reached(a, b, req) \in Nat
  BY <1>2, ReachedIs
<1>5. \A i \in 1..Len(nodes') : \E q \in Explorer!Passes : Is(nodes'[i], q, Reached(a, b, q))
  <2>1. ASSUME NEW i \in 1..Len(nodes') PROVE \E q \in Explorer!Passes : Is(nodes'[i], q, Reached(a, b, q))
    <3>1. CASE Is(nodes'[i], req, until)
      BY <1>3, <1>4, <3>1, IsMore
    <3>2. CASE \E q \in Explorer!Passes \ {req} : Is(nodes'[i], q, Reached(load, pass, q))
      BY <1>2, <3>2
    <3>. QED
      BY <1>3, <3>1, <3>2
  <2>. QED
    BY <2>1
<1>. QED
  BY <1>2, <1>3, <1>5 DEF TreeOK

\* A pass that runs, and its section.
LEMMA PassRuns ==
    ASSUME TreeOK(load, pass, nodes), NEW req \in Explorer!Passes, NEW until, NEW ok,
           Explorer!Yields(req, until, ok)
    PROVE  /\ load \in [Explorer!Passes -> Loads] /\ load[req] = "Loading"
           /\ pass \in [Explorer!Passes -> Int]
BY DEF TreeOK, PassesOK, PassOK, Explorer!Yields

\* A batch.
LEMMA TreeBatchInv ==
    ASSUME ExplorerInv, ElementsAre, NEW req \in Explorer!Passes, NEW until, NEW ok,
           Explorer!TreeBatch(req, until, ok)
    PROVE  ExplorerInv'
<1>1. /\ Explorer!Yields(req, until, ok) /\ Explorer!Apply(req, ok)
      /\ pass' = [pass EXCEPT ![req] = until] /\ load' = load
      /\ UNCHANGED <<contents, selected, history, pendingJump, generation, inspector, fetches>>
  BY DEF Explorer!TreeBatch, Explorer!selectionVars
<1>2. TreeOK(load, pass, nodes)
  BY DEF ExplorerInv
<1>3. /\ until \in 0..Len(Explorer!Elements(req)) /\ Explorer!TreeNodes \subseteq Explorer!TreeNodes'
  BY <1>1, <1>2, AppliesOK
<1>4. Len(Explorer!Elements(req)) \in Nat
  BY DEF ElementsAre
<1>5. PassFits("Loading", until, req) /\ until # Explorer!NoPass
  BY <1>3, <1>4 DEF PassFits, Loads, Explorer!NoPass
<1>6. load \in [Explorer!Passes -> Loads] /\ load[req] = "Loading"
  BY <1>1, <1>2, PassRuns
<1>7. Becomes(load, pass', load, pass, req, "Loading", until)
  BY <1>1, <1>6 DEF Becomes
<1>8. Reached(load, pass', req) = until
  <2>1. pass'[req] = until
    BY <1>2, <1>5, <1>7, OtherPass DEF TreeOK
  <2>. QED
    BY <1>5, <2>1 DEF Reached
<1>9. TreeOK(load, pass', nodes')
  BY <1>1, <1>2, <1>3, <1>5, <1>7, <1>8, PassMoves
<1>10. ContentsOK'
  BY <1>1, SameFolders DEF ExplorerInv
<1>. QED
  BY <1>1, <1>3, <1>9, <1>10, SelectionFacts, TreeStep DEF ExplorerInv

\* A pass that ends, and the jump it was waited for.
LEMMA TreeDoneInv ==
    ASSUME ExplorerInv, ElementsAre, HistoryCap \in Nat \ {0},
           NEW req \in Explorer!Passes, NEW ok, Explorer!TreeDone(req, ok)
    PROVE  ExplorerInv'
<1> DEFINE ld == [load EXCEPT ![req] = "Loaded"]
           ps == [pass EXCEPT ![req] = Explorer!NoPass]
           ns == nodes'
           jumps == pendingJump # NoRef /\ Explorer!Found(ns, pendingJump)
           again == pendingJump # NoRef /\ ~jumps /\ ld["physical"] = "Loading"
           n == selected'
           ahead == IF jumps THEN <<n>> ELSE <<>>
           known == trailer'
           all == Len(Explorer!Elements(req))
<1>1. Explorer!Yields(req, all, ok) /\ Explorer!Apply(req, ok) /\ UNCHANGED contents
  BY DEF Explorer!TreeDone
<1>2. /\ n = IF jumps THEN Explorer!ObjectNode(pendingJump) ELSE selected
      /\ history' = IF jumps THEN Explorer!Remember(history, selected) ELSE history
      /\ pendingJump' = IF again THEN pendingJump ELSE NoRef
  BY DEF Explorer!TreeDone
<1>3. Explorer!OnSelect(n, ahead, ld, ps, ns, known)
  BY DEF Explorer!TreeDone
<1>4. TreeOK(load, pass, nodes) /\ ContentsOK /\ SelectionInv
  BY DEF ExplorerInv
<1>5. Becomes(ld, ps, load, pass, req, "Loaded", Explorer!NoPass)
  BY DEF Becomes
<1>6. PassFits("Loaded", Explorer!NoPass, req)
  BY DEF PassFits, Loads, Explorer!NoPass
<1>7. ahead \in {<<>>, <<n>>}
  OBVIOUS
<1>8. Explorer!Found(ns, pendingJump) => Explorer!ObjectNode(pendingJump) \in Explorer!TreeNodes'
  BY DEF Explorer!Found, Explorer!TreeNodes, Explorer!ToSet
<1>9. jumps => Explorer!Found(ns, pendingJump)
  OBVIOUS
<1>10. again => ld["physical"] = "Loading"
  OBVIOUS
<1>. HIDE DEF ld, ps, jumps, again, ahead, known
<1>11. PassesOK(ld, ps) /\ ld[req] = "Loaded" /\ ps[req] = Explorer!NoPass
  BY <1>4, <1>5, <1>6, OtherPass DEF TreeOK
<1>12. Reached(ld, ps, req) = all /\ all \in Nat
  BY <1>6, <1>11 DEF Reached, ElementsAre
<1>13. TreeOK(ld, ps, ns)
  <2>1. all <= Reached(ld, ps, req)
    BY <1>12
  <2>. QED
    BY <1>1, <1>4, <1>5, <1>6, <2>1, PassMoves
<1>14. Explorer!TreeNodes \subseteq Explorer!TreeNodes'
  BY <1>1, <1>4, AppliesOK
<1>15. n \in Explorer!TreeNodes'
  BY <1>2, <1>4, <1>8, <1>9, <1>14, SelectionFacts
<1>16. n.r \in RefsOrNone
  <2>1. CASE jumps
    BY <1>2, <1>4, <2>1, SelectionFacts DEF Explorer!ObjectNode
  <2>2. CASE ~jumps
    BY <1>2, <1>4, <2>2, SelectionFacts, NodesAre DEF TreeOK
  <2>. QED
    BY <2>1, <2>2
<1>17. history' \in Seq(Explorer!TreeNodes') /\ Len(history') <= HistoryCap
  <2>1. history' \in Seq(Explorer!TreeNodes) /\ Len(history') <= HistoryCap
    BY <1>2, <1>4, SelectionFacts, RemembersOK
  <2>. QED
    BY <1>14, <2>1, Widens
<1>. HIDE DEF n, ns
<1>18. /\ TreeOK(load', pass', ns) /\ generation' \in Nat
       /\ ShownOK(inspector', n) /\ Fetched(fetches', generation', n)
       /\ \/ load'["physical"] = ld["physical"]
          \/ ld["physical"] = "NotLoaded" /\ load'["physical"] = "Loading"
  BY <1>3, <1>4, <1>7, <1>13, <1>16, SelectionFacts, SelectsOK
<1>19. /\ pendingJump' \in RefsOrNone
       /\ pendingJump' # NoRef => load'["physical"] = "Loading"
  BY <1>2, <1>4, <1>10, <1>18, SelectionFacts DEF RefsOrNone
<1>20. TreeOK(load', pass', nodes')
  BY <1>18 DEF ns
<1>21. SelectionInv'
  <2>1. ShownOK(inspector', selected') /\ Fetched(fetches', generation', selected')
    BY <1>18 DEF n
  <2>2. selected' \in Explorer!TreeNodes'
    BY <1>15 DEF n
  <2>. QED
    BY <1>17, <1>18, <1>19, <2>1, <2>2, SelectionFits
<1>. QED
  BY <1>1, <1>4, <1>20, <1>21, SameFolders DEF ExplorerInv

\* A Contents folder that is asked for, answers or fails.
LEMMA FolderStep ==
    ASSUME ExplorerInv, ElementsAre, NEW i \in Explorer!PageIndexes,
           NEW folder \in Explorer!FolderStates, contents' = [contents EXCEPT ![i] = folder],
           folder.tasks = IF folder.load = "Loading" THEN 1 ELSE 0,
           folder.streams = IF folder.load = "Loaded" THEN PageContents[i] ELSE <<>>,
           contents[i].load # "Loaded",
           UNCHANGED <<load, pass, nodes, selected, history, pendingJump, generation, inspector, fetches>>
    PROVE  ExplorerInv'
<1>1. contents \in [Explorer!PageIndexes -> Explorer!FolderStates]
      /\ \A j \in Explorer!PageIndexes : FolderOK(j)
  BY DEF ExplorerInv, ContentsOK
<1>2. contents' \in [Explorer!PageIndexes -> Explorer!FolderStates] /\ contents'[i] = folder
      /\ \A j \in Explorer!PageIndexes \ {i} : contents'[j] = contents[j]
  BY <1>1
<1>3. ContentsOK'
  <2>1. ASSUME NEW j \in Explorer!PageIndexes PROVE FolderOK(j)'
    BY <1>1, <1>2 DEF FolderOK
  <2>. QED
    BY <1>2, <2>1 DEF ContentsOK
<1>4. \A j \in Explorer!PageIndexes : \A k \in DOMAIN contents[j].streams :
         k \in DOMAIN contents'[j].streams /\ contents'[j].streams[k] = contents[j].streams[k]
  <2>1. contents[i].streams = <<>>
    BY <1>1 DEF FolderOK
  <2>. QED
    BY <1>2, <2>1
<1>5. Explorer!TreeNodes \subseteq Explorer!TreeNodes'
  BY <1>4 DEF Explorer!TreeNodes, Explorer!StreamNode
<1>6. TreeOK(load', pass', nodes')
  BY DEF ExplorerInv
<1>7. pendingJump' \in RefsOrNone /\ (pendingJump' # NoRef => load'["physical"] = "Loading")
  BY SelectionFacts DEF ExplorerInv
<1>. QED
  BY <1>3, <1>5, <1>6, <1>7, TreeStep

\* Expanding a Contents folder, its load, and its failure.
LEMMA ContentsInv ==
    ASSUME ExplorerInv, ElementsAre, Explorer!FileIsListed, NEW i \in Explorer!PageIndexes,
           Explorer!ExpandContents(i) \/ Explorer!ContentsLoaded(i) \/ Explorer!ContentsFailed(i)
    PROVE  ExplorerInv'
<1>1. /\ contents[i] \in [load : {"NotLoaded", "Loading", "Loaded", "Failed"},
                           tasks : Nat, streams : Seq(Refs)]
      /\ FolderOK(i) /\ PageContents[i] \in Seq(Refs)
  BY DEF ExplorerInv, ContentsOK, Explorer!FolderStates, Explorer!FileIsListed
<1>2. UNCHANGED <<load, pass, nodes, selected, history, pendingJump, generation, inspector, fetches>>
  BY DEF Explorer!ExpandContents, Explorer!ContentsLoaded, Explorer!ContentsFailed,
         Explorer!selectionVars
<1>3. CASE Explorer!ExpandContents(i)
  <2> DEFINE folder == [load |-> "Loading", tasks |-> 1, streams |-> <<>>]
  <2>1. contents[i].load \in {"NotLoaded", "Failed"}
        /\ contents' = [contents EXCEPT ![i] = Explorer!Asked(contents[i])]
    BY <1>3 DEF Explorer!ExpandContents
  <2>2. contents[i].tasks = 0 /\ contents[i].streams = <<>>
    BY <1>1, <2>1 DEF FolderOK
  <2>3. Explorer!Asked(contents[i]) = folder
    BY <1>1, <2>2 DEF Explorer!Asked
  <2>4. folder \in Explorer!FolderStates
    BY DEF Explorer!FolderStates
  <2>5. /\ contents' = [contents EXCEPT ![i] = folder] /\ contents[i].load # "Loaded"
        /\ folder.tasks = 1 /\ folder.load = "Loading" /\ folder.streams = <<>>
    BY <2>1, <2>3
  <2>. HIDE DEF folder
  <2>. QED
    BY <1>2, <2>4, <2>5, FolderStep
<1>4. CASE Explorer!ContentsLoaded(i)
  <2> DEFINE folder == [load |-> "Loaded", tasks |-> 0, streams |-> PageContents[i]]
  <2>1. contents[i].tasks = 1 /\ contents[i].load = "Loading" /\ contents[i].streams = <<>>
    BY <1>1, <1>4 DEF Explorer!ContentsLoaded, FolderOK
  <2>2. contents[i].tasks - 1 = 0 /\ contents[i].streams \o PageContents[i] = PageContents[i]
    BY <1>1, <2>1
  <2>3. contents' = [contents EXCEPT ![i] = folder]
    BY <1>4, <2>1, <2>2 DEF Explorer!ContentsLoaded
  <2>4. folder \in Explorer!FolderStates
    BY <1>1 DEF Explorer!FolderStates
  <2>5. folder.tasks = 0 /\ folder.load = "Loaded" /\ folder.streams = PageContents[i]
    OBVIOUS
  <2>. HIDE DEF folder
  <2>. QED
    BY <1>2, <2>1, <2>3, <2>4, <2>5, FolderStep
<1>5. CASE Explorer!ContentsFailed(i)
  <2> DEFINE folder == [load |-> "Failed", tasks |-> 0, streams |-> <<>>]
  <2>1. contents[i].tasks = 1 /\ contents[i].load = "Loading" /\ contents[i].streams = <<>>
    BY <1>1, <1>5 DEF Explorer!ContentsFailed, FolderOK
  <2>2. contents[i].tasks - 1 = 0
    BY <2>1
  <2>3. contents' = [contents EXCEPT ![i] = folder]
    BY <1>5, <2>1, <2>2 DEF Explorer!ContentsFailed
  <2>4. folder \in Explorer!FolderStates
    BY DEF Explorer!FolderStates
  <2>5. folder.tasks = 0 /\ folder.load = "Failed" /\ folder.streams = <<>>
    OBVIOUS
  <2>. HIDE DEF folder
  <2>. QED
    BY <1>2, <2>1, <2>3, <2>4, <2>5, FolderStep
<1>. QED
  BY <1>3, <1>4, <1>5

Same(n) == [n EXCEPT !.r = n.r] = n

\* A record overwritten with a field of its own.
LEMMA SameRecords ==
    ASSUME NEW K, NEW R, NEW I
    PROVE  /\ \A n \in [kind : K, r : R] : Same(n)
           /\ \A n \in [kind : K, r : R, index : I] : Same(n)
<1>1. ASSUME NEW n \in [kind : K, r : R] PROVE Same(n)
  BY DEF Same
<1>2. ASSUME NEW n \in [kind : K, r : R, index : I] PROVE Same(n)
  BY DEF Same
<1>. QED
  BY <1>1, <1>2

\* So it is for every node.
LEMMA SameNode ==
    ASSUME Explorer!FileIsListed, nodes \in Seq(AllElements), NEW n \in Explorer!TreeNodes
    PROVE  Same(n)
<1>1. CASE n \in Explorer!Folders
  <2>1. n \in [kind : {"document", "trailer", "pages", "objects"}, r : {NoRef}]
    BY <1>1 DEF Explorer!Folders, Explorer!Root, Explorer!TrailerNode, Explorer!Folder
  <2>. QED
    BY <2>1, SameRecords
<1>2. CASE n \in ToSet(Physical)
  <2>1. n \in [kind : {"object", "trailer"}, r : RefsOrNone]
    <3> DEFINE S == [kind : {"object", "trailer"}, r : RefsOrNone]
    <3>1. Physical \in Seq(S)
      BY FileFacts
    <3>. HIDE DEF S
    <3>2. n \in S
      BY <1>2, <3>1 DEF ToSet
    <3>. QED
      BY <3>2 DEF S
  <2>. QED
    BY <2>1, SameRecords
<1>3. CASE n \in ToSet(Logical)
  <2>1. n \in [kind : {"page"}, r : RefsOrNone, index : Nat]
    <3> DEFINE S == [kind : {"page"}, r : RefsOrNone, index : Nat]
    <3>1. Logical \in Seq(S)
      BY FileFacts
    <3>. HIDE DEF S
    <3>2. n \in S
      BY <1>3, <3>1 DEF ToSet
    <3>. QED
      BY <3>2 DEF S
  <2>. QED
    BY <2>1, SameRecords
<1>4. ASSUME NEW i PROVE Same(Explorer!ContentsNode(i))
  BY DEF Same, Explorer!ContentsNode
<1>5. ASSUME NEW i, NEW k PROVE Same(Explorer!StreamNode(i, k))
  BY DEF Same, Explorer!StreamNode
<1>6. \A i \in DOMAIN nodes : nodes[i] \in ToSet(Physical) \/ nodes[i] \in ToSet(Logical)
  BY DEF AllElements
<1>. QED
  BY <1>1, <1>2, <1>3, <1>4, <1>5, <1>6 DEF Explorer!TreeNodes, Explorer!ToSet

\* An answer for the node shown, written over what the inspector is about.
Written(shown, what, r) == [shown EXCEPT !.shows = what, !.about.r = r]

\* An answer for the selected node leaves it what the inspector is about.
LEMMA AnswerIs ==
    ASSUME NEW n, Same(n), NEW w, NEW what
    PROVE  Written([about |-> n, shows |-> w], what, n.r) = [about |-> n, shows |-> what]
<1> DEFINE x == [about |-> n, shows |-> w]
           y == [about |-> n, shows |-> what]
           m == [n EXCEPT !.r = n.r]
<1>1. [x EXCEPT !.shows = what] = y
  OBVIOUS
<1>2. y.about = n
  OBVIOUS
<1>3. [y EXCEPT !.about = m] = [about |-> m, shows |-> what]
  <2>. HIDE DEF m
  <2>. QED
    OBVIOUS
<1>4. Written(x, what, n.r) = [[x EXCEPT !.shows = what] EXCEPT !.about.r = n.r]
  BY Zenon DEF Written
<1>. HIDE DEF y
<1>5. Written(x, what, n.r) = [y EXCEPT !.about.r = n.r]
  BY <1>1, <1>4, Zenon
<1>6. Written(x, what, n.r) = [y EXCEPT !.about = m]
  BY <1>2, <1>5
<1>7. m = n
  BY Zenon DEF Same
<1>. HIDE DEF m, x
<1>8. Written(x, what, n.r) = [about |-> n, shows |-> what]
  BY <1>3, <1>6, <1>7, Zenon
<1>. QED
  BY <1>8 DEF x

\* An answer, of the latest selection or an earlier one.
LEMMA AnsweredInv ==
    ASSUME ExplorerInv, Explorer!FileIsListed, NEW f, NEW what \in {"object", "error"},
           Explorer!Answered(f, what)
    PROVE  ExplorerInv'
<1>1. /\ f \in fetches /\ fetches' = fetches \ {f}
      /\ UNCHANGED <<load, pass, nodes, contents, selected, history, pendingJump, generation>>
  BY DEF Explorer!Answered, Explorer!treeVars
<1>2. inspector' = IF f.generation # generation THEN inspector ELSE Written(inspector, what, f.r)
  BY Zenon DEF Explorer!Answered, Written
<1>3. TreeOK(load, pass, nodes) /\ ContentsOK /\ SelectionInv
  BY DEF ExplorerInv
<1>4. selected \in Explorer!TreeNodes /\ ShownOK(inspector, selected) /\ Fetched(fetches, generation, selected)
  BY <1>3, SelectionFacts
<1>5. Same(selected)
  BY <1>3, <1>4, SameNode DEF TreeOK
<1>6. ShownOK(inspector', selected)
  <2>1. CASE f.generation # generation
    BY <1>2, <1>4, <2>1
  <2>2. CASE f.generation = generation
    <3>1. f.r = selected.r
      BY <1>1, <1>4, <2>2 DEF Fetched
    <3>2. PICK w : inspector = [about |-> selected, shows |-> w]
      BY <1>4 DEF ShownOK
    <3>3. inspector' = [about |-> selected, shows |-> what]
      BY <1>2, <1>5, <2>2, <3>1, <3>2, AnswerIs
    <3>. QED
      BY <3>3 DEF ShownOK
  <2>. QED
    BY <2>1, <2>2
<1>7. Fetched(fetches', generation', selected')
  BY <1>1, <1>4 DEF Fetched
<1>8. SelectionInv'
  BY <1>1, <1>3, <1>6, <1>7, SameNodes, SelectionFacts, SelectionFits
<1>9. TreeOK(load', pass', nodes')
  BY <1>1, <1>3
<1>. QED
  BY <1>1, <1>3, <1>8, <1>9, SameFolders DEF ExplorerInv

\* At first the root is selected and nothing is loaded.
LEMMA ExplorerInit ==
    ASSUME Explorer!FileIsListed, HistoryCap \in Nat \ {0}, Explorer!Init
    PROVE  ExplorerInv
<1>1. /\ load = [req \in Explorer!Passes |-> "NotLoaded"]
      /\ pass = [req \in Explorer!Passes |-> Explorer!NoPass]
      /\ nodes = <<>> /\ selected = Explorer!Root /\ history = <<>> /\ pendingJump = NoRef
      /\ generation = 1 /\ inspector = [about |-> Explorer!Root, shows |-> "message"]
      /\ fetches = {}
      /\ contents = [i \in Explorer!PageIndexes |-> [load |-> "NotLoaded", tasks |-> 0, streams |-> <<>>]]
  BY DEF Explorer!Init, Explorer!Showing, Explorer!NewFolder
<1>2. ElementsAre
  BY FileFacts
<1>3. PassesOK(load, pass)
  <2>1. Explorer!NoPass \in Int /\ "NotLoaded" \in Loads
    BY DEF Explorer!NoPass, Loads
  <2>2. /\ load \in [Explorer!Passes -> Loads]
        /\ pass \in [Explorer!Passes -> Int]
    BY <1>1, <2>1
  <2>3. \A req \in Explorer!Passes : PassOK(load, pass, req)
    BY <1>1 DEF PassOK
  <2>. QED
    BY <2>2, <2>3 DEF PassesOK
<1>4. TreeOK(load, pass, nodes)
  <2>1. nodes \in Seq(AllElements) /\ Len(nodes) = 0 /\ DOMAIN nodes = {}
    BY <1>1
  <2>. QED
    BY <1>3, <2>1 DEF TreeOK, IsInjective
<1>9. ContentsOK
  BY <1>1 DEF ContentsOK, FolderOK, Explorer!FolderStates
<1>5. selected \in Explorer!TreeNodes
  BY <1>1, <1>2, <1>4, <1>9, NodesAre DEF TreeOK
<1>6. history \in Seq(Explorer!TreeNodes) /\ Len(history) <= HistoryCap
  BY <1>1
<1>7. ShownOK(inspector, selected) /\ Fetched(fetches, generation, selected) /\ generation \in Nat
  BY <1>1 DEF ShownOK, Fetched
<1>8. pendingJump \in RefsOrNone /\ Explorer!JumpsWait
  BY <1>1 DEF RefsOrNone, Explorer!JumpsWait
<1>. QED
  BY <1>4, <1>5, <1>6, <1>7, <1>8, <1>9 DEF ExplorerInv, SelectionInv

\* Every step keeps the invariant.
LEMMA ExplorerStep ==
    ASSUME Explorer!FileIsListed, HistoryCap \in Nat \ {0},
           ExplorerInv, [Explorer!Next]_Explorer!vars
    PROVE  ExplorerInv'
<1>0. ElementsAre
  BY FileFacts
<1>1. ASSUME NEW n, Explorer!Move(n) PROVE ExplorerInv'
  BY <1>0, <1>1, MoveInv
<1>2. ASSUME NEW req \in Explorer!Passes, Explorer!Expand(req) PROVE ExplorerInv'
  BY <1>0, <1>2, ExpandInv
<1>3. ASSUME NEW r \in Refs, Explorer!Jump(r) PROVE ExplorerInv'
  BY <1>0, <1>3, JumpInv
<1>4. CASE Explorer!Back
  BY <1>0, <1>4, BackInv
<1>5. ASSUME NEW req \in Explorer!Passes, Explorer!PassYields(req) PROVE ExplorerInv'
  BY <1>0, <1>5, TreeBatchInv DEF Explorer!PassYields
<1>6. ASSUME NEW req \in Explorer!Passes, Explorer!PassEnds(req) PROVE ExplorerInv'
  BY <1>0, <1>6, TreeDoneInv DEF Explorer!PassEnds
<1>7. CASE Explorer!FetchEnds
  BY <1>7, AnsweredInv DEF Explorer!FetchEnds
<1>8. CASE UNCHANGED Explorer!vars
  <2>1. UNCHANGED <<load, pass, nodes, contents, selected, history, pendingJump, generation,
                    inspector, fetches>>
    BY <1>8 DEF Explorer!vars, Explorer!treeVars, Explorer!selectionVars
  <2>2. TreeOK(load', pass', nodes')
    BY <2>1 DEF ExplorerInv
  <2>3. ContentsOK'
    BY <2>1, SameFolders DEF ExplorerInv
  <2>. QED
    BY <1>0, <2>1, <2>2, <2>3, SameNodes, SelectionFacts, TreeStep DEF ExplorerInv
<1>9. CASE Explorer!Key
  BY <1>0, <1>1, <1>2, <1>3, <1>4, <1>9, ContentsInv DEF Explorer!Key
<1>10. CASE Explorer!ContentsEnd
  BY <1>0, <1>10, ContentsInv DEF Explorer!ContentsEnd
<1>. QED
  BY <1>5, <1>6, <1>7, <1>8, <1>9, <1>10 DEF Explorer!Next

\* A deferred jump is given up for nothing but itself or the end of the pass.
LEMMA JumpStep ==
    ASSUME Explorer!FileIsListed, ExplorerInv, [Explorer!Next]_Explorer!vars
    PROVE  Explorer!JumpIsMade
<1> SUFFICES ASSUME pendingJump # NoRef, pendingJump' = NoRef
             PROVE  \/ selected' = Explorer!ObjectNode(pendingJump)
                    \/ load'["physical"] = "Loaded" /\ ~Explorer!Found(nodes', pendingJump)
  BY DEF Explorer!JumpIsMade
<1>1. /\ load["physical"] = "Loading" /\ load \in [Explorer!Passes -> Loads]
      /\ "physical" \in Explorer!Passes /\ NoRef \notin Refs
  BY SelectionFacts DEF ExplorerInv, TreeOK, PassesOK, Explorer!Passes, Explorer!FileIsListed
<1>2. ASSUME NEW r \in Refs, Explorer!Jump(r) PROVE FALSE
  BY <1>1, <1>2 DEF Explorer!Jump, Explorer!JumpNow, Explorer!JumpLater
<1>3. ~Explorer!Key
  BY <1>2 DEF Explorer!Key, Explorer!Move, Explorer!Expand, Explorer!ExpandContents, Explorer!Back,
              Explorer!selectionVars
<1>4. /\ \A req \in Explorer!Passes : ~Explorer!PassYields(req)
      /\ ~Explorer!ContentsEnd /\ ~Explorer!FetchEnds /\ ~UNCHANGED Explorer!vars
  BY DEF Explorer!PassYields, Explorer!TreeBatch, Explorer!ContentsEnd, Explorer!ContentsLoaded,
         Explorer!ContentsFailed, Explorer!FetchEnds, Explorer!Answered, Explorer!selectionVars,
         Explorer!vars
<1>5. PICK req \in Explorer!Passes : Explorer!PassEnds(req)
  BY <1>3, <1>4 DEF Explorer!Next
<1>6. PICK ok : Explorer!TreeDone(req, ok)
  BY <1>5 DEF Explorer!PassEnds
<1> DEFINE ld == [load EXCEPT ![req] = "Loaded"]
           jumps == Explorer!Found(nodes', pendingJump)
<1>7. /\ jumps => selected' = Explorer!ObjectNode(pendingJump)
      /\ ~jumps => ld["physical"] # "Loading"
      /\ load' = ld \/ (ld["physical"] = "NotLoaded" /\ load' = [ld EXCEPT !["physical"] = "Loading"])
  BY <1>6 DEF Explorer!TreeDone, Explorer!OnSelect, Explorer!StartPass
<1>8. CASE ~jumps
  <2>1. ld["physical"] = "Loaded"
    BY <1>1, <1>7, <1>8
  <2>. QED
    BY <1>7, <1>8, <2>1
<1>. QED
  BY <1>7, <1>8

\* What the invariant gives.
LEMMA ExplorerPromises ==
    ASSUME Explorer!FileIsListed, ExplorerInv
    PROVE  /\ Explorer!InspectorFollowsSelection /\ Explorer!RetriesLoadOnce
           /\ Explorer!JumpsWait
<1>1. TreeOK(load, pass, nodes) /\ SelectionInv /\ PassesOK(load, pass) /\ ContentsOK
  BY DEF ExplorerInv, TreeOK
<1>2. PICK what \in {"message", "dict", "loading", "object", "error"} :
         inspector = [about |-> selected, shows |-> what]
  BY <1>1 DEF SelectionInv, ShownOK
<1>3. Explorer!InspectorFollowsSelection
  BY <1>2 DEF Explorer!InspectorFollowsSelection
<1>4. Explorer!LoadingIsBeingLoaded
  BY <1>1 DEF Explorer!LoadingIsBeingLoaded, PassesOK, PassOK, ContentsOK, FolderOK
<1>5. \A req \in Explorer!Passes : pass[req] \in -1..Len(Explorer!Elements(req))
  <2>1. ASSUME NEW req \in Explorer!Passes PROVE pass[req] \in -1..Len(Explorer!Elements(req))
    <3>1. PassOK(load, pass, req) /\ Len(Explorer!Elements(req)) \in Nat
      BY <1>1, FileFacts DEF PassesOK, ElementsAre
    <3>2. Explorer!NoPass = -1
      BY DEF Explorer!NoPass
    <3>. QED
      BY <3>1, <3>2 DEF PassOK
  <2>. QED
    BY <2>1
<1>6. Explorer!ToSet(history) \subseteq Explorer!TreeNodes /\ Len(history) <= HistoryCap
  BY <1>1 DEF SelectionInv, Explorer!ToSet
<1>7. nodes \in Seq(Explorer!ToSet(Physical) \cup Explorer!ToSet(Logical)) /\ Explorer!IsInjective(nodes)
  BY <1>1 DEF TreeOK, AllElements, ToSet, Explorer!ToSet, IsInjective, Explorer!IsInjective
<1>8. Explorer!TreeTypes
  <2>1. load \in [Explorer!Passes -> {"NotLoaded", "Loading", "Loaded"}]
    BY <1>1 DEF PassesOK, Loads
  <2>2. selected \in Explorer!TreeNodes /\ pendingJump \in Refs \cup {NoRef}
    BY <1>1 DEF SelectionInv, RefsOrNone
  <2>3. inspector.shows \in {"message", "dict", "loading", "object", "error"}
    BY <1>2
  <2>. QED
    BY <1>1, <1>5, <1>6, <1>7, <2>1, <2>2, <2>3 DEF Explorer!TreeTypes, ContentsOK
<1>9. Explorer!JumpsWait
  BY <1>1 DEF SelectionInv
<1>10. Explorer!StreamsAreThePages
  BY <1>1 DEF ContentsOK, FolderOK, Explorer!StreamsAreThePages
<1>. QED
  BY <1>3, <1>4, <1>7, <1>8, <1>9, <1>10 DEF Explorer!RetriesLoadOnce

\* The invariant holds throughout.
LEMMA ExplorerIsInv ==
    ASSUME Explorer!FileIsListed, HistoryCap \in Nat \ {0}
    PROVE  Explorer!Spec => []ExplorerInv
<1>1. Explorer!Init => ExplorerInv
  BY ExplorerInit
<1>2. ExplorerInv /\ [Explorer!Next]_Explorer!vars => ExplorerInv'
  BY ExplorerStep
<1>. QED
  BY <1>1, <1>2, PTL DEF Explorer!Spec

\* The promises of `TreeState`, as they are and as `TuiExplorer` has them.
LEMMA SameTree ==
    /\ FileIsListed <=> Explorer!FileIsListed
    /\ InspectorFollowsSelection <=> Explorer!InspectorFollowsSelection
    /\ RetriesLoadOnce <=> Explorer!RetriesLoadOnce
    /\ JumpsWait <=> Explorer!JumpsWait
    /\ JumpIsMade <=> Explorer!JumpIsMade
<1>1. /\ Explorer!ToSet(nodes) = ToSet(nodes) /\ Explorer!ToSet(history) = ToSet(history)
      /\ Explorer!ToSet(Physical) = ToSet(Physical) /\ Explorer!ToSet(Logical) = ToSet(Logical)
  BY DEF Explorer!ToSet, ToSet
<1>2. /\ Explorer!Passes = Passes /\ Explorer!NoPass = NoPass
      /\ \A req \in Passes : Len(Explorer!Elements(req)) = Len(Elements(req))
  BY DEF Explorer!Passes, Passes, Explorer!NoPass, NoPass, Explorer!Elements, Elements
<1>3. Explorer!Folders = Folders
  BY DEF Explorer!Folders, Folders, Explorer!Root, Root, Explorer!TrailerNode, TrailerNode,
         Explorer!Folder, Folder
<1>9. Explorer!PageIndexes = PageIndexes /\ Explorer!FolderStates = FolderStates
  BY DEF Explorer!PageIndexes, PageIndexes, Explorer!FolderStates, FolderStates
<1>4. Explorer!TreeNodes = TreeNodes
  BY <1>1, <1>3, <1>9 DEF Explorer!TreeNodes, TreeNodes, Explorer!ContentsNode, ContentsNode,
                          Explorer!StreamNode, StreamNode
<1>5. TreeTypes <=> Explorer!TreeTypes
  BY <1>1, <1>2, <1>4, <1>9 DEF TreeTypes, Explorer!TreeTypes
<1>10. StreamsAreThePages <=> Explorer!StreamsAreThePages
  BY <1>9 DEF StreamsAreThePages, Explorer!StreamsAreThePages
<1>6. LoadingIsBeingLoaded <=> Explorer!LoadingIsBeingLoaded
  BY <1>2, <1>9 DEF LoadingIsBeingLoaded, Explorer!LoadingIsBeingLoaded
<1>7. FileIsListed <=> Explorer!FileIsListed
  BY <1>1, <1>9 DEF FileIsListed, Explorer!FileIsListed, Explorer!IsInjective, IsInjective,
                    Explorer!TrailerNode, TrailerNode, Explorer!Folder, Folder
<1>8. RetriesLoadOnce <=> Explorer!RetriesLoadOnce
  BY <1>5, <1>6, <1>10 DEF RetriesLoadOnce, Explorer!RetriesLoadOnce, Explorer!IsInjective, IsInjective
<1>. QED
  BY <1>7, <1>8 DEF InspectorFollowsSelection, Explorer!InspectorFollowsSelection,
                    JumpsWait, Explorer!JumpsWait, JumpIsMade, Explorer!JumpIsMade,
                    Found, Explorer!Found, ObjectNode, Explorer!ObjectNode

\* In whatever order the answers of earlier selections arrive, the inspector is about
\* the selected node, and an object in it is the one the node names (app.rs 288-314,
\* 803-808).
THEOREM TheInspectorFollowsTheSelection ==
    ASSUME FileIsListed, HistoryCap \in Nat \ {0}
    PROVE  Explorer!Spec => []InspectorFollowsSelection
<1>1. Explorer!FileIsListed
  BY SameTree
<1>2. ExplorerInv => InspectorFollowsSelection
  BY <1>1, ExplorerPromises, SameTree
<1>. QED
  BY <1>1, <1>2, ExplorerIsInv, PTL

\* However often the load of a page's Contents fails and is retried, no section and
\* no folder is loaded twice at once, each is loading only while a pass or a task will
\* answer for it, and no object, page or stream is in the tree twice (tree.rs 210-241,
\* 290-294, 456-488).
THEOREM ARetryLoadsNothingTwice ==
    ASSUME FileIsListed, HistoryCap \in Nat \ {0}
    PROVE  Explorer!Spec => []RetriesLoadOnce
<1>1. Explorer!FileIsListed
  BY SameTree
<1>2. ExplorerInv => RetriesLoadOnce
  BY <1>1, ExplorerPromises, SameTree
<1>. QED
  BY <1>1, <1>2, ExplorerIsInv, PTL

\* A jump deferred behind the physical pass waits until the object it names is in the
\* tree and selected, or the whole pass has ended without it, whichever pass finishes
\* first (app.rs 265-271).
THEOREM NoJumpIsForgotten ==
    ASSUME FileIsListed, HistoryCap \in Nat \ {0}
    PROVE  Explorer!Spec => DeferredJumpTaken
<1>1. Explorer!FileIsListed
  BY SameTree
<1>2. ExplorerInv => JumpsWait
  BY <1>1, ExplorerPromises, SameTree
<1>3. ExplorerInv /\ [Explorer!Next]_Explorer!vars
      => [JumpIsMade]_<<selected, load, nodes, pendingJump>>
  BY <1>1, JumpStep, SameTree
<1>4. Explorer!Spec => []ExplorerInv
  BY <1>1, ExplorerIsInv
<1>. QED
  BY <1>2, <1>3, <1>4, PTL DEF DeferredJumpTaken, Explorer!Spec
=============================================================================
