------------------------------ MODULE TuiPanes ------------------------------
(***************************************************************************)
(* The panes of the terminal explorer that load what they show: the hex    *)
(* pane (pdfboss-tui/src/hexview.rs), which keeps one window of the bytes  *)
(* of the selection, and the page preview and the page's Markdown          *)
(* (preview.rs, markdown.rs), of which one at a time replaces the          *)
(* inspector.  app.rs asks for the loads and lib.rs runs each in a task;   *)
(* an answer comes back with the generation of its request, in any order.  *)
(*                                                                         *)
(* Bytes are counted in hex lines.  A size stands for the terminal's and   *)
(* the splits'.  Toasts, spinners and the Markdown scroll are left out.    *)
(***************************************************************************)
EXTENDS Integers, FiniteSets, FiniteSetsExt, Selection

CONSTANTS
    Sources,    \* of bytes: records [kind : {"file", "objstm"}, len : Nat]
    Nodes,      \* of the tree: records [page : Nat, hex : Sources \cup {NoSource}]
    NoSource,
    PageCounts, \* of the documents
    Sizes,      \* functions [rows |-> visible rows of the hex pane, id |-> ...]
    Window,     \* `WINDOW_BYTES`, in lines: 8192 in the code
    Debounce,   \* `RESIZE_DEBOUNCE_TICKS`: 2
    MaxKeys     \* bound: keys pressed and resizes

NoPage == 0  \* pages count from 1 here

ASSUME TuiPanesAssumption ==
    /\ \A s \in Sources : s.len \in Nat
    /\ NoSource \notin Sources
    /\ \A s \in Sizes : s.rows \in Nat
    /\ PageCounts \subseteq Nat
    /\ \A n \in Nodes : n.page \in Nat /\ n.hex \in Sources \cup {NoSource}
    /\ \E n \in Nodes : n.page = NoPage /\ n.hex = NoSource
    /\ Window \in Nat \ {0} /\ Debounce \in Nat \ {0} /\ MaxKeys \in Nat

VARIABLES
    pages,    \* `page_count`
    size,     \* `size` and `splits`
    hex,      \* `HexState` with `hex_generation`; `of`: what its bytes are of
    preview,  \* `PreviewState`
    markdown, \* `MarkdownState`
    answers,  \* the tasks that run, as the requests they answer
    keys      \* keys and resizes left

vars == <<pages, selected, size, hex, preview, markdown, answers, keys>>

None == [page |-> NoPage, size |-> [rows |-> 0, id |-> 0]]
Empty == [source |-> NoSource, of |-> NoSource, total |-> 0, from |-> 0, count |-> 0,
          scroll |-> 0, loading |-> FALSE, error |-> FALSE, gen |-> 0]

Hexes == [source : Sources \cup {NoSource}, of : Sources \cup {NoSource},
          total : Nat, from : Nat, count : Nat, scroll : Nat,
          loading : BOOLEAN, error : BOOLEAN, gen : Nat]
Previews == [active : BOOLEAN, page : Nat, rendering : BOOLEAN, gen : Nat, cached : BOOLEAN,
             pixmap : [page : Nat, size : Sizes \cup {None.size}],
             debounce : 0..Debounce, error : BOOLEAN]
Markdowns == [active : BOOLEAN, page : Nat, source : Nat, loading : BOOLEAN, gen : Nat,
              error : BOOLEAN]

Requests == [pane : {"hex"}, gen : Nat, source : Sources, from : Nat]
            \cup [pane : {"preview"}, gen : Nat, page : Nat, size : Sizes]
            \cup [pane : {"markdown"}, gen : Nat, page : Nat]

TypeOK ==
    /\ pages \in PageCounts /\ selected \in Nodes /\ size \in Sizes
    /\ hex \in Hexes /\ preview \in Previews /\ markdown \in Markdowns
    /\ hex.count <= hex.total /\ hex.scroll <= Max({0, hex.total - 1})
    /\ ~(preview.active /\ markdown.active)
    /\ answers \subseteq Requests
    /\ keys \in 0..MaxKeys

Init ==
    /\ pages \in PageCounts /\ size \in Sizes
    /\ selected = CHOOSE n \in Nodes : n.page = NoPage /\ n.hex = NoSource
    /\ hex = Empty
    /\ preview = [active |-> FALSE, page |-> NoPage, pixmap |-> None, rendering |-> FALSE,
                  gen |-> 0, cached |-> FALSE, debounce |-> 0, error |-> FALSE]
    /\ markdown = [active |-> FALSE, page |-> NoPage, source |-> NoPage, loading |-> FALSE,
                   gen |-> 0, error |-> FALSE]
    /\ answers = {}
    /\ keys = MaxKeys

Pressed == keys > 0 /\ keys' = keys - 1

-----------------------------------------------------------------------------
\* Mutant of Source: The bytes of the source before are kept.
SourceKeeping(s, gen) ==
    [hex EXCEPT !.source = s, !.scroll = 0, !.loading = TRUE, !.error = FALSE, !.gen = gen]

\* `set_source`: the length of a container is not known before it is decoded.
Source(s, gen) ==
    [Empty EXCEPT !.source = s, !.total = IF s.kind = "file" THEN s.len ELSE 0,
                  !.loading = TRUE, !.gen = gen]
Cleared(gen) == [Empty EXCEPT !.gen = gen]

LoadHex(s, from, gen) == [pane |-> "hex", gen |-> gen, source |-> s, from |-> from]

\* `window_for_line`, in lines.
WindowOf(line) == (line \div Window) * Window

\* `visible_window_missing`: where the window to fetch starts, if one is to be.
NoWindow == -1
Missing(h, rows) ==
    LET last      == Min({h.scroll + rows, h.total})
        end       == h.from + h.count
        uncovered == IF h.scroll < h.from \/ h.scroll >= end THEN h.scroll ELSE end
    IN  IF h.source = NoSource \/ h.total = 0 \/ (h.scroll >= h.from /\ last <= end)
        THEN NoWindow ELSE WindowOf(uncovered)

\* `scroll_to`.
ScrolledTo(h, line) == [h EXCEPT !.scroll = Min({line, Max({0, h.total - 1})})]

\* Keys in the hex pane: by a line, by a page, to the ends; then
\* `ensure_hex_window`.
ScrollHex ==
    /\ Pressed
    /\ \E line \in {0, Max({0, hex.total - 1}), Max({0, hex.scroll - 1}), hex.scroll + 1,
                    Max({0, hex.scroll - size.rows}), hex.scroll + size.rows} :
          LET scrolled == ScrolledTo(hex, line)
              missing  == Missing(scrolled, size.rows)
          IN  IF missing = NoWindow
              THEN hex' = scrolled /\ UNCHANGED answers
              ELSE /\ hex' = [scrolled EXCEPT !.loading = TRUE, !.gen = @ + 1]
                   /\ answers' = answers \cup {LoadHex(hex.source, missing, hex.gen + 1)}
    /\ UNCHANGED <<pages, selected, size, preview, markdown>>

\* Mutant of Current: The page panes do not look at the generation.
CurrentAny(pane, a) == a.pane = "hex" => a.gen = pane.gen

\* Whether an answer is the one its pane still waits for.
Current(pane, a) == a.gen = pane.gen

\* `load_hex` and `HexLoaded`: a window of a file, or a decoded container whole.
HexLoaded(a) ==
    /\ a \in answers /\ a.pane = "hex"
    /\ answers' = answers \ {a}
    /\ IF ~Current(hex, a) THEN UNCHANGED hex
       ELSE LET from == IF a.source.kind = "file" THEN a.from ELSE 0
                end  == IF a.source.kind = "file"
                        THEN Min({from + Window, a.source.len}) ELSE a.source.len
            IN  hex' = [hex EXCEPT !.of = a.source, !.from = from, !.count = end - from,
                                   !.total = a.source.len, !.loading = FALSE, !.error = FALSE]
    /\ UNCHANGED <<pages, selected, size, preview, markdown, keys>>

HexFailed(a) ==
    /\ a \in answers /\ a.pane = "hex"
    /\ answers' = answers \ {a}
    /\ hex' = IF Current(hex, a) THEN [hex EXCEPT !.loading = FALSE, !.error = TRUE] ELSE hex
    /\ UNCHANGED <<pages, selected, size, preview, markdown, keys>>

-----------------------------------------------------------------------------
\* `page_of(selected).unwrap_or(0)`.
PageOf(n) == IF n.page = NoPage THEN 1 ELSE n.page

\* `start_render`, and the command it is asked with.
StartRender(page) ==
    [preview EXCEPT !.active = TRUE, !.gen = @ + 1, !.page = page, !.rendering = TRUE,
                    !.error = FALSE, !.debounce = 0]

\* Mutant of Render: The generation is the one before.
RenderBefore(page, s) == [pane |-> "preview", gen |-> preview.gen, page |-> page, size |-> s]

Render(page, s) ==
    [pane |-> "preview", gen |-> preview.gen + 1, page |-> page, size |-> s]

\* `request_preview`, of a pane that is or becomes active.
RequestPreview(n, s, running) ==
    IF pages = 0
    THEN preview' = [preview EXCEPT !.active = FALSE] /\ answers' = running
    ELSE preview' = StartRender(PageOf(n)) /\ answers' = running \cup {Render(PageOf(n), s)}

StartExtract(page) ==
    [markdown EXCEPT !.active = TRUE, !.gen = @ + 1, !.page = page, !.loading = TRUE,
                     !.source = NoPage, !.error = FALSE]
Extract(page) == [pane |-> "markdown", gen |-> markdown.gen + 1, page |-> page]

\* `request_markdown`.
RequestMarkdown(n, running) ==
    IF pages = 0
    THEN markdown' = [markdown EXCEPT !.active = FALSE] /\ answers' = running
    ELSE markdown' = StartExtract(PageOf(n)) /\ answers' = running \cup {Extract(PageOf(n))}

\* Mutant of Moved: A pane that has a page keeps it.
MovedOnce(pane, n) == pane.active /\ n.page # NoPage /\ pane.page = NoPage

\* `refresh_page_panes`: whether an active pane shows another page than n's.
Moved(pane, n) == pane.active /\ n.page \notin {NoPage, pane.page}

\* `on_select`: of another node, or of the same one after a load of the tree.
Select(n) ==
    /\ Pressed
    /\ n.page <= pages
    /\ selected' = n
    /\ LET gen     == hex.gen + 1
           running == answers \cup (IF n.hex = NoSource THEN {} ELSE {LoadHex(n.hex, 0, gen)})
       IN  /\ hex' = IF n.hex = NoSource THEN Cleared(gen) ELSE Source(n.hex, gen)
           /\ \/ Moved(preview, n) /\ RequestPreview(n, size, running) /\ UNCHANGED markdown
              \/ /\ ~Moved(preview, n) /\ Moved(markdown, n)
                 /\ RequestMarkdown(n, running) /\ UNCHANGED preview
              \/ /\ ~Moved(preview, n) /\ ~Moved(markdown, n)
                 /\ answers' = running /\ UNCHANGED <<preview, markdown>>
    /\ UNCHANGED <<pages, size>>

TogglePreview ==
    /\ Pressed
    /\ \/ /\ preview.active
          /\ preview' = [preview EXCEPT !.active = FALSE]
          /\ UNCHANGED <<markdown, answers>>
       \/ /\ ~preview.active
          /\ markdown' = [markdown EXCEPT !.active = FALSE]
          /\ RequestPreview(selected, size, answers)
    /\ UNCHANGED <<pages, selected, size, hex>>

ToggleMarkdown ==
    /\ Pressed
    /\ \/ /\ markdown.active
          /\ markdown' = [markdown EXCEPT !.active = FALSE]
          /\ UNCHANGED <<preview, answers>>
       \/ /\ ~markdown.active
          /\ preview' = [preview EXCEPT !.active = FALSE]
          /\ RequestMarkdown(selected, answers)
    /\ UNCHANGED <<pages, selected, size, hex>>

\* Mutant of Resize: No second render is asked for while one runs.
ResizeIdle(s) ==
    /\ Pressed /\ s # size
    /\ size' = s
    /\ preview' = IF preview.active /\ ~preview.rendering
                  THEN [preview EXCEPT !.debounce = Debounce] ELSE preview
    /\ UNCHANGED <<pages, selected, hex, markdown, answers>>

\* `Msg::Resize`: the terminal; an active preview is rendered some ticks later.
Resize(s) ==
    /\ Pressed /\ s # size
    /\ size' = s
    /\ preview' = IF preview.active THEN [preview EXCEPT !.debounce = Debounce] ELSE preview
    /\ UNCHANGED <<pages, selected, hex, markdown, answers>>

\* `resize`: a divider; an active preview is rendered at once.
MoveDivider(s) ==
    /\ Pressed /\ s # size
    /\ size' = s
    /\ IF preview.active THEN RequestPreview(selected, s, answers)
       ELSE UNCHANGED <<preview, answers>>
    /\ UNCHANGED <<pages, selected, hex, markdown>>

\* `tick`, of a debounce: the last one asks for a preview, if it still is active.
Tick ==
    /\ preview.debounce > 0
    /\ IF preview.debounce = 1 /\ preview.active
       THEN RequestPreview(selected, size, answers)
       ELSE preview' = [preview EXCEPT !.debounce = @ - 1] /\ UNCHANGED answers
    /\ UNCHANGED <<pages, selected, size, hex, markdown, keys>>

-----------------------------------------------------------------------------
\* `render_preview` and `apply_ready`: the file's bytes are kept from any render,
\* the image only from the current one.
PreviewReady(a, ok) ==
    /\ a \in answers /\ a.pane = "preview"
    /\ answers' = answers \ {a}
    /\ LET kept == [preview EXCEPT !.cached = @ \/ ok]
       IN  preview' = IF ~Current(preview, a) THEN kept
                      ELSE IF ok
                      THEN [kept EXCEPT !.rendering = FALSE, !.error = FALSE,
                                        !.pixmap = [page |-> a.page, size |-> a.size]]
                      ELSE [kept EXCEPT !.rendering = FALSE, !.error = TRUE]
    /\ UNCHANGED <<pages, selected, size, hex, markdown, keys>>

MarkdownReady(a, ok) ==
    /\ a \in answers /\ a.pane = "markdown"
    /\ answers' = answers \ {a}
    /\ markdown' = IF ~Current(markdown, a) THEN markdown
                   ELSE IF ok
                   THEN [markdown EXCEPT !.loading = FALSE, !.error = FALSE, !.source = a.page]
                   ELSE [markdown EXCEPT !.loading = FALSE, !.error = TRUE]
    /\ UNCHANGED <<pages, selected, size, hex, preview, keys>>

Answer(a) ==
    \/ HexLoaded(a) \/ HexFailed(a)
    \/ \E ok \in BOOLEAN : PreviewReady(a, ok) \/ MarkdownReady(a, ok)

Key ==
    \/ ScrollHex \/ TogglePreview \/ ToggleMarkdown
    \/ \E n \in Nodes : Select(n)
    \/ \E s \in Sizes : Resize(s) \/ MoveDivider(s)

Next == Key \/ Tick \/ \E a \in answers : Answer(a)

Spec == Init /\ [][Next]_vars

\* Every task sends its answer, the loop takes it, and the clock ticks.
FairSpec == Spec /\ WF_vars(Tick) /\ WF_vars(\E a \in answers : Answer(a))

-----------------------------------------------------------------------------
\* A settled page pane shows the page its title names, whatever order the
\* answers of superseded requests came in (preview.rs 73-82, markdown.rs 48-51).
PanesShowTheirPage ==
    /\ ~preview.rendering /\ ~preview.error => preview.pixmap.page = preview.page
    /\ ~markdown.loading /\ ~markdown.error => markdown.source = markdown.page

\* A settled preview was rendered for the pane as it is now: resizes that came
\* while a render ran, or the pane was away, are not forgotten (app.rs 247-251,
\* 984-985: "its raster was fit to the old pane size").
PreviewFitsThePane ==
    preview.active /\ ~preview.rendering /\ preview.debounce = 0 /\ ~preview.error =>
        preview.pixmap.size = size

\* Of a selection on a page, the active pane is on that page (app.rs 923-925;
\* docs/src/guide/explorer.md 208).
PanesFollowSelection ==
    selected.page # NoPage =>
        \A pane \in {[active |-> preview.active, page |-> preview.page],
                    [active |-> markdown.active, page |-> markdown.page]} :
            pane.active => pane.page = selected.page

\* The state is well typed, the scroll of the hex pane within its source, and the
\* bytes shown under a source's offsets are that source's, the selection's, and
\* the part of it they are taken for (app.rs 315-325, hexview.rs 92-109).
HexShowsItsSource ==
    /\ TypeOK
    /\ hex.source = selected.hex
    /\ hex.count > 0 =>
          /\ hex.of = hex.source
          /\ hex.from + hex.count <= hex.total /\ hex.total = hex.source.len

\* The strengthening the proofs need.  An answer under way is not of a later
\* request than the pane's, and one of the latest is what the pane waits for.
HexAnswersFit ==
    \A a \in answers : a.pane = "hex" =>
        /\ a.gen <= hex.gen /\ a.from <= a.source.len
        /\ a.gen = hex.gen => a.source = hex.source
RendersFit ==
    \A a \in answers : a.pane = "preview" =>
        /\ a.gen <= preview.gen
        /\ a.gen = preview.gen =>
              a.page = preview.page /\ (preview.active /\ preview.debounce = 0 => a.size = size)
ExtractsFit ==
    \A a \in answers : a.pane = "markdown" =>
        a.gen <= markdown.gen /\ (a.gen = markdown.gen => a.page = markdown.page)

\* The length the hex pane goes by is its source's, or not known yet.
TotalIsOfTheSource ==
    /\ hex.source = NoSource => hex.total = 0
    /\ hex.source # NoSource /\ hex.total # hex.source.len =>
          hex.total = 0 /\ hex.source.kind # "file"

IInv ==
    /\ HexShowsItsSource /\ HexAnswersFit /\ TotalIsOfTheSource
    /\ PanesShowTheirPage /\ RendersFit /\ ExtractsFit
    /\ PreviewFitsThePane /\ PanesFollowSelection

\* No pane spins for ever: every load ends in its answer, every debounce in a
\* render or an inactive pane.
PanesSettle ==
    /\ preview.rendering ~> ~preview.rendering
    /\ markdown.loading ~> ~markdown.loading
    /\ hex.loading ~> ~hex.loading
    /\ preview.debounce > 0 ~> preview.debounce = 0

=============================================================================
