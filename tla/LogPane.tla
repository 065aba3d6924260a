------------------------------- MODULE LogPane -------------------------------
(***************************************************************************)
(* The scroll box of a log, components/logwindow/LogStream.tsx: it follows *)
(* the newest line while the reader is at the bottom, and holds what they  *)
(* read in place while lines come and go above and below it; a search goes *)
(* to the match it is at.  And the marks of the search.                    *)
(*                                                                         *)
(* The lines are numbered, without the gaps LogView finds, and each is a   *)
(* row of one height.  What useLogs gives the box is a record `props',     *)
(* that changes here as a buffer of PaneBuffer lines lets it.  A change    *)
(* that a handler makes is rendered with it.  A search is the set of the   *)
(* lines it finds, each with one match.  React runs the effect that goes   *)
(* to the match after the rows are shown, but before it renders again, and *)
(* at once after a key or a click.                                         *)
(*                                                                         *)
(* `seen', `shifted', `wentUp' and `jumped' are history: the row at the    *)
(* top of what the reader last scrolled to, with its offset, unless the    *)
(* search has moved the box since; whether a banner has come or gone since *)
(* the rows were last placed; whether the reader, and whether the search,  *)
(* has moved the box up since it last began to follow.                     *)
(***************************************************************************)
EXTENDS Integers, Sequences, SequencesExt, FiniteSetsExt

CONSTANTS
  NoRow,
  ROW, BANNER, BOX,     \* heights of a row, of a banner and of the box
  BOTTOM_SLACK_PX,      \* this close to the end counts as at the bottom
  TOP_EDGE,             \* this close to the top older lines are asked for
  PaneBuffer,           \* lines the box is given at most
  Searches,             \* what can be looked for: the lines that it is in
  LowerCase,            \* the letters that a letter is in lower case
  MaxPaneLine           \* bound: lines written

ASSUME PaneAssumption ==
  /\ {ROW, BOTTOM_SLACK_PX} \subseteq Nat \ {0}
  /\ {BANNER, BOX, TOP_EDGE, PaneBuffer, MaxPaneLine} \subseteq Nat
  /\ NoRow \notin Int \union [row : Int, offset : Int]
  /\ \A lines \in Searches : lines \subseteq Nat

VARIABLES
  props,                \* [from, to, hasMore, loadingMore, hasNewer, loadingNewer]
  newest,               \* the last line written
  scrollTop, scrollDue, \* where the box is scrolled to, and whether its event is to come
  lastTop,              \* lastTopRef
  autoScroll,
  anchor,               \* anchorRef: [row, offset], or NoRow
  search, activeMatch,  \* the lines searched for, and the raw index of the match
  matchDue,             \* the effect that goes to the match is to run
  seen, shifted, wentUp, jumped

searchedVars == <<search, activeMatch>>
followVars == <<autoScroll, wentUp, jumped>>
paneVars == <<props, newest, scrollTop, scrollDue, lastTop, anchor, matchDue, seen, shifted,
              searchedVars, followVars>>

-----------------------------------------------------------------------------
(* What is in the box, from the top.                                       *)

RowsOf(p) == p.from..p.to
BannerAbove(p) == IF p.loadingMore \/ (~p.hasMore /\ RowsOf(p) # {}) THEN BANNER ELSE 0
BannerBelow(p) == IF p.hasNewer /\ RowsOf(p) # {} THEN BANNER ELSE 0

scrollHeight(p) == BannerAbove(p) + ROW * Cardinality(RowsOf(p)) + BannerBelow(p)
offsetTop(p, row) == BannerAbove(p) + ROW * (row - p.from)

\* What a browser makes of a place to scroll to.
MaxTop(p) == Max({0, scrollHeight(p) - BOX})
Clamped(p, top) == Max({0, Min({top, MaxTop(p)})})

firstVisibleRow(p, top) ==
  LET visible == {row \in RowsOf(p) : offsetTop(p, row) + ROW > top}
  IN IF visible = {} THEN NoRow ELSE Min(visible)

captureAnchor(p, top) ==
  LET row == firstVisibleRow(p, top)
  IN IF row = NoRow THEN NoRow ELSE [row |-> row, offset |-> offsetTop(p, row) - top]

-----------------------------------------------------------------------------
(* The match.                                                              *)

\* The mark shown for the one stepped to, and the one a step leads to.
effectiveActive(m, total) == IF total = 0 THEN 0 ELSE Min({m, total - 1})
\* Mutant: a step past the last mark stays there.
StepStays(m, delta, total) == m + delta
step(m, delta, total) == IF total = 0 THEN m ELSE (m + delta + total) % total

\* What the effect depends on, and the row it shows.
Matches(p, lines) == RowsOf(p) \intersect lines
MatchShown(p, lines, m) ==
  LET total == Cardinality(Matches(p, lines)) IN <<effectiveActive(m, total), total>>
ActiveRow(p, lines, m) ==
  {row \in Matches(p, lines) :
     Cardinality(Matches(p, lines) \intersect 0..(row - 1)) = MatchShown(p, lines, m)[1]}

\* Where the effect leaves the box, one place: the match in its middle, if there is one.
MatchPlace(p, lines, m, top) ==
  IF Matches(p, lines) = {} THEN {top}
  ELSE {Clamped(p, (2 * offsetTop(p, row) + ROW - BOX) \div 2) : row \in ActiveRow(p, lines, m)}

-----------------------------------------------------------------------------
(* The box.                                                                *)

PaneInit ==
  /\ props = [from |-> 1, to |-> 0, hasMore |-> TRUE, loadingMore |-> FALSE,
              hasNewer |-> FALSE, loadingNewer |-> FALSE]
  /\ newest = 1 /\ scrollTop = 0 /\ scrollDue = FALSE /\ lastTop = 0
  /\ autoScroll = TRUE /\ anchor = NoRow
  /\ search = {} /\ activeMatch = 0 /\ matchDue = FALSE
  /\ seen = NoRow /\ shifted = FALSE /\ wentUp = FALSE /\ jumped = FALSE

\* The layout effect's place for the rows of p: the end, or where the anchored row stays.
PlacedTop(p, top, following, held) ==
  IF following THEN MaxTop(p)
  ELSE IF held # NoRow /\ held.row \in RowsOf(p)
  THEN Clamped(p, offsetTop(p, held.row) - held.offset)
  ELSE Clamped(p, top)

\* The effect runs, having been given p: the rows are placed before they are seen.
LayoutEffect(p, top, following, held) ==
  /\ scrollTop' = PlacedTop(p, top, following, held)
  /\ lastTop' = scrollTop' /\ shifted' = FALSE
  /\ anchor' = IF following THEN held ELSE captureAnchor(p, scrollTop')

\* Lines that are shown or go can be matches: the effect is to run if the match shown is
\* another, or one of others.
Rendered(p) ==
  /\ matchDue' = (MatchShown(p, search, activeMatch) # MatchShown(props, search, activeMatch))
  /\ UNCHANGED searchedVars

\* History: what was seen, while it can be kept where it was.
StillSeen(was, p, top) ==
  IF was # NoRow /\ was.row \in RowsOf(p)
     /\ offsetTop(p, was.row) - was.offset \in 0..MaxTop(p)
  THEN was ELSE captureAnchor(p, top)

\* Other lines are given.  That the box scrolls by itself is an event as well.
LinesGiven(p) ==
  /\ ~matchDue /\ Rendered(p)
  /\ props' = p
  /\ LayoutEffect(p, scrollTop, autoScroll, anchor)
  /\ scrollDue' = (scrollDue \/ scrollTop' # scrollTop)
  /\ seen' = IF autoScroll \/ (seen = NoRow /\ scrollDue) THEN NoRow
             ELSE StillSeen(seen, p, scrollTop')
  /\ UNCHANGED followVars

\* Only banners change: no effect places the rows.
Banners(p) ==
  /\ ~matchDue
  /\ props' = p
  /\ scrollTop' = Clamped(p, scrollTop)
  /\ scrollDue' = (scrollDue \/ scrollTop' # scrollTop)
  /\ shifted' = (shifted \/ scrollTop' # scrollTop \/ scrollHeight(p) # scrollHeight(props))
  /\ UNCHANGED <<newest, lastTop, anchor, matchDue, seen, searchedVars, followVars>>

\* follow(on), with p as the props it leads to, `held' captured and the box at top when it
\* is rendered; the layout effect runs if following begins or ends.
Follow(on, p, held, top) ==
  /\ autoScroll' = on
  /\ props' = IF on /\ p.hasNewer THEN [p EXCEPT !.loadingNewer = TRUE] ELSE p
  /\ wentUp' = (wentUp /\ ~(on /\ ~autoScroll))
  /\ jumped' = ((jumped \/ top < scrollTop) /\ ~(on /\ ~autoScroll))
  /\ IF on # autoScroll THEN LayoutEffect(props', top, on, held)
     ELSE /\ scrollTop' = Clamped(props', top) /\ anchor' = held
          /\ shifted' = (shifted \/ scrollHeight(props') # scrollHeight(props))

\* A handler that renders has an effect that is due run first; the rows are the same ones.
RenderedFrom(renders) ==
  IF renders /\ matchDue THEN MatchPlace(props, search, activeMatch, scrollTop) ELSE {scrollTop}
EffectFirst(renders) == matchDue' = (matchDue /\ ~renders) /\ UNCHANGED searchedVars

\* Where the reader stands when the event comes.
atBottom == scrollHeight(props) - scrollTop - BOX < BOTTOM_SLACK_PX
movedUp == scrollTop < lastTop

\* Mutant: following stops wherever the box is not at the bottom.
FollowsAtBottom == atBottom

\* At the bottom, or on the way there.
Follows == atBottom \/ (autoScroll /\ ~movedUp)

\* The place the handler makes is what the reader has seen, if nothing moves it again.
handleScroll ==
  /\ scrollDue
  /\ LET asks == scrollTop < TOP_EDGE /\ scrollHeight(props) > BOX /\ props.hasMore /\ ~props.loadingMore
         p == IF asks THEN [props EXCEPT !.loadingMore = TRUE] ELSE props
         held == IF atBottom THEN anchor ELSE captureAnchor(props, scrollTop)
         on == Follows
         renders == asks \/ on # autoScroll \/ (atBottom /\ props.hasNewer /\ ~props.loadingNewer)
     IN /\ EffectFirst(renders)
        /\ \E top \in RenderedFrom(renders) :
             /\ IF on = autoScroll /\ ~atBottom
                THEN /\ props' = p /\ anchor' = held /\ scrollTop' = Clamped(p, top)
                     /\ shifted' = (shifted \/ asks) /\ jumped' = (jumped \/ top < scrollTop)
                     /\ UNCHANGED <<autoScroll, wentUp>>
                ELSE Follow(on, p, held, top)
             /\ on = autoScroll => lastTop' = scrollTop
             /\ scrollDue' = (top # scrollTop \/ scrollTop' # scrollTop)
             /\ seen' = IF on \/ (~autoScroll /\ top # scrollTop) THEN NoRow
                        ELSE captureAnchor(props, scrollTop)
  /\ UNCHANGED newest

\* A wheel turned down by px: past the end following begins at once.
handleWheel(px) ==
  /\ scrollTop + BOX + px >= scrollHeight(props) - BOTTOM_SLACK_PX
  /\ LET renders == ~autoScroll \/ (props.hasNewer /\ ~props.loadingNewer)
     IN /\ EffectFirst(renders)
        /\ \E top \in RenderedFrom(renders) :
             /\ Follow(TRUE, props, anchor, top)
             /\ scrollDue' = (scrollDue \/ top # scrollTop \/ scrollTop' # scrollTop)
  /\ autoScroll => UNCHANGED lastTop
  /\ seen' = NoRow
  /\ UNCHANGED newest

\* The reader scrolls, and the browser tells of it later.
Scroll(top) ==
  /\ top \in 0..MaxTop(props) /\ top # scrollTop
  /\ scrollTop' = top /\ scrollDue' = TRUE
  /\ wentUp' = (wentUp \/ top < scrollTop) /\ seen' = NoRow
  /\ UNCHANGED <<props, newest, lastTop, autoScroll, anchor, matchDue, shifted, jumped, searchedVars>>

\* The effect goes to the match, wherever the box is.
GoesTo(top) ==
  /\ scrollTop' = top
  /\ scrollDue' = (scrollDue \/ top # scrollTop)
  /\ jumped' = (jumped \/ top < scrollTop)
  /\ seen' = IF top = scrollTop THEN seen ELSE NoRow
  /\ UNCHANGED <<props, newest, lastTop, autoScroll, anchor, shifted, wentUp>>

MatchEffect ==
  /\ matchDue /\ matchDue' = FALSE
  /\ \E top \in MatchPlace(props, search, activeMatch, scrollTop) : GoesTo(top)
  /\ UNCHANGED searchedVars

\* Another search is typed, from its first match, or a match is stepped to.
Searched(lines, m) ==
  /\ ~matchDue /\ UNCHANGED matchDue
  /\ search' = lines /\ activeMatch' = m
  /\ \E top \in IF MatchShown(props, lines, m) = MatchShown(props, search, activeMatch) THEN {scrollTop}
                ELSE MatchPlace(props, lines, m, scrollTop) :
       GoesTo(top)
stepTo(delta) ==
  LET total == Cardinality(Matches(props, search))
  IN total > 0 /\ Searched(search, step(activeMatch, delta, total))

-----------------------------------------------------------------------------
(* What useLogs does with the lines.                                       *)

\* The newest page, at first and when it has been asked for again.
LatestPage ==
  /\ RowsOf(props) = {} \/ props.loadingNewer
  /\ LinesGiven([props EXCEPT !.from = Max({1, newest - 1}), !.to = newest, !.hasMore = TRUE,
                              !.hasNewer = FALSE, !.loadingNewer = FALSE])
  /\ UNCHANGED newest

\* A line is written.  Following, a full buffer loses its oldest; scrolled up, it is
\* detached instead; detached, it takes no more.
LineWritten ==
  /\ newest < MaxPaneLine /\ newest' = newest + 1
  /\ LET full == Cardinality(RowsOf(props)) = PaneBuffer
         longer == [props EXCEPT !.to = newest', !.from = IF full THEN @ + 1 ELSE @]
     IN IF RowsOf(props) = {} \/ props.hasNewer
        THEN UNCHANGED <<props, scrollTop, scrollDue, lastTop, anchor, matchDue, seen, shifted,
                         searchedVars, followVars>>
        ELSE IF full /\ ~autoScroll
        THEN LET p == [props EXCEPT !.hasNewer = TRUE]
             IN /\ ~matchDue
                /\ props' = p /\ scrollTop' = scrollTop
                /\ shifted' = TRUE
                /\ UNCHANGED <<scrollDue, lastTop, anchor, matchDue, seen, searchedVars, followVars>>
        ELSE LinesGiven(longer)

\* Older lines come; over the limit the newest give way.  Or none are left, or the
\* request fails.
OlderLine ==
  /\ props.loadingMore /\ props.from > 1
  /\ LET full == Cardinality(RowsOf(props)) = PaneBuffer
     IN LinesGiven([props EXCEPT !.from = @ - 1, !.to = IF full THEN @ - 1 ELSE @, !.loadingMore = FALSE,
                                 !.hasMore = TRUE, !.hasNewer = @ \/ full])
  /\ UNCHANGED newest
OlderEnds ==
  /\ props.loadingMore
  /\ \E more \in BOOLEAN :
       /\ more \/ props.from = 1
       /\ Banners([props EXCEPT !.loadingMore = FALSE, !.hasMore = more])
NewerLost == props.loadingNewer /\ Banners([props EXCEPT !.loadingNewer = FALSE])

PaneNext ==
  \/ LatestPage \/ LineWritten \/ OlderLine \/ OlderEnds \/ NewerLost
  \/ handleScroll \/ handleWheel(ROW)
  \/ \E top \in 0..MaxTop(props) : Scroll(top)
  \/ MatchEffect
  \/ \E lines \in Searches : Searched(lines, 0)
  \/ \E delta \in {-1, 1} : stepTo(delta)

PaneSpec == PaneInit /\ [][PaneNext]_paneVars

-----------------------------------------------------------------------------
(* The search.                                                             *)

\* text.toLowerCase(): a letter can become more than one.
toLowerCase(text) == FlattenSeq([i \in DOMAIN text |-> LowerCase[text[i]]])
Slice(text, from, to) == SubSeq(text, from + 1, Min({to, Len(text)}))

\* A text cut where its lower case has q, leftmost first.
Split(text, q) ==
  LET lower == toLowerCase(text)
      split[i \in 0..Len(lower)] ==
        LET at == {k \in i..(Len(lower) - Len(q)) : SubSeq(lower, k + 1, k + Len(q)) = q}
            idx == Min(at)
        IN IF i >= Len(text) THEN <<>>
           ELSE IF at = {} THEN <<[text |-> Slice(text, i, Len(text)), hit |-> FALSE]>>
           ELSE (IF idx > i THEN <<[text |-> Slice(text, i, idx), hit |-> FALSE]>> ELSE <<>>)
                \o <<[text |-> Slice(text, idx, idx + Len(q)), hit |-> TRUE]>> \o split[idx + Len(q)]
  IN split[0]

Hits(segments) == Len(SelectSeq(segments, LAMBDA s : s.hit))

\* Each line in segments; the hits of all lines are numbered from 0.
buildSegments(texts, query) ==
  LET split == [l \in DOMAIN texts |->
                  IF query = <<>> \/ texts[l] = <<>> THEN <<[text |-> texts[l], hit |-> FALSE]>>
                  ELSE Split(texts[l], toLowerCase(query))]
      before(l, s) == Hits(FlattenSeq(SubSeq(split, 1, l - 1))) + Hits(SubSeq(split[l], 1, s - 1))
  IN [total |-> Hits(FlattenSeq(split)),
      rendered |-> [l \in DOMAIN split |-> [s \in DOMAIN split[l] |->
        [text |-> split[l][s].text,
         matchIndex |-> IF split[l][s].hit THEN before(l, s) ELSE -1]]]]

-----------------------------------------------------------------------------
(* Properties.                                                             *)

\* "At the bottom, follow new lines. Scrolled up, keep the anchored row where it was"
\* (LogStream.tsx:149-150): through any number of changes, and the scrolling they cause
\* themselves, the row the reader scrolled to stays where they put it while the lines allow
\* it, and the end stays in view of one who follows.  It is the reader who leaves the end, or
\* a search that moved the box up (LogStream.tsx:137-141): then following stops although
\* nobody scrolled, which LogStream.tsx:184 rules out, and the row is held again from where
\* the search has put it.  What a banner moves is put right when lines change next.
PaneHolds ==
  /\ autoScroll \/ wentUp \/ jumped
  /\ ~shifted /\ seen # NoRow /\ seen.row \in RowsOf(props) =>
       offsetTop(props, seen.row) - scrollTop = seen.offset
  /\ autoScroll /\ ~scrollDue /\ ~shifted => atBottom
  /\ scrollTop \in 0..MaxTop(props)

\* "the search bar can jump between matches across all lines" (LogStream.tsx:42-43): the
\* segments of a line make its text; a line has a hit if its lower case holds the query, and
\* where no letter grows the hits, and no other segments, are it; the hits are numbered
\* without gaps; and the mark shown never points past the last (LogStream.tsx:133), from one
\* of them a step leads to its neighbour, and whatever was left of a longer list (209) is
\* stepped to all of them.
BuiltSound(texts, query, built) ==
  LET all == FlattenSeq(built.rendered)
      q == toLowerCase(query)
      indices == SelectSeq([i \in DOMAIN all |-> all[i].matchIndex], LAMBDA k : k >= 0)
      Holds(text) == \E i \in 0..(Len(text) - Len(q)) : SubSeq(text, i + 1, i + Len(q)) = q
      Grows(text) == \E i \in DOMAIN text : Len(LowerCase[text[i]]) # 1
      total == built.total
      Steps[k \in 0..total, m \in 0..(total + 2), delta \in {-1, 1}] ==
        IF k = 0 THEN m ELSE step(Steps[k - 1, m, delta], delta, total)
  IN /\ \A l \in DOMAIN texts :
          LET segments == built.rendered[l]
              hits == {s \in DOMAIN segments : segments[s].matchIndex >= 0}
          IN /\ FlattenSeq([s \in DOMAIN segments |-> segments[s].text]) = texts[l]
             /\ hits # {} <=> query # <<>> /\ Holds(toLowerCase(texts[l]))
             /\ query # <<>> /\ ~Grows(texts[l]) => \A s \in DOMAIN segments :
                  LET lower == toLowerCase(segments[s].text)
                  IN IF s \in hits THEN lower = q ELSE ~Holds(lower)
     /\ indices = [i \in 1..total |-> i - 1]
     /\ total > 0 => \A m \in 0..(total + 2), delta \in {-1, 1} :
          /\ effectiveActive(m, total) \in 0..(total - 1)
          /\ m < total => effectiveActive(step(m, delta, total), total) = (m + delta + total) % total
          /\ {effectiveActive(Steps[k, m, delta], total) : k \in 1..total} = 0..(total - 1)

SegmentsSound(texts, query) == BuiltSound(texts, query, buildSegments(texts, query))
=============================================================================
