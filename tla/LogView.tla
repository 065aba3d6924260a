------------------------------ MODULE LogView ------------------------------
(***************************************************************************)
(* The log view of the page: hooks/useLogs.ts, on the log of one container *)
(* as api/logs.go serves it.  The view shows the newest page of lines and  *)
(* opens an event stream after its newest line.  Older pages are asked for *)
(* while the stream runs; over its limit the buffer loses lines at the     *)
(* other end, and once it loses the newest it is detached: live lines wait *)
(* until the newest page is asked for again.                               *)
(*                                                                         *)
(* Lines are numbered as they are written; no two have the same time.      *)
(* `crossed' and, in `source', `last' are history.                         *)
(***************************************************************************)
EXTENDS Integers, Sequences, SequencesExt, FiniteSetsExt

CONSTANTS
  pageSize,       \* lines of a page (200)
  bufferSize,     \* lines the view keeps
  tailLines,      \* lines a stream opened without a position starts with (100)
  MaxLines,       \* bound: lines written
  MaxBreaks,      \* bound: streams that break
  MaxOpens        \* bound: times the view is closed or opened, or shows another log

ASSUME ViewAssumption ==
  /\ pageSize \in Nat \ {0} /\ bufferSize \in Nat \ {0} /\ tailLines \in Nat \ {0}
  /\ pageSize <= bufferSize
  /\ MaxLines \in Nat /\ MaxBreaks \in Nat /\ MaxOpens \in Nat

VARIABLES
  written,        \* the lines of the log
  active,         \* the view is open
  shown,            \* linesRef: the lines shown
  detached,       \* the buffer does not reach the newest line
  following,      \* the reader is at the bottom
  hasMore, loadingMore, loadingNewer,
  resetting,      \* the main effect waits for the next frame
  first,          \* its request for the newest page: the lines written when it was
                  \* asked for, or NotAsked
  more,           \* the request for older lines: the line they are to precede, or NotAsked
  newer,          \* the request for the newest page again, as `first'
  source,         \* the event stream
  breaks, opens,
  crossed         \* history: see Connect and ApplyMore

viewVars == <<written, active, shown, detached, following, hasMore, loadingMore,
              loadingNewer, resetting, first, more, newer, source, breaks, opens, crossed>>

NotAsked == -1

\* A stream: its state, the line its URL says to go on after (0: none), the line
\* the server sends next, the last one sent, and the lines not flushed yet.
NoStream == [pc |-> "closed", since |-> 0, next |-> 0, last |-> 0, batch |-> <<>>]
openSSE(since) == [NoStream EXCEPT !.pc = "connecting", !.since = since]

ViewInit ==
  /\ written \in 0..MaxLines
  /\ active \in BOOLEAN
  /\ shown = <<>>
  /\ detached = FALSE /\ following = TRUE
  /\ hasMore = TRUE /\ loadingMore = FALSE /\ loadingNewer = FALSE
  /\ resetting = TRUE
  /\ first = NotAsked /\ more = NotAsked /\ newer = NotAsked
  /\ source = NoStream
  /\ breaks = 0 /\ opens = 0
  /\ crossed = FALSE

Lines(a, b) == [i \in 1..(b - a + 1) |-> a + i - 1]

\* What a page of the lines up to `newest' may hold: the newest ones, as many as fit
\* (newestWithin drops more when they are long), and at least one.
PagesUpTo(newest) ==
  IF newest = 0 THEN {<<>>}
  ELSE {Lines(a, newest) : a \in Max({1, newest - pageSize + 1})..newest}

-----------------------------------------------------------------------------
(* Opening and closing the view.                                           *)

\* The main effect: the view is opened, closed, or shows another log.  Requests are
\* aborted and the stream closed; loadingMore stays as it is.
Reopen(open) ==
  /\ opens < MaxOpens /\ opens' = opens + 1
  /\ active' = open
  /\ shown' = <<>> /\ detached' = FALSE
  /\ first' = NotAsked /\ more' = NotAsked /\ newer' = NotAsked
  /\ source' = NoStream
  /\ resetting' = TRUE
  /\ crossed' = FALSE
  /\ UNCHANGED <<written, following, hasMore, loadingMore, loadingNewer, breaks>>

\* The next frame: the state is reset, and an open view asks for the newest page.
Reset ==
  /\ resetting
  /\ resetting' = FALSE
  /\ first' = IF active THEN written ELSE NotAsked
  /\ hasMore' = TRUE /\ loadingNewer' = FALSE
  /\ UNCHANGED <<written, active, shown, detached, following, loadingMore, more, newer,
                 source, breaks, opens, crossed>>

\* Mutant: the stream goes on after the lines written when it is opened.
showLatestNow(page) ==
  /\ shown' = page
  /\ hasMore' = (page # <<>>)
  /\ detached' = FALSE
  /\ source' = openSSE(IF page = <<>> THEN 0 ELSE written)

\* The page replaces the buffer, and a stream opens after its newest line.
showLatest(page) ==
  /\ shown' = page
  /\ hasMore' = (page # <<>>)
  /\ detached' = FALSE
  /\ source' = openSSE(IF page = <<>> THEN 0 ELSE Last(page))

\* The newest page as the server read it, some time since it was asked for.
NewestPages(at) == UNION {PagesUpTo(n) : n \in at..written}

ShowFirst ==
  /\ first # NotAsked
  /\ first' = NotAsked
  /\ \E page \in NewestPages(first) : showLatest(page)
  /\ UNCHANGED <<written, active, following, loadingMore, loadingNewer, resetting,
                 more, newer, breaks, opens, crossed>>

\* The request fails: the view falls back to the stream.
FirstFails ==
  /\ first # NotAsked
  /\ first' = NotAsked
  /\ source' = openSSE(0)
  /\ UNCHANGED <<written, active, shown, detached, following, hasMore, loadingMore,
                 loadingNewer, resetting, more, newer, breaks, opens, crossed>>

-----------------------------------------------------------------------------
(* The stream.                                                             *)

\* The server opens the log: after the position in the URL, or with a tail.  A stream
\* that broke is opened by the browser again, with the same URL: lines already sent
\* come again, or lines written meanwhile do not come.
Connect ==
  /\ source.pc = "connecting"
  /\ LET next == IF source.since > 0 THEN source.since + 1
                 ELSE Max({1, written - tailLines + 1})
     IN /\ source' = [source EXCEPT !.pc = "open", !.next = next]
        /\ crossed' = (crossed \/ (source.last > 0 /\ next # source.last + 1))
  /\ UNCHANGED <<written, active, shown, detached, following, hasMore, loadingMore,
                 loadingNewer, resetting, first, more, newer, breaks, opens>>

\* A line arrives.
OnMessage ==
  /\ source.pc = "open"
  /\ source.next <= written
  /\ source' = [source EXCEPT !.batch = Append(@, source.next), !.last = source.next,
                              !.next = @ + 1]
  /\ UNCHANGED <<written, active, shown, detached, following, hasMore, loadingMore,
                 loadingNewer, resetting, first, more, newer, breaks, opens, crossed>>

LastOf(s, n) == SubSeq(s, Max({1, Len(s) - n + 1}), Len(s))
FirstOf(s, n) == SubSeq(s, 1, Min({n, Len(s)}))

\* Mutant: a scrolled-up reader's lines are kept by dropping the new ones.
FlushDropsQuietly ==
  /\ source.batch # <<>>
  /\ source' = [source EXCEPT !.batch = <<>>]
  /\ IF detached \/ (~following /\ Len(shown) + Len(source.batch) > bufferSize)
     THEN UNCHANGED <<shown, detached>>
     ELSE shown' = LastOf(shown \o source.batch, bufferSize) /\ UNCHANGED detached
  /\ UNCHANGED <<written, active, following, hasMore, loadingMore, loadingNewer,
                 resetting, first, more, newer, breaks, opens, crossed>>

\* Mutant: a detached buffer takes live lines.
FlushAlways ==
  /\ source.batch # <<>>
  /\ source' = [source EXCEPT !.batch = <<>>]
  /\ IF ~following /\ Len(shown) + Len(source.batch) > bufferSize
     THEN detached' = TRUE /\ UNCHANGED shown
     ELSE shown' = LastOf(shown \o source.batch, bufferSize) /\ UNCHANGED detached
  /\ UNCHANGED <<written, active, following, hasMore, loadingMore, loadingNewer,
                 resetting, first, more, newer, breaks, opens, crossed>>

\* The frame after a message: the lines are shown, unless the buffer is detached or
\* would lose lines a scrolled-up reader may be reading, which detaches it.
Flush ==
  /\ source.batch # <<>>
  /\ source' = [source EXCEPT !.batch = <<>>]
  /\ CASE detached -> UNCHANGED <<shown, detached>>
       [] ~detached /\ ~following /\ Len(shown) + Len(source.batch) > bufferSize ->
            detached' = TRUE /\ UNCHANGED shown
       [] OTHER -> shown' = LastOf(shown \o source.batch, bufferSize) /\ UNCHANGED detached
  /\ UNCHANGED <<written, active, following, hasMore, loadingMore, loadingNewer,
                 resetting, first, more, newer, breaks, opens, crossed>>

\* The connection is lost, or the server ends the stream.
Break ==
  /\ source.pc = "open"
  /\ breaks < MaxBreaks /\ breaks' = breaks + 1
  /\ source' = [source EXCEPT !.pc = "connecting"]
  /\ UNCHANGED <<written, active, shown, detached, following, hasMore, loadingMore,
                 loadingNewer, resetting, first, more, newer, opens, crossed>>

\* The server answers with an error: the browser does not try again.
Refuse ==
  /\ source.pc = "connecting"
  /\ breaks < MaxBreaks /\ breaks' = breaks + 1
  /\ source' = [source EXCEPT !.pc = "refused"]
  /\ UNCHANGED <<written, active, shown, detached, following, hasMore, loadingMore,
                 loadingNewer, resetting, first, more, newer, opens, crossed>>

-----------------------------------------------------------------------------
(* Older lines, and back to the newest.                                    *)

LoadMore ==
  /\ active
  /\ ~loadingMore /\ hasMore
  /\ IF shown = <<>>
     THEN hasMore' = FALSE /\ UNCHANGED <<loadingMore, more>>
     ELSE loadingMore' = TRUE /\ more' = shown[1] /\ UNCHANGED hasMore
  /\ UNCHANGED <<written, active, shown, detached, following, loadingNewer, resetting,
                 first, newer, source, breaks, opens, crossed>>

\* Older lines are put in front; over the limit the newest give way.
Prepend(older) ==
  /\ shown' = FirstOf(older \o shown, bufferSize)
  /\ detached' = (detached \/ Len(older) + Len(shown) > bufferSize)

\* The page arrives.  It was asked for the buffer of that time: one that has been
\* replaced, or has lost its oldest lines, since then gets a hole, or lines twice.
ApplyMore ==
  /\ more # NotAsked
  /\ more' = NotAsked /\ loadingMore' = FALSE
  /\ \E older \in PagesUpTo(more - 1) :
       IF older = <<>>
       THEN hasMore' = FALSE /\ UNCHANGED <<shown, detached, crossed>>
       ELSE /\ hasMore' = TRUE
            /\ Prepend(older)
            /\ crossed' = (crossed \/ shown[1] # more)
  /\ UNCHANGED <<written, active, following, loadingNewer, resetting, first, newer,
                 source, breaks, opens>>

MoreFails ==
  /\ more # NotAsked
  /\ more' = NotAsked /\ loadingMore' = FALSE
  /\ UNCHANGED <<written, active, shown, detached, following, hasMore, loadingNewer,
                 resetting, first, newer, source, breaks, opens, crossed>>

LoadNewer ==
  /\ active
  /\ ~loadingNewer /\ detached
  /\ loadingNewer' = TRUE /\ newer' = written
  /\ UNCHANGED <<written, active, shown, detached, following, hasMore, loadingMore,
                 resetting, first, more, source, breaks, opens, crossed>>

ApplyNewer ==
  /\ newer # NotAsked
  /\ newer' = NotAsked /\ loadingNewer' = FALSE
  /\ \E page \in NewestPages(newer) : showLatest(page)
  /\ crossed' = FALSE
  /\ UNCHANGED <<written, active, following, loadingMore, resetting, first, more,
                 breaks, opens>>

NewerFails ==
  /\ newer # NotAsked
  /\ newer' = NotAsked /\ loadingNewer' = FALSE
  /\ UNCHANGED <<written, active, shown, detached, following, hasMore, loadingMore,
                 resetting, first, more, source, breaks, opens, crossed>>

\* The reader scrolls to the bottom, or away from it.
OnFollowChange ==
  /\ active
  /\ following' = ~following
  /\ UNCHANGED <<written, active, shown, detached, hasMore, loadingMore, loadingNewer,
                 resetting, first, more, newer, source, breaks, opens, crossed>>

\* External: the container writes a line.
WriteLine ==
  /\ written < MaxLines
  /\ written' = written + 1
  /\ UNCHANGED <<active, shown, detached, following, hasMore, loadingMore, loadingNewer,
                 resetting, first, more, newer, source, breaks, opens, crossed>>

ViewNext ==
  \/ \E open \in BOOLEAN : Reopen(open)
  \/ Reset \/ ShowFirst \/ FirstFails
  \/ Connect \/ OnMessage \/ Flush \/ Break \/ Refuse
  \/ LoadMore \/ ApplyMore \/ MoreFails
  \/ LoadNewer \/ ApplyNewer \/ NewerFails
  \/ OnFollowChange \/ WriteLine

ViewSpec == ViewInit /\ [][ViewNext]_viewVars

-----------------------------------------------------------------------------
(* Properties.                                                             *)

ViewTypeOK ==
  /\ written \in 0..MaxLines
  /\ active \in BOOLEAN /\ detached \in BOOLEAN /\ following \in BOOLEAN
  /\ hasMore \in BOOLEAN /\ loadingMore \in BOOLEAN /\ loadingNewer \in BOOLEAN
  /\ resetting \in BOOLEAN /\ crossed \in BOOLEAN
  /\ Len(shown) <= bufferSize
  /\ {first, more, newer} \subseteq {NotAsked} \cup 0..MaxLines
  /\ source.pc \in {"closed", "connecting", "open", "refused"}

Contiguous(s) == \A i \in 1..(Len(s) - 1) : s[i + 1] = s[i] + 1

\* "The buffer is always one contiguous run of lines" (useLogs.ts:74).
OneRun == Contiguous(shown)

\* It is, through any order of pages, live lines, scrolling and detaching, as long as
\* no stream was opened twice at one position and no page of older lines met another
\* buffer than the one it was asked for.
OneRunUnlessCrossed == ~crossed => OneRun

\* A buffer that is not detached goes on where it ends: the lines waiting to be shown
\* and the one the server sends next follow its last line, whether it came from a
\* page, the stream or both.
AttachedFollows ==
  ~crossed /\ ~detached /\ source.pc = "open" =>
    Contiguous(shown \o source.batch \o <<source.next>>)

\* The buffer is one run that the stream goes on from.
ViewSound == OneRunUnlessCrossed /\ AttachedFollows

\* Once nothing more is written, an open view shows the newest line, unless it says it
\* is detached or the server refused the stream: held-back lines are never forgotten
\* without a word.
ShowsNewest ==
  \/ ~active \/ detached \/ source.pc = "refused" \/ written = 0
  \/ shown # <<>> /\ Last(shown) = written
ReachesNewest == <>[]ShowsNewest
=============================================================================
