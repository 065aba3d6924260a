---------------------------- MODULE PollingFetch ----------------------------
(***************************************************************************)
(* A card of the dashboard that polls: hooks/usePollingFetch.ts, with the  *)
(* URL of the charts' history, hooks/useStatsHistory.ts and Dashboard.tsx. *)
(*                                                                         *)
(* A render asks for a URL and the effect runs after it, as a step of its  *)
(* own.  The server reads a request at some version of its data and the    *)
(* answer comes later still, perhaps after the request was aborted.        *)
(***************************************************************************)
EXTENDS Naturals, FiniteSets

CONSTANTS
  NoUrl,
  PollStacks,     \* stacks the page is scoped to, AllStacks and OutsideStacks among them
  AllStacks,
  OutsideStacks,  \* the standalone scope
  Ranges,
  MaxVersion      \* bound: versions of the server's data

VARIABLES
  scope,          \* [range, stack, by, open] of the dashboard
  ran,            \* the URL the effect ran for last
  poll,           \* the hook's state, with the URL it belongs to
  flights,        \* requests: [url, read, live]
  timer,          \* the next poll is scheduled
  served          \* the version of the server's data

pollVars == <<scope, ran, poll, flights, timer, served>>

NoVersion == 0
Data(of, version) == [of |-> of, version |-> version]
NoData == Data(NoUrl, NoVersion)
Settled(url, data, failed) == [url |-> url, data |-> data, loading |-> FALSE, error |-> failed]
NothingPolled == Settled(NoUrl, NoData, FALSE)

\* Charts per node cover all stacks, and the server can keep to a named stack only.
effectiveScope == IF scope.stack = AllStacks THEN scope.by ELSE "workloads"
serverStack == IF scope.stack = OutsideStacks THEN AllStacks ELSE scope.stack

\* The URL the dashboard renders with, none when it is not open.
url ==
  IF ~scope.open THEN NoUrl
  ELSE IF effectiveScope = "nodes" THEN <<scope.range, "nodes">>
  ELSE <<scope.range, serverStack>>

PollInit ==
  /\ scope \in [range : Ranges, stack : PollStacks, by : {"workloads"}, open : {FALSE}]
  /\ ran = NoUrl /\ poll = NothingPolled
  /\ flights = {} /\ timer = FALSE
  /\ served = 1

PollDue == ran # url

\* What is rendered: before the effect has run there is nothing for a new URL.
rendered ==
  IF poll.url = url THEN [data |-> poll.data, loading |-> poll.loading, error |-> poll.error]
  ELSE [data |-> NoData, loading |-> url # NoUrl, error |-> FALSE]

\* The dashboard is opened, closed or set to something else.
Choose(range, stack, by, open) ==
  /\ scope' = [range |-> range, stack |-> stack, by |-> by, open |-> open]
  /\ UNCHANGED <<ran, poll, flights, timer, served>>

Sent(to) == [url |-> to, read |-> NoVersion, live |-> TRUE]

\* The last request is aborted and its timer cleared, and polling starts anew.
Aborted == {[url |-> f.url, read |-> f.read, live |-> FALSE] : f \in flights}

\* Mutant: the data of the last URL is kept.
KeptAnyway == poll.data

Kept == IF poll.url = url THEN poll.data ELSE NoData

RunPoll ==
  /\ PollDue
  /\ ran' = url
  /\ timer' = FALSE
  /\ IF url = NoUrl THEN poll' = NothingPolled /\ flights' = Aborted
     ELSE /\ poll' = [url |-> url, data |-> Kept, loading |-> TRUE, error |-> FALSE]
          /\ flights' = Aborted \union {Sent(url)}
  /\ UNCHANGED <<scope, served>>

\* The next poll.
PollAgain ==
  /\ timer
  /\ timer' = FALSE
  /\ flights' = flights \union {Sent(ran)}
  /\ UNCHANGED <<scope, ran, poll, served>>

ServerReads(f) ==
  /\ f \in flights /\ f.read = NoVersion
  /\ flights' = (flights \ {f}) \union {[url |-> f.url, read |-> served, live |-> f.live]}
  /\ UNCHANGED <<scope, ran, poll, timer, served>>

PollAnswered(f, ok) ==
  /\ f \in flights /\ (ok => f.read # NoVersion)
  /\ flights' = flights \ {f}
  /\ IF ~f.live THEN UNCHANGED <<poll, timer>>
     ELSE /\ poll' = IF ok THEN Settled(f.url, Data(f.url, f.read), FALSE) ELSE Settled(poll.url, poll.data, TRUE)
          /\ timer' = TRUE
  /\ UNCHANGED <<scope, ran, served>>

\* The server has new data.
ServerMoves ==
  /\ served < MaxVersion
  /\ served' = served + 1
  /\ UNCHANGED <<scope, ran, poll, flights, timer>>

PollNext ==
  \/ \E range \in Ranges, stack \in PollStacks, by \in {"workloads", "nodes"}, open \in BOOLEAN :
       Choose(range, stack, by, open)
  \/ RunPoll
  \/ PollAgain
  \/ \E f \in flights : ServerReads(f) \/ \E ok \in BOOLEAN : PollAnswered(f, ok)
  \/ ServerMoves

PollSpec == PollInit /\ [][PollNext]_pollVars

-----------------------------------------------------------------------------
LiveFlights == {f \in flights : f.live}

\* "requests never overlap and an older response can't overwrite a newer one", "a change of
\* URL never renders the previous URL's data, even for the one render before the new fetch
\* starts" (usePollingFetch.ts:20-25): what is rendered is of the URL rendered with, or
\* says that it is loading or failed; one request at most counts and, the effect having
\* run, either it or the timer will bring newer data.
PollsInOrder ==
  /\ rendered.data # NoData => rendered.data.of = url
  /\ rendered.data = NoData => url = NoUrl \/ rendered.loading \/ rendered.error
  /\ \A f \in LiveFlights : f.url = ran /\ LiveFlights = {f} /\ ~timer
  /\ ~PollDue => (timer \/ LiveFlights # {}) = (url # NoUrl)
  /\ \A f \in LiveFlights : f.read # NoVersion => f.read >= poll.data.version
=============================================================================
