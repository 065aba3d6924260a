-------------------------- MODULE ComposeCollector --------------------------
(***************************************************************************)
(* backend/collector/compose.go: one goroutine watches the directories of  *)
(* the compose files, scans all files when something changed in them, with *)
(* the debouncer in between, and sends the graph on a bounded channel.     *)
(* Nothing polls: what no event reports is seen with the next event.       *)
(*                                                                         *)
(* A graph is the version of each file it was parsed from.  `excused' and  *)
(* `moved' are history.                                                    *)
(***************************************************************************)
EXTENDS Naturals, Sequences

CONSTANTS
    Dir, Root, Parent,  \* the directories below the configured path Root
    File, DirOf,        \* the compose files, and where each is
    Version,            \* contents that parse
    Bad, Absent,        \* contents that do not; no file
    UpdateCap,          \* capacity of the updates channel (16)
    MaxEdits,           \* bound: changes of the files and directories
    MaxFailures         \* bound: failures of the parsing process and of the walk

ASSUME ComposeAssumption ==
    /\ Root \in Dir /\ "change" \notin Dir /\ "rename" \notin Dir
    /\ Parent \in [Dir \ {Root} -> Dir]
    /\ DirOf \in [File -> Dir]
    /\ Absent \notin Version /\ Bad \notin Version
    /\ UpdateCap \in Nat \ {0} /\ MaxEdits \in Nat /\ MaxFailures \in Nat

VARIABLES
    dirs,       \* the directories that exist
    disk,       \* the content of each file
    edits, failures,
    watched,    \* the directories watched
    events,     \* the kinds of event not handled yet, a created directory by itself
    timer,      \* the debouncer's timer runs
    notify,     \* the debouncer's channel holds a signal
    phase,      \* of watchFiles: placing, idle, resolving, scanning, sending, exited
    todo,       \* the files the scan has still to parse
    draft,      \* the graph the scan builds
    parsed,     \* the graph of the last scan
    updates,    \* the graphs in the updates channel
    taken,      \* the graph pipeUpdates took last, if any
    ctxDone,    \* Stop, or the end of the process
    excused,    \* history: the files whose last parse failed through no fault of theirs
    moved       \* history: the files moved out that no scan missed since

composeVars == <<dirs, disk, edits, failures, watched, events, timer, notify, phase, todo,
                 draft, parsed, updates, taken, ctxDone, excused, moved>>
diskVars == <<dirs, disk, edits>>
watchVars == <<watched, events, timer, notify>>
scanVars == <<phase, todo, draft, parsed, failures, updates, excused, moved>>

Graphs == [File -> Version \union {Absent}]
NoGraph == [f \in File |-> Absent]
\* What a content contributes to a graph.
Shown(content) == IF content \in Version THEN content ELSE Absent

ComposeInit ==
    /\ dirs = {Root}
    /\ disk \in [File -> Version \union {Absent}]
    /\ \A f \in File : disk[f] # Absent => DirOf[f] = Root
    /\ edits = 0 /\ failures = 0
    /\ watched = {} /\ events = {} /\ timer = FALSE /\ notify = FALSE
    /\ phase = "placing"
    /\ todo = {} /\ draft = NoGraph /\ parsed = NoGraph
    /\ updates = << >> /\ taken = << >>
    /\ ctxDone = FALSE
    /\ excused = {} /\ moved = {}

----------------------------------------------------------------------------
(* The scan.  It starts when watchFiles is "resolving".                    *)

\* A directory is watched before its entries are read: none is missed in between.
PlaceWatches ==
    /\ phase = "placing"
    /\ watched' = dirs
    /\ phase' = "resolving"
    /\ UNCHANGED <<diskVars, events, timer, notify, todo, draft, parsed, failures, updates,
                   taken, ctxDone, excused, moved>>

ResolveComposePaths ==
    /\ phase = "resolving"
    /\ \/ /\ todo' = {f \in File : disk[f] # Absent}
          /\ draft' = NoGraph
          /\ phase' = "scanning"
          /\ UNCHANGED <<failures, excused>>
       \/ /\ failures < MaxFailures /\ failures' = failures + 1
          /\ phase' = "idle"
          /\ excused' = File
          /\ UNCHANGED <<todo, draft>>
    /\ UNCHANGED <<diskVars, watchVars, parsed, updates, taken, ctxDone, moved>>

\* A file that does not parse is left out, unless the process parsing it failed:
\* then it keeps its last graph.
ParseFile(f) ==
    /\ phase = "scanning" /\ ~ctxDone
    /\ f \in todo
    /\ todo' = todo \ {f}
    /\ \/ /\ draft' = [draft EXCEPT ![f] = Shown(disk[f])]
          /\ excused' = excused \ {f}
          /\ UNCHANGED failures
       \/ /\ failures < MaxFailures /\ failures' = failures + 1
          /\ draft' = [draft EXCEPT ![f] = parsed[f]]
          /\ excused' = excused \union {f}
    /\ UNCHANGED <<diskVars, watchVars, phase, parsed, updates, taken, ctxDone, moved>>

ScanDone ==
    /\ phase = "scanning"
    /\ todo = {}
    /\ parsed' = draft
    /\ excused' = excused \ {f \in File : draft[f] = Absent /\ disk[f] = Absent}
    /\ moved' = {f \in moved : draft[f] # Shown(disk[f])}
    /\ phase' = "sending"
    /\ UNCHANGED <<diskVars, watchVars, todo, draft, failures, updates, taken, ctxDone>>

HasRoom == Len(updates) < UpdateCap

\* The send gives up when Stop is called, as does a scan that has files to parse.
Send ==
    /\ \/ phase = "sending" /\ HasRoom /\ updates' = Append(updates, draft)
       \/ phase \in {"scanning", "sending"} /\ ctxDone /\ UNCHANGED updates
    /\ phase' = "idle"
    /\ todo' = {}
    /\ UNCHANGED <<diskVars, watchVars, draft, parsed, failures, taken, ctxDone,
                   excused, moved>>

----------------------------------------------------------------------------
(* The select loop of watchFiles.                                          *)

\* Mutant: a created directory is watched but starts no rescan.
HandleEventNoRescan(e) ==
    /\ phase = "idle"
    /\ e \in events
    /\ events' = events \ {e}
    /\ timer' = (timer \/ e = "change")
    /\ watched' = IF e \in Dir THEN watched \union {e} ELSE watched
    /\ UNCHANGED <<diskVars, scanVars, notify, taken, ctxDone>>

\* Mutant: a created directory is not watched.
HandleEventUnwatched(e) ==
    /\ phase = "idle"
    /\ e \in events
    /\ events' = events \ {e}
    /\ timer' = (timer \/ e # "rename")
    /\ UNCHANGED <<diskVars, scanVars, watched, notify, taken, ctxDone>>

\* Writes, creations and removals start the timer; a created directory is watched.
HandleEvent(e) ==
    /\ phase = "idle"
    /\ e \in events
    /\ events' = events \ {e}
    /\ timer' = (timer \/ e # "rename")
    /\ watched' = IF e \in Dir THEN watched \union {e} ELSE watched
    /\ UNCHANGED <<diskVars, scanVars, notify, taken, ctxDone>>

Fire ==
    /\ timer
    /\ timer' = FALSE /\ notify' = TRUE
    /\ UNCHANGED <<diskVars, scanVars, watched, events, taken, ctxDone>>

Notified ==
    /\ phase = "idle"
    /\ notify
    /\ notify' = FALSE
    /\ phase' = "resolving"
    /\ UNCHANGED <<diskVars, watched, events, timer, todo, draft, parsed, failures, updates,
                   taken, ctxDone, excused, moved>>

Exit ==
    /\ phase = "idle" /\ ctxDone
    /\ phase' = "exited"
    /\ UNCHANGED <<diskVars, watchVars, todo, draft, parsed, failures, updates, taken,
                   ctxDone, excused, moved>>

----------------------------------------------------------------------------
(* The files, the consumer and the end.                                    *)

Edit(event, dir) ==
    /\ edits < MaxEdits /\ edits' = edits + 1
    /\ events' = IF dir \in watched THEN events \union {event} ELSE events
    /\ UNCHANGED <<phase, todo, draft, parsed, failures, updates, excused, watched, timer,
                   notify, taken, ctxDone>>

\* External: a file is written, created or removed.
WriteFile(f, content) ==
    /\ DirOf[f] \in dirs
    /\ disk[f] # content
    /\ disk' = [disk EXCEPT ![f] = content]
    /\ dirs' = dirs /\ moved' = moved
    /\ Edit("change", DirOf[f])

\* External: a file is renamed to where nobody looks.
MoveOut(f) ==
    /\ disk[f] # Absent
    /\ disk' = [disk EXCEPT ![f] = Absent]
    /\ dirs' = dirs
    /\ moved' = moved \union {f}
    /\ Edit("rename", DirOf[f])

\* External: a directory is created.
MakeDir(d) ==
    /\ d \notin dirs /\ Parent[d] \in dirs
    /\ dirs' = dirs \union {d}
    /\ disk' = disk /\ moved' = moved
    /\ Edit(d, Parent[d])

\* pipeUpdates takes a graph.
Consume ==
    /\ ~ctxDone
    /\ updates # << >>
    /\ taken' = <<Head(updates)>>
    /\ updates' = Tail(updates)
    /\ UNCHANGED <<diskVars, watchVars, phase, todo, draft, parsed, failures, ctxDone,
                   excused, moved>>

Stop ==
    /\ ~ctxDone
    /\ ctxDone' = TRUE
    /\ UNCHANGED <<diskVars, watchVars, scanVars, taken>>

Scan == PlaceWatches \/ ResolveComposePaths \/ (\E f \in File : ParseFile(f)) \/ ScanDone \/ Send

ComposeNext ==
    \/ Scan \/ Fire \/ Notified \/ Exit
    \/ \E e \in events : HandleEvent(e)
    \/ \E f \in File : MoveOut(f) \/ \E v \in Version \union {Bad, Absent} : WriteFile(f, v)
    \/ \E d \in Dir : MakeDir(d)
    \/ Consume \/ Stop

ComposeSpec == ComposeInit /\ [][ComposeNext]_composeVars

----------------------------------------------------------------------------

ComposeTypeOK ==
    /\ dirs \subseteq Dir /\ watched \subseteq Dir
    /\ disk \in [File -> Version \union {Bad, Absent}]
    /\ edits \in 0 .. MaxEdits /\ failures \in 0 .. MaxFailures
    /\ events \subseteq Dir \union {"change", "rename"}
    /\ timer \in BOOLEAN /\ notify \in BOOLEAN /\ ctxDone \in BOOLEAN
    /\ phase \in {"placing", "resolving", "scanning", "sending", "idle", "exited"}
    /\ todo \subseteq File /\ excused \subseteq File /\ moved \subseteq File
    /\ draft \in Graphs /\ parsed \in Graphs
    /\ updates \in Seq(Graphs) /\ Len(updates) <= UpdateCap /\ taken \in Seq(Graphs)

\* The graph the collector has, or is about to send, of a file.
Latest(f) == IF phase \in {"scanning", "sending"} THEN draft[f] ELSE parsed[f]

\* No change of a file in a watched directory is forgotten: what the collector has
\* of the file is what is on disk, or an event, the timer, the signal or a scan that
\* has still to read the file will lead to it.  A file created while a scan runs, or
\* changed after it was parsed, must not be lost to that scan.
NoChangeForgotten ==
    \A f \in File :
        DirOf[f] \in watched /\ f \notin excused \union moved /\ ~ctxDone =>
            \/ Latest(f) = Shown(disk[f])
            \/ events # {} \/ timer \/ notify
            \/ phase = "resolving" \/ f \in todo

\* Once the files are at rest, the graph pipeUpdates took last is theirs, unless a
\* failure of the process or the walk hid a change, or a file was moved out.
ComposeCatchesUp ==
    <>[](\/ ctxDone \/ excused # {} \/ moved # {}
         \/ taken = <<[f \in File |-> Shown(disk[f])]>>)

\* Collectors "emit state updates whenever compose files are added, modified, or
\* removed" (compose.go:83-84): moving a file out removes it like any other way.
RemovalsShown == <>[](ctxDone \/ excused # {} \/ taken = <<[f \in File |-> Shown(disk[f])]>>)
=============================================================================
