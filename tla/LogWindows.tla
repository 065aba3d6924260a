----------------------------- MODULE LogWindows -----------------------------
(***************************************************************************)
(* The floating log windows of the page: hooks/logWindowsState.ts and      *)
(* useLogWindows.ts, with the gestures of components/logwindow/LogWindow,  *)
(* LogWindowLayer, LogDock and hooks/useDragResize.ts.  A window holds one *)
(* or more tabs, one container each, and streams its active one.  Dragging *)
(* a title bar onto another window's merges the two, dragging a tab out    *)
(* gives it a window of its own.                                           *)
(*                                                                         *)
(* The code numbers the windows in depth; here their order is kept.  There *)
(* is one pointer, so one gesture at a time; where the windows are matters *)
(* to the one in a gesture only, so `frame' holds its place and size, in   *)
(* cells of the screen, and a title bar is dropped on any other or none.   *)
(* `typed' is history.                                                     *)
(***************************************************************************)
EXTENDS Integers, Sequences, SequencesExt, FiniteSetsExt

CONSTANTS
  Workload,       \* the containers whose logs can be opened
  Texts,          \* what is typed into a search box; the empty text is in it
  NoText,
  WINDOW_MIN,
  HEADER_HEIGHT,
  DockMargin,     \* the dock's height and the margin that keeps a title bar reachable
  Frames,         \* places and sizes of windows, each on a screen: x, y, w, h, vw, vh
  Shifts,         \* how far the pointer goes: records of x and y
  Handles,        \* the handles: sets of the sides "n", "s", "e", "w" they move
  MaxWindow       \* bound: windows made

ASSUME WindowsAssumption ==
  /\ NoText \in Texts
  /\ {WINDOW_MIN, HEADER_HEIGHT, DockMargin, MaxWindow} \subseteq Nat /\ WINDOW_MIN > 0
  /\ Frames \subseteq [x : Int, y : Int, w : Int, h : Int, vw : Int, vh : Int]
  /\ Shifts \subseteq [x : Int, y : Int]
  /\ Handles \subseteq SUBSET {"n", "s", "e", "w"}

VARIABLES
  windows,        \* in the order they were made
  depth,          \* their ids, from the back to the front
  nextId,
  gesture,        \* what the pointer is doing
  frame,          \* where the window is that it moves or resizes
  flashId,        \* the window that flashes, or 0
  typed           \* history: what was last typed for each container's open tab

windowsVars == <<windows, depth, nextId, gesture, frame, flashId, typed>>

NoFrame == [x |-> 0, y |-> 0, w |-> 0, h |-> 0, vw |-> 0, vh |-> 0]
NoGesture == [kind |-> "none", id |-> 0, tab |-> 0, edge |-> {}, from |-> NoFrame,
              dragged |-> FALSE]

WindowsInit ==
  /\ windows = <<>> /\ depth = <<>> /\ nextId = 1
  /\ gesture = NoGesture /\ frame = NoFrame
  /\ flashId = 0
  /\ typed = [c \in Workload |-> NoText]

Window(id) == CHOOSE win \in ToSet(windows) : win.id = id
Visible == {win.id : win \in {v \in ToSet(windows) : ~v.minimized}}
TabOf(win, c) == {i \in DOMAIN win.tabs : win.tabs[i].container = c}

\* The windows with the one of this id replaced by change(it), or left out.
Updated(id, change(_)) ==
  [i \in DOMAIN windows |-> IF windows[i].id = id THEN change(windows[i]) ELSE windows[i]]
\* The code filters by id.  No two windows have the same (OneStreamEach), so that this
\* leaves out one.
Without(ws, id) == RemoveFirstMatch(ws, LAMBDA win : win.id = id)
Behind(id) == RemoveFirst(depth, id)
Raised(id) == Append(Behind(id), id)

NewWindow(tab) == [id |-> nextId, tabs |-> <<tab>>, active |-> 1, minimized |-> FALSE]

-----------------------------------------------------------------------------
(* Opening, closing, focus.                                                *)

\* Mutant: only the tabs that are shown are looked for.
findContainerWindowShown(c) == {win \in ToSet(windows) : win.tabs[win.active].container = c}

findContainerWindow(c) == {win \in ToSet(windows) : TabOf(win, c) # {}}

\* In the window that has them already, which flashes.
OpenExisting(c) ==
  \E win \in findContainerWindow(c) :
    /\ windows' = Updated(win.id, LAMBDA v : [v EXCEPT !.minimized = FALSE,
                                                       !.active = Min(TabOf(v, c))])
    /\ depth' = Raised(win.id) /\ flashId' = win.id
    /\ UNCHANGED <<nextId, typed>>

\* In a new window.
OpenNew(c) ==
  /\ findContainerWindow(c) = {}
  /\ nextId <= MaxWindow /\ nextId' = nextId + 1
  /\ windows' = Append(windows, NewWindow([container |-> c, search |-> NoText]))
  /\ depth' = Raised(nextId)
  /\ typed' = [typed EXCEPT ![c] = NoText]
  /\ UNCHANGED flashId

openLogs(c) ==
  /\ gesture = NoGesture
  /\ OpenExisting(c) \/ OpenNew(c)
  /\ UNCHANGED <<gesture, frame>>

FlashEnds ==
  /\ flashId # 0 /\ flashId' = 0
  /\ UNCHANGED <<windows, depth, nextId, gesture, frame, typed>>

\* The pointer goes down in a window's body.
focusWindow(id) ==
  /\ gesture = NoGesture /\ id \in Visible
  /\ depth' = Raised(id)
  /\ UNCHANGED <<windows, nextId, gesture, frame, flashId, typed>>

closeWindow(id) ==
  /\ gesture = NoGesture /\ id \in Visible
  /\ windows' = Without(windows, id) /\ depth' = Behind(id)
  /\ UNCHANGED <<nextId, gesture, frame, flashId, typed>>

\* What is left of a window whose tab i is taken out: the number of the tab shown stays,
\* the tab need not.
WithoutTab(win, i) ==
  [win EXCEPT !.tabs = RemoveAt(@, i), !.active = Min({@, Len(win.tabs) - 1})]

\* Of a window with several tabs; a single tab's window is closed by closeWindow.
closeTab(id, i) ==
  /\ gesture = NoGesture /\ id \in Visible
  /\ Len(Window(id).tabs) > 1 /\ i \in DOMAIN Window(id).tabs
  /\ windows' = Updated(id, LAMBDA win : WithoutTab(win, i))
  /\ UNCHANGED <<depth, nextId, gesture, frame, flashId, typed>>

minimizeWindow(id) ==
  /\ gesture = NoGesture /\ id \in Visible
  /\ windows' = Updated(id, LAMBDA win : [win EXCEPT !.minimized = TRUE])
  /\ UNCHANGED <<depth, nextId, gesture, frame, flashId, typed>>

\* From the dock.
restoreWindow(win) ==
  /\ gesture = NoGesture /\ win.minimized
  /\ windows' = Updated(win.id, LAMBDA v : [v EXCEPT !.minimized = FALSE])
  /\ depth' = Raised(win.id)
  /\ UNCHANGED <<nextId, gesture, frame, flashId, typed>>

\* Into the search box of the tab that is shown.
setSearch(id, text) ==
  /\ gesture = NoGesture /\ id \in Visible
  /\ LET active == Window(id).active
     IN /\ windows' = Updated(id, LAMBDA win : [win EXCEPT !.tabs[active].search = text])
        /\ typed' = [typed EXCEPT ![Window(id).tabs[active].container] = text]
  /\ UNCHANGED <<depth, nextId, gesture, frame, flashId>>

-----------------------------------------------------------------------------
(* Gestures.                                                               *)

Clamp(n, low, high) == Min({Max({low, n}), Max({low, high})})

\* The frame moved to x, y, or as near as the screen allows.
clampPosition(f, x, y) ==
  [f EXCEPT !.x = Clamp(x, 0, f.vw - f.w), !.y = Clamp(y, HEADER_HEIGHT, f.vh - DockMargin)]

\* A title bar or a handle is grabbed.  Only a title bar lets its window be focused.
StartDrag(id, kind, edge, f) ==
  /\ gesture = NoGesture /\ id \in Visible
  /\ frame' = f
  /\ gesture' = [NoGesture EXCEPT !.kind = kind, !.id = id, !.edge = edge, !.from = f]
  /\ depth' = IF kind = "move" THEN Raised(id) ELSE depth
  /\ UNCHANGED <<windows, nextId, flashId, typed>>

startMove(id, f) == StartDrag(id, "move", {}, f)
startResize(id, edge, f) == StartDrag(id, "resize", edge, f)

moveWindow(d) ==
  /\ gesture.kind = "move"
  /\ frame' = clampPosition(frame, gesture.from.x + d.x, gesture.from.y + d.y)
  /\ gesture' = [gesture EXCEPT !.dragged = TRUE]
  /\ UNCHANGED <<windows, depth, nextId, flashId, typed>>

\* The new length of one side, and where it starts: the far end stays.
Stretched(at, length, near, far, d) ==
  LET new == Max({WINDOW_MIN, length + IF far THEN d ELSE IF near THEN -d ELSE 0})
  IN [at |-> IF near THEN at + length - new ELSE at, length |-> new]

applyResize(start, edge, d) ==
  LET across == Stretched(start.x, start.w, "w" \in edge, "e" \in edge, d.x)
      down == Stretched(start.y, start.h, "n" \in edge, "s" \in edge, d.y)
  IN [x |-> across.at, y |-> down.at, w |-> across.length, h |-> down.length]

\* A handle is dragged: the window is moved, which clamps it at its old width, and then
\* takes its new size.
resizeWindow(d) ==
  /\ gesture.kind = "resize"
  /\ LET r == applyResize(gesture.from, gesture.edge, d)
     IN frame' = [clampPosition(frame, r.x, r.y) EXCEPT !.w = r.w, !.h = r.h]
  /\ UNCHANGED <<windows, depth, nextId, gesture, flashId, typed>>

\* The source's tabs go behind the target's, and the first of them is shown.
mergeWindows(source, target) ==
  Without(Updated(target, LAMBDA win : [win EXCEPT !.tabs = @ \o Window(source).tabs,
                                                   !.active = Len(win.tabs) + 1,
                                                   !.minimized = FALSE]), source)

\* The pointer is released after a title bar or a handle was dragged, perhaps over the
\* title bar of another visible window.  Only a drag of a title bar can merge.
handleDragEnd(target) ==
  /\ gesture.kind \in {"move", "resize"}
  /\ target \in (Visible \ {gesture.id}) \union {0}
  /\ gesture' = NoGesture /\ frame' = NoFrame
  /\ IF ~gesture.dragged \/ target = 0 THEN UNCHANGED <<windows, depth>>
     ELSE /\ windows' = mergeWindows(gesture.id, target)
          /\ depth' = RemoveFirst(Raised(target), gesture.id)
  /\ UNCHANGED <<nextId, flashId, typed>>

\* A tab is pressed; there is a tab bar when there are several.
startTabDrag(id, i) ==
  /\ gesture = NoGesture /\ id \in Visible
  /\ Len(Window(id).tabs) > 1 /\ i \in DOMAIN Window(id).tabs
  /\ gesture' = [NoGesture EXCEPT !.kind = "tab", !.id = id, !.tab = i]
  /\ UNCHANGED <<windows, depth, nextId, frame, flashId, typed>>

\* The window without the tab, and one for the tab under the pointer.
detachTab(win, i) ==
  Append(Updated(win.id, LAMBDA v : WithoutTab(v, i)), NewWindow(win.tabs[i]))

\* Dragged far enough, the tab is detached.
DragTab ==
  /\ gesture.kind = "tab" /\ ~gesture.dragged
  /\ nextId <= MaxWindow /\ nextId' = nextId + 1
  /\ windows' = detachTab(Window(gesture.id), gesture.tab)
  /\ depth' = Raised(nextId)
  /\ gesture' = [gesture EXCEPT !.dragged = TRUE]
  /\ UNCHANGED <<frame, flashId, typed>>

\* Released without that, the tab is shown.
setActiveTab ==
  /\ gesture.kind = "tab"
  /\ gesture' = NoGesture
  /\ windows' = IF gesture.dragged THEN windows
                ELSE Updated(gesture.id, LAMBDA win : [win EXCEPT !.active = gesture.tab])
  /\ UNCHANGED <<depth, nextId, frame, flashId, typed>>

WindowsNext ==
  \/ \E c \in Workload : openLogs(c)
  \/ \E id \in Visible :
       \/ focusWindow(id) \/ closeWindow(id) \/ minimizeWindow(id)
       \/ \E text \in Texts : setSearch(id, text)
       \/ \E i \in 1..Cardinality(Workload) : closeTab(id, i) \/ startTabDrag(id, i)
       \/ \E f \in Frames : startMove(id, f) \/ \E edge \in Handles : startResize(id, edge, f)
  \/ \E win \in ToSet(windows) : restoreWindow(win)
  \/ \E d \in Shifts : moveWindow(d) \/ resizeWindow(d)
  \/ \E target \in Visible \union {0} : handleDragEnd(target)
  \/ DragTab \/ setActiveTab \/ FlashEnds

WindowsSpec == WindowsInit /\ [][WindowsNext]_windowsVars

-----------------------------------------------------------------------------
(* Properties.                                                             *)

\* "Focus-existing: never duplicate a container's stream" (logWindowsState.ts:86), "fully
\* within the horizontal bounds, its title bar below the header" (logWindowsState.ts:47):
\* in whatever order windows are merged, taken apart and closed, a container is in one
\* tab at most, every window shows one of its tabs and has a depth of its own, and each
\* tab keeps what was typed into its search box; and wherever a window is dragged, its
\* title bar can be grabbed again.
OneStreamEach ==
  /\ Len(depth) = Len(windows) /\ ToSet(depth) = {win.id : win \in ToSet(windows)}
  /\ \A i, j \in DOMAIN windows :
       /\ windows[i].active \in DOMAIN windows[i].tabs
       /\ i # j => windows[i].id # windows[j].id
       /\ \A k \in DOMAIN windows[i].tabs, l \in DOMAIN windows[j].tabs :
            windows[i].tabs[k].container = windows[j].tabs[l].container => i = j /\ k = l
       /\ \A k \in DOMAIN windows[i].tabs :
            windows[i].tabs[k].search = typed[windows[i].tabs[k].container]
  /\ gesture.kind = "move" /\ gesture.dragged =>
       /\ frame.x >= 0 /\ frame.x + frame.w <= Max({frame.w, frame.vw})
       /\ frame.y >= HEADER_HEIGHT /\ frame.y <= Max({HEADER_HEIGHT, frame.vh - DockMargin})
=============================================================================
