------------------------------ MODULE EdgeLayer ------------------------------
(***************************************************************************)
(* How edges are drawn.  Those of a small graph are SVG elements, ElkEdge; *)
(* those of a large one are strokes on a canvas over the graph, which      *)
(* CanvasEdgeLayer hides while the viewport moves and draws again when it  *)
(* has settled.  utils/pathUtils.ts measures the paths, canvas/ draws.     *)
(*                                                                         *)
(* An edge is [id, type, path, active, animated, nodeCount, faded]; its    *)
(* path, Undefined until ELK gave it one, is a sequence of points in       *)
(* horizontal and vertical strokes of whole lengths.  A distance along it  *)
(* stands for the fraction the code has.  A transform is [tx, ty, zoom].   *)
(***************************************************************************)
EXTENDS NetworkView

CONSTANTS
  DOT_SPACING, MIN_DOTS, MAX_DOTS,
  CANVAS_EDGE_HIT_WIDTH,
  CULL_PAD,
  EdgeSets,             \* what the layer may be given
  Transforms, ViewSizes \* of the viewport

\* In horizontal and vertical strokes.
Straight(path) ==
  /\ path \in Seq(Point)
  /\ \A i \in 1..(Len(path) - 1) : path[i].x = path[i + 1].x \/ path[i].y = path[i + 1].y

ASSUME EdgesAssumption ==
  /\ CANVAS_EDGE_HIT_WIDTH \in Nat /\ CULL_PAD \in Nat
  /\ \A edges \in EdgeSets :
       /\ DOMAIN edges \subseteq Nat
       /\ \A i \in DOMAIN edges :
            edges[i].id # Undefined /\ (edges[i].path # Undefined => Straight(edges[i].path))
  /\ Transforms \subseteq [tx : Int, ty : Int, zoom : Nat \ {0}] /\ Undefined \notin Transforms
  /\ ViewSizes \subseteq [w : Nat, h : Nat]

VARIABLES
  mounted,              \* the layer is there: the graph is large
  wired, edgesDue,      \* the edges given, and whether its effects must run for them
  edgeData,             \* edgeDataRef: those the callbacks read
  transform, viewSize,  \* the viewport's, and the size of what holds the canvas
  resizeDue,            \* the observer has not been told of the size
  picture, visible,     \* what the canvas holds and whether it is visible
  drawnAt,              \* drawnTx, drawnTy, drawnZoom; Undefined without a subscriber
  settleTimer,
  rafRef, ticks         \* the handle kept, and the callbacks that are scheduled

edgeVars == <<mounted, wired, edgesDue, edgeData, transform, viewSize, resizeDue, picture, visible,
              drawnAt, settleTimer, rafRef, ticks>>

-----------------------------------------------------------------------------
(* Paths.                                                                  *)

StrokeLength(points, i) ==
  Abs(points[i + 1].x - points[i].x) + Abs(points[i + 1].y - points[i].y)

\* From the first point to each.
Upto(points) ==
  LET upto[i \in 0..Len(points)] ==
        IF i <= 1 THEN 0 ELSE upto[i - 1] + StrokeLength(points, i - 1)
  IN upto

polylineLength(points) == Upto(points)[Len(points)]

polylineEndpoints(points) == IF Len(points) < 2 THEN Undefined ELSE <<points[1], Last(points)>>

polylineBBox(points) ==
  LET xs == {q.x : q \in ToSet(points)}
      ys == {q.y : q \in ToSet(points)}
  IN [minX |-> Min(xs), maxX |-> Max(xs), minY |-> Min(ys), maxY |-> Max(ys)]

\* On the first stroke that ends at d or beyond.
polylinePointAt(points, d) ==
  LET i == Min({k \in 1..(Len(points) - 1) : Upto(points)[k + 1] >= d})
      rest == d - Upto(points)[i]
  IN IF Len(points) < 2 \/ d <= 0 THEN points[1]
     ELSE IF d >= polylineLength(points) THEN Last(points)
     ELSE [x |-> points[i].x + Sign(points[i + 1].x - points[i].x) * rest,
           y |-> points[i].y + Sign(points[i + 1].y - points[i].y) * rest]

\* From just before to just beyond; along x where that is nowhere.
polylineDirectionAt(points, d) ==
  LET before == polylinePointAt(points, Max({0, d - 1}))
      beyond == polylinePointAt(points, Min({polylineLength(points), d + 1}))
  IN IF before = beyond THEN [x |-> 1, y |-> 0]
     ELSE [x |-> beyond.x - before.x, y |-> beyond.y - before.y]

OnPath(points) == {polylinePointAt(points, d) : d \in 0..polylineLength(points)}

\* Rounded to the nearest, half up.
dotCount(points) ==
  Min({MAX_DOTS, Max({MIN_DOTS, (2 * polylineLength(points) + DOT_SPACING) \div (2 * DOT_SPACING)})})

\* The arrowheads of a path after something has travelled d along it.
Arrowheads(points, count, d) ==
  LET whole == polylineLength(points)
      at(i) == (d + (((i - 1) * whole) \div count)) % whole
  IN [i \in 1..count |-> [at |-> polylinePointAt(points, at(i)),
                          dir |-> polylineDirectionAt(points, at(i))]]

-----------------------------------------------------------------------------
(* An edge as SVG and as what is drawn on the canvas.                      *)

IsLive(e) == e.type \in {"depends_on", "volume_mount"}

\* Nothing without a path, or far out in a large graph, whose edges are plain strokes.
ElkEdge(e, lowZoom) ==
  LET simplified == e.nodeCount > ANIMATION_NODE_LIMIT
  IN IF e.path = Undefined \/ (lowZoom /\ simplified) THEN Undefined
     ELSE [ends |-> IF simplified THEN Undefined ELSE polylineEndpoints(e.path),
           dashed |-> ~e.active, faded |-> e.faded,
           arrows |-> IF IsLive(e) /\ e.animated /\ ~simplified THEN dotCount(e.path) ELSE 0]

\* What can be drawn has a path of at least one stroke.
HasStroke(e) == e.path # Undefined /\ polylineEndpoints(e.path) # Undefined
CanvasEdge(e) ==
  [id |-> e.id, path |-> e.path, dashed |-> ~e.active, faded |-> e.faded,
   ends |-> polylineEndpoints(e.path), bbox |-> polylineBBox(e.path)]

\* What is left out of a list leaves its place empty.
canvasEdges(edges) ==
  [i \in {j \in DOMAIN edges : HasStroke(edges[j])} |-> CanvasEdge(edges[i])]

animatedEdges(edges) ==
  LET moving(e) == e.animated /\ IsLive(e) /\ HasStroke(e)
  IN [i \in {j \in DOMAIN edges : moving(edges[j])} |->
        [points |-> edges[i].path, faded |-> edges[i].faded, bbox |-> polylineBBox(edges[i].path),
         dotCount |-> dotCount(edges[i].path)]]
HasAnimated(edges) == DOMAIN animatedEdges(edges) # {}

\* Where the view begins and ends in the graph, times the zoom.
viewBounds(t, s) ==
  [left |-> -t.tx - CULL_PAD * t.zoom, right |-> s.w - t.tx + CULL_PAD * t.zoom,
   top |-> -t.ty - CULL_PAD * t.zoom, bottom |-> s.h - t.ty + CULL_PAD * t.zoom]

isVisible(bbox, bounds, zoom) ==
  /\ bbox.maxX * zoom >= bounds.left /\ bbox.minX * zoom <= bounds.right
  /\ bbox.maxY * zoom >= bounds.top /\ bbox.minY * zoom <= bounds.bottom

\* Those of which something may be in view.
InView(drawn, bounds, zoom) ==
  [i \in {j \in DOMAIN drawn : isVisible(drawn[j].bbox, bounds, zoom)} |-> drawn[i]]

\* A picture: the lines and the moving edges in view, at a transform.
renderFrame(t, s, edges) ==
  [at |-> t, lines |-> InView(canvasEdges(edges), viewBounds(t, s), t.zoom),
   moving |-> InView(animatedEdges(edges), viewBounds(t, s), t.zoom)]

\* The first edge within half the hit width of a point of the screen.
hitTest(edges, t, point) ==
  LET lines == canvasEdges(edges)
      near(q) == /\ 2 * Abs(q.x * t.zoom + t.tx - point.x) <= CANVAS_EDGE_HIT_WIDTH
                 /\ 2 * Abs(q.y * t.zoom + t.ty - point.y) <= CANVAS_EDGE_HIT_WIDTH
      hits == {i \in DOMAIN lines : \E q \in OnPath(lines[i].path) : near(q)}
  IN IF hits = {} THEN Undefined ELSE lines[Min(hits)].id

\* The edge hit, if the canvas of FlowCanvas still has it.
canvasEdgeHit(point) ==
  LET hit == hitTest(edgeData, transform, point)
  IN IF mounted /\ HasId(wired, hit) THEN hit ELSE Undefined

-----------------------------------------------------------------------------
(* The layer.                                                              *)

EdgesInit ==
  /\ mounted = FALSE /\ wired = <<>> /\ edgesDue = FALSE /\ edgeData = <<>>
  /\ transform \in Transforms /\ viewSize \in ViewSizes /\ resizeDue = FALSE
  /\ picture = Undefined /\ visible = TRUE /\ drawnAt = Undefined
  /\ settleTimer = FALSE /\ rafRef = FALSE /\ ticks = 0

\* The graph has become large, or its edges have changed: new descriptors are made of them.
RenderEdges(edges) ==
  /\ ~edgesDue
  /\ wired' = edges /\ edgesDue' = TRUE /\ mounted' = TRUE
  /\ IF mounted THEN UNCHANGED <<edgeData, picture, visible>>
     ELSE edgeData' = edges /\ picture' = Undefined /\ visible' = TRUE
  /\ UNCHANGED <<transform, viewSize, resizeDue, drawnAt, settleTimer, rafRef, ticks>>

Scheduled == IF rafRef THEN ticks - 1 ELSE ticks     \* once the one kept is cancelled

\* What the effects clean up: the subscription, the timer and the loop; then the edges are
\* drawn, and the subscription and the loop begin again.  The size is observed from the
\* first time on.
RunEdgeEffects ==
  /\ edgesDue
  /\ edgesDue' = FALSE /\ edgeData' = wired
  /\ picture' = renderFrame(transform, viewSize, wired) /\ visible' = TRUE /\ drawnAt' = transform
  /\ settleTimer' = FALSE
  /\ rafRef' = HasAnimated(wired)
  /\ ticks' = Scheduled + IF HasAnimated(wired) THEN 1 ELSE 0
  /\ resizeDue' = (resizeDue \/ drawnAt = Undefined)
  /\ UNCHANGED <<mounted, wired, transform, viewSize>>

\* The graph is small again, or another view is shown.
UnmountEdges ==
  /\ mounted /\ ~edgesDue
  /\ mounted' = FALSE /\ wired' = <<>> /\ edgeData' = <<>> /\ picture' = Undefined /\ visible' = TRUE
  /\ drawnAt' = Undefined /\ settleTimer' = FALSE /\ rafRef' = FALSE /\ ticks' = Scheduled
  /\ resizeDue' = FALSE
  /\ UNCHANGED <<edgesDue, transform, viewSize>>

\* The viewport moves.  The canvas is hidden until it has settled; back where it was drawn
\* nothing more is done, whatever is under way.
Move(t) ==
  /\ t # transform
  /\ transform' = t
  /\ IF drawnAt \in {Undefined, t} THEN UNCHANGED <<visible, settleTimer>>
     ELSE visible' = FALSE /\ settleTimer' = TRUE
  /\ UNCHANGED <<mounted, wired, edgesDue, edgeData, viewSize, resizeDue, picture, drawnAt, rafRef, ticks>>

\* The loop is started unless it runs, when there is something to move.
startAnimLoop ==
  LET starts == ~rafRef /\ HasAnimated(edgeData)
  IN rafRef' = (rafRef \/ starts) /\ ticks' = ticks + IF starts THEN 1 ELSE 0

Settle ==
  /\ settleTimer
  /\ settleTimer' = FALSE
  /\ picture' = renderFrame(transform, viewSize, edgeData) /\ visible' = TRUE /\ drawnAt' = transform
  /\ startAnimLoop
  /\ UNCHANGED <<mounted, wired, edgesDue, edgeData, transform, viewSize, resizeDue>>

\* Mutant: the handle of a loop that stops is kept.
KeepHandle == rafRef' = rafRef

DropHandle == rafRef' = FALSE

\* A frame of the loop.  It stops when nothing moves or the canvas is hidden.
animTick ==
  /\ ticks > 0
  /\ IF HasAnimated(edgeData) /\ visible
     THEN picture' = renderFrame(transform, viewSize, edgeData) /\ UNCHANGED <<rafRef, ticks>>
     ELSE ticks' = ticks - 1 /\ DropHandle /\ UNCHANGED picture
  /\ UNCHANGED <<mounted, wired, edgesDue, edgeData, transform, viewSize, resizeDue, visible, drawnAt,
                 settleTimer>>

ResizeView(s) ==
  /\ s # viewSize
  /\ viewSize' = s /\ resizeDue' = (drawnAt # Undefined)
  /\ UNCHANGED <<mounted, wired, edgesDue, edgeData, transform, picture, visible, drawnAt, settleTimer,
                 rafRef, ticks>>

\* The observer redraws, and leaves the canvas hidden if it is.
ResizeObserved ==
  /\ resizeDue
  /\ resizeDue' = FALSE /\ picture' = renderFrame(transform, viewSize, edgeData)
  /\ UNCHANGED <<mounted, wired, edgesDue, edgeData, transform, viewSize, visible, drawnAt, settleTimer,
                 rafRef, ticks>>

EdgesNext ==
  \/ \E edges \in EdgeSets : RenderEdges(edges)
  \/ \E t \in Transforms : Move(t)
  \/ \E s \in ViewSizes : ResizeView(s)
  \/ RunEdgeEffects \/ UnmountEdges \/ Settle \/ animTick \/ ResizeObserved

EdgesSpec == EdgesInit /\ [][EdgesNext]_edgeVars

-----------------------------------------------------------------------------
(* Properties.                                                             *)

\* "During pan/zoom: hide canvas", "On settle: full quality redraw", "When animations
\* active: continuous rAF loop" (CanvasEdgeLayer.tsx:145-147): what is seen are the edges
\* given, where the viewport has them, and each can be clicked where it is seen; a canvas
\* that is hidden will be drawn; one loop runs while something moves; and when the layer
\* goes nothing of it is left to fire.
EdgesCurrent ==
  LET onScreen(q, t) == [x |-> q.x * t.zoom + t.tx, y |-> q.y * t.zoom + t.ty]
      seen(point) == point.x \in 0..viewSize.w /\ point.y \in 0..viewSize.h
      lines == canvasEdges(wired)
  IN /\ ticks <= 1
     /\ ~mounted => ~settleTimer /\ ticks = 0
     /\ mounted /\ ~edgesDue /\ ~visible => settleTimer
     /\ mounted /\ ~edgesDue /\ visible =>
          /\ ToSet(picture.lines) \subseteq ToSet(lines)
          /\ HasAnimated(wired) => ticks = 1
          /\ \A line \in ToSet(lines) : \A q \in OnPath(line.path) :
               seen(onScreen(q, transform)) /\ ~resizeDue => line \in ToSet(picture.lines)
          /\ \A line \in ToSet(picture.lines) :
               canvasEdgeHit(onScreen(line.path[1], picture.at)) # Undefined

\* "parameters (shared by Canvas and SVG renderers)" (constants.ts), "oriented along unit
\* vector" (canvasRenderer.ts:30): what runs along a path goes from end to end in steps of
\* one, inside its box, and points where it goes; and an edge looks the same either way.
PathsDrawnAlike(points) ==
  LET whole == polylineLength(points)
      box == polylineBBox(points)
      at(d) == polylinePointAt(points, d)
      edge(type, active, count) ==
        [id |-> type, type |-> type, path |-> points, active |-> active, nodeCount |-> count,
         animated |-> active /\ count <= ANIMATION_NODE_LIMIT, faded |-> FALSE]
  IN /\ <<at(0), at(whole)>> = polylineEndpoints(points)
     /\ \A d \in 0..(whole - 1) :
          LET step == [x |-> at(d + 1).x - at(d).x, y |-> at(d + 1).y - at(d).y]
              dir == polylineDirectionAt(points, d)
          IN /\ Abs(step.x) + Abs(step.y) = 1
             /\ step.x * dir.x + step.y * dir.y > 0
             /\ at(d).x \in box.minX..box.maxX /\ at(d).y \in box.minY..box.maxY
     /\ \A d \in 0..whole : \A head \in ToSet(Arrowheads(points, dotCount(points), d)) :
          head.at \in OnPath(points)
     /\ \A type \in {"depends_on", "secondary_network"}, active \in BOOLEAN,
           count \in {ANIMATION_NODE_LIMIT, ANIMATION_NODE_LIMIT + 1} :
          LET e == edge(type, active, count)
              svg == ElkEdge(e, FALSE)
              moving == animatedEdges(<<e>>)
          IN /\ svg.dashed = CanvasEdge(e).dashed
             /\ svg.ends \in {Undefined, CanvasEdge(e).ends}
             /\ svg.arrows = IF DOMAIN moving = {} THEN 0 ELSE moving[1].dotCount
=============================================================================
