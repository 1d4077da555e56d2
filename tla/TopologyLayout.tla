--------------------------- MODULE TopologyLayout ---------------------------
(***************************************************************************)
(* Where the nodes of the topology canvas are. Cytoscape holds the         *)
(* positions on screen; a new graph every few seconds adds and removes     *)
(* nodes; the user drags nodes, which saves all positions in localStorage, *)
(* and resets the layout. TopologyPage unmounts the canvas when it is left,*)
(* when a poll fails and when the graph has no nodes, and mounts it anew.  *)
(* Coordinates are integers: only the mean of several UPFs is rounded.     *)
(***************************************************************************)
EXTENDS Integers, Sequences, FiniteSets, FiniteSetsExt

CONSTANTS
  TypeOf,     \* the nfTypes of all nodes, in the order in which the API lists
              \* those present; "PSA" for a UPF displayed as PSA-UPF
  ServedBy,   \* [nodes -> the UPFs with an N6 link to it], {} unless a DN
  Graphs,     \* the sets of nodes the API answers with
  Draggable,  \* the nodes the user drags, and
  Places,     \* where to: bounds of the model
  Nothing

VARIABLES
  mounted, graph,  \* the canvas and its prop
  cy,        \* [nodes -> positions], what Cytoscape shows
  grabbed,   \* the node being dragged
  saved,     \* [nodes -> positions] in localStorage, <<>> without an entry
  dropped    \* history: where the user let go of a node, Nothing if nowhere,
             \* before the last reset, or before it was missing from a graph

canvasVars == <<mounted, graph, cy, grabbed, saved, dropped>>

\* A node is its place in that order.
Nodes == 1 .. Len(TypeOf)
Positions == [x: Int, y: Int]

\* N6 links start at UPFs that are not iUPFs (buildEdges of the profiles).
ASSUME NodesAssumption ==
  /\ TypeOf \in Seq(STRING)
  /\ ServedBy \in [Nodes -> SUBSET {u \in Nodes: TypeOf[u] \in {"PSA", "UPF"}}]
ASSUME GraphsAssumption == Graphs \subseteq (SUBSET Nodes) \ {{}}
ASSUME PlacesAssumption ==
  Places \subseteq Positions \ {Nothing} /\ Nothing \notin Nodes

CanvasTypeOK ==
  /\ mounted \in BOOLEAN /\ graph \in Graphs
  /\ DOMAIN cy = IF mounted THEN graph ELSE {}
  /\ \A n \in DOMAIN cy: cy[n] \in Positions
  /\ grabbed \in DOMAIN cy \cup {Nothing}
  /\ DOMAIN saved \subseteq Nodes /\ \A n \in DOMAIN saved: saved[n] \in Positions
  /\ dropped \in [Nodes -> Places \cup {Nothing}]
-----------------------------------------------------------------------------
(* computePositions. *)

TopRowOrder ==
  <<"SCP", "NSSF", "NEF", "NRF", "PCF", "UDM", "AUSF", "CHF", "UDR", "BSF">>

\* The base and the spacing of the groups that have a place of their own.
At(x, y) == [x |-> x, y |-> y]
Base == [AMF |-> At(310, 270), SMF |-> At(680, 270), UE |-> At(80, 480),
         gNB |-> At(240, 480), iUPF |-> At(440, 480), PSA |-> At(660, 480),
         UPF |-> At(480, 480)]
Spacing == [AMF |-> 130, SMF |-> 130, UE |-> 80, gNB |-> 80, iUPF |-> 80,
            PSA |-> 72, UPF |-> 130]
DnOffset == 40 + 150 + 35

\* Rows are sets, of nodes or of places in TopRowOrder, in increasing order.
Rank(row, n) == Cardinality({m \in row: m <= n})

\* The x of a member of a row that is centred at x.
Spread(row, n, x, step) ==
  x + ((2 * Rank(row, n) - Cardinality(row) - 1) * step) \div 2

Group(g, t) == {n \in g: TypeOf[n] = t}
TopIndex(t) == CHOOSE i \in 1 .. Len(TopRowOrder): TopRowOrder[i] = t
TopRow(g) == {i \in 1 .. Len(TopRowOrder): Group(g, TopRowOrder[i]) # {}}
IsULCL(g) == Group(g, "iUPF") # {}

\* Types computePositions places; buildElements puts the others at one point.
Placed(g) ==
  {TopRowOrder[i] : i \in 1 .. Len(TopRowOrder)} \cup {"AMF", "SMF", "UE", "gNB"}
  \cup (IF IsULCL(g) THEN {"iUPF", "PSA"} ELSE {"UPF"})

\* The first of several PSA-UPFs stands above the line, the others below.
PsaLevel(i, k) == IF k = 1 THEN 0 ELSE IF i = 1 THEN -50 ELSE 50

\* place, for a node that has no position yet and is no DN.
Slot(g, n) ==
  LET t   == TypeOf[n]
      row == Group(g, t)
  IN  IF t \in DOMAIN Base
      THEN At(Spread(row, n, Base[t].x, Spacing[t]),
              Base[t].y + IF t = "PSA" THEN PsaLevel(Rank(row, n), Cardinality(row))
                          ELSE 0)
      ELSE At(Spread(row, n, Spread(TopRow(g), TopIndex(t), 535, 130), 130), 80)

\* Where a DN goes of which no UPF is placed.
Fallback(g, pos) ==
  LET psa  == Group(g, "PSA")
      iupf == Group(g, "iUPF")
      last == pos[Max(psa)]
  IN  IF psa = {} \/ Max(psa) \notin DOMAIN pos
      THEN At(IF IsULCL(g) THEN 860 ELSE 680, 480)
      ELSE IF iupf # {} /\ {Min(iupf), Min(psa)} \subseteq DOMAIN pos
      THEN At(last.x + pos[Min(psa)].x - pos[Min(iupf)].x,
              last.y + pos[Min(psa)].y - pos[Min(iupf)].y)
      ELSE At(last.x + 72, last.y)

\* The y of some nodes, added up.
SumOfY(pos, nodes) ==
  LET sum[n \in 0 .. Len(TypeOf)] ==
        IF n = 0 THEN 0 ELSE sum[n - 1] + IF n \in nodes THEN pos[n].y ELSE 0
  IN  sum[Len(TypeOf)]

\* The place to the right of the UPFs that serve a DN, at their mean height.
Anchor(g, pos, dn) ==
  LET upfs == ServedBy[dn] \cap DOMAIN pos
  IN  IF upfs = {} THEN Fallback(g, pos)
      ELSE At(Max({pos[u].x : u \in upfs}) + DnOffset,
              SumOfY(pos, upfs) \div Cardinality(upfs))

\* DNs at one height share a row around the anchor of the first.
DnSlot(g, pos, dn) ==
  LET y   == Anchor(g, pos, dn).y
      row == {d \in Group(g, "DN") \ DOMAIN pos: Anchor(g, pos, d).y = y}
  IN  At(Spread(row, dn, Anchor(g, pos, Min(row)).x, 130), y)

\* The positions of the nodes of a graph, given those known. Known ones stay.
ComputePositions(g, known) ==
  LET new == {n \in g \ DOMAIN known: TypeOf[n] \in Placed(g)}
      pos == [n \in (g \cap DOMAIN known) \cup new |->
                IF n \in new THEN Slot(g, n) ELSE known[n]]
      dns == {n \in g \ DOMAIN known: TypeOf[n] = "DN"}
  IN  [n \in DOMAIN pos \cup dns |-> IF n \in dns THEN DnSlot(g, pos, n) ELSE pos[n]]

BuildElements(g, positions) ==
  [n \in g |-> IF n \in DOMAIN positions THEN positions[n] ELSE At(700, 400)]
-----------------------------------------------------------------------------
(* The canvas. *)

CanvasInit ==
  /\ mounted = FALSE /\ graph \in Graphs /\ cy = <<>>
  /\ grabbed = Nothing /\ saved = <<>>
  /\ dropped = [n \in Nodes |-> Nothing]

\* A drag is remembered for the nodes that go on being there.
StillThere(g) == [n \in Nodes |-> IF n \in g THEN dropped[n] ELSE Nothing]

\* The first render with a graph: savedPositions are read once, here.
Mount(g) ==
  /\ ~mounted
  /\ mounted' = TRUE /\ graph' = g
  /\ cy' = BuildElements(g, ComputePositions(g, saved))
  /\ dropped' = StillThere(g)
  /\ UNCHANGED <<grabbed, saved>>

\* The page is left, a poll fails, or the graph is empty.
Unmount ==
  /\ mounted
  /\ mounted' = FALSE /\ cy' = <<>> /\ grabbed' = Nothing
  /\ UNCHANGED <<graph, saved, dropped>>

\* Faulty variants: positions are taken from localStorage, as when mounting;
\* what vanished is not removed.
RefreshFromSaved(g) ==
  /\ mounted
  /\ graph' = g
  /\ cy' = BuildElements(g, ComputePositions(g, saved))
  /\ grabbed' = IF grabbed \in g THEN grabbed ELSE Nothing
  /\ dropped' = StillThere(g)
  /\ UNCHANGED <<mounted, saved>>
RefreshKeepsGone(g) ==
  /\ mounted
  /\ graph' = g
  /\ cy' = BuildElements(g \cup graph, ComputePositions(g \cup graph, cy))
  /\ dropped' = StillThere(g)
  /\ UNCHANGED <<mounted, grabbed, saved>>

\* A new graph while the canvas is mounted: what Cytoscape shows is known, nodes
\* that are gone are removed, and with one the drag of it ends.
Refresh(g) ==
  /\ mounted
  /\ graph' = g
  /\ cy' = BuildElements(g, ComputePositions(g, cy))
  /\ grabbed' = IF grabbed \in g THEN grabbed ELSE Nothing
  /\ dropped' = StillThere(g)
  /\ UNCHANGED <<mounted, saved>>

Grab(n) ==
  /\ mounted /\ grabbed = Nothing
  /\ n \in graph
  /\ grabbed' = n
  /\ UNCHANGED <<mounted, graph, cy, saved, dropped>>

Drag(p) ==
  /\ grabbed # Nothing
  /\ cy' = [cy EXCEPT ![grabbed] = p]
  /\ UNCHANGED <<mounted, graph, grabbed, saved, dropped>>

\* Faulty variant: only the dragged node is saved.
FreeSavesOne ==
  /\ grabbed # Nothing /\ cy[grabbed] \in Places
  /\ grabbed' = Nothing
  /\ saved' = [n \in {grabbed} |-> cy[n]]
  /\ dropped' = [dropped EXCEPT ![grabbed] = cy[grabbed]]
  /\ UNCHANGED <<mounted, graph, cy>>

\* dragfree, after the node was moved.
Free ==
  /\ grabbed # Nothing /\ cy[grabbed] \in Places
  /\ grabbed' = Nothing
  /\ saved' = cy
  /\ dropped' = [dropped EXCEPT ![grabbed] = cy[grabbed]]
  /\ UNCHANGED <<mounted, graph, cy>>

\* Faulty variant: what Cytoscape shows is taken for known, as by a new graph.
ResetFromShown ==
  /\ mounted /\ grabbed = Nothing
  /\ saved' = <<>>
  /\ cy' = BuildElements(graph, ComputePositions(graph, cy))
  /\ dropped' = [n \in Nodes |-> Nothing]
  /\ UNCHANGED <<mounted, graph, grabbed>>

\* handleReset: nodes that computePositions has no place for stay where they
\* are. The others glide there for 300 ms, which is one step here.
Reset ==
  /\ mounted /\ grabbed = Nothing
  /\ saved' = <<>>
  /\ LET new == ComputePositions(graph, <<>>)
     IN  cy' = [n \in graph |-> IF n \in DOMAIN new THEN new[n] ELSE cy[n]]
  /\ dropped' = [n \in Nodes |-> Nothing]
  /\ UNCHANGED <<mounted, graph, grabbed>>

CanvasNext ==
  \/ \E g \in Graphs: Mount(g) \/ Refresh(g)
  \/ \E n \in Draggable: Grab(n)
  \/ \E p \in Places: Drag(p)
  \/ Unmount \/ Free \/ Reset

CanvasSpec == CanvasInit /\ [][CanvasNext]_canvasVars
-----------------------------------------------------------------------------
(* Properties. *)

\* "a periodic refresh never discards a manual drag": a new graph moves no node
\* that it shares with the one before, wherever that stands and whether it is
\* being dragged, though the others of its group come and go.
StaysPut ==
  [][mounted /\ mounted' /\ graph' # graph
       => \A n \in graph \cap graph': cy'[n] = cy[n]]_canvasVars

\* Where the user let go of a node it stays, over refreshes, over unmounting
\* the canvas and over drags of other nodes, until a reset or until a graph
\* comes without it: the element is then removed, and localStorage is read only
\* when the canvas is mounted.
DropsKept ==
  \A n \in Nodes: dropped[n] # Nothing =>
    /\ n \in DOMAIN saved /\ saved[n] = dropped[n]
    /\ mounted /\ n # grabbed => cy[n] = dropped[n]

\* The boxes of two nodes do not overlap: 80 wide, 70 with the class sm, 36 high.
Dist(a, b) == IF a < b THEN b - a ELSE a - b
HalfWidth(n) == IF TypeOf[n] \in {"gNB", "UE", "DN"} THEN 35 ELSE 40
Apart(pos, nodes) ==
  \A m, n \in nodes: m # n =>
    \/ Dist(pos[m].x, pos[n].x) >= HalfWidth(m) + HalfWidth(n)
    \/ Dist(pos[m].y, pos[n].y) >= 36

\* What the default layout has room for: one node of each type, but two PSA-UPFs
\* and two data networks, and one node it has no place for, unless that comes to
\* lie under the second of two PSA-UPFs.
HasRoom(g) ==
  LET elsewhere == {n \in g: TypeOf[n] \notin Placed(g) \cup {"DN"}}
  IN  /\ \A m, n \in g:
           m # n /\ TypeOf[m] = TypeOf[n] => TypeOf[m] \in {"PSA", "DN"}
      /\ Cardinality(Group(g, "PSA")) <= 2 /\ Cardinality(Group(g, "DN")) <= 2
      /\ Cardinality(elsewhere) <= 1
      /\ elsewhere # {} => Cardinality(Group(g, "PSA")) <= 1

\* The nodes of a graph that the default layout has a place for.
Tidied(g) == {n \in g: TypeOf[n] \in Placed(g) \cup {"DN"}}

\* A reset tidies up: whatever was dragged on whatever before, no two of the
\* nodes that the layout has a place for overlap after it, if the layout has
\* room for the graph. A node without a place stays where it was dragged, on
\* another one even (handleReset passes it over; see ResetForgets). And where
\* nothing is saved a canvas that is mounted is tidy altogether.
ResetTidies ==
  [][/\ Reset /\ HasRoom(graph) => Apart(cy', Tidied(graph))
     /\ ~mounted /\ mounted' /\ saved = <<>> /\ HasRoom(graph')
          => Apart(cy', graph')]_canvasVars

\* "Reset layout": after a reset the canvas is as one that nothing was dragged
\* on, and as the next time it is mounted.
ResetForgets ==
  [][Reset => cy' = BuildElements(graph, ComputePositions(graph, saved'))]_canvasVars
=============================================================================
