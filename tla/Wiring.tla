------------------------------- MODULE Wiring -------------------------------
(***************************************************************************)
(* The wires of one sheet: the tools that draw, split and delete them      *)
(* (sch_wiring.rs, sch_batch.rs), that put down, move and delete labels    *)
(* and symbols (sch_components.rs), and the net graph by which the         *)
(* analysis tools answer (sch_analysis.rs).                                *)
(*                                                                         *)
(* KiCad joins wires where their ends meet, and whatever passes through a  *)
(* point only if a junction dot or a label is on it: a wire that ends on   *)
(* the middle of another, or a pin under it, touches and does not connect. *)
(* So the tools that draw put a dot wherever something touches, and take   *)
(* it away with the last wire but one; those that move symbols or place    *)
(* them in batches, and one that draws, look at no wire.                   *)
(*                                                                         *)
(* Wires are drawn horizontally or vertically, points are those of the     *)
(* grid, a symbol has one pin, no two pins of one point name the same net, *)
(* no wire is pulled to nothing, and the schematic holds its symbols'      *)
(* definitions.  What happens to the document between a tool's reads and   *)
(* its write is SchematicTools'.                                           *)
(***************************************************************************)
EXTENDS Integers, FiniteSets, Bags, FiniteSetsExt

CONSTANTS
    Points,        \* the grid points in play, <<x, y>>
    StartPins,     \* where the sheet may have pins at the start: sets of points
    Places,        \* where symbols with one pin may be put
    Nets,          \* names a label may carry
    Rails,         \* names a power symbol may carry
    NoName,        \* of a pin that names no net
    Slants,        \* may a wire be pulled aslant?  If not, it is not pulled there
    MaxWires,      \* bound: wires on the sheet
    MaxLabels,     \* bound: labels and pins on the sheet
    MaxCalls       \* bound: calls

ASSUME WiringAssumption == Slants \in BOOLEAN

VARIABLES
    sheet,   \* [wires: a bag of their two ends, dots, labels: [at, net], pins: [at, net]]
    loose,   \* the points that a tool which looks at no wire left touching one, as long as they do
    calls

wiringVars == <<sheet, loose, calls>>

\* The points from one to another, and the wires there may be.
Between(a, b) ==
    LET Within(k, p) == (a[k] <= p[k] /\ p[k] <= b[k]) \/ (b[k] <= p[k] /\ p[k] <= a[k])
    IN  {p \in Points : Within(1, p) /\ Within(2, p) /\ (p[1] - a[1]) * (b[2] - a[2]) = (p[2] - a[2]) * (b[1] - a[1])}
Straight(w) == \E k \in {1, 2} : \A p, q \in w : p[k] = q[k]
Pairs == {w \in {{a, b} : a \in Points, b \in Points} : Cardinality(w) = 2}
Segments == {w \in Pairs : Straight(w)}
Covered == [w \in Pairs |-> UNION {Between(a, b) : a \in w, b \in w}]

\* point_on_segment, which takes a slanted wire to have no points at all.
On(p, w) == p \in Covered[w] /\ Straight(w)
Inside(p, w) == On(p, w) /\ p \notin w

Drawn(s) == BagToSet(s.wires)
PinPoints(s) == {pin.at : pin \in s.pins}

-----------------------------------------------------------------------------
(* What the tools do to a sheet. *)

\* find_t_junctions: every end, of any wire, inside another.
TJunctions(ws) == {p \in UNION ws : \E w \in ws : Inside(p, w)}
PinsMidSegment(s, w) == {p \in PinPoints(s) : Inside(p, w)}

\* insert_wire_with_junctions, and add_wire's own rendering of it.
WithWire(s, w) == [s EXCEPT !.wires = @ (+) SetToBag({w}),
                            !.dots = @ \cup TJunctions(Drawn(s) \cup {w}) \cup PinsMidSegment(s, w)]

\* route_between: straight, or along and then up or down.
Routed(s, a, b) ==
    LET corner == <<b[1], a[2]>>
    IN  IF corner \in {a, b} THEN WithWire(s, {a, b}) ELSE WithWire(WithWire(s, {a, corner}), {corner, b})

WiresThrough(s, p) == MapThenSumSet(LAMBDA w : s.wires[w], {w \in Drawn(s) : On(p, w)})

\* A fault to detect: two wires that cross under a dot are taken for none.
CrossingForgotten(s, d) ==
    WiresThrough(s, d) = 0 \/ (d \notin PinPoints(s) /\ (WiresThrough(s, d) = 1 \/ d \notin UNION Drawn(s)))

\* A dot needs two wires, or one and a pin.
Orphaned(s, d) == WiresThrough(s, d) = 0 \/ (WiresThrough(s, d) = 1 /\ d \notin PinPoints(s))

\* delete_wire and prune_orphaned_junctions: the dots on the wires that went.
Without(s, gone) ==
    LET left == [s EXCEPT !.wires = @ (-) SetToBag(gone)]
    IN  [left EXCEPT !.dots = {d \in @ : ~((\E w \in gone : On(d, w)) /\ Orphaned(left, d))}]

\* split_wire_at_point, which puts a dot and asks nothing else.
Split(s, w, p) == [s EXCEPT !.wires = (@ (-) SetToBag({w})) (+) SetToBag({{end, p} : end \in w}), !.dots = @ \cup {p}]

WithLabel(s, p, net) == [s EXCEPT !.labels = @ \cup {[at |-> p, net |-> net]}]

\* A symbol with its pin at p, and add_pin_midwire_junctions.
WithSymbol(s, p, net) ==
    [s EXCEPT !.pins = @ \cup {[at |-> p, net |-> net]},
              !.dots = @ \cup {q \in {p} : \E w \in Drawn(s) : Inside(q, w)}]

Offset(from, to) == <<to[1] - from[1], to[2] - from[2]>>
Shifted(items, d) == {[i EXCEPT !.at = <<@[1] + d[1], @[2] + d[2]>>] : i \in items}

\* The symbol with this pin is moved, and every wire end at it pulled along.
Pulled(s, pin, to) ==
    LET Pull(w) == IF pin.at \in w THEN (w \ {pin.at}) \cup {to} ELSE w
    IN  [s EXCEPT !.pins = (@ \ {pin}) \cup {[pin EXCEPT !.at = to]},
                  !.wires = [w \in {Pull(v) : v \in Drawn(s)} |-> MapThenSumSet(LAMBDA v : s.wires[v], {v \in Drawn(s) : Pull(v) = w})]]

\* The ends of wires, and pins, that touch a wire and have no dot.
Touching(ps, ws) == {p \in ps : \E w \in ws : p \in Covered[w] /\ p \notin w}
Undotted(s) == Touching(UNION Drawn(s) \cup PinPoints(s), Drawn(s)) \ s.dots

-----------------------------------------------------------------------------
(* The tools. *)

WiringInit ==
    /\ \E pins \in StartPins :
         sheet = [wires |-> EmptyBag, dots |-> {}, labels |-> {}, pins |-> {[at |-> p, net |-> NoName] : p \in pins}]
    /\ loose = {}
    /\ calls = 0

Becomes(s) ==
    /\ calls < MaxCalls
    /\ calls' = calls + 1
    /\ BagCardinality(s.wires) <= MaxWires
    /\ Cardinality(s.labels) + Cardinality(s.pins) <= MaxLabels
    /\ sheet' = s

\* A tool that should leave nothing touching, and one that looks at no wire.
Call(s) == Becomes(s) /\ loose' = loose \cap Undotted(s)
BlindCall(s) == Becomes(s) /\ loose' = Undotted(s)

\* batch_add_wire is this once for each of its wires.
AddWire == \E w \in Segments : Call(WithWire(sheet, w))

\* connect_pins and add_schematic_connection; batch_connect_pins is this for each pair.
Connect == \E a \in Points, b \in Points : a # b /\ <<b[1], a[2]>> \in Points /\ Call(Routed(sheet, a, b))

DeleteWire == \E w \in Drawn(sheet) : Call(Without(sheet, {w}))
BatchDeleteWire == \E gone \in SUBSET Drawn(sheet) : Cardinality(gone) = 2 /\ Call(Without(sheet, gone))
SplitWireAtPoint == \E w \in Drawn(sheet), p \in Points : Inside(p, w) /\ Call(Split(sheet, w, p))

AddJunction == \E p \in Points : Call([sheet EXCEPT !.dots = @ \cup {p}])

\* add_schematic_net_label; batch_connect_to_net is this for each of its pins.
AddNetLabel == \E p \in Points, net \in Nets : Call(WithLabel(sheet, p, net))
DeleteNetLabel == \E l \in sheet.labels : Call([sheet EXCEPT !.labels = @ \ {l}])
MoveLabelsByOffset ==
    \E net \in Nets, from \in Points, to \in Points :
        LET named == {l \in sheet.labels : l.net = net}
            there == Shifted(named, Offset(from, to))
        IN  /\ named # {} /\ from # to /\ {l.at : l \in there} \subseteq Points
            /\ Call([sheet EXCEPT !.labels = (@ \ named) \cup there])

\* connect_to_net: a stub from the pin with the label at its end.
ConnectToNet == \E w \in Segments, net \in Nets : \E end \in w : Call(WithLabel(WithWire(sheet, w), end, net))

\* connect_passthrough draws its stub and looks at nothing.
ConnectPassthrough ==
    \E w \in Segments, net \in Nets : \E end \in w :
        BlindCall([WithLabel(sheet, end, net) EXCEPT !.wires = @ (+) SetToBag({w})])

\* add_schematic_component, and add_power_symbol, whose pin names its net.
AddSymbol == \E p \in Places, net \in Rails \cup {NoName} : Call(WithSymbol(sheet, p, net))

\* batch_place_components and apply_template.
BatchPlaceComponents ==
    \E p \in Places, net \in Rails \cup {NoName} : BlindCall([sheet EXCEPT !.pins = @ \cup {[at |-> p, net |-> net]}])

\* move_region and bulk_move; of one symbol, move_schematic_component, and by what they do to
\* its pin rotate_schematic_component and replace_component.
MoveComponents ==
    \E moved \in SUBSET sheet.pins, from \in Points, to \in Points :
        LET there == Shifted(moved, Offset(from, to))
            others == sheet.pins \ moved
        IN  /\ moved # {} /\ from # to /\ PinPoints([sheet EXCEPT !.pins = there]) \subseteq Points
            /\ there \cap others = {}
            /\ BlindCall([sheet EXCEPT !.pins = others \cup there])

MoveConnected(pin, to) ==
    /\ pin \in sheet.pins /\ [pin EXCEPT !.at = to] \notin sheet.pins
    /\ LET pulled == Pulled(sheet, pin, to)
       IN  Drawn(pulled) \subseteq (IF Slants THEN Pairs ELSE Segments) /\ BlindCall(pulled)

\* batch_delete, item by item, of a wire, a dot, a label or a symbol, and the tools that delete
\* symbols: whatever was on what goes stays as it is.
DeleteItem ==
    \/ \E w \in Drawn(sheet) : Call([sheet EXCEPT !.wires = @ (-) SetToBag({w})])
    \/ \E l \in sheet.labels : Call([sheet EXCEPT !.labels = @ \ {l}])
    \/ \E pin \in sheet.pins : Call([sheet EXCEPT !.pins = @ \ {pin}])
    \/ \E d \in sheet.dots : BlindCall([sheet EXCEPT !.dots = @ \ {d}])

WiringNext ==
    \/ AddWire \/ Connect \/ DeleteWire \/ BatchDeleteWire \/ SplitWireAtPoint
    \/ AddJunction \/ AddNetLabel \/ DeleteNetLabel \/ MoveLabelsByOffset \/ ConnectToNet \/ ConnectPassthrough
    \/ AddSymbol \/ BatchPlaceComponents \/ MoveComponents \/ DeleteItem
    \/ \E pin \in sheet.pins, to \in Points : MoveConnected(pin, to)

WiringSpec == WiringInit /\ [][WiringNext]_wiringVars

-----------------------------------------------------------------------------
(* What the analysis tools answer. *)

\* extract_all_net_labels: the labels, and every pin that names a net.
NetLabels(s) == s.labels \cup {pin \in s.pins : pin.net # NoName}

\* NetGraph: the ends of a wire are one, and a label or a dot is one with every
\* wire it is on.  A root for each point.
Attached(s) == {l.at : l \in NetLabels(s)} \cup s.dots
NetGraph(s) ==
    LET Union(group, root) == [p \in Points |-> IF \E q \in group : root[p] = root[q] THEN root[CHOOSE q \in group : TRUE] ELSE root[p]]
        attachments == {wp[1] \cup {wp[2]} : wp \in {wp \in Drawn(s) \X Attached(s) : On(wp[2], wp[1])}}
    IN  FoldSet(Union, [p \in Points |-> p], Drawn(s) \cup attachments)

\* point_nets: one name for a point; power symbols come last and hide a label.
PointNets(s) ==
    [p \in {l.at : l \in NetLabels(s)} |->
        LET here == {l \in NetLabels(s) : l.at = p}
        IN  (CHOOSE l \in here : here \ s.labels # {} => l \notin s.labels).net]

\* net_at, of every point: one of the names with its root; which one is the hash map's
\* choice.
NetsAt(s) ==
    LET root == NetGraph(s)
        named == PointNets(s)
    IN  [p \in Points |-> {named[q] : q \in {q \in DOMAIN named : root[q] = root[p]}}]

\* get_net_components, by points_on_net.
PinsOnNet(s, net) == LET nets == NetsAt(s) IN {p \in PinPoints(s) : net \in nets[p]}

\* find_shorted_nets: the labels with one root, if they have two names.
ShortedNets(s) ==
    LET root == NetGraph(s)
        names == {{k.net : k \in {k \in NetLabels(s) : root[k.at] = root[l.at]}} : l \in NetLabels(s)}
    IN  {ns \in names : Cardinality(ns) > 1}

\* find_isolated_pins, and validate_component_connections.
IsolatedPins(s) == LET nets == NetsAt(s) IN {p \in PinPoints(s) : nets[p] = {} /\ ~\E w \in Drawn(s) : On(p, w)}
UnconnectedPins(s) ==
    LET nets == NetsAt([s EXCEPT !.pins = {}])
    IN  {p \in PinPoints(s) :
            /\ p \notin UNION Drawn(s)
            /\ ~(p \in s.dots /\ \E w \in Drawn(s) : On(p, w))
            /\ nets[p] = {}}

-----------------------------------------------------------------------------
(* What KiCad makes of the sheet. *)

\* The wires that are one at a point.
MeetAt(s, p) == {w \in Drawn(s) : p \in w \/ (p \in Attached(s) /\ p \in Covered[w])}

\* What is one with the point p: the least set of wires that no meeting leaves, and
\* the points where one of them meets.
NetOf(s, p) ==
    LET meets == [q \in Points |-> MeetAt(s, q)]
        closed == {ws \in SUBSET Drawn(s) : meets[p] \subseteq ws /\ \A q \in Points : meets[q] \cap ws = {} \/ meets[q] \subseteq ws}
        reached == {w \in Drawn(s) : \A ws \in closed : w \in ws}
    IN  {p} \cup {q \in Points : meets[q] \cap reached # {}}
Terminals(s) == PinPoints(s) \cup {l.at : l \in s.labels} \cup UNION Drawn(s)

\* Whatever touches is connected: no call of a tool that draws, splits, deletes wires or
\* adds a symbol leaves a wire end or a pin inside a wire without its dot, on whatever the
\* other tools made of the sheet: those they left, and which are left still, are loose.
TouchingIsDotted == Undotted(sheet) \subseteq loose

\* The tools answer for a pin a name that KiCad would give its net, if it has one;
\* they report as isolated just the pins that nothing meets or touches, as shorted just
\* the nets with two names, and, where none is, all the pins of a net.
AnswersAreKiCads ==
    LET pins == PinPoints(sheet)
        named == {l.at : l \in NetLabels(sheet)}
        nets == NetsAt(sheet)
        names == [p \in pins \cup named |-> LET net == NetOf(sheet, p) IN {l.net : l \in {l \in NetLabels(sheet) : l.at \in net}}]
    IN  /\ \A p \in pins : nets[p] \subseteq names[p] /\ (nets[p] = {} => names[p] = {})
        /\ IsolatedPins(sheet) = {p \in pins \ named : MeetAt(sheet, p) = {}} \ Undotted(sheet)
        /\ ShortedNets(sheet) = {names[p] : p \in {p \in named : Cardinality(names[p]) > 1}}
        /\ ShortedNets(sheet) = {} => \A net \in Nets \cup Rails : PinsOnNet(sheet, net) = {p \in pins : net \in names[p]}

\* A wire that goes takes with it what went through it and nothing else, whatever
\* dots go with it; a wire that is split still joins what it joined.  No symbol moves.
CutsOnlyItsOwn ==
    sheet'.pins = sheet.pins /\ (\E w \in Drawn(sheet) : CopiesIn(w, sheet'.wires) < CopiesIn(w, sheet.wires)) =>
        LET before == [sheet EXCEPT !.wires = IF BagCardinality(sheet'.wires) < BagCardinality(@) THEN sheet'.wires ELSE @]
        IN  \A p \in Terminals(sheet') : NetOf(before, p) \cap Terminals(sheet') \subseteq NetOf(sheet', p)

\* What the wiring tools promise together: nothing they do touches unjoined, no
\* wire that goes cuts more than itself, and the analysis tools see it as KiCad does.
WiringHolds == []TouchingIsDotted /\ []AnswersAreKiCads /\ [][CutsOnlyItsOwn]_wiringVars

\* Where the end of a wire meets another there is a dot.  There is none where
\* connect_passthrough draws a stub or move_connected pulls a wire, or somebody took it away.
EndsAreDotted == Touching(UNION Drawn(sheet), Drawn(sheet)) \subseteq sheet.dots

\* What is connected to a symbol's pin is so after the symbol is moved with its wires.  It
\* is not: only wires that end at the pin are pulled, and what else is there stays.
PullsKeepConnections ==
    [][\A pin \in sheet.pins, to \in Points : MoveConnected(pin, to) =>
         (NetOf(sheet, pin.at) \cap Terminals(sheet')) \ {pin.at} \subseteq NetOf(sheet', to)]_wiringVars

\* The two tools that look for pins without a connection name the same pins.  They do
\* not: validate_component_connections passes over power symbols.
ValidatorsAgree == UnconnectedPins(sheet) = IsolatedPins(sheet)

\* A split wire joins nothing it did not join before.  It does: where another wire
\* crosses it, the dot of the split connects the two.
SplitsJoinNothing ==
    [][BagCardinality(sheet'.wires) > BagCardinality(sheet.wires) /\ sheet'.labels = sheet.labels
         /\ Drawn(sheet) \ Drawn(sheet') # {} =>
           \A p \in Terminals(sheet) : NetOf(sheet', p) \cap Terminals(sheet) \subseteq NetOf(sheet, p)]_wiringVars
=============================================================================
