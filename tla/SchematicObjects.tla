-------------------------- MODULE SchematicObjects --------------------------
(***************************************************************************)
(* The schematic object model (konnect-schematic-editor): a tool loads a   *)
(* schematic as typed objects, edits them, and either writes the whole     *)
(* document from them (overwrite) or puts one rewritten item into the text *)
(* it read (commit_edited_sheet_item).  Every save compares the document   *)
(* with the text that was loaded; Eeschema saves whenever it likes.        *)
(*                                                                         *)
(* A document is a sequence of nodes.  A node has a kind, an id (its uuid, *)
(* for an alias its name, for the others of their kind alone the kind),    *)
(* tags with a value each, and properties with a value and a place.        *)
(* Places are points of a line; what is inside a sheet's pins and          *)
(* instances, and the layout of the text, are left out.                    *)
(***************************************************************************)
EXTENDS Integers, FiniteSets, SequencesExt, TLC

CONSTANTS
  Handlers,        \* tool calls that may run at once
  Drawings,        \* the documents Eeschema may save
  ObjectCalls,     \* what a handler may be asked for
  NoCall, NoRef,
  MaxObjectCalls, MaxRedraws  \* bounds: tool calls, saves from Eeschema

ASSUME ObjectsAssumption == MaxObjectCalls \in Nat /\ MaxRedraws \in Nat

VARIABLES
  drawing,   \* the document
  editing,   \* each handler's call, the document it loaded and its objects
  called, redrawn

objectVars == <<drawing, editing, called, redrawn>>

\* The order in which a document is written: what the header needs, the drawing,
\* the symbols, then the tables at the end.
Order == <<"paper", "lib_symbols", "bus_alias", "junction", "no_connect", "bus_entry", "wire", "bus", "text",
           "label", "global_label", "hierarchical_label", "sheet", "symbol", "embedded_files", "sheet_instances">>
Untyped == {"paper", "lib_symbols", "embedded_files", "sheet_instances"}

\* Without these a node of the kind cannot be loaded and is skipped.
Required(kind) ==
  CASE kind = "symbol" -> {"lib_id", "at"}
    [] kind = "sheet" -> {"at", "size"}
    [] kind \in {"wire", "bus"} -> {"pts"}
    [] kind \in Untyped \cup {"bus_alias"} -> {}
    [] OTHER -> {"at"}

\* What is supplied where the document says nothing.
Supplied(kind) ==
  CASE kind = "symbol" -> "unit" :> 1 @@ "in_bom" :> "yes" @@ "on_board" :> "yes" @@ "dnp" :> "no"
    [] kind = "global_label" -> "shape" :> "bidirectional"
    [] kind = "junction" -> "diameter" :> 0
    [] kind = "bus_entry" -> "size" :> 2
    [] kind = "bus_alias" -> "members" :> <<>>
    [] OTHER -> <<>>

\* A fault to detect (it was one, mod.rs:31-34): a list of what to keep for all kinds.
CarriesTheKnown(kind, tag) ==
  kind \in Untyped \/ tag \in Required(kind) \cup DOMAIN Supplied(kind) \cup {"text", "effects", "stroke", "color", "shape"}

\* Symbols and sheets carry every child they do not know along (a deny-list), as
\* does what has no type; the others keep the children they name.
Carries(kind, tag) ==
  \/ kind \in Untyped \cup {"symbol", "sheet"}
  \/ tag \in Required(kind) \cup DOMAIN Supplied(kind)
  \/ tag = "text" /\ kind \in {"text", "label", "global_label", "hierarchical_label"}
  \/ tag = "effects" /\ kind \in {"text", "label", "global_label", "hierarchical_label"}
  \/ tag = "shape" /\ kind \in {"label", "hierarchical_label"}
  \/ tag = "stroke" /\ kind \in {"wire", "bus", "bus_entry"}
  \/ tag = "color" /\ kind = "junction"

HasProperties == {"symbol", "sheet", "global_label"}

\* The word `private` is read as the name of the property, its name as the value.
LoadedProperty(p) == IF p.private THEN [p EXCEPT !.private = FALSE, !.name = "private", !.value = p.name] ELSE p

LoadedNode(n) ==
  [n EXCEPT !.tags = [t \in {u \in DOMAIN n.tags : Carries(n.kind, u)} |-> n.tags[t]] @@ Supplied(n.kind),
            !.props = IF n.kind \in HasProperties THEN [i \in DOMAIN n.props |-> LoadedProperty(n.props[i])] ELSE <<>>]
Loads(n) == Required(n.kind) \subseteq DOMAIN n.tags

Loaded(doc) == LET nodes == SelectSeq(doc, Loads) IN [i \in DOMAIN nodes |-> LoadedNode(nodes[i])]
OfKind(nodes, kind) == SelectSeq(nodes, LAMBDA n : n.kind = kind)
Written(nodes) == FlattenSeq([k \in DOMAIN Order |-> OfKind(nodes, Order[k])])
-----------------------------------------------------------------------------
(* Symbols are meant by uuid, or by the designator their units share.      *)

ValuesOf(n, name) == {p.value : p \in {q \in Range(n.props) : q.name = name}}
Designator(n) == IF n.kind = "symbol" /\ ValuesOf(n, "Reference") # {} THEN CHOOSE v \in ValuesOf(n, "Reference") : TRUE
                 ELSE NoRef
Units(nodes, ref) == {i \in DOMAIN nodes : nodes[i].kind = "symbol" /\ Designator(nodes[i]) = ref}
Meant(nodes, t) == IF t.ref = NoRef THEN {i \in DOMAIN nodes : nodes[i].id = t.id} ELSE Units(nodes, t.ref)
First(S) == CHOOSE i \in S : \A j \in S : i <= j

\* A symbol takes its fields along: they are at absolute places.
MovedSymbol(n, to) ==
  LET d == to - n.tags["at"].x
  IN [n EXCEPT !.tags["at"].x = to,
               !.props = [i \in DOMAIN n.props |-> [n.props[i] EXCEPT !.at = @ + d]]]
MovedSheet(n, to) == [n EXCEPT !.tags["at"].x = to]
Turned(n, turn) == [n EXCEPT !.tags["at"].turn = turn]

\* A label that is turned faces its text accordingly; the font stays as it is.
Faced(n, turn) ==
  [n EXCEPT !.tags = [at |-> [n.tags["at"] EXCEPT !.turn = turn],
                      effects |-> [font |-> IF "effects" \in DOMAIN n.tags THEN n.tags["effects"].font ELSE "default",
                                   justify |-> turn]] @@ n.tags]

\* One symbol for each that lies in the region: the first with its designator.
RegionMoved(nodes, low, high, d) ==
  LET inside == SelectSeq(nodes, LAMBDA n : n.kind = "symbol" /\ Designator(n) # NoRef
                                            /\ n.tags["at"].x \in low..high)
      Move(acc, n) == LET i == First(Units(acc, Designator(n)))
                      IN [acc EXCEPT ![i] = MovedSymbol(@, @.tags["at"].x + d)]
  IN FoldLeft(Move, nodes, inside)

\* Wire ends that were on a pin follow it.
Dragged(nodes, from, to) ==
  [i \in DOMAIN nodes |->
     IF nodes[i].kind = "wire"
     THEN [nodes[i] EXCEPT !.tags["pts"] = [e \in DOMAIN @ |-> IF @[e] = from THEN to ELSE @[e]]]
     ELSE nodes[i]]

\* An alias replaces the one of its name.
WithAlias(nodes, name, members) ==
  Append(SelectSeq(nodes, LAMBDA n : ~(n.kind = "bus_alias" /\ n.id = name)),
         [kind |-> "bus_alias", id |-> name, tags |-> "members" :> members, props |-> <<>>])

\* The members of a bus by its name: D[0..1], MEM{A B}, an alias, or itself.
Aliases(nodes) == OfKind(nodes, "bus_alias")
Expanded(name, aliases) ==
  LET named == {i \in DOMAIN aliases : aliases[i].id = name.text}
      up == [i \in 1..(name.last - name.first + 1) |-> <<name.prefix, name.first + i - 1>>]
      down == [i \in 1..(name.first - name.last + 1) |-> <<name.prefix, name.first - i + 1>>]
  IN CASE name.form = "vector" -> IF name.first <= name.last THEN up ELSE down
       [] name.form = "group" -> IF name.prefix = "" THEN name.members
                                 ELSE [i \in DOMAIN name.members |-> <<name.prefix, name.members[i]>>]
       [] name.form = "plain" -> IF named # {} THEN aliases[First(named)].tags["members"] ELSE <<name.text>>
-----------------------------------------------------------------------------
(* A call: asked, loaded and edited, saved.                                *)

NoSession == [at |-> "idle", call |-> NoCall, source |-> <<>>, nodes |-> <<>>]

\* What a call adds gets a uuid of its own.
WithFreshId(c) == IF c.op \in {"add", "label"} THEN [c EXCEPT !.node.id = "new" \o ToString(called)] ELSE c

\* Moving or turning one of several units needs its uuid.
Ambiguous(c, doc) == c.op \in {"move", "turn"} /\ c.target.ref # NoRef /\ Cardinality(Units(doc, c.target.ref)) > 1

Ask(h, c) ==
  /\ editing[h].at = "idle" /\ called < MaxObjectCalls
  /\ ~Ambiguous(c, drawing)
  /\ editing' = [editing EXCEPT ![h] = [NoSession EXCEPT !.at = "asked", !.call = WithFreshId(c)]]
  /\ called' = called + 1
  /\ UNCHANGED <<drawing, redrawn>>

\* The objects after the call's edit.
Edit(c, nodes) ==
  LET i == First(Meant(nodes, c.target))
  IN CASE c.op = "move" -> [nodes EXCEPT ![i] = MovedSymbol(@, c.to)]
       [] c.op = "turn" -> [nodes EXCEPT ![i] = Turned(@, c.to)]
       [] c.op = "move_sheet" -> [nodes EXCEPT ![i] = MovedSheet(@, c.to)]
       [] c.op = "delete" -> IF c.target.ref = NoRef THEN RemoveAt(nodes, i)
                             ELSE SelectSeq(nodes, LAMBDA n : Designator(n) # c.target.ref)
       [] c.op = "region" -> RegionMoved(nodes, c.low, c.high, c.to)
       [] c.op = "drag" -> Dragged(nodes, c.low, c.to)
       [] c.op = "alias" -> WithAlias(nodes, c.name, c.members)
       [] c.op = "add" -> Append(nodes, c.node)
       [] c.op = "label" -> Append(nodes, Faced(c.node, c.to))
Addressed == {"move", "turn", "move_sheet", "delete"}

\* What the call is about is looked up again in what is loaded; if it is gone, the
\* call fails.
Load(h) ==
  /\ editing[h].at = "asked"
  /\ LET c == editing[h].call
         nodes == Loaded(drawing)
     IN editing' = [editing EXCEPT ![h] =
          IF c.op \in Addressed /\ Meant(nodes, c.target) = {} THEN NoSession
          ELSE [at |-> "loaded", call |-> c, source |-> drawing, nodes |-> Edit(c, nodes)]]
  /\ UNCHANGED <<drawing, called, redrawn>>

\* Sheets are put into the text they came from; everything else is written whole.
Candidate(s) ==
  IF s.call.op = "move_sheet"
  THEN [k \in DOMAIN s.source |->
          IF s.source[k].id = s.call.target.id THEN s.nodes[First(Meant(s.nodes, s.call.target))] ELSE s.source[k]]
  ELSE Written(s.nodes)

Saves(h) ==
  /\ editing[h].at = "loaded"
  /\ drawing' = IF drawing = editing[h].source THEN Candidate(editing[h]) ELSE drawing
  /\ editing' = [editing EXCEPT ![h] = NoSession]
  /\ UNCHANGED <<called, redrawn>>

Redraw(d) ==
  /\ redrawn < MaxRedraws
  /\ drawing' = d /\ redrawn' = redrawn + 1
  /\ UNCHANGED <<editing, called>>

ObjectsInit ==
  /\ drawing \in Drawings
  /\ editing = [h \in Handlers |-> NoSession]
  /\ called = 0 /\ redrawn = 0

ObjectsNext ==
  \/ \E h \in Handlers : Load(h) \/ Saves(h) \/ \E c \in ObjectCalls : Ask(h, c)
  \/ \E d \in Drawings : Redraw(d)

ObjectsSpec == ObjectsInit /\ [][ObjectsNext]_objectVars
-----------------------------------------------------------------------------
(* What a save may change.                                                 *)

Where(doc, id) == {i \in DOMAIN doc : doc[i].id = id}
Ids(doc) == {doc[i].id : i \in DOMAIN doc}
InRegion(c, n) == n.kind = "symbol" /\ n.tags["at"].x \in c.low..c.high

\* The nodes a call is about, in the document it loaded, and those it makes.
Named(c, doc) ==
  CASE c.op \in Addressed -> {doc[i].id : i \in Meant(doc, c.target)}
    [] c.op = "region" -> {n.id : n \in {m \in Range(doc) : \E k \in Range(doc) :
                                           InRegion(c, k) /\ Designator(k) = Designator(m) /\ m.kind = "symbol"}}
    [] c.op = "drag" -> {n.id : n \in {m \in Range(doc) : m.kind = "wire" /\ c.low \in Range(m.tags["pts"])}}
    [] c.op = "alias" -> {c.name}
    [] c.op \in {"add", "label"} -> {}
Made(c) == CASE c.op = "alias" -> {c.name} [] c.op \in {"add", "label"} -> {c.node.id} [] OTHER -> {}

\* What a reader of the sheet sees of a node that is not carried whole.
Seen == {"at", "pts", "text", "effects", "members", "stroke"}
SameNode(n, m) ==
  /\ m.kind = n.kind
  /\ \A t \in DOMAIN n.tags : n.kind \in Untyped \cup {"symbol", "sheet"} \/ t \in Seen => t \in DOMAIN m.tags /\ m.tags[t] = n.tags[t]
  /\ \A i \in DOMAIN n.props : ~n.props[i].private => i \in DOMAIN m.props /\ m.props[i] = n.props[i]

\* The fields of a symbol stay where they are as seen from it.
MovedWhole(n, m) ==
  /\ \A t \in DOMAIN n.tags \ {"at"} : t \in DOMAIN m.tags /\ m.tags[t] = n.tags[t]
  /\ Len(m.props) = Len(n.props)
  /\ \A i \in DOMAIN n.props : m.props[i].at - m.tags["at"].x = n.props[i].at - n.tags["at"].x

Writes(h) == editing[h].at = "loaded" /\ editing'[h].at = "idle" /\ drawing' # drawing

\* A save leaves every node its call is not about as it is and in its order among
\* those of its kind, invents none, and puts no node twice (mod.rs:28-34: a list of
\* what to keep silently deleted everything else).
KeepsTheRest(c) ==
  /\ \A n \in {m \in Range(drawing) : Loads(m) /\ m.id \notin Named(c, drawing)} :
        \E m \in Range(drawing') : m.id = n.id /\ SameNode(n, m)
  /\ Ids(drawing') \subseteq Ids(drawing) \cup Made(c)
  /\ \A id \in Ids(drawing') : Cardinality(Where(drawing', id)) = 1
  /\ \A a, b \in (Ids(drawing) \cap Ids(drawing')) \ Made(c) :
        LET i == First(Where(drawing, a))
            j == First(Where(drawing, b))
        IN drawing[i].kind = drawing[j].kind /\ i < j => First(Where(drawing', a)) < First(Where(drawing', b))

\* What it is about is changed as asked: symbols move with their fields, a deletion
\* by uuid takes one unit and by designator all of them, and the name of an alias
\* stands for the members given last.
DoesAsAsked(c) ==
  /\ c.op \in {"move", "region"} =>
       \A n \in Range(drawing) : n.kind = "symbol" =>
         \E m \in Range(drawing') : m.id = n.id /\ MovedWhole(LoadedNode(n), m)
  /\ c.op = "delete" => Ids(drawing) \ Ids(drawing') = Named(c, drawing)
  /\ c.op = "alias" =>
       Expanded([form |-> "plain", text |-> c.name], Aliases(drawing')) = c.members

\* Both hold of every save of a tool, and what it has written is read and written
\* again without a change: a document is not worn down by being edited.
ObjectsHold ==
  [][\A h \in Handlers : Writes(h) =>
       LET c == editing[h].call
       IN /\ KeepsTheRest(c) /\ DoesAsAsked(c)
          /\ c.op # "move_sheet" => Written(Loaded(drawing')) = drawing']_objectVars

\* Not so: a region moves each symbol in it once (of the units of one symbol it moves
\* the first again and again, sch_components.rs:1448-1460).
RegionsMoveOnce ==
  [][\A h \in Handlers : Writes(h) /\ editing[h].call.op = "region" =>
       \A n \in Range(drawing) : InRegion(editing[h].call, n) =>
         \E m \in Range(drawing') : m.id = n.id /\ m.tags["at"].x = n.tags["at"].x + editing[h].call.to]_objectVars

\* Not so: a sheet takes its properties along (sheet.rs:337 moves the box alone, though
\* sheet.rs:195 has their places absolute).
SheetsMoveWhole ==
  [][\A h \in Handlers : Writes(h) /\ editing[h].call.op = "move_sheet" =>
       \A n \in Range(drawing) : n.kind = "sheet" =>
         \E m \in Range(drawing') : m.id = n.id /\ MovedWhole(n, m)]_objectVars

\* Not so: a call that moves the symbol of a designator moves the only one (the guard
\* reads the document before it is loaded, sch_components.rs:1255-1269).
MovesTheOnlyUnit ==
  [][\A h \in Handlers : Writes(h) => ~Ambiguous(editing[h].call, drawing)]_objectVars
=============================================================================
