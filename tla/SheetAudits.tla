----------------------------- MODULE SheetAudits -----------------------------
(***************************************************************************)
(* The audits of design_review.rs on one sheet.  They follow no wire: a pin*)
(* is on the net whose label stands on it, and on no net without one.      *)
(*                                                                         *)
(* A sheet is [children, labels, parts]: labels[p] is the name at point p, *)
(* or NoName; a part is [ref, kind, pins, complete] with kind "ic", "cap", *)
(* "bulk" (a capacitor of 10 uF or more), "resistor" or "other", pins from *)
(* what they are for to where they end, and complete the fields it has.    *)
(***************************************************************************)
EXTENDS FiniteSets

CONSTANTS
  Rails, Grounds,  \* the names audited as power, and those of them that are grounds
  NoName

ASSUME AuditsAssumption == Grounds \subseteq Rails /\ NoName \notin Rails

NetAt(s, p) == s.labels[p]
NetsOf(s, part) == {NetAt(s, part.pins[q]) : q \in DOMAIN part.pins}
CapNets(s) == UNION {NetsOf(s, part) : part \in {x \in s.parts : x.kind \in {"cap", "bulk"}}} \ {NoName}
BulkNets(s) == UNION {NetsOf(s, part) : part \in {x \in s.parts : x.kind = "bulk"}} \ {NoName}

\* A resistor from the net to a rail; a ground is as good as a supply.
HasPullUp(s, net) == \E part \in s.parts : part.kind = "resistor" /\ net \in NetsOf(s, part) /\ NetsOf(s, part) \cap Rails # {}

Finding(severity, of, net) == [severity |-> severity, of |-> of, net |-> net]

\* audit_decoupling: a supply pin of a chip on a net no capacitor is on.
Decoupling(s) ==
  UNION {{Finding("error", part.ref, NetAt(s, part.pins[q])) :
            q \in {x \in DOMAIN part.pins : x = "power" /\ NetAt(s, part.pins[x]) \notin CapNets(s)}} :
         part \in {x \in s.parts : x.kind = "ic"}}

\* audit_connections: a bus or reset pin with a net and no resistor that pulls it.
Connections(s) ==
  UNION {{Finding("warning", part.ref, NetAt(s, part.pins[q])) :
            q \in {x \in DOMAIN part.pins : /\ x = "reset" \/ (x \in {"sda", "scl"} /\ {"sda", "scl"} \subseteq DOMAIN part.pins)
                                            /\ NetAt(s, part.pins[x]) # NoName
                                            /\ ~HasPullUp(s, NetAt(s, part.pins[x]))}} :
         part \in s.parts}

\* The labels audited as power; power symbols have no label, and none is found.
PowerNets(s) == {s.labels[p] : p \in DOMAIN s.labels} \cap Rails
TestPointNets(s) == {}

\* audit_power_rails: a rail without a capacitor, with no large one, without a
\* test point.
RailFindings(s) ==
  LET rails == PowerNets(s) \ Grounds
  IN {Finding("error", NoName, net) : net \in rails \ CapNets(s)}
     \cup {Finding("warning", NoName, net) : net \in (rails \cap CapNets(s)) \ BulkNets(s)}
     \cup {Finding("info", NoName, net) : net \in rails \ TestPointNets(s)}

\* check_bom_health.
BomFindings(s) ==
  {Finding("warning", part.ref, NoName) : part \in {x \in s.parts : "value" \notin x.complete \/ (x.kind = "ic" /\ "mpn" \notin x.complete)}}
  \cup {Finding("error", part.ref, NoName) : part \in {x \in s.parts : "footprint" \notin x.complete}}

Audited(s) == Decoupling(s) \cup Connections(s) \cup RailFindings(s) \cup BomFindings(s)
Found(s) == {f.severity : f \in Audited(s)} \cap {"warning", "error"}

\* Two audits look at one capacitor: a rail that passes as decoupled leaves no
\* supply pin that bears its label without one.
AuditsAgree(s) ==
  \A f \in Decoupling(s) : f.net \in Rails \ Grounds => Finding("error", NoName, f.net) \in RailFindings(s)
=============================================================================
