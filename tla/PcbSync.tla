------------------------------- MODULE PcbSync -------------------------------
(***************************************************************************)
(* update_pcb_from_schematic (pcb_sync.rs).  A dry run plans what the      *)
(* board KiCad holds needs to agree with the saved schematic, and returns  *)
(* the plan's revision; an apply plans again and goes ahead only if it     *)
(* arrives at that revision.  A call reads the netlist, the symbols' flags,*)
(* the footprints and the copper one after the other, and writes in one    *)
(* commit of KiCad; the user saves schematics and edits the board between  *)
(* any two of these steps.                                                 *)
(*                                                                         *)
(* A symbol has a path, which is its identity, and may have no footprint;  *)
(* every footprint with a pad has the one pad "1".                         *)
(***************************************************************************)
EXTENDS Integers, Sequences, FiniteSets, SequencesExt

CONSTANTS
  Schematics,      \* what the user may save: sequences of symbols
  StartBoards,     \* footprints KiCad may hold at the start
  WithPad,         \* library footprints that have a pad
  WithoutPad,      \* and those that have none; all others cannot be prepared
  NoNet, NoFootprint, NoPath,
  MaxMoves, MaxFaults

ASSUME SyncAssumption == MaxMoves \in Nat /\ MaxFaults \in Nat

\* KiCad gives every symbol of a schematic a path of its own.
SymbolFields == {"path", "ref", "value", "fp", "net", "inBom", "onBoard", "dnp"}
ASSUME SchematicsAssumption ==
  \A symbols \in Schematics : \A i, j \in DOMAIN symbols :
    /\ DOMAIN symbols[i] = SymbolFields /\ symbols[i].path # NoPath
    /\ symbols[i].path = symbols[j].path => i = j

\* And every footprint of a board a kiid of its own, <<"new", p>> where a sync
\* made it for the symbol of path p.
FootprintFields == {"kiid", "ref", "value", "fp", "path", "net", "dnp", "free", "at"}
SymbolPaths == UNION {{symbols[i].path : i \in DOMAIN symbols} : symbols \in Schematics}
SoundBoard(b) ==
  /\ \A f \in b : DOMAIN f = FootprintFields
  /\ \A f, g \in b : f.kiid = g.kiid => f = g
  /\ \A f \in b : \A p \in SymbolPaths : f.kiid = <<"new", p>> => f.path = p
ASSUME BoardsAssumption == \A b \in StartBoards : SoundBoard(b)

VARIABLES
  sch,       \* the saved schematic
  board,     \* KiCad's footprints
  copper,    \* nets that have tracks, vias or zones
  call,      \* the tool call under way
  review,    \* what the last dry run answered
  before,    \* the board as the open commit found it
  quiet,     \* has the user left board and schematic alone since the call began?
  left, faults

syncVars == <<sch, board, copper, call, review, before, quiet, left, faults>>
-----------------------------------------------------------------------------
(* Planning.                                                               *)

NoDuplicates(symbols) == \A i, j \in DOMAIN symbols : symbols[i].ref = symbols[j].ref => i = j

\* The saved flags of a component: by its path, or by its reference.
FlagsOf(c, saved) ==
  LET path == {s \in ToSet(saved) : s.path = c.path}
  IN IF path # {} THEN path ELSE {s \in ToSet(saved) : s.ref = c.ref}
Stays(c, saved) == \A s \in FlagsOf(c, saved) : s.inBom /\ s.onBoard
WithFlags(c, saved) == [c EXCEPT !.dnp = IF FlagsOf(c, saved) = {} THEN @ ELSE (CHOOSE s \in FlagsOf(c, saved) : TRUE).dnp]

\* parse_exported_netlist and apply_saved_symbol_flags: components at their
\* places in the export, those without a footprint, those kept off the board.
DesignOf(netlist, saved) ==
  LET kept == {i \in DOMAIN netlist : Stays(netlist[i], saved)}
      placed == {i \in kept : netlist[i].fp # NoFootprint}
  IN [components |-> [i \in placed |-> WithFlags(netlist[i], saved)],
      unassigned |-> {netlist[i] : i \in kept \ placed},
      skipped |-> {s \in ToSet(saved) : s.inBom /\ ~s.onBoard}]

ByPath(seen, c) == {f \in seen : f.path = c.path}
ByReference(seen, c) == {f \in seen : f.ref = c.ref}
Either(seen, c) == IF ByPath(seen, c) # {} THEN ByPath(seen, c) ELSE ByReference(seen, c)

\* The component's footprint: by its path, or one of its reference without any.
Match(seen, c) == IF ByPath(seen, c) # {} THEN ByPath(seen, c) ELSE {f \in ByReference(seen, c) : f.path = NoPath}

MatchedBefore(d, seen, i) ==
  UNION {Match(seen, d.components[j]) : j \in {k \in DOMAIN d.components : k < i}} \cup UNION {Either(seen, c) : c \in d.skipped \cup d.unassigned}
PossibleRenames(d, seen, i) == LET c == d.components[i]
  IN {f \in seen \ MatchedBefore(d, seen, i) : f.path = NoPath /\ ~f.free /\ f.fp = c.fp /\ f.value = c.value}

PadMissing(c) == c.net # NoNet /\ c.fp \notin WithPad
Exported(d) == {c.ref : c \in ToSet(d.components) \cup d.skipped \cup d.unassigned}

\* A fault to detect: copper is not looked at.
CopperIgnored(c, f, routed) == FALSE
CutsCopper(c, f, routed) == c.net # f.net /\ {c.net, f.net} \cap routed # {}

\* Why component i cannot be brought to the board as it is.
Hinders(d, seen, routed, i) ==
  LET c == d.components[i]  found == Match(seen, c)
  IN IF found = {}
       THEN \/ ByReference(seen, c) # {}
            \/ PossibleRenames(d, seen, i) # {}
            \/ c.fp \notin WithPad \cup WithoutPad
            \/ PadMissing(c)
       ELSE \E f \in found :
              \/ f.ref # c.ref /\ ByReference(seen, c) \ {f} # {}
              \/ f.fp # c.fp
              \/ PadMissing(c)
              \/ CutsCopper(c, f, routed)
Conflicting(d, seen, routed) ==
  \/ \E f, g \in seen : f # g /\ ((f.path = g.path /\ f.path # NoPath) \/ (f.ref = g.ref /\ f.ref \in Exported(d)))
  \/ \E s \in d.skipped : Either(seen, s) # {}
  \/ \E i \in DOMAIN d.components : Hinders(d, seen, routed, i)

Add(c) == [kind |-> "add", kiid |-> <<"new", c.path>>, to |-> c]
UpdateOf(c, f) == [kind |-> "update", kiid |-> f.kiid, to |-> c]
Differs(c, f) == \/ f.ref # c.ref \/ f.value # c.value \/ f.path # c.path
                 \/ f.dnp # c.dnp \/ f.net # c.net

\* A conflict anywhere clears the whole plan.
PlanSync(d, seen, routed) ==
  IF Conflicting(d, seen, routed) THEN [status |-> "conflict", changes |-> {}]
  ELSE LET changes == {Add(c) : c \in {x \in ToSet(d.components) : Match(seen, x) = {}}}
                        \cup UNION {{UpdateOf(c, f) : f \in {x \in Match(seen, c) : Differs(c, x)}} : c \in ToSet(d.components)}
       IN [status |-> IF changes = {} THEN "noop" ELSE "ready", changes |-> changes]

\* Values and flags of the board count through the changes alone.
IdentityOf(f) == <<f.kiid, f.ref, f.fp, f.path, f.net>>

\* A fault to detect: the changes are not part of it.
RevisionOfInputs(netlist, seen, routed, bounds, changes) == <<netlist, bounds, {IdentityOf(f) : f \in seen}, routed>>
Revision(netlist, seen, routed, bounds, changes) == <<netlist, bounds, {IdentityOf(f) : f \in seen}, routed, changes>>

\* What a footprint becomes: everything the schematic owns, nothing else.
ApplyFields(f, c) == [f EXCEPT !.ref = c.ref, !.value = c.value, !.path = c.path, !.dnp = c.dnp,
                               !.net = IF f.fp \in WithPad THEN c.net ELSE NoNet]
Fresh(c) == [kiid |-> <<"new", c.path>>, ref |-> c.ref, value |-> c.value, fp |-> c.fp, path |-> NoPath,
             net |-> NoNet, dnp |-> FALSE, free |-> FALSE, at |-> "staged"]
Created(changes) == {ApplyFields(Fresh(x.to), x.to) : x \in {y \in changes : y.kind = "add"}}
Updated(changes, seen) ==
  UNION {{ApplyFields(f, x.to) : f \in {g \in seen : g.kiid = x.kiid}} : x \in {y \in changes : y.kind = "update"}}
Replace(footprints, new) == {f \in footprints : \A g \in new : g.kiid # f.kiid} \cup new
-----------------------------------------------------------------------------
(* A call, step by step.                                                   *)

Idle == [at |-> "idle"]
NotReviewed == [rev |-> <<>>, changes |-> {}, seen |-> {}]
User == <<sch, board, copper, left>>
Bounds == {f.at : f \in board}

Export == /\ call.at = "idle"
          /\ \E dry \in BOOLEAN :
               /\ ~dry => review # NotReviewed
               /\ call' = [at |-> "flags", dry |-> dry, netlist |-> sch]
          /\ quiet' = TRUE
          /\ UNCHANGED <<User, review, before, faults>>

ReadFlags == /\ call.at = "flags"
             /\ call' = IF ~NoDuplicates(call.netlist) \/ call.netlist = <<>> THEN Idle
                        ELSE [at |-> "snap", dry |-> call.dry, netlist |-> call.netlist, design |-> DesignOf(call.netlist, sch)]
             /\ UNCHANGED <<User, review, before, quiet, faults>>

SnapFootprints == /\ call.at = "snap"
                  /\ call' = [at |-> "copper", dry |-> call.dry, netlist |-> call.netlist, design |-> call.design, seen |-> board]
                  /\ UNCHANGED <<User, review, before, quiet, faults>>

\* The copper and the extents, then the plan, its revision and what follows.
Decide ==
  /\ call.at = "copper"
  /\ LET plan == PlanSync(call.design, call.seen, copper)
         rev == Revision(call.netlist, call.seen, copper, Bounds, plan.changes)
     IN /\ review' = IF call.dry THEN [rev |-> rev, changes |-> plan.changes, seen |-> call.seen] ELSE review
        /\ call' = IF call.dry \/ plan.status # "ready" \/ rev # review.rev THEN Idle
                   ELSE [at |-> "create", design |-> call.design, seen |-> call.seen, changes |-> plan.changes]
        /\ before' = IF call'.at = "create" THEN board ELSE {}
  /\ UNCHANGED <<User, quiet, faults>>

Create == /\ call.at = "create"
          /\ board' = board \cup Created(call.changes)
          /\ call' = [call EXCEPT !.at = "update"]
          /\ UNCHANGED <<sch, copper, left, review, before, quiet, faults>>

\* KiCad refuses to update a footprint that is gone; the commit is dropped.
Updatable == \A x \in call.changes : x.kind = "update" => x.kiid \in {f.kiid : f \in board}
Update == /\ call.at = "update" /\ Updatable
          /\ board' = Replace(board, Updated(call.changes, call.seen))
          /\ call' = [call EXCEPT !.at = "push"]
          /\ UNCHANGED <<sch, copper, left, review, before, quiet, faults>>
Push == /\ call.at = "push"
        /\ call' = [at |-> "applied", design |-> call.design]
        /\ UNCHANGED <<User, review, before, quiet, faults>>
Answer == /\ call.at = "applied" /\ call' = Idle /\ before' = {}
          /\ UNCHANGED <<User, review, quiet, faults>>

\* drop_commit takes back what the commit created and updated.
Touched == {x.kiid : x \in call.changes}
DropCommit ==
  /\ call.at \in {"create", "update", "push"}
  /\ \/ call.at = "update" /\ ~Updatable /\ UNCHANGED faults
     \/ faults > 0 /\ faults' = faults - 1
  /\ board' = {f \in board : f.kiid \notin Touched} \cup {f \in before : f.kiid \in Touched}
  /\ call' = Idle /\ before' = {}
  /\ UNCHANGED <<sch, copper, left, review, quiet>>

Move == left > 0 /\ left' = left - 1 /\ quiet' = (call.at = "idle") /\ UNCHANGED <<call, review, before, faults>>
SaveSchematic == Move /\ sch' \in Schematics /\ UNCHANGED <<board, copper>>
EditFootprint == /\ Move /\ UNCHANGED <<sch, copper>>
                 /\ \E f \in board : \/ board' = (board \ {f}) \cup {[f EXCEPT !.at = "moved"]}
                                     \/ board' = (board \ {f}) \cup {[f EXCEPT !.dnp = ~@]}
                                     \/ board' = board \ {f}
Route == /\ Move /\ UNCHANGED <<sch, board>>
         /\ \E n \in {f.net : f \in board} \ {NoNet} : copper' = copper \cup {n}

SyncInit == /\ sch \in Schematics /\ board \in StartBoards /\ copper \in SUBSET {f.net : f \in board}
        /\ NoNet \notin copper
        /\ call = Idle /\ review = NotReviewed /\ before = {} /\ quiet = TRUE
        /\ left = MaxMoves /\ faults = MaxFaults

SyncStep == Export \/ ReadFlags \/ SnapFootprints \/ Decide \/ Create \/ Update \/ Push \/ Answer \/ DropCommit
SyncNext == SyncStep \/ SaveSchematic \/ EditFootprint \/ Route
SyncSpec == SyncInit /\ [][SyncNext]_syncVars
-----------------------------------------------------------------------------
\* A sync has done its work: planned again at once, it finds nothing to do, so a
\* retry of an applied call is harmless (plan_sync, apply_footprint_fields).
SyncConverges ==
  call.at = "applied" /\ quiet => PlanSync(call.design, board, copper).status = "noop"

\* An apply leaves the board as its reviewer was told, footprint by footprint and
\* net by net, whatever the user did between the review and the apply
\* (plan_revision, refresh_revision_with_staging).
DoesWhatWasReviewed ==
  call.at = "applied" /\ quiet =>
    LET told == Replace(review.seen, Created(review.changes) \cup Updated(review.changes, review.seen))
    IN /\ {IdentityOf(f) : f \in board} = {IdentityOf(f) : f \in told}
       /\ \A x \in review.changes : \E f \in board : f.kiid = x.kiid /\ f.value = x.to.value /\ f.dnp = x.to.dnp

\* A sync never takes a footprint from one symbol to another, never changes what
\* footprint it is, and never moves a pad off or onto a net that has copper
\* (plan_sync).
BoardPreserved == [][SyncStep /\ quiet /\ call'.at # "idle" => \A f \in board : \E g \in board' :
  /\ g.kiid = f.kiid /\ g.fp = f.fp /\ g.at = f.at
  /\ f.path \in {g.path, NoPath}
  /\ g.net # f.net => {g.net, f.net} \cap copper = {}]_syncVars

\* What an apply promises its reviewer: it does that, and then there is nothing left to do.
SyncHolds == SyncConverges /\ DoesWhatWasReviewed
=============================================================================
