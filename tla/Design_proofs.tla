---------------------------- MODULE Design_proofs ----------------------------
(***************************************************************************)
(* Proofs about the design tools that read first and write later.          *)
(*                                                                         *)
(* The board and its schematic: an apply that nobody disturbs does what    *)
(* its dry run told and leaves nothing to do (SyncHolds), and no step of   *)
(* it takes a footprint from its symbol (BoardPreserved), for any          *)
(* schematics and boards with paths and kiids of their own.  The heart is  *)
(* what a plan without a conflict makes of a board: every symbol has just  *)
(* one footprint there, and it is the symbol's image.                      *)
(*                                                                         *)
(* The index of the symbol libraries: an id is rewritten only to the one   *)
(* symbol it can have meant (RewritesAreSole), for any libraries,          *)
(* installations and changes of them, and any number of processes that     *)
(* share the index on disk.                                                *)
(***************************************************************************)
EXTENDS PcbSync, SymbolIndex, TLAPS

-----------------------------------------------------------------------------
(* The board and its schematic.  Planning.                                 *)

\* The parts of the plan, and what a plan without a conflict asks for.
Comps(d) == ToSet(d.components)
Changes(d, seen) ==
  {Add(c) : c \in {x \in Comps(d) : Match(seen, x) = {}}}
    \cup UNION {{UpdateOf(c, f) : f \in {x \in Match(seen, c) : Differs(c, x)}} : c \in Comps(d)}
Kiids(footprints) == {f.kiid : f \in footprints}
Identities(footprints) == {IdentityOf(f) : f \in footprints}

\* A design: every component has a reference and a path of its own.
SoundDesign(d) ==
  \A c \in Comps(d) : /\ c.path \in SymbolPaths /\ c.path # NoPath
                      /\ \A e \in Comps(d) : c.ref = e.ref \/ c.path = e.path => c = e
\* What is kept off the board shares nothing with what goes there.
Apart(d) == \A x \in d.skipped, c \in Comps(d) : x.path # c.path /\ x.ref # c.ref

\* The copper a plan under way is known to respect.
Respected == IF quiet THEN copper ELSE {}
Synced(seen, changes) == Replace(seen, Created(changes) \cup Updated(changes, seen))

ReviewOK ==
  /\ SoundBoard(review.seen)
  /\ review # NotReviewed => review.rev[3] = Identities(review.seen) /\ review.rev[5] = review.changes

ReadingOK ==
  /\ call.at \in {"flags", "snap", "copper"} =>
       call.netlist \in Schematics /\ (~call.dry => review # NotReviewed)
  /\ call.at = "flags" /\ quiet => call.netlist = sch
PlanningOK ==
  call.at \in {"snap", "copper", "create", "update", "push", "applied"} =>
    SoundDesign(call.design) /\ (quiet => Apart(call.design))
SeenOK ==
  call.at \in {"copper", "create", "update", "push"} =>
    /\ SoundBoard(call.seen)
    /\ call.at \in {"copper", "create"} => Kiids(board) \subseteq Kiids(call.seen)
    /\ call.at \in {"copper", "create"} /\ quiet => board = call.seen
WritingOK ==
  call.at \in {"create", "update", "push"} =>
    /\ DOMAIN call = {"at", "design", "seen", "changes"}
    /\ ~Conflicting(call.design, call.seen, Respected)
    /\ call.changes = Changes(call.design, call.seen)
    /\ review.changes = call.changes /\ Identities(review.seen) = Identities(call.seen)
    /\ call.at = "update" /\ quiet => board = call.seen \cup Created(call.changes)
    /\ call.at = "push" /\ quiet => board = Synced(call.seen, call.changes)

SyncInv ==
  /\ sch \in Schematics /\ SoundBoard(board) /\ SoundBoard(before)
  /\ call.at \in {"idle", "flags", "snap", "copper", "create", "update", "push", "applied"}
  /\ ReviewOK /\ ReadingOK /\ PlanningOK /\ SeenOK /\ WritingOK /\ SyncHolds

\* What a footprint becomes has its symbol's fields, and is the same footprint.
LEMMA ApplyFieldsGives ==
    ASSUME NEW f, DOMAIN f = FootprintFields, NEW c
    PROVE  LET g == ApplyFields(f, c) IN
           /\ DOMAIN g = FootprintFields
           /\ g.kiid = f.kiid /\ g.fp = f.fp /\ g.at = f.at
           /\ g.ref = c.ref /\ g.value = c.value /\ g.path = c.path /\ g.dnp = c.dnp
           /\ g.net = IF f.fp \in WithPad THEN c.net ELSE NoNet
  BY DEF ApplyFields, FootprintFields

LEMMA FreshGives ==
    ASSUME NEW c
    PROVE  LET g == ApplyFields(Fresh(c), c) IN
           /\ DOMAIN g = FootprintFields
           /\ g.kiid = <<"new", c.path>> /\ g.fp = c.fp
           /\ g.ref = c.ref /\ g.value = c.value /\ g.path = c.path /\ g.dnp = c.dnp
           /\ g.net = IF c.fp \in WithPad THEN c.net ELSE NoNet
  <1>1. DOMAIN Fresh(c) = FootprintFields /\ Fresh(c).kiid = <<"new", c.path>> /\ Fresh(c).fp = c.fp
    BY DEF Fresh, FootprintFields
  <1> QED BY <1>1, ApplyFieldsGives

LEMMA WithFlagsKeeps ==
    ASSUME NEW c, DOMAIN c = SymbolFields, NEW saved
    PROVE  LET e == WithFlags(c, saved) IN e.path = c.path /\ e.ref = c.ref
  BY DEF WithFlags, SymbolFields

LEMMA ComponentsOfDesign ==
    ASSUME NEW netlist \in Schematics, NEW saved, NEW c \in Comps(DesignOf(netlist, saved))
    PROVE  \E i \in DOMAIN netlist : /\ Stays(netlist[i], saved)
                                     /\ c.path = netlist[i].path /\ c.ref = netlist[i].ref
                                     /\ c = WithFlags(netlist[i], saved)
  <1> DEFINE placed == {i \in DOMAIN netlist : Stays(netlist[i], saved) /\ netlist[i].fp # NoFootprint}
  <1>1. PICK i \in placed : c = WithFlags(netlist[i], saved)
    BY DEF Comps, ToSet, DesignOf
  <1>2. DOMAIN netlist[i] = SymbolFields
    BY SchematicsAssumption
  <1> QED BY <1>1, <1>2, WithFlagsKeeps

\* A netlist without a reference twice makes a sound design of whatever is saved,
\* and of the schematic it was exported from one whose kept-off symbols are apart.
LEMMA DesignsAreSound ==
    ASSUME NEW netlist \in Schematics, NoDuplicates(netlist), NEW saved
    PROVE  SoundDesign(DesignOf(netlist, saved))
  <1> SUFFICES ASSUME NEW c \in Comps(DesignOf(netlist, saved)), NEW e \in Comps(DesignOf(netlist, saved))
               PROVE  /\ c.path \in SymbolPaths /\ c.path # NoPath
                      /\ c.ref = e.ref \/ c.path = e.path => c = e
    BY DEF SoundDesign
  <1>1. PICK i \in DOMAIN netlist : c.path = netlist[i].path /\ c.ref = netlist[i].ref /\ c = WithFlags(netlist[i], saved)
    BY ComponentsOfDesign
  <1>2. PICK j \in DOMAIN netlist : e.path = netlist[j].path /\ e.ref = netlist[j].ref /\ e = WithFlags(netlist[j], saved)
    BY ComponentsOfDesign
  <1>3. c.path \in SymbolPaths
    BY <1>1 DEF SymbolPaths
  <1>4. netlist[i].path # NoPath /\ (netlist[i].path = netlist[j].path => i = j)
    BY SchematicsAssumption
  <1>5. netlist[i].ref = netlist[j].ref => i = j
    BY DEF NoDuplicates
  <1> QED BY <1>1, <1>2, <1>3, <1>4, <1>5

LEMMA DesignsAreApart ==
    ASSUME NEW netlist \in Schematics, NoDuplicates(netlist)
    PROVE  Apart(DesignOf(netlist, netlist))
  <1> SUFFICES ASSUME NEW x \in DesignOf(netlist, netlist).skipped, NEW c \in Comps(DesignOf(netlist, netlist))
               PROVE  x.path # c.path /\ x.ref # c.ref
    BY DEF Apart
  <1>1. PICK i \in DOMAIN netlist : Stays(netlist[i], netlist) /\ c.path = netlist[i].path /\ c.ref = netlist[i].ref
    BY ComponentsOfDesign
  <1>2. PICK j \in DOMAIN netlist : x = netlist[j] /\ ~netlist[j].onBoard
    BY DEF DesignOf, ToSet
  <1>3. netlist[i] \in FlagsOf(netlist[i], netlist)
    BY DEF FlagsOf, ToSet
  <1>4. netlist[i].onBoard
    BY <1>1, <1>3 DEF Stays
  <1>5. netlist[i].path = netlist[j].path => i = j
    BY SchematicsAssumption
  <1>6. netlist[i].ref = netlist[j].ref => i = j
    BY DEF NoDuplicates
  <1> QED BY <1>1, <1>2, <1>4, <1>5, <1>6

\* A plan without a conflict, of a sound design over a sound board.
Clear(d, seen, routed) == SoundDesign(d) /\ SoundBoard(seen) /\ ~Conflicting(d, seen, routed)

LEMMA NothingHinders ==
    ASSUME NEW d, NEW seen, NEW routed, ~Conflicting(d, seen, routed), NEW c \in Comps(d)
    PROVE  /\ c.ref \in Exported(d) /\ ~PadMissing(c)
           /\ Match(seen, c) = {} => ByReference(seen, c) = {}
           /\ \A f \in Match(seen, c) : /\ f.ref # c.ref => ByReference(seen, c) \ {f} = {}
                                        /\ f.fp = c.fp /\ ~CutsCopper(c, f, routed)
  <1>1. PICK i \in DOMAIN d.components : c = d.components[i]
    BY DEF Comps, ToSet
  <1>2. ~Hinders(d, seen, routed, i)
    BY DEF Conflicting
  <1>3. c.ref \in Exported(d)
    BY DEF Exported, Comps
  <1> HIDE DEF Conflicting
  <1>4. CASE Match(seen, c) = {}
    BY <1>1, <1>2, <1>3, <1>4 DEF Hinders
  <1>5. CASE Match(seen, c) # {}
    BY <1>1, <1>2, <1>3, <1>5 DEF Hinders
  <1> QED BY <1>4, <1>5

LEMMA NoTwoAlike ==
    ASSUME NEW d, NEW seen, NEW routed, ~Conflicting(d, seen, routed), NEW f \in seen, NEW g \in seen, f # g
    PROVE  /\ f.path = g.path => f.path = NoPath
           /\ f.ref = g.ref => f.ref \notin Exported(d)
  BY DEF Conflicting

\* A symbol has at most one footprint, and a footprint at most one symbol.
LEMMA OneFootprintEach ==
    ASSUME NEW d, NEW seen, NEW routed, Clear(d, seen, routed),
           NEW c \in Comps(d), NEW f \in Match(seen, c), NEW g \in Match(seen, c)
    PROVE  f = g
  <1>1. f \in seen /\ g \in seen
    BY DEF Match, ByPath, ByReference
  <1>2. c.path # NoPath /\ c.ref \in Exported(d)
    BY NothingHinders DEF Clear, SoundDesign
  <1>3. (f.path = c.path /\ g.path = c.path) \/ (f.ref = c.ref /\ g.ref = c.ref)
    BY DEF Match, ByPath, ByReference
  <1> QED BY <1>1, <1>2, <1>3, NoTwoAlike DEF Clear

LEMMA OneSymbolEach ==
    ASSUME NEW d, NEW seen, SoundDesign(d),
           NEW c \in Comps(d), NEW e \in Comps(d), NEW f \in Match(seen, c), f \in Match(seen, e)
    PROVE  c = e
  <1>1. c.path # NoPath /\ e.path # NoPath
    BY DEF SoundDesign
  <1>2. \/ f.path = c.path /\ f.path = e.path
        \/ f.path = NoPath /\ f.ref = c.ref /\ f.ref = e.ref
    BY <1>1 DEF Match, ByPath, ByReference
  <1> QED BY <1>2 DEF SoundDesign

\* What the commit creates and updates.
LEMMA CreatedAre ==
    ASSUME NEW d, NEW seen, NEW g
    PROVE  g \in Created(Changes(d, seen)) <=>
             \E c \in Comps(d) : Match(seen, c) = {} /\ g = ApplyFields(Fresh(c), c)
  <1>1. \A x \in Changes(d, seen) : x.kind = "add" =>
          \E c \in Comps(d) : Match(seen, c) = {} /\ x.to = c
    BY DEF Changes, Add, UpdateOf
  <1>2. \A c \in Comps(d) : Match(seen, c) = {} =>
          Add(c) \in Changes(d, seen) /\ Add(c).kind = "add" /\ Add(c).to = c
    BY DEF Changes, Add
  <1> QED BY <1>1, <1>2 DEF Created

LEMMA UpdatedAre ==
    ASSUME NEW d, NEW seen, SoundBoard(seen), NEW g
    PROVE  g \in Updated(Changes(d, seen), seen) <=>
             \E c \in Comps(d) : \E f \in Match(seen, c) : Differs(c, f) /\ g = ApplyFields(f, c)
  <1>1. \A x \in Changes(d, seen) : x.kind = "update" =>
          \E c \in Comps(d) : \E f \in Match(seen, c) : Differs(c, f) /\ x.kiid = f.kiid /\ x.to = c
    BY DEF Changes, Add, UpdateOf
  <1>2. \A c \in Comps(d) : \A f \in Match(seen, c) : Differs(c, f) =>
          /\ UpdateOf(c, f) \in Changes(d, seen) /\ UpdateOf(c, f).kind = "update"
          /\ UpdateOf(c, f).kiid = f.kiid /\ UpdateOf(c, f).to = c
    BY DEF Changes, UpdateOf
  <1>3. \A c \in Comps(d) : \A f \in Match(seen, c) : f \in seen /\ \A h \in seen : h.kiid = f.kiid => h = f
    BY DEF Match, ByPath, ByReference, SoundBoard
  <1>4. g \in Updated(Changes(d, seen), seen) <=>
          \E x \in Changes(d, seen) : x.kind = "update" /\ \E h \in seen : h.kiid = x.kiid /\ g = ApplyFields(h, x.to)
    BY DEF Updated
  <1>5. ASSUME NEW x \in Changes(d, seen), x.kind = "update", NEW h \in seen, h.kiid = x.kiid, g = ApplyFields(h, x.to)
        PROVE  \E c \in Comps(d) : \E f \in Match(seen, c) : Differs(c, f) /\ g = ApplyFields(f, c)
    BY <1>1, <1>3, <1>5
  <1>6. ASSUME NEW c \in Comps(d), NEW f \in Match(seen, c), Differs(c, f), g = ApplyFields(f, c)
        PROVE  \E x \in Changes(d, seen) : x.kind = "update" /\ \E h \in seen : h.kiid = x.kiid /\ g = ApplyFields(h, x.to)
    BY <1>2, <1>3, <1>6
  <1> QED BY <1>4, <1>5, <1>6

LEMMA UnionIsSound ==
    ASSUME NEW old, SoundBoard(old), NEW new, SoundBoard(new), Kiids(old) \cap Kiids(new) = {}
    PROVE  SoundBoard(old \cup new)
  <1>1. \A f \in old, g \in new : f.kiid # g.kiid
    BY DEF Kiids
  <1> QED BY <1>1 DEF SoundBoard

LEMMA ReplaceIsSound ==
    ASSUME NEW old, SoundBoard(old), NEW new, SoundBoard(new)
    PROVE  SoundBoard(Replace(old, new))
  BY DEF SoundBoard, Replace

\* A footprint the commit creates has a kiid no footprint had; one it updates has
\* the kiid it had.
LEMMA CreatedIsSound ==
    ASSUME NEW d, SoundDesign(d), NEW seen, SoundBoard(seen)
    PROVE  /\ SoundBoard(Created(Changes(d, seen)))
           /\ Kiids(seen) \cap Kiids(Created(Changes(d, seen))) = {}
  <1> DEFINE made == Created(Changes(d, seen))
  <1>1. ASSUME NEW g \in made
        PROVE  \E c \in Comps(d) : Match(seen, c) = {} /\ g = ApplyFields(Fresh(c), c) /\ DOMAIN g = FootprintFields
                                   /\ g.kiid = <<"new", c.path>> /\ g.path = c.path
    <2>1. PICK c \in Comps(d) : Match(seen, c) = {} /\ g = ApplyFields(Fresh(c), c)
      BY CreatedAre
    <2>2. DOMAIN g = FootprintFields /\ g.kiid = <<"new", c.path>> /\ g.path = c.path
      BY <2>1, FreshGives
    <2> QED BY <2>1, <2>2
  <1> HIDE DEF made
  <1>2. \A c, e \in Comps(d) : c.path = e.path => c = e
    BY DEF SoundDesign
  <1>3. \A p, q : <<"new", p>> = <<"new", q>> => p = q
    OBVIOUS
  <1>4. SoundBoard(made)
    <2>1. \A g \in made : DOMAIN g = FootprintFields
      BY <1>1
    <2>2. \A f, g \in made : f.kiid = g.kiid => f = g
      BY <1>1, <1>2, <1>3
    <2>3. \A g \in made : \A p \in SymbolPaths : g.kiid = <<"new", p>> => g.path = p
      BY <1>1, <1>3
    <2> QED BY <2>1, <2>2, <2>3 DEF SoundBoard
  <1>5. ASSUME NEW f \in seen, NEW g \in made
        PROVE  f.kiid # g.kiid
    <2>1. PICK c \in Comps(d) : Match(seen, c) = {} /\ g.kiid = <<"new", c.path>>
      BY <1>1
    <2>2. c.path \in SymbolPaths
      BY DEF SoundDesign
    <2>3. f.path # c.path
      BY <2>1 DEF Match, ByPath
    <2> QED BY <2>1, <2>2, <2>3 DEF SoundBoard
  <1>6. Kiids(seen) \cap Kiids(made) = {}
    BY <1>5 DEF Kiids
  <1> QED BY <1>4, <1>6 DEF made

LEMMA UpdatedIsSound ==
    ASSUME NEW d, NEW seen, NEW routed, Clear(d, seen, routed)
    PROVE  /\ SoundBoard(Updated(Changes(d, seen), seen))
           /\ Kiids(Updated(Changes(d, seen), seen)) \subseteq Kiids(seen)
  <1> DEFINE new == Updated(Changes(d, seen), seen)
  <1>0. SoundDesign(d) /\ SoundBoard(seen)
    BY DEF Clear
  <1>1. ASSUME NEW g \in new
        PROVE  \E c \in Comps(d) : \E f \in Match(seen, c) :
                 /\ f \in seen /\ g = ApplyFields(f, c) /\ DOMAIN g = FootprintFields
                 /\ g.kiid = f.kiid /\ g.path = c.path
    <2>1. PICK c \in Comps(d) : \E f \in Match(seen, c) : Differs(c, f) /\ g = ApplyFields(f, c)
      BY <1>0, UpdatedAre
    <2>2. PICK f \in Match(seen, c) : Differs(c, f) /\ g = ApplyFields(f, c)
      BY <2>1
    <2>3. f \in seen /\ DOMAIN f = FootprintFields
      BY <1>0 DEF Match, ByPath, ByReference, SoundBoard
    <2> QED BY <2>2, <2>3, ApplyFieldsGives
  <1> HIDE DEF new
  <1>2. \A g \in new : DOMAIN g = FootprintFields
    BY <1>1
  <1>3. ASSUME NEW g \in new, NEW h \in new, g.kiid = h.kiid
        PROVE  g = h
    <2>1. PICK c \in Comps(d) : \E f \in Match(seen, c) : f \in seen /\ g = ApplyFields(f, c) /\ g.kiid = f.kiid
      BY <1>1
    <2>2. PICK f \in Match(seen, c) : f \in seen /\ g = ApplyFields(f, c) /\ g.kiid = f.kiid
      BY <2>1
    <2>3. PICK e \in Comps(d) : \E k \in Match(seen, e) : k \in seen /\ h = ApplyFields(k, e) /\ h.kiid = k.kiid
      BY <1>1
    <2>4. PICK k \in Match(seen, e) : k \in seen /\ h = ApplyFields(k, e) /\ h.kiid = k.kiid
      BY <2>3
    <2>5. f = k
      BY <1>0, <1>3, <2>2, <2>4 DEF SoundBoard
    <2> QED BY <1>0, <2>2, <2>4, <2>5, OneSymbolEach
  <1>4. ASSUME NEW g \in new, NEW p \in SymbolPaths, g.kiid = <<"new", p>>
        PROVE  g.path = p
    <2>1. PICK c \in Comps(d) : \E f \in Match(seen, c) : f \in seen /\ g.kiid = f.kiid /\ g.path = c.path
      BY <1>1
    <2>2. PICK f \in Match(seen, c) : f \in seen /\ g.kiid = f.kiid /\ g.path = c.path
      BY <2>1
    <2>3. f.path = p
      BY <1>0, <1>4, <2>2 DEF SoundBoard
    <2>4. p # NoPath
      BY SchematicsAssumption DEF SymbolPaths
    <2> QED BY <2>2, <2>3, <2>4 DEF Match, ByPath, ByReference
  <1>5. SoundBoard(new)
    BY <1>2, <1>3, <1>4 DEF SoundBoard
  <1>6. Kiids(new) \subseteq Kiids(seen)
    BY <1>1 DEF Kiids
  <1> QED BY <1>5, <1>6 DEF new

LEMMA SyncedIsSound ==
    ASSUME NEW d, NEW seen, NEW routed, Clear(d, seen, routed)
    PROVE  /\ SoundBoard(Synced(seen, Changes(d, seen)))
           /\ Synced(seen, Changes(d, seen))
                = Replace(seen \cup Created(Changes(d, seen)), Updated(Changes(d, seen), seen))
  <1> DEFINE made == Created(Changes(d, seen))
             new == Updated(Changes(d, seen), seen)
  <1>1. SoundBoard(seen) /\ SoundBoard(made) /\ SoundBoard(new)
    BY CreatedIsSound, UpdatedIsSound DEF Clear
  <1>2. Kiids(seen) \cap Kiids(made) = {} /\ Kiids(new) \subseteq Kiids(seen)
    BY CreatedIsSound, UpdatedIsSound DEF Clear
  <1> HIDE DEF made, new
  <1>3. \A f \in seen, g \in made : f.kiid # g.kiid
    BY <1>2 DEF Kiids
  <1>4. \A f \in made, g \in new : f.kiid # g.kiid
    BY <1>2 DEF Kiids
  <1>5. Kiids(made) \cap Kiids(new) = {}
    BY <1>4 DEF Kiids
  <1>6. SoundBoard(made \cup new)
    BY <1>1, <1>5, UnionIsSound
  <1>7. SoundBoard(Replace(seen, made \cup new))
    BY <1>1, <1>6, ReplaceIsSound
  <1>8. Replace(seen, made \cup new) = Replace(seen \cup made, new)
    BY <1>3, <1>4 DEF Replace
  <1> QED BY <1>7, <1>8 DEF Synced, made, new

\* The footprint a symbol comes to have: its fields, and the kiid of the one it had.
IsImage(g, seen, c) ==
  /\ g.ref = c.ref /\ g.value = c.value /\ g.path = c.path /\ g.dnp = c.dnp /\ g.net = c.net /\ g.fp = c.fp
  /\ \/ Match(seen, c) = {} /\ g.kiid = <<"new", c.path>>
     \/ \E f \in Match(seen, c) : g.kiid = f.kiid

LEMMA CreatedImage ==
    ASSUME NEW seen, NEW c, ~PadMissing(c), Match(seen, c) = {}
    PROVE  IsImage(ApplyFields(Fresh(c), c), seen, c)
  BY FreshGives DEF IsImage, PadMissing

LEMMA UpdatedImage ==
    ASSUME NEW seen, SoundBoard(seen), NEW c, ~PadMissing(c), NEW f \in Match(seen, c), f.fp = c.fp
    PROVE  IsImage(ApplyFields(f, c), seen, c)
  <1>1. DOMAIN f = FootprintFields
    BY DEF SoundBoard, Match, ByPath, ByReference
  <1> QED BY <1>1, ApplyFieldsGives DEF IsImage, PadMissing

\* After the commit every footprint is the image of a symbol or one no symbol had.
LEMMA SyncedImages ==
    ASSUME NEW d, NEW seen, NEW routed, Clear(d, seen, routed),
           NEW g \in Synced(seen, Changes(d, seen))
    PROVE  \/ g \in seen /\ \A c \in Comps(d) : g \notin Match(seen, c)
           \/ \E c \in Comps(d) : IsImage(g, seen, c)
  <1>0. SoundDesign(d) /\ SoundBoard(seen) /\ ~Conflicting(d, seen, routed)
    BY DEF Clear
  <1>1. CASE g \in Created(Changes(d, seen))
    BY <1>0, <1>1, CreatedAre, CreatedImage, NothingHinders
  <1>2. CASE g \in Updated(Changes(d, seen), seen)
    <2>1. PICK c \in Comps(d) : \E f \in Match(seen, c) : g = ApplyFields(f, c)
      BY <1>0, <1>2, UpdatedAre
    <2>2. PICK f \in Match(seen, c) : g = ApplyFields(f, c)
      BY <2>1
    <2> QED BY <1>0, <2>2, UpdatedImage, NothingHinders
  <1>3. CASE g \in seen /\ \A h \in Updated(Changes(d, seen), seen) : h.kiid # g.kiid
    <2> SUFFICES ASSUME NEW c \in Comps(d), g \in Match(seen, c)
                 PROVE  IsImage(g, seen, c)
      BY <1>3
    <2>1. ~Differs(c, g)
      <3> SUFFICES ASSUME Differs(c, g) PROVE FALSE
        OBVIOUS
      <3>1. ApplyFields(g, c) \in Updated(Changes(d, seen), seen)
        BY <1>0, UpdatedAre
      <3>2. DOMAIN g = FootprintFields
        BY <1>0, <1>3 DEF SoundBoard
      <3>3. ApplyFields(g, c).kiid = g.kiid
        BY <3>2, ApplyFieldsGives
      <3> QED BY <1>3, <3>1, <3>3
    <2>2. g.fp = c.fp
      BY <1>0, NothingHinders
    <2> QED BY <2>1, <2>2 DEF IsImage, Differs
  <1> QED BY <1>1, <1>2, <1>3 DEF Synced, Replace

\* And every symbol has one.
LEMMA EverySymbolHasAnImage ==
    ASSUME NEW d, NEW seen, NEW routed, Clear(d, seen, routed), NEW c \in Comps(d)
    PROVE  \E g \in Synced(seen, Changes(d, seen)) : IsImage(g, seen, c)
  <1> DEFINE made == Created(Changes(d, seen))
             new == Updated(Changes(d, seen), seen)
  <1>0. SoundDesign(d) /\ SoundBoard(seen) /\ ~Conflicting(d, seen, routed)
    BY DEF Clear
  <1>1. made \subseteq Synced(seen, Changes(d, seen)) /\ new \subseteq Synced(seen, Changes(d, seen))
    BY DEF Synced, Replace
  <1>2. CASE Match(seen, c) = {}
    <2>1. ApplyFields(Fresh(c), c) \in made
      BY <1>2, CreatedAre
    <2>2. IsImage(ApplyFields(Fresh(c), c), seen, c)
      BY <1>0, <1>2, CreatedImage, NothingHinders
    <2> QED BY <1>1, <2>1, <2>2
  <1>3. CASE \E f \in Match(seen, c) : Differs(c, f)
    <2>1. PICK f \in Match(seen, c) : Differs(c, f)
      BY <1>3
    <2>2. ApplyFields(f, c) \in new
      BY <1>0, <2>1, UpdatedAre
    <2>3. IsImage(ApplyFields(f, c), seen, c)
      BY <1>0, UpdatedImage, NothingHinders
    <2> QED BY <1>1, <2>2, <2>3
  <1>4. CASE \E f \in Match(seen, c) : ~Differs(c, f)
    <2>1. PICK f \in Match(seen, c) : ~Differs(c, f)
      BY <1>4
    <2>2. f \in seen /\ f.fp = c.fp
      BY <1>0, NothingHinders DEF Match, ByPath, ByReference
    <2>3. IsImage(f, seen, c)
      BY <2>1, <2>2 DEF IsImage, Differs
    <2>4. \A h \in made : h.kiid # f.kiid
      BY <1>0, <2>2, CreatedIsSound DEF Kiids
    <2>5. ASSUME NEW h \in new, h.kiid = f.kiid
          PROVE  FALSE
      <3>1. PICK e \in Comps(d) : \E k \in Match(seen, e) : Differs(e, k) /\ h = ApplyFields(k, e)
        BY <1>0, UpdatedAre
      <3>2. PICK k \in Match(seen, e) : Differs(e, k) /\ h = ApplyFields(k, e)
        BY <3>1
      <3>3. k \in seen /\ DOMAIN k = FootprintFields
        BY <1>0 DEF Match, ByPath, ByReference, SoundBoard
      <3>4. h.kiid = k.kiid
        BY <3>2, <3>3, ApplyFieldsGives
      <3>5. k = f
        BY <1>0, <2>2, <2>5, <3>3, <3>4 DEF SoundBoard
      <3>6. e = c
        BY <1>0, <3>5, OneSymbolEach
      <3> QED BY <2>1, <3>2, <3>5, <3>6
    <2>6. f \in Synced(seen, Changes(d, seen))
      BY <2>2, <2>4, <2>5 DEF Synced, Replace
    <2> QED BY <2>3, <2>6
  <1> QED BY <1>2, <1>3, <1>4

LEMMA ImagesAreUnique ==
    ASSUME NEW d, NEW seen, NEW routed, Clear(d, seen, routed), NEW c \in Comps(d),
           NEW g \in Synced(seen, Changes(d, seen)), IsImage(g, seen, c),
           NEW h \in Synced(seen, Changes(d, seen)), IsImage(h, seen, c)
    PROVE  g = h
  <1>1. g.kiid = h.kiid
    BY OneFootprintEach DEF IsImage
  <1> QED BY <1>1, SyncedIsSound DEF SoundBoard

\* Two footprints alike after the commit are one.
LEMMA SyncedNoTwoAlike ==
    ASSUME NEW d, NEW seen, NEW routed, Clear(d, seen, routed),
           NEW g \in Synced(seen, Changes(d, seen)), NEW h \in Synced(seen, Changes(d, seen)),
           \/ g.path = h.path /\ g.path # NoPath
           \/ g.ref = h.ref /\ g.ref \in Exported(d)
    PROVE  g = h
  <1>0. SoundDesign(d) /\ ~Conflicting(d, seen, routed)
    BY DEF Clear
  \* One beside the image of a symbol would have been the symbol's, or in its way.
  <1>1. ASSUME NEW c \in Comps(d), NEW x, IsImage(x, seen, c),
               NEW y \in seen, \A e \in Comps(d) : y \notin Match(seen, e)
        PROVE  x.path # y.path /\ x.ref # y.ref
    <2>1. y.path # c.path
      BY <1>1 DEF Match, ByPath
    <2>2. CASE Match(seen, c) = {}
      BY <1>0, <1>1, <2>1, <2>2, NothingHinders DEF IsImage, ByReference
    <2>3. CASE Match(seen, c) # {}
      <3>1. PICK f \in Match(seen, c) : TRUE
        BY <2>3
      <3>2. f \in seen /\ f # y
        BY <1>1, <3>1 DEF Match, ByPath, ByReference
      <3>3. c.ref \in Exported(d) /\ (f.ref # c.ref => ByReference(seen, c) \ {f} = {})
        BY <1>0, NothingHinders
      <3>4. y.ref = c.ref => f.ref = c.ref
        BY <3>2, <3>3 DEF ByReference
      <3>5. y.ref # c.ref
        BY <1>0, <3>2, <3>3, <3>4, NoTwoAlike
      <3> QED BY <1>1, <2>1, <3>5 DEF IsImage
    <2> QED BY <2>2, <2>3
  <1>2. CASE \E c \in Comps(d) : IsImage(g, seen, c)
    <2>1. PICK c \in Comps(d) : IsImage(g, seen, c)
      BY <1>2
    <2>2. CASE \E e \in Comps(d) : IsImage(h, seen, e)
      <3>1. PICK e \in Comps(d) : IsImage(h, seen, e)
        BY <2>2
      <3>2. c = e
        BY <1>0, <2>1, <3>1 DEF IsImage, SoundDesign
      <3> QED BY <2>1, <3>1, <3>2, ImagesAreUnique
    <2>3. CASE h \in seen /\ \A e \in Comps(d) : h \notin Match(seen, e)
      BY <1>1, <2>1, <2>3
    <2> QED BY <2>2, <2>3, SyncedImages
  <1>3. CASE g \in seen /\ \A c \in Comps(d) : g \notin Match(seen, c)
    <2>1. CASE \E e \in Comps(d) : IsImage(h, seen, e)
      BY <1>1, <1>3, <2>1
    <2>2. CASE h \in seen /\ \A e \in Comps(d) : h \notin Match(seen, e)
      BY <1>0, <1>3, <2>2, NoTwoAlike
    <2> QED BY <2>1, <2>2, SyncedImages
  <1> QED BY <1>2, <1>3, SyncedImages

\* Its image is the one footprint a symbol matches, and needs no change.
LEMMA SyncedMatch ==
    ASSUME NEW d, NEW seen, NEW routed, Clear(d, seen, routed), NEW c \in Comps(d),
           NEW g \in Synced(seen, Changes(d, seen)), IsImage(g, seen, c)
    PROVE  Match(Synced(seen, Changes(d, seen)), c) = {g}
  <1>1. c.path # NoPath /\ g.path = c.path
    BY DEF Clear, SoundDesign, IsImage
  <1>2. \A h \in Synced(seen, Changes(d, seen)) : h.path = c.path => h = g
    BY <1>1, SyncedNoTwoAlike
  <1>3. ByPath(Synced(seen, Changes(d, seen)), c) = {g}
    BY <1>1, <1>2 DEF ByPath
  <1> QED BY <1>3 DEF Match

LEMMA SyncedHindersNothing ==
    ASSUME NEW d, NEW seen, NEW routed, Clear(d, seen, routed), NEW i \in DOMAIN d.components
    PROVE  ~Hinders(d, Synced(seen, Changes(d, seen)), routed, i)
  <1> DEFINE c == d.components[i]  after == Synced(seen, Changes(d, seen))
  <1>1. c \in Comps(d)
    BY DEF Comps, ToSet
  <1>2. PICK g \in after : IsImage(g, seen, c)
    BY <1>1, EverySymbolHasAnImage
  <1>3. Match(after, c) = {g}
    BY <1>1, <1>2, SyncedMatch
  <1>4. ~PadMissing(c)
    BY <1>1, NothingHinders DEF Clear
  <1>5. g.ref = c.ref /\ g.fp = c.fp /\ g.net = c.net
    BY <1>2 DEF IsImage
  <1>6. ~CutsCopper(c, g, routed)
    BY <1>5 DEF CutsCopper
  <1> HIDE DEF c, after
  <1>7. ~\E f \in Match(after, c) :
             \/ f.ref # c.ref /\ ByReference(after, c) \ {f} # {}
             \/ f.fp # c.fp
             \/ PadMissing(c)
             \/ CutsCopper(c, f, routed)
    BY <1>3, <1>4, <1>5, <1>6
  <1> QED BY <1>3, <1>7 DEF Hinders, c, after

LEMMA SyncedKeepsOff ==
    ASSUME NEW d, Apart(d), NEW seen, NEW routed, Clear(d, seen, routed), NEW s \in d.skipped
    PROVE  Either(Synced(seen, Changes(d, seen)), s) = {}
  <1> DEFINE after == Synced(seen, Changes(d, seen))
  <1>1. Either(seen, s) = {}
    BY DEF Clear, Conflicting
  <1>2. \A f \in seen : f.path # s.path /\ f.ref # s.ref
    BY <1>1 DEF Either, ByPath, ByReference
  <1>3. \A g \in after : g.path # s.path /\ g.ref # s.ref
    <2> SUFFICES ASSUME NEW g \in after PROVE g.path # s.path /\ g.ref # s.ref
      OBVIOUS
    <2>1. CASE \E c \in Comps(d) : IsImage(g, seen, c)
      BY <2>1 DEF IsImage, Apart
    <2>2. CASE g \in seen
      BY <1>2, <2>2
    <2> QED BY <2>1, <2>2, SyncedImages
  <1> QED BY <1>3 DEF Either, ByPath, ByReference

\* Planned again over what it has done, a plan finds nothing to do.
LEMMA SyncedIsNoop ==
    ASSUME NEW d, Apart(d), NEW seen, NEW routed, Clear(d, seen, routed)
    PROVE  PlanSync(d, Synced(seen, Changes(d, seen)), routed).status = "noop"
  <1> DEFINE after == Synced(seen, Changes(d, seen))
  <1>1. ~Conflicting(d, after, routed)
    BY SyncedNoTwoAlike, SyncedHindersNothing, SyncedKeepsOff DEF Conflicting
  <1>2. ASSUME NEW c \in Comps(d)
        PROVE  Match(after, c) # {} /\ \A g \in Match(after, c) : ~Differs(c, g)
    <2>1. PICK g \in after : IsImage(g, seen, c)
      BY EverySymbolHasAnImage
    <2>2. Match(after, c) = {g}
      BY <2>1, SyncedMatch
    <2> QED BY <2>1, <2>2 DEF IsImage, Differs
  <1> HIDE DEF after
  <1>3. Changes(d, after) = {}
    BY <1>2 DEF Changes
  <1> QED BY <1>1, <1>3 DEF PlanSync, Changes, Comps, after

\* Boards of the same identities take the same changes to boards of the same identities.
LEMMA UpdatedAlike ==
    ASSUME NEW one, SoundBoard(one), NEW two, SoundBoard(two), Identities(one) = Identities(two),
           NEW changes, NEW g \in Updated(changes, one)
    PROVE  \E h \in Updated(changes, two) : IdentityOf(h) = IdentityOf(g) /\ h.kiid = g.kiid
  <1>1. PICK x \in changes : x.kind = "update" /\ \E f \in one : f.kiid = x.kiid /\ g = ApplyFields(f, x.to)
    BY DEF Updated
  <1>2. PICK f \in one : f.kiid = x.kiid /\ g = ApplyFields(f, x.to)
    BY <1>1
  <1>3. PICK k \in two : IdentityOf(k) = IdentityOf(f)
    BY DEF Identities
  <1>4. k.kiid = f.kiid /\ k.fp = f.fp /\ DOMAIN k = FootprintFields /\ DOMAIN f = FootprintFields
    BY <1>3 DEF IdentityOf, SoundBoard
  <1>5. ApplyFields(k, x.to) \in Updated(changes, two)
    BY <1>1, <1>2, <1>4 DEF Updated
  <1>6. IdentityOf(ApplyFields(k, x.to)) = IdentityOf(g) /\ ApplyFields(k, x.to).kiid = g.kiid
    BY <1>2, <1>4, ApplyFieldsGives DEF IdentityOf
  <1> QED BY <1>5, <1>6

LEMMA SyncedWithin ==
    ASSUME NEW one, SoundBoard(one), NEW two, SoundBoard(two), Identities(one) = Identities(two), NEW changes
    PROVE  Identities(Synced(one, changes)) \subseteq Identities(Synced(two, changes))
  <1> SUFFICES ASSUME NEW g \in Synced(one, changes)
               PROVE  \E h \in Synced(two, changes) : IdentityOf(h) = IdentityOf(g)
    BY DEF Identities
  <1>1. CASE g \in Created(changes)
    BY <1>1 DEF Synced, Replace
  <1>2. CASE g \in Updated(changes, one)
    <2>1. PICK h \in Updated(changes, two) : IdentityOf(h) = IdentityOf(g)
      BY <1>2, UpdatedAlike
    <2> QED BY <2>1 DEF Synced, Replace
  <1>3. CASE g \in one /\ \A h \in Created(changes) \cup Updated(changes, one) : h.kiid # g.kiid
    <2>1. PICK k \in two : IdentityOf(k) = IdentityOf(g)
      BY <1>3 DEF Identities
    <2>2. k.kiid = g.kiid
      BY <2>1 DEF IdentityOf
    <2>3. \A h \in Updated(changes, two) : h.kiid # k.kiid
      BY <1>3, <2>2, UpdatedAlike
    <2>4. k \in Synced(two, changes)
      BY <1>3, <2>2, <2>3 DEF Synced, Replace
    <2> QED BY <2>1, <2>4
  <1> QED BY <1>1, <1>2, <1>3 DEF Synced, Replace

LEMMA SyncedAlike ==
    ASSUME NEW one, SoundBoard(one), NEW two, SoundBoard(two), Identities(one) = Identities(two), NEW changes
    PROVE  Identities(Synced(one, changes)) = Identities(Synced(two, changes))
  BY SyncedWithin

\* Every change of the plan is on the board.
LEMMA SyncedDoesTheChanges ==
    ASSUME NEW d, NEW seen, NEW routed, Clear(d, seen, routed), NEW x \in Changes(d, seen)
    PROVE  \E g \in Synced(seen, Changes(d, seen)) : g.kiid = x.kiid /\ g.value = x.to.value /\ g.dnp = x.to.dnp
  <1>1. \/ \E c \in Comps(d) : Match(seen, c) = {} /\ x = Add(c)
        \/ \E c \in Comps(d) : \E f \in Match(seen, c) : x = UpdateOf(c, f)
    BY DEF Changes
  <1>2. CASE \E c \in Comps(d) : Match(seen, c) = {} /\ x = Add(c)
    <2>1. PICK c \in Comps(d) : Match(seen, c) = {} /\ x = Add(c)
      BY <1>2
    <2>2. PICK g \in Synced(seen, Changes(d, seen)) : IsImage(g, seen, c)
      BY EverySymbolHasAnImage
    <2> QED BY <2>1, <2>2 DEF IsImage, Add
  <1>3. CASE \E c \in Comps(d) : \E f \in Match(seen, c) : x = UpdateOf(c, f)
    <2>1. PICK c \in Comps(d) : \E f \in Match(seen, c) : x = UpdateOf(c, f)
      BY <1>3
    <2>2. PICK f \in Match(seen, c) : x = UpdateOf(c, f)
      BY <2>1
    <2>3. PICK g \in Synced(seen, Changes(d, seen)) : IsImage(g, seen, c)
      BY EverySymbolHasAnImage
    <2>4. g.kiid = f.kiid
      BY <2>3, OneFootprintEach DEF IsImage
    <2> QED BY <2>2, <2>3, <2>4 DEF IsImage, UpdateOf
  <1> QED BY <1>1, <1>2, <1>3

\* A footprint that was there before the update keeps what the schematic does not
\* own, and its pad leaves no net with copper for another.
Keeps(f, g, routed) ==
  /\ g.kiid = f.kiid /\ g.fp = f.fp /\ g.at = f.at
  /\ f.path \in {g.path, NoPath}
  /\ g.net # f.net => {g.net, f.net} \cap routed = {}

LEMMA UpdateKeeps ==
    ASSUME NEW d, NEW seen, NEW routed, Clear(d, seen, routed),
           NEW f \in seen \cup Created(Changes(d, seen))
    PROVE  \E g \in Synced(seen, Changes(d, seen)) : Keeps(f, g, routed)
  <1> DEFINE new == Updated(Changes(d, seen), seen)
             all == seen \cup Created(Changes(d, seen))
  <1>0. SoundDesign(d) /\ SoundBoard(seen) /\ ~Conflicting(d, seen, routed)
    BY DEF Clear
  <1>1. SoundBoard(all)
    BY <1>0, CreatedIsSound, UnionIsSound
  <1>2. Synced(seen, Changes(d, seen)) = Replace(all, new)
    BY SyncedIsSound
  <1>3. CASE \A h \in new : h.kiid # f.kiid
    <2>1. f \in Replace(all, new)
      BY <1>3 DEF Replace
    <2> QED BY <1>2, <2>1 DEF Keeps
  <1>4. CASE \E h \in new : h.kiid = f.kiid
    <2>1. PICK h \in new : h.kiid = f.kiid
      BY <1>4
    <2>2. PICK c \in Comps(d) : \E k \in Match(seen, c) : Differs(c, k) /\ h = ApplyFields(k, c)
      BY <1>0, UpdatedAre
    <2>3. PICK k \in Match(seen, c) : h = ApplyFields(k, c)
      BY <2>2
    <2>4. k \in seen /\ DOMAIN k = FootprintFields /\ k.path \in {c.path, NoPath}
      BY <1>0 DEF Match, ByPath, ByReference, SoundBoard
    <2>5. k.kiid = f.kiid
      BY <2>1, <2>3, <2>4, ApplyFieldsGives
    <2>6. k = f
      BY <1>1, <2>4, <2>5 DEF SoundBoard
    <2>7. f.fp = c.fp /\ ~PadMissing(c) /\ ~CutsCopper(c, f, routed)
      BY <1>0, <2>6, NothingHinders
    <2>8. h.net = c.net
      BY <2>3, <2>4, <2>6, <2>7, ApplyFieldsGives DEF PadMissing
    <2>9. h.net # f.net => {h.net, f.net} \cap routed = {}
      BY <2>7, <2>8 DEF CutsCopper
    <2>10. h.kiid = f.kiid /\ h.fp = f.fp /\ h.at = f.at /\ h.path = c.path
      BY <2>3, <2>4, <2>6, ApplyFieldsGives
    <2>11. Keeps(f, h, routed)
      BY <2>4, <2>6, <2>9, <2>10 DEF Keeps
    <2>12. h \in Replace(all, new)
      BY <2>1 DEF Replace
    <2> QED BY <1>2, <2>11, <2>12
  <1> QED BY <1>3, <1>4

-----------------------------------------------------------------------------
(* The steps.                                                                *)

\* Without the copper a plan conflicts no more than with it.
LEMMA LessCopper ==
    ASSUME NEW d, NEW seen, NEW routed, ~Conflicting(d, seen, routed)
    PROVE  ~Conflicting(d, seen, {})
  <1>1. \A i \in DOMAIN d.components : Hinders(d, seen, {}, i) => Hinders(d, seen, routed, i)
    BY DEF Hinders, CutsCopper
  <1> QED BY <1>1 DEF Conflicting

LEMMA SyncInitially == SyncInit => SyncInv
  <1> SUFFICES ASSUME SyncInit PROVE SyncInv
    OBVIOUS
  <1>1. call.at = "idle" /\ sch \in Schematics /\ SoundBoard(board)
    BY BoardsAssumption DEF SyncInit, Idle
  <1>2. SoundBoard(before)
    BY DEF SyncInit, SoundBoard
  <1>3. ReviewOK
    BY DEF SyncInit, NotReviewed, ReviewOK, SoundBoard
  <1> QED BY <1>1, <1>2, <1>3 DEF SyncInv, ReadingOK, PlanningOK, SeenOK, WritingOK, SyncHolds, SyncConverges, DoesWhatWasReviewed

LEMMA ExportStep ==
    ASSUME SyncInv, Export PROVE SyncInv'
  <1>1. call'.at = "flags" /\ call'.netlist = sch /\ (~call'.dry => review # NotReviewed)
    BY DEF Export
  <1>2. UNCHANGED <<sch, board, copper, review, before>>
    BY DEF Export, User
  <1>3. ReviewOK' /\ ReadingOK'
    BY <1>1, <1>2 DEF SyncInv, ReviewOK, ReadingOK, SoundBoard
  <1> QED BY <1>1, <1>2, <1>3 DEF SyncInv, PlanningOK, SeenOK, WritingOK, SyncHolds, SyncConverges, DoesWhatWasReviewed, SoundBoard

LEMMA ReadFlagsStep ==
    ASSUME SyncInv, ReadFlags PROVE SyncInv'
  <1>1. UNCHANGED <<sch, board, copper, review, before, quiet>> /\ call.at = "flags"
    BY DEF ReadFlags, User
  <1>2. ReviewOK' /\ SoundBoard(board') /\ SoundBoard(before')
    BY <1>1 DEF SyncInv, ReviewOK, SoundBoard
  <1>3. CASE call' = Idle
    BY <1>1, <1>2, <1>3 DEF Idle, SyncInv, ReadingOK, PlanningOK, SeenOK, WritingOK, SyncHolds, SyncConverges, DoesWhatWasReviewed
  <1>4. CASE /\ NoDuplicates(call.netlist)
             /\ call' = [at |-> "snap", dry |-> call.dry, netlist |-> call.netlist, design |-> DesignOf(call.netlist, sch)]
    <2>1. call'.at = "snap" /\ call'.netlist = call.netlist /\ call'.dry = call.dry
          /\ call'.design = DesignOf(call.netlist, sch)
      BY <1>4
    <2>2. call.netlist \in Schematics /\ (~call.dry => review # NotReviewed) /\ (quiet => call.netlist = sch)
      BY <1>1 DEF SyncInv, ReadingOK
    <2>3. SoundDesign(DesignOf(call.netlist, sch))
      BY <1>4, <2>2, DesignsAreSound
    <2>4. quiet => Apart(DesignOf(call.netlist, sch))
      BY <1>4, <2>2, DesignsAreApart
    <2>5. ReadingOK' /\ PlanningOK'
      BY <1>1, <2>1, <2>2, <2>3, <2>4 DEF ReadingOK, PlanningOK, SoundDesign, Apart
    <2> QED BY <1>1, <1>2, <2>1, <2>5 DEF SyncInv, SeenOK, WritingOK, SyncHolds, SyncConverges, DoesWhatWasReviewed
  <1> QED BY <1>3, <1>4 DEF ReadFlags

LEMMA SnapStep ==
    ASSUME SyncInv, SnapFootprints PROVE SyncInv'
  <1>1. UNCHANGED <<sch, board, copper, review, before, quiet>> /\ call.at = "snap"
    BY DEF SnapFootprints, User
  <1>2. call'.at = "copper" /\ call'.netlist = call.netlist /\ call'.dry = call.dry
        /\ call'.design = call.design /\ call'.seen = board
    BY DEF SnapFootprints
  <1>3. ReviewOK' /\ ReadingOK'
    BY <1>1, <1>2 DEF SyncInv, ReviewOK, ReadingOK, SoundBoard
  <1>4. PlanningOK' /\ SeenOK'
    BY <1>1, <1>2 DEF SyncInv, PlanningOK, SeenOK, SoundBoard, SoundDesign, Apart, Comps, Kiids
  <1> QED BY <1>1, <1>2, <1>3, <1>4 DEF SyncInv, WritingOK, SyncHolds, SyncConverges, DoesWhatWasReviewed, SoundBoard

LEMMA DecideStep ==
    ASSUME SyncInv, Decide PROVE SyncInv'
  <1> DEFINE plan == PlanSync(call.design, call.seen, copper)
             rev == Revision(call.netlist, call.seen, copper, Bounds, plan.changes)
  <1>1. UNCHANGED <<sch, board, copper, quiet>> /\ call.at = "copper"
    BY DEF Decide, User
  <1>2. review' = IF call.dry THEN [rev |-> rev, changes |-> plan.changes, seen |-> call.seen] ELSE review
    BY DEF Decide
  <1>3. rev[3] = Identities(call.seen) /\ rev[5] = plan.changes
    BY DEF Revision, Identities
  <1>4. SoundBoard(call.seen)
    BY <1>1 DEF SyncInv, SeenOK
  <1> HIDE DEF rev, plan
  <1>5. ReviewOK'
    <2>1. CASE call.dry
      <3>1. review'.rev = rev /\ review'.changes = plan.changes /\ review'.seen = call.seen
        BY <1>2, <2>1
      <3> QED BY <1>3, <1>4, <3>1 DEF ReviewOK, Identities, SoundBoard
    <2>2. CASE ~call.dry
      BY <1>2, <2>2 DEF SyncInv, ReviewOK, SoundBoard
    <2> QED BY <2>1, <2>2
  <1>6. SoundBoard(before')
    <2>1. before' \in {board, {}}
      BY DEF Decide
    <2> QED BY <2>1 DEF SyncInv, SoundBoard
  <1>7. CASE call' = Idle
    BY <1>1, <1>5, <1>6, <1>7 DEF Idle, SyncInv, ReadingOK, PlanningOK, SeenOK, WritingOK, SyncHolds, SyncConverges, DoesWhatWasReviewed, SoundBoard
  <1>8. CASE /\ ~call.dry /\ plan.status = "ready" /\ rev = review.rev
             /\ call' = [at |-> "create", design |-> call.design, seen |-> call.seen, changes |-> plan.changes]
    <2>1. call'.at = "create" /\ call'.design = call.design /\ call'.seen = call.seen /\ call'.changes = plan.changes
          /\ DOMAIN call' = {"at", "design", "seen", "changes"}
      BY <1>8
    <2>2. ~Conflicting(call.design, call.seen, copper) /\ plan.changes = Changes(call.design, call.seen)
      BY <1>8 DEF plan, PlanSync, Changes, Comps
    <2>3. review' = review /\ review # NotReviewed
      BY <1>1, <1>2, <1>8 DEF SyncInv, ReadingOK
    <2>4. review.changes = plan.changes /\ Identities(review.seen) = Identities(call.seen)
      BY <1>3, <1>8, <2>3 DEF SyncInv, ReviewOK
    <2>5. ~Conflicting(call.design, call.seen, Respected)
      BY <2>2, LessCopper DEF Respected
    <2>6. WritingOK'
      BY <1>1, <2>1, <2>2, <2>3, <2>4, <2>5 DEF WritingOK, Respected
    <2>7. PlanningOK' /\ SeenOK'
      BY <1>1, <2>1 DEF SyncInv, PlanningOK, SeenOK, SoundBoard, SoundDesign, Apart, Comps, Kiids
    <2> QED BY <1>1, <1>5, <1>6, <2>1, <2>6, <2>7 DEF SyncInv, ReadingOK, SyncHolds, SyncConverges, DoesWhatWasReviewed, SoundBoard
  <1> QED BY <1>7, <1>8 DEF Decide, plan, rev

\* What a writing call goes by.
LEMMA WritesClearly ==
    ASSUME SyncInv, call.at \in {"create", "update", "push"}
    PROVE  /\ Clear(call.design, call.seen, Respected) /\ call.changes = Changes(call.design, call.seen)
           /\ quiet => Respected = copper /\ Apart(call.design)
  BY DEF SyncInv, WritingOK, PlanningOK, SeenOK, Clear, Respected

\* A write of the commit leaves what the call has read, and everybody else, alone.
LEMMA WriteStep ==
    ASSUME SyncInv, SoundBoard(board'),
           UNCHANGED <<sch, copper, review, before, quiet>>,
           \/ call.at = "create" /\ call' = [call EXCEPT !.at = "update"]
           \/ call.at = "update" /\ call' = [call EXCEPT !.at = "push"],
           call'.at = "update" /\ quiet => board' = call.seen \cup Created(call.changes),
           call'.at = "push" /\ quiet => board' = Synced(call.seen, call.changes)
    PROVE  SyncInv'
  <1>1. /\ call'.at \in {"update", "push"} /\ call.at \in {"create", "update"}
        /\ call'.design = call.design /\ call'.seen = call.seen /\ call'.changes = call.changes
    BY DEF SyncInv, WritingOK
  <1>2. ReviewOK' /\ PlanningOK' /\ SeenOK'
    BY <1>1 DEF SyncInv, ReviewOK, PlanningOK, SeenOK, SoundBoard, SoundDesign, Apart, Comps
  <1>3. WritingOK'
    <2>1. DOMAIN call' = DOMAIN call
      OBVIOUS
    <2> QED BY <1>1, <2>1 DEF SyncInv, WritingOK, Respected
  <1> QED BY <1>1, <1>2, <1>3 DEF SyncInv, ReadingOK, SyncHolds, SyncConverges, DoesWhatWasReviewed, SoundBoard

LEMMA CreateStep ==
    ASSUME SyncInv, Create PROVE SyncInv'
  <1>1. call.at = "create" /\ board' = board \cup Created(call.changes) /\ call' = [call EXCEPT !.at = "update"]
        /\ UNCHANGED <<sch, copper, review, before, quiet>>
    BY DEF Create
  <1>2. SoundDesign(call.design) /\ SoundBoard(call.seen) /\ SoundBoard(board)
        /\ Kiids(board) \subseteq Kiids(call.seen) /\ (quiet => board = call.seen)
    BY <1>1 DEF SyncInv, PlanningOK, SeenOK
  <1>3. call.changes = Changes(call.design, call.seen)
    BY <1>1, WritesClearly
  <1>4. SoundBoard(Created(call.changes)) /\ Kiids(board) \cap Kiids(Created(call.changes)) = {}
    BY <1>2, <1>3, CreatedIsSound
  <1>5. SoundBoard(board')
    BY <1>1, <1>2, <1>4, UnionIsSound
  <1>6. call'.at = "update"
    BY <1>1 DEF SyncInv, WritingOK
  <1> QED BY <1>1, <1>2, <1>5, <1>6, WriteStep

LEMMA UpdateStep ==
    ASSUME SyncInv, Update PROVE SyncInv'
  <1>1. call.at = "update" /\ board' = Replace(board, Updated(call.changes, call.seen))
        /\ call' = [call EXCEPT !.at = "push"] /\ UNCHANGED <<sch, copper, review, before, quiet>>
    BY DEF Update
  <1>2. Clear(call.design, call.seen, Respected) /\ call.changes = Changes(call.design, call.seen)
    BY <1>1, WritesClearly
  <1>3. SoundBoard(Updated(call.changes, call.seen)) /\ SoundBoard(board)
    BY <1>2, UpdatedIsSound DEF SyncInv
  <1>4. SoundBoard(board')
    BY <1>1, <1>3, ReplaceIsSound
  <1>5. quiet => board = call.seen \cup Created(call.changes)
    BY <1>1 DEF SyncInv, WritingOK
  <1>6. quiet => board' = Synced(call.seen, call.changes)
    BY <1>1, <1>2, <1>5, SyncedIsSound
  <1>7. call'.at = "push"
    BY <1>1 DEF SyncInv, WritingOK
  <1> QED BY <1>1, <1>4, <1>6, <1>7, WriteStep

\* What an apply that nobody disturbed has made of the board.
LEMMA AppliedHolds ==
    ASSUME SyncInv, call.at = "push", quiet
    PROVE  /\ PlanSync(call.design, board, copper).status = "noop"
           /\ Identities(board) = Identities(Synced(review.seen, review.changes))
           /\ \A x \in review.changes : \E f \in board : f.kiid = x.kiid /\ f.value = x.to.value /\ f.dnp = x.to.dnp
  <1>1. /\ Clear(call.design, call.seen, copper) /\ Apart(call.design)
        /\ call.changes = Changes(call.design, call.seen)
    BY WritesClearly
  <1>2. /\ board = Synced(call.seen, call.changes)
        /\ review.changes = call.changes /\ Identities(review.seen) = Identities(call.seen)
        /\ SoundBoard(review.seen) /\ SoundBoard(call.seen)
    BY DEF SyncInv, WritingOK, ReviewOK, SeenOK
  <1>3. PlanSync(call.design, board, copper).status = "noop"
    BY <1>1, <1>2, SyncedIsNoop
  <1>4. Identities(board) = Identities(Synced(review.seen, review.changes))
    BY <1>2, SyncedAlike
  <1> QED BY <1>1, <1>2, <1>3, <1>4, SyncedDoesTheChanges

LEMMA PushStep ==
    ASSUME SyncInv, Push PROVE SyncInv'
  <1>1. call.at = "push" /\ call'.at = "applied" /\ call'.design = call.design
        /\ UNCHANGED <<sch, board, copper, review, before, quiet>>
    BY DEF Push, User
  <1>2. ReviewOK' /\ PlanningOK'
    BY <1>1 DEF SyncInv, ReviewOK, PlanningOK, SoundBoard, SoundDesign, Apart, Comps
  <1>3. SyncConverges'
    BY <1>1, AppliedHolds DEF SyncConverges
  <1>4. DoesWhatWasReviewed'
    BY <1>1, AppliedHolds DEF DoesWhatWasReviewed, Identities, Synced
  <1> QED BY <1>1, <1>2, <1>3, <1>4 DEF SyncInv, ReadingOK, SeenOK, WritingOK, SyncHolds, SoundBoard

\* A call that ends leaves a sound board.
LEMMA EndStep ==
    ASSUME SyncInv, SoundBoard(board'), call' = Idle, before' = {}, UNCHANGED <<sch, copper, review, quiet>>
    PROVE  SyncInv'
  <1>1. call'.at = "idle"
    BY DEF Idle
  <1>2. SoundBoard(before') /\ ReviewOK'
    BY DEF SyncInv, ReviewOK, SoundBoard
  <1> QED BY <1>1, <1>2 DEF SyncInv, ReadingOK, PlanningOK, SeenOK, WritingOK, SyncHolds, SyncConverges, DoesWhatWasReviewed

LEMMA AnswerStep ==
    ASSUME SyncInv, Answer PROVE SyncInv'
  <1>1. call' = Idle /\ before' = {} /\ UNCHANGED <<sch, board, copper, review, quiet>>
    BY DEF Answer, User
  <1>2. SoundBoard(board')
    BY <1>1 DEF SyncInv
  <1> QED BY <1>1, <1>2, EndStep

LEMMA DropCommitStep ==
    ASSUME SyncInv, DropCommit PROVE SyncInv'
  <1>1. board' = {f \in board : f.kiid \notin Touched} \cup {f \in before : f.kiid \in Touched}
    BY DEF DropCommit
  <1>2. SoundBoard(board) /\ SoundBoard(before)
    BY DEF SyncInv
  <1>3. SoundBoard(board')
    BY <1>1, <1>2 DEF SoundBoard
  <1> QED BY <1>3, EndStep DEF DropCommit

\* Whatever the user does, no call under way is any longer alone.
LEMMA MoveStep ==
    ASSUME SyncInv, Move, sch' \in Schematics, SoundBoard(board'), Kiids(board') \subseteq Kiids(board)
    PROVE  SyncInv'
  <1>1. UNCHANGED <<call, review, before>> /\ (call.at # "idle" => ~quiet')
    BY DEF Move
  <1>2. SoundBoard(before') /\ ReviewOK'
    BY <1>1 DEF SyncInv, ReviewOK, SoundBoard
  <1>3. ReadingOK' /\ PlanningOK' /\ SeenOK'
    BY <1>1 DEF SyncInv, ReadingOK, PlanningOK, SeenOK, SoundBoard, SoundDesign, Comps, Kiids
  <1>4. WritingOK'
    <2>1. CASE call.at \in {"create", "update", "push"}
      <3>1. ~Conflicting(call.design, call.seen, {})
        BY <2>1, LessCopper DEF SyncInv, WritingOK
      <3>2. Respected' = {}
        BY <1>1, <2>1 DEF Respected
      <3>3. ~Conflicting(call.design, call.seen, Respected')
        BY <3>1, <3>2
      <3>4. Changes(call.design, call.seen)' = Changes(call.design, call.seen)
        BY <1>1
      <3> QED BY <1>1, <2>1, <3>3, <3>4 DEF SyncInv, WritingOK
    <2>2. CASE call.at \notin {"create", "update", "push"}
      BY <1>1, <2>2 DEF WritingOK
    <2> QED BY <2>1, <2>2
  <1>5. SyncHolds'
    BY <1>1 DEF SyncHolds, SyncConverges, DoesWhatWasReviewed
  <1> QED BY <1>1, <1>2, <1>3, <1>4, <1>5 DEF SyncInv

LEMMA EditFootprintStep ==
    ASSUME SyncInv, EditFootprint PROVE SyncInv'
  <1>1. PICK f \in board : \/ board' = (board \ {f}) \cup {[f EXCEPT !.at = "moved"]}
                           \/ board' = (board \ {f}) \cup {[f EXCEPT !.dnp = ~@]}
                           \/ board' = board \ {f}
    BY DEF EditFootprint
  <1>2. SoundBoard(board) /\ DOMAIN f = FootprintFields
    BY DEF SyncInv, SoundBoard
  <1>3. ASSUME NEW g, DOMAIN g = FootprintFields, g.kiid = f.kiid, g.path = f.path,
               board' = (board \ {f}) \cup {g}
        PROVE  SoundBoard(board') /\ Kiids(board') \subseteq Kiids(board)
    BY <1>2, <1>3 DEF SoundBoard, Kiids
  <1>4. \A g \in {[f EXCEPT !.at = "moved"], [f EXCEPT !.dnp = ~@]} :
          DOMAIN g = FootprintFields /\ g.kiid = f.kiid /\ g.path = f.path
    BY <1>2 DEF FootprintFields
  <1>5. board' = board \ {f} => SoundBoard(board') /\ Kiids(board') \subseteq Kiids(board)
    BY <1>2 DEF SoundBoard, Kiids
  <1>6. SoundBoard(board') /\ Kiids(board') \subseteq Kiids(board)
    BY <1>1, <1>3, <1>4, <1>5
  <1> QED BY <1>6, MoveStep DEF EditFootprint, SyncInv

LEMMA UserSteps ==
    ASSUME SyncInv, SaveSchematic \/ EditFootprint \/ Route PROVE SyncInv'
  <1>1. CASE SaveSchematic
    <2>1. board' = board /\ Move /\ sch' \in Schematics
      BY <1>1 DEF SaveSchematic
    <2>2. SoundBoard(board') /\ Kiids(board') \subseteq Kiids(board)
      BY <2>1 DEF SyncInv
    <2> QED BY <2>1, <2>2, MoveStep
  <1>2. CASE Route
    <2>1. board' = board /\ Move /\ sch' = sch
      BY <1>2 DEF Route
    <2>2. SoundBoard(board') /\ Kiids(board') \subseteq Kiids(board) /\ sch' \in Schematics
      BY <2>1 DEF SyncInv
    <2> QED BY <2>1, <2>2, MoveStep
  <1> QED BY <1>1, <1>2, EditFootprintStep

LEMMA SyncInductive == SyncInv /\ [SyncNext]_syncVars => SyncInv'
  <1> SUFFICES ASSUME SyncInv, [SyncNext]_syncVars PROVE SyncInv'
    OBVIOUS
  <1>1. CASE UNCHANGED syncVars
    <2>1. UNCHANGED <<sch, board, copper, call, review, before, quiet>>
      BY <1>1 DEF syncVars
    <2>2. SoundBoard(board)' /\ SoundBoard(before)' /\ ReviewOK' /\ ReadingOK' /\ PlanningOK' /\ SeenOK'
      BY <2>1 DEF SyncInv, ReviewOK, ReadingOK, PlanningOK, SeenOK, SoundBoard, SoundDesign, Apart, Comps, Kiids
    <2>3. WritingOK'
      BY <2>1 DEF SyncInv, WritingOK, Respected
    <2>4. SyncHolds'
      BY <2>1 DEF SyncInv, SyncHolds, SyncConverges, DoesWhatWasReviewed
    <2> QED BY <2>1, <2>2, <2>3, <2>4 DEF SyncInv
  <1> QED BY <1>1, ExportStep, ReadFlagsStep, SnapStep, DecideStep, CreateStep, UpdateStep, PushStep,
             AnswerStep, DropCommitStep, UserSteps DEF SyncNext, SyncStep

\* An apply that nobody disturbed does what its reviewer was told, and leaves
\* nothing to do (plan_sync, plan_revision, refresh_revision_with_staging).
THEOREM AppliesDoWhatWasReviewed == SyncSpec => []SyncHolds
  <1>1. SyncInv => SyncHolds
    BY DEF SyncInv
  <1> QED BY <1>1, SyncInitially, SyncInductive, PTL DEF SyncSpec

\* No step of a call takes a footprint from its symbol, changes which footprint it
\* is, or moves a pad from or to a net with copper (plan_sync).
THEOREM SyncsPreserveTheBoard == SyncSpec => BoardPreserved
  <1> DEFINE Preserved == \A f \in board : \E g \in board' : Keeps(f, g, copper)
  <1>1. \A f \in board : Keeps(f, f, copper)
    BY DEF Keeps
  <1>2. ASSUME SyncInv, SyncStep, quiet, call'.at # "idle"
        PROVE  Preserved
    <2>1. CASE Update
      <3>1. call.at = "update" /\ board' = Replace(board, Updated(call.changes, call.seen))
        BY <2>1 DEF Update
      <3>2. Clear(call.design, call.seen, copper) /\ call.changes = Changes(call.design, call.seen)
        BY <1>2, <3>1, WritesClearly
      <3>3. board = call.seen \cup Created(call.changes)
        BY <1>2, <3>1 DEF SyncInv, WritingOK
      <3>4. board' = Synced(call.seen, call.changes)
        BY <3>1, <3>2, <3>3, SyncedIsSound
      <3> QED BY <3>2, <3>3, <3>4, UpdateKeeps
    <2>2. CASE Create
      BY <1>1, <2>2 DEF Create
    <2>3. CASE Export \/ ReadFlags \/ SnapFootprints \/ Decide \/ Push \/ Answer
      BY <1>1, <2>3 DEF Export, ReadFlags, SnapFootprints, Decide, Push, Answer, User
    <2>4. CASE DropCommit
      BY <1>2, <2>4 DEF DropCommit, Idle
    <2> QED BY <1>2, <2>1, <2>2, <2>3, <2>4 DEF SyncStep
  <1>3. SyncInv /\ [SyncNext]_syncVars => [SyncStep /\ quiet /\ call'.at # "idle" => Preserved]_syncVars
    BY <1>2
  <1> QED BY <1>3, SyncInitially, SyncInductive, PTL DEF SyncSpec, BoardPreserved, Keeps

-----------------------------------------------------------------------------
(* The index of the symbol libraries.  A fingerprint is taken before the   *)
(* libraries are read, in two parts, and what is read afterwards may be of *)
(* any later moment.  It is to be believed all the same: a library whose   *)
(* time is the one that was probed has not been touched since, and one     *)
(* that was read and then removed has left its trace in the time of the    *)
(* directory.                                                              *)

Symbols == UNION {Shelf[l] : l \in Libraries}

\* The clock, and what has been stamped with it.
ShelvesOK ==
    /\ now \in Nat /\ now <= MaxChanges
    /\ baseTime \in 0..now
    /\ shelves \in [Libraries -> [syms : SUBSET Symbols, mtime : 0..now] \cup {NotInstalled}]

\* Times that were probed some time ago.
Past(children) == \A c \in children : c[2] \in 0..now

\* The library is as it was when it was probed.
Untouched(l, children) == l \in Installed /\ <<l, shelves[l].mtime>> \in children

\* What has been read is of the libraries as they are, if the fingerprint is.
Faithful(print, libs, todo) ==
    /\ print.base \in 0..now /\ Past(print.children)
    /\ \A l \in Libraries : Untouched(l, print.children) => l \in todo \/ (l \in DOMAIN libs /\ libs[l] = shelves[l].syms)
    /\ print.base = baseTime => \A l \in DOMAIN libs : l \in Installed \/ libs[l] = {}

\* An index that says of every library what there is.
Agrees(libs) ==
    /\ \A l \in Installed : l \in DOMAIN libs /\ libs[l] = shelves[l].syms
    /\ \A l \in DOMAIN libs : l \in Installed \/ libs[l] = {}

\* A call that has not come to its answer: its id did not resolve.
Asking(s) == s.answer = Nothing /\ (s.fresh => ~Resolves(s.ask))

RightAnswer(s) == s.answer = IF Resolves(s.ask) THEN {s.ask} ELSE Canonical(Listing, s.ask)

AtRestOK(s) ==
    /\ s.at \in {"idle", "load", "look"}
    /\ s = [at |-> s.at, index |-> s.index, fresh |-> s.fresh, ask |-> s.ask, answer |-> s.answer]
    /\ s.fresh /\ (s.index # Nothing \/ s.at = "look") => Agrees(s.index)
    /\ s.at # "idle" => Asking(s)
    /\ s.at = "idle" /\ s.fresh /\ s.answer # Nothing => RightAnswer(s)

ListOK(s) ==
    /\ s.at = "list"
    /\ s = [at |-> "list", index |-> Nothing, fresh |-> s.fresh, ask |-> s.ask, answer |-> s.answer, probed |-> s.probed]
    /\ Asking(s)
    /\ Past(s.probed.children)
    /\ s.fresh => s.probed.children = Probed.children

StampOK(s) ==
    /\ s.at = "stamp"
    /\ s = [at |-> "stamp", index |-> Nothing, fresh |-> s.fresh, ask |-> s.ask, answer |-> s.answer,
            probed |-> s.probed, todo |-> s.todo]
    /\ Asking(s)
    /\ Past(s.probed.children)
    /\ \A l \in Libraries : Untouched(l, s.probed.children) => l \in s.todo
    /\ s.fresh => s.probed.children = Probed.children

ScanOK(s) ==
    /\ s.at = "scan"
    /\ s = [at |-> "scan", index |-> s.index, fresh |-> s.fresh, ask |-> s.ask, answer |-> s.answer,
            todo |-> s.todo, print |-> s.print]
    /\ Asking(s)
    /\ Faithful(s.print, s.index, s.todo)
    /\ s.fresh => s.print.base = baseTime /\ s.print.children = Probed.children

ServerOK(s) == s.fresh \in BOOLEAN /\ (AtRestOK(s) \/ ListOK(s) \/ StampOK(s) \/ ScanOK(s))

CacheOK == cacheFile # Nothing => Faithful(cacheFile.print, cacheFile.libs, {})

IndexInv ==
    /\ ShelvesOK
    /\ CacheOK
    /\ DOMAIN server = Processes
    /\ \A p \in Processes : ServerOK(server[p])

-----------------------------------------------------------------------------
(* An index that agrees with the installation means the same by every id.    *)

LEMMA AgreeingOwners ==
    ASSUME NEW libs, Agrees(libs), NEW folded, NEW among
    PROVE  Owners(libs, folded, among) = Owners(Listing, folded, among)
  <1> DEFINE Pairs(ls) == {p \in (DOMAIN ls \cap among) \X UNION {ls[l] : l \in DOMAIN ls} :
                             p[2] \in ls[p[1]] /\ Folded[p[2]] = folded}
  <1>1. DOMAIN Listing = Installed /\ \A l \in Installed : Listing[l] = shelves[l].syms
    BY DEF Listing
  <1>2. ASSUME NEW l, NEW s
        PROVE  l \in DOMAIN libs /\ s \in libs[l] <=> l \in DOMAIN Listing /\ s \in Listing[l]
    BY <1>1 DEF Agrees
  <1>3. \A ls, p : p \in Pairs(ls) <=>
           \E l, s : p = <<l, s>> /\ l \in DOMAIN ls /\ s \in ls[l] /\ l \in among /\ Folded[s] = folded
    <2> TAKE ls, p
    <2>1. ASSUME p \in Pairs(ls)
          PROVE  /\ p = <<p[1], p[2]>> /\ p[1] \in DOMAIN ls /\ p[2] \in ls[p[1]]
                 /\ p[1] \in among /\ Folded[p[2]] = folded
      BY <2>1
    <2>2. ASSUME NEW l, NEW s, p = <<l, s>>, l \in DOMAIN ls, s \in ls[l], l \in among, Folded[s] = folded
          PROVE  p \in Pairs(ls)
      <3>1. s \in UNION {ls[k] : k \in DOMAIN ls}
        BY <2>2
      <3>2. p[1] = l /\ p[2] = s /\ p \in (DOMAIN ls \cap among) \X UNION {ls[k] : k \in DOMAIN ls}
        BY <2>2, <3>1
      <3> QED BY <2>2, <3>2
    <2> HIDE DEF Pairs
    <2> QED BY <2>1, <2>2
  <1>4. Pairs(libs) = Pairs(Listing)
    <2> HIDE DEF Pairs
    <2>1. ASSUME NEW p
          PROVE  p \in Pairs(libs) <=> p \in Pairs(Listing)
      <3>1. /\ p \in Pairs(libs) <=>
                 \E l, s : p = <<l, s>> /\ l \in DOMAIN libs /\ s \in libs[l] /\ l \in among /\ Folded[s] = folded
            /\ p \in Pairs(Listing) <=>
                 \E l, s : p = <<l, s>> /\ l \in DOMAIN Listing /\ s \in Listing[l] /\ l \in among /\ Folded[s] = folded
        BY <1>3
      <3> QED BY <1>2, <3>1
    <2> QED BY <2>1
  <1>5. \A ls : Owners(ls, folded, among) = {[lib |-> p[1], stem |-> p[2]] : p \in Pairs(ls)}
    BY DEF Owners
  <1> HIDE DEF Pairs
  <1> QED BY <1>4, <1>5

LEMMA AgreeingCanonical ==
    ASSUME NEW libs, Agrees(libs), NEW ask
    PROVE  Canonical(libs, ask) = Canonical(Listing, ask)
  <1>1. \A folded, among : Owners(libs, folded, among) = Owners(Listing, folded, among)
    BY AgreeingOwners
  <1> QED BY <1>1 DEF Canonical

\* What the installed libraries make of an id is installed.
LEMMA CanonicalResolves ==
    ASSUME NEW ask
    PROVE  {id \in Canonical(Listing, ask) : Resolves(id)} = Canonical(Listing, ask)
  <1>1. ASSUME NEW folded, NEW among, NEW id \in Owners(Listing, folded, among)
        PROVE  Resolves(id)
    <2>1. PICK p \in (DOMAIN Listing \cap among) \X UNION {Listing[l] : l \in DOMAIN Listing} :
                 p[2] \in Listing[p[1]] /\ id = [lib |-> p[1], stem |-> p[2]]
      BY <1>1 DEF Owners
    <2>2. p[1] \in Installed /\ p[2] \in shelves[p[1]].syms
      BY <2>1 DEF Listing
    <2> QED BY <2>1, <2>2 DEF Resolves
  <1>2. \A owners : Sole(owners) \subseteq owners
    BY DEF Sole
  <1>3. \A id \in Canonical(Listing, ask) : Resolves(id)
    BY <1>1, <1>2 DEF Canonical
  <1> QED BY <1>3

-----------------------------------------------------------------------------
(* The steps of a process, which change no directory.                        *)

LEMMA IndexInitially == IndexInit => IndexInv
  <1> SUFFICES ASSUME IndexInit PROVE IndexInv
    OBVIOUS
  <1>1. ShelvesOK
    <2>1. PICK start \in Starts :
             shelves = [l \in Libraries |-> IF l \in DOMAIN start THEN [syms |-> start[l], mtime |-> 0] ELSE NotInstalled]
      BY DEF IndexInit
    <2>2. \A l \in DOMAIN start : start[l] \in SUBSET Symbols
      BY IndexAssumption DEF Symbols
    <2> QED BY <2>1, <2>2, IndexAssumption DEF IndexInit, ShelvesOK
  <1>2. CacheOK
    BY DEF IndexInit, CacheOK
  <1>3. DOMAIN server = Processes /\ \A p \in Processes : ServerOK(server[p])
    BY DEF IndexInit, AtRest, ServerOK, AtRestOK
  <1> QED BY <1>1, <1>2, <1>3 DEF IndexInv

\* What is known of a process and of the cache holds as long as the directories do.
LEMMA OfTheSameDirectories ==
    ASSUME UNCHANGED Directories
    PROVE  /\ ShelvesOK => ShelvesOK'
           /\ \A print, libs, todo : Faithful(print, libs, todo) => Faithful(print, libs, todo)'
           /\ \A s : ServerOK(s) => ServerOK(s)'
  <1>1. Installed' = Installed /\ Listing' = Listing /\ Probed' = Probed
    BY DEF Directories, Installed, Listing, Probed
  <1>2. \A id : Resolves(id)' <=> Resolves(id)
    BY <1>1 DEF Directories, Resolves
  <1>3. ShelvesOK => ShelvesOK'
    BY DEF Directories, ShelvesOK
  <1>4. \A children : Past(children) => Past(children)'
    BY DEF Directories, Past
  <1>5. \A l, children : Untouched(l, children)' <=> Untouched(l, children)
    BY <1>1 DEF Directories, Untouched
  <1>6. ASSUME NEW print, NEW libs, NEW todo, Faithful(print, libs, todo)
        PROVE  Faithful(print, libs, todo)'
    BY <1>1, <1>4, <1>5, <1>6 DEF Directories, Faithful
  <1>7. \A libs : Agrees(libs) => Agrees(libs)'
    BY <1>1 DEF Directories, Agrees
  <1>8. ASSUME NEW s, ServerOK(s)
        PROVE  ServerOK(s)'
    <2>1. Asking(s) => Asking(s)'
      BY <1>2 DEF Asking
    <2>2. RightAnswer(s) => RightAnswer(s)'
      BY <1>1, <1>2 DEF RightAnswer
    <2>3. AtRestOK(s) => AtRestOK(s)'
      BY <1>7, <2>1, <2>2 DEF AtRestOK
    <2>4. ListOK(s) => ListOK(s)'
      BY <1>1, <1>4, <2>1 DEF ListOK
    <2>5. StampOK(s) => StampOK(s)'
      BY <1>1, <1>4, <1>5, <2>1 DEF StampOK
    <2>6. ScanOK(s) => ScanOK(s)'
      BY <1>1, <1>6, <2>1 DEF ScanOK, Directories
    <2> QED BY <1>8, <2>3, <2>4, <2>5, <2>6 DEF ServerOK
  <1> QED BY <1>3, <1>6, <1>8

LEMMA ProcessSteps ==
    ASSUME IndexInv, UNCHANGED Directories, NEW p \in Processes, NEW s, Become(p, s), ServerOK(s),
           UNCHANGED cacheFile \/ CacheOK'
    PROVE  IndexInv'
  <1>1. server' = [server EXCEPT ![p] = s]
    BY DEF Become
  <1>2. ASSUME NEW q \in Processes
        PROVE  ServerOK(server[q])'
    <2>1. PICK x : x = server'[q]
      OBVIOUS
    <2>2. ServerOK(x)
      BY <1>1, <2>1 DEF IndexInv
    <2>3. ServerOK(x)'
      BY <2>2, OfTheSameDirectories
    <2> QED BY <2>1, <2>3
  <1>3. CacheOK'
    BY OfTheSameDirectories DEF CacheOK, IndexInv
  <1>4. ShelvesOK'
    BY OfTheSameDirectories DEF IndexInv
  <1>5. DOMAIN server' = Processes
    BY <1>1 DEF IndexInv
  <1> QED BY <1>2, <1>3, <1>4, <1>5 DEF IndexInv

LEMMA PlaceStep ==
    ASSUME IndexInv, NEW p \in Processes, NEW ask, Place(p, ask)
    PROVE  IndexInv'
  <1> DEFINE s == server[p]
             asked == [s EXCEPT !.ask = ask, !.answer = Nothing]
             t == IF Resolves(ask) THEN [asked EXCEPT !.answer = {ask}]
                  ELSE IF asked.index # Nothing THEN [asked EXCEPT !.at = "look"]
                  ELSE [asked EXCEPT !.at = "load", !.fresh = TRUE]
  <1>1. s.at = "idle" /\ AtRestOK(s) /\ s.fresh \in BOOLEAN
    BY DEF IndexInv, ServerOK, ListOK, StampOK, ScanOK, Place, At
  <1>2. asked = [at |-> "idle", index |-> s.index, fresh |-> s.fresh, ask |-> ask, answer |-> Nothing]
    <2>1. s = [at |-> "idle", index |-> s.index, fresh |-> s.fresh, ask |-> s.ask, answer |-> s.answer]
      BY <1>1 DEF AtRestOK
    <2>2. PICK i, f, k, a : s = [at |-> "idle", index |-> i, fresh |-> f, ask |-> k, answer |-> a]
      BY <2>1
    <2>3. [s EXCEPT !.ask = ask] = [at |-> "idle", index |-> i, fresh |-> f, ask |-> ask, answer |-> a]
      BY <2>2
    <2>4. asked = [[s EXCEPT !.ask = ask] EXCEPT !.answer = Nothing]
      BY Zenon
    <2>5. \A r : r = [at |-> "idle", index |-> i, fresh |-> f, ask |-> ask, answer |-> a]
                 => [r EXCEPT !.answer = Nothing] = [at |-> "idle", index |-> i, fresh |-> f, ask |-> ask, answer |-> Nothing]
      OBVIOUS
    <2>6. asked = [at |-> "idle", index |-> i, fresh |-> f, ask |-> ask, answer |-> Nothing]
      BY <2>3, <2>4, <2>5, Zenon
    <2> QED BY <2>2, <2>6
  <1>3. ServerOK(t)
    <2>1. CASE Resolves(ask)
      <3>1. t = [at |-> "idle", index |-> s.index, fresh |-> s.fresh, ask |-> ask, answer |-> {ask}]
        BY <1>2, <2>1
      <3> HIDE DEF t
      <3>2. AtRestOK(t)
        BY <1>1, <2>1, <3>1 DEF AtRestOK, RightAnswer
      <3>3. t.fresh \in BOOLEAN
        BY <1>1, <3>1
      <3> QED BY <3>2, <3>3 DEF ServerOK
    <2>2. CASE ~Resolves(ask) /\ s.index # Nothing
      <3>1. t = [at |-> "look", index |-> s.index, fresh |-> s.fresh, ask |-> ask, answer |-> Nothing]
        BY <1>2, <2>2
      <3> HIDE DEF t
      <3>2. AtRestOK(t)
        BY <1>1, <2>2, <3>1 DEF AtRestOK, Asking
      <3>3. t.fresh \in BOOLEAN
        BY <1>1, <3>1
      <3> QED BY <3>2, <3>3 DEF ServerOK
    <2>3. CASE ~Resolves(ask) /\ s.index = Nothing
      <3>1. t = [at |-> "load", index |-> Nothing, fresh |-> TRUE, ask |-> ask, answer |-> Nothing]
        BY <1>2, <2>3
      <3> HIDE DEF t
      <3>2. AtRestOK(t)
        BY <2>3, <3>1 DEF AtRestOK, Asking
      <3>3. t.fresh \in BOOLEAN
        BY <3>1
      <3> QED BY <3>2, <3>3 DEF ServerOK
    <2> QED BY <2>1, <2>2, <2>3
  <1>4. Become(p, t) /\ UNCHANGED Directories /\ UNCHANGED cacheFile
    BY DEF Place
  <1> HIDE DEF t
  <1> QED BY <1>3, <1>4, ProcessSteps

\* An index whose fingerprint is the installation's agrees with it.
LEMMA FingerprintsTell ==
    ASSUME ShelvesOK, NEW print, NEW libs, Faithful(print, libs, {}), print.base = baseTime, print.children = Probed.children
    PROVE  Agrees(libs)
  <1>1. \A l \in Installed : l \in Libraries /\ Untouched(l, print.children)
    BY DEF Installed, Untouched, Probed
  <1> QED BY <1>1 DEF Faithful, Agrees

LEMMA ProbesArePast == ShelvesOK => Past(Probed.children)
  <1> SUFFICES ASSUME ShelvesOK, NEW l \in Installed PROVE <<l, shelves[l].mtime>>[2] \in 0..now
    BY DEF Past, Probed
  <1> QED BY DEF ShelvesOK, Installed

LEMMA LoadCacheStep ==
    ASSUME IndexInv, NEW p \in Processes, LoadCache(p)
    PROVE  IndexInv'
  <1> DEFINE s == server[p]
             found == cacheFile # Nothing /\ SamePrint(cacheFile.print, Probed, baseTime)
             t == IF found THEN [s EXCEPT !.at = "look", !.index = cacheFile.libs]
                  ELSE [at |-> "list", index |-> Nothing, fresh |-> s.fresh, ask |-> s.ask, answer |-> Nothing, probed |-> Probed]
  <1>1. s.at = "load" /\ AtRestOK(s) /\ s.fresh \in BOOLEAN
    BY DEF IndexInv, ServerOK, ListOK, StampOK, ScanOK, LoadCache, At
  <1>2. Asking(s)
    BY <1>1 DEF AtRestOK
  <1>3. ServerOK(t)
    <2>1. CASE found
      <3>1. t = [at |-> "look", index |-> cacheFile.libs, fresh |-> s.fresh, ask |-> s.ask, answer |-> s.answer]
        BY <1>1, <2>1 DEF AtRestOK
      <3>2. Agrees(cacheFile.libs)
        BY <2>1, FingerprintsTell DEF IndexInv, CacheOK, SamePrint
      <3> QED BY <1>1, <1>2, <3>1, <3>2 DEF ServerOK, AtRestOK, Asking
    <2>2. CASE ~found
      <3>1. t = [at |-> "list", index |-> Nothing, fresh |-> s.fresh, ask |-> s.ask, answer |-> Nothing, probed |-> Probed]
        BY <2>2
      <3> HIDE DEF t
      <3>2. ListOK(t)
        BY <1>2, <3>1, ProbesArePast DEF ListOK, Asking, IndexInv
      <3> QED BY <1>1, <3>1, <3>2 DEF ServerOK
    <2> QED BY <2>1, <2>2
  <1>4. Become(p, t) /\ UNCHANGED Directories /\ UNCHANGED cacheFile
    BY DEF LoadCache
  <1> HIDE DEF t
  <1> QED BY <1>3, <1>4, ProcessSteps

LEMMA ListDirectoryStep ==
    ASSUME IndexInv, NEW p \in Processes, ListDirectory(p)
    PROVE  IndexInv'
  <1> DEFINE s == server[p]
             t == [at |-> "stamp", index |-> Nothing, fresh |-> s.fresh, ask |-> s.ask, answer |-> Nothing,
                   probed |-> s.probed, todo |-> Installed]
  <1>1. ListOK(s) /\ s.fresh \in BOOLEAN
    BY DEF IndexInv, ServerOK, AtRestOK, StampOK, ScanOK, ListDirectory, At
  <1>2. StampOK(t)
    BY <1>1 DEF ListOK, StampOK, Asking, Untouched
  <1>3. Become(p, t) /\ UNCHANGED Directories /\ UNCHANGED cacheFile
    BY DEF ListDirectory
  <1>4. ServerOK(t)
    BY <1>1, <1>2 DEF ServerOK
  <1> HIDE DEF t
  <1> QED BY <1>3, <1>4, ProcessSteps

LEMMA StampStep ==
    ASSUME IndexInv, NEW p \in Processes, Stamp(p)
    PROVE  IndexInv'
  <1> DEFINE s == server[p]
             print == [base |-> baseTime, count |-> s.probed.count, children |-> s.probed.children]
             none == [l \in {} |-> {}]
             t == [at |-> "scan", index |-> none, fresh |-> s.fresh, ask |-> s.ask, answer |-> Nothing,
                   todo |-> s.todo, print |-> print]
  <1>1. StampOK(s) /\ s.fresh \in BOOLEAN
    BY DEF IndexInv, ServerOK, AtRestOK, ListOK, ScanOK, Stamp, At
  <1>2. Faithful(print, none, s.todo)
    BY <1>1 DEF StampOK, Faithful, IndexInv, ShelvesOK
  <1>3. ScanOK(t)
    BY <1>1, <1>2 DEF StampOK, ScanOK, Asking
  <1>4. Become(p, t) /\ UNCHANGED Directories /\ UNCHANGED cacheFile
    BY DEF Stamp
  <1>5. ServerOK(t)
    BY <1>1, <1>3 DEF ServerOK
  <1> HIDE DEF t
  <1> QED BY <1>4, <1>5, ProcessSteps

LEMMA ReadLibraryStep ==
    ASSUME IndexInv, NEW p \in Processes, ReadLibrary(p)
    PROVE  IndexInv'
  <1> DEFINE s == server[p]
             syms(l) == IF l \in Installed THEN shelves[l].syms ELSE {}
             libs(l) == [k \in DOMAIN s.index \cup {l} |-> IF k = l THEN syms(l) ELSE s.index[k]]
  <1>1. ScanOK(s) /\ s.fresh \in BOOLEAN
    BY DEF IndexInv, ServerOK, AtRestOK, ListOK, StampOK, ReadLibrary, At
  <1>2. PICK l \in s.todo : Become(p, [s EXCEPT !.todo = @ \ {l}, !.index = libs(l)])
    BY DEF ReadLibrary
  <1> DEFINE t == [s EXCEPT !.todo = @ \ {l}, !.index = libs(l)]
             rest == s.todo \ {l}
             read == libs(l)
  <1>3. t = [at |-> "scan", index |-> read, fresh |-> s.fresh, ask |-> s.ask, answer |-> s.answer, todo |-> rest, print |-> s.print]
    <2>1. s = [at |-> "scan", index |-> s.index, fresh |-> s.fresh, ask |-> s.ask, answer |-> s.answer,
               todo |-> s.todo, print |-> s.print]
      BY <1>1 DEF ScanOK
    <2>2. t = [[s EXCEPT !.todo = rest] EXCEPT !.index = read]
      BY Zenon
    <2> HIDE DEF rest, read, t
    <2>3. PICK r : r = [at |-> "scan", index |-> s.index, fresh |-> s.fresh, ask |-> s.ask, answer |-> s.answer,
                        todo |-> rest, print |-> s.print]
      OBVIOUS
    <2>4. [s EXCEPT !.todo = rest] = r
      <3> DEFINE i == s.index  f == s.fresh  k == s.ask  a == s.answer  d == s.todo  q == s.print
      <3> HIDE DEF i, f, k, a, d, q, s
      <3>1. s = [at |-> "scan", index |-> i, fresh |-> f, ask |-> k, answer |-> a, todo |-> d, print |-> q]
        BY <2>1 DEF i, f, k, a, d, q
      <3>2. r = [at |-> "scan", index |-> i, fresh |-> f, ask |-> k, answer |-> a, todo |-> rest, print |-> q]
        BY <2>3 DEF i, f, k, a, d, q
      <3> QED BY <3>1, <3>2
    <2>5. [r EXCEPT !.index = read] = [at |-> "scan", index |-> read, fresh |-> s.fresh, ask |-> s.ask, answer |-> s.answer,
                                       todo |-> rest, print |-> s.print]
      BY <2>3
    <2> QED BY <2>2, <2>4, <2>5
  <1>4. Faithful(s.print, read, rest)
    <2>1. Faithful(s.print, s.index, s.todo)
      BY <1>1 DEF ScanOK
    <2>2. ASSUME NEW k \in Libraries, Untouched(k, s.print.children)
          PROVE  k \in rest \/ (k \in DOMAIN read /\ read[k] = shelves[k].syms)
      BY <2>1, <2>2 DEF Faithful, Untouched
    <2>3. ASSUME s.print.base = baseTime, NEW k \in DOMAIN read
          PROVE  k \in Installed \/ read[k] = {}
      BY <2>1, <2>3 DEF Faithful
    <2> HIDE DEF read, rest
    <2> QED BY <2>1, <2>2, <2>3 DEF Faithful
  <1>5. ScanOK(t)
    <2> HIDE DEF t, read, rest
    <2>1. /\ t.at = "scan" /\ t.index = read /\ t.fresh = s.fresh /\ t.ask = s.ask /\ t.answer = s.answer
          /\ t.todo = rest /\ t.print = s.print
      BY <1>3
    <2>2. t = [at |-> "scan", index |-> t.index, fresh |-> t.fresh, ask |-> t.ask, answer |-> t.answer,
               todo |-> t.todo, print |-> t.print]
      BY <1>3, <2>1
    <2>3. Faithful(t.print, t.index, t.todo)
      BY <1>4, <2>1
    <2>4. Asking(t)
      BY <1>1, <2>1 DEF ScanOK, Asking
    <2>5. t.fresh => t.print.base = baseTime /\ t.print.children = Probed.children
      BY <1>1, <2>1 DEF ScanOK
    <2> HIDE DEF s
    <2> QED BY <2>1, <2>2, <2>3, <2>4, <2>5 DEF ScanOK
  <1>6. Become(p, t) /\ UNCHANGED Directories /\ UNCHANGED cacheFile
    BY <1>2 DEF ReadLibrary
  <1>7. ServerOK(t)
    <2> HIDE DEF read, rest
    <2>1. t.fresh = s.fresh
      BY <1>3
    <2> HIDE DEF t
    <2> QED BY <1>1, <1>5, <2>1 DEF ServerOK
  <1> HIDE DEF t
  <1> QED BY <1>6, <1>7, ProcessSteps

LEMMA SaveCacheStep ==
    ASSUME IndexInv, NEW p \in Processes, SaveCache(p)
    PROVE  IndexInv'
  <1> DEFINE s == server[p]
             kept == [print |-> s.print, libs |-> s.index]
             t == [AtRest(s.index, s.fresh) EXCEPT !.at = "look", !.ask = s.ask]
  <1>1. ScanOK(s) /\ s.fresh \in BOOLEAN /\ s.todo = {}
    BY DEF IndexInv, ServerOK, AtRestOK, ListOK, StampOK, SaveCache, At
  <1>2. t = [at |-> "look", index |-> s.index, fresh |-> s.fresh, ask |-> s.ask, answer |-> Nothing]
    <2> DEFINE r == AtRest(s.index, s.fresh)
    <2>1. [r EXCEPT !.at = "look"] = [at |-> "look", index |-> s.index, fresh |-> s.fresh, ask |-> Nothing, answer |-> Nothing]
      BY DEF AtRest
    <2>2. t = [[r EXCEPT !.at = "look"] EXCEPT !.ask = s.ask]
      BY Zenon
    <2>3. PICK looking : looking = [r EXCEPT !.at = "look"]
      OBVIOUS
    <2> HIDE DEF r, t
    <2>4. looking = [at |-> "look", index |-> s.index, fresh |-> s.fresh, ask |-> Nothing, answer |-> Nothing]
      BY <2>1, <2>3
    <2>5. [looking EXCEPT !.ask = s.ask]
            = [at |-> "look", index |-> s.index, fresh |-> s.fresh, ask |-> s.ask, answer |-> Nothing]
      BY <2>4
    <2> QED BY <2>2, <2>3, <2>5
  <1>3. Faithful(s.print, s.index, {})
    BY <1>1 DEF ScanOK
  <1>4. s.fresh => Agrees(s.index)
    BY <1>1, <1>3, FingerprintsTell DEF ScanOK, IndexInv
  <1>5. ServerOK(t)
    <2> HIDE DEF t
    <2> QED BY <1>1, <1>2, <1>4 DEF ServerOK, AtRestOK, ScanOK, Asking
  <1>6. Become(p, t) /\ UNCHANGED Directories
    BY DEF SaveCache
  <1>7. UNCHANGED cacheFile \/ CacheOK'
    <2>1. CASE cacheFile' = kept
      <3>1. PICK print, libs : print = s.print /\ libs = s.index
        OBVIOUS
      <3>2. Faithful(print, libs, {})'
        BY <1>3, <1>6, <3>1, OfTheSameDirectories
      <3>3. cacheFile'.print = print /\ cacheFile'.libs = libs
        BY <2>1, <3>1
      <3> QED BY <3>2, <3>3 DEF CacheOK
    <2> QED BY <2>1 DEF SaveCache
  <1> HIDE DEF t
  <1> QED BY <1>5, <1>6, <1>7, ProcessSteps

LEMMA LookStep ==
    ASSUME IndexInv, NEW p \in Processes, Look(p)
    PROVE  IndexInv'
  <1> DEFINE s == server[p]
             found == {id \in Canonical(s.index, s.ask) : Resolves(id)}
             t == [s EXCEPT !.at = "idle", !.answer = found]
  <1>1. s.at = "look" /\ AtRestOK(s) /\ s.fresh \in BOOLEAN
    BY DEF IndexInv, ServerOK, ListOK, StampOK, ScanOK, Look, At
  <1>2. s.fresh => /\ Agrees(s.index) /\ ~Resolves(s.ask)
                   /\ found = Canonical(Listing, s.ask)
    BY <1>1, AgreeingCanonical, CanonicalResolves DEF AtRestOK, Asking
  <1> HIDE DEF found
  <1>3. t = [at |-> "idle", index |-> s.index, fresh |-> s.fresh, ask |-> s.ask, answer |-> found]
    <2>1. PICK r : r = [at |-> "idle", index |-> s.index, fresh |-> s.fresh, ask |-> s.ask, answer |-> s.answer]
      OBVIOUS
    <2>2. [s EXCEPT !.at = "idle"] = r
      BY <1>1, <2>1 DEF AtRestOK
    <2>3. [r EXCEPT !.answer = found] = [at |-> "idle", index |-> s.index, fresh |-> s.fresh, ask |-> s.ask, answer |-> found]
      BY <2>1
    <2>4. t = [[s EXCEPT !.at = "idle"] EXCEPT !.answer = found]
      BY Zenon
    <2> QED BY <2>2, <2>3, <2>4
  <1>4. ServerOK(t)
    <2> HIDE DEF t
    <2> QED BY <1>1, <1>2, <1>3 DEF ServerOK, AtRestOK, RightAnswer
  <1>5. Become(p, t) /\ UNCHANGED Directories /\ UNCHANGED cacheFile
    BY DEF Look, found
  <1> HIDE DEF t
  <1> QED BY <1>4, <1>5, ProcessSteps

LEMMA RestartStep ==
    ASSUME IndexInv, NEW p \in Processes, Restart(p)
    PROVE  IndexInv'
  <1> DEFINE t == AtRest(Nothing, TRUE)
  <1>1. ServerOK(t)
    BY DEF AtRest, ServerOK, AtRestOK
  <1>2. Become(p, t) /\ UNCHANGED Directories /\ UNCHANGED cacheFile
    BY DEF Restart
  <1> HIDE DEF t
  <1> QED BY <1>1, <1>2, ProcessSteps

-----------------------------------------------------------------------------
(* The steps of the user, who touches one library at a time.                 *)

Touches(l) ==
    /\ now' = now + 1 /\ now' <= MaxChanges
    /\ \E v \in [syms : SUBSET Symbols, mtime : {now'}] \cup {NotInstalled} : shelves' = [shelves EXCEPT ![l] = v]
    /\ \/ baseTime' = now'
       \/ baseTime' = baseTime /\ l \in Installed /\ l \in Installed'

LEMMA ShelfSteps ==
    ASSUME ShelvesOK, NEW l \in Libraries, ChangeLibrary(l) \/ InstallLibrary(l) \/ RemoveLibrary(l)
    PROVE  Touches(l)
  <1>1. now \in Nat /\ now' = now + 1 /\ now' <= MaxChanges
    <2>1. now < MaxChanges /\ now' = now + 1
      BY DEF ChangeLibrary, InstallLibrary, RemoveLibrary, Changed
    <2>2. now \in Nat /\ MaxChanges \in Nat
      BY IndexAssumption DEF ShelvesOK
    <2> QED BY <2>1, <2>2
  <1>2. \A v \in [syms : SUBSET Symbols, mtime : {now'}] : v # NotInstalled
    BY <1>1, IndexAssumption DEF Symbols
  <1>3. Shelf[l] \subseteq Symbols
    BY DEF Symbols
  <1>4. DOMAIN shelves = Libraries
    BY DEF ShelvesOK
  <1>5. CASE ChangeLibrary(l)
    <2>1. PICK s \in Shelf[l] :
             shelves' = [shelves EXCEPT ![l] = [syms |-> IF s \in @.syms THEN @.syms \ {s} ELSE @.syms \cup {s}, mtime |-> now']]
      BY <1>5 DEF ChangeLibrary
    <2> DEFINE old == shelves[l].syms
               new == IF s \in old THEN old \ {s} ELSE old \cup {s}
               v == [syms |-> new, mtime |-> now']
    <2>2. l \in Installed /\ old \subseteq Symbols
      BY <1>5 DEF ChangeLibrary, Installed, ShelvesOK
    <2>3. v \in [syms : SUBSET Symbols, mtime : {now'}]
      BY <1>3, <2>2
    <2>4. shelves' = [shelves EXCEPT ![l] = v]
      BY <2>1
    <2>5. l \in Installed'
      <3> HIDE DEF v
      <3> QED BY <1>2, <1>4, <2>3, <2>4 DEF Installed
    <2>6. baseTime' = baseTime
      BY <1>5 DEF ChangeLibrary
    <2> HIDE DEF v
    <2> QED BY <1>1, <2>2, <2>3, <2>4, <2>5, <2>6 DEF Touches
  <1>6. CASE InstallLibrary(l)
    <2> DEFINE v == [syms |-> Shelf[l], mtime |-> now']
    <2>1. v \in [syms : SUBSET Symbols, mtime : {now'}]
      BY <1>3
    <2>2. shelves' = [shelves EXCEPT ![l] = v] /\ baseTime' = now'
      BY <1>6 DEF InstallLibrary
    <2> HIDE DEF v
    <2> QED BY <1>1, <2>1, <2>2 DEF Touches
  <1>7. CASE RemoveLibrary(l)
    BY <1>1, <1>7 DEF RemoveLibrary, Touches
  <1> QED BY <1>5, <1>6, <1>7

LEMMA TouchedShelves ==
    ASSUME ShelvesOK, NEW l \in Libraries, Touches(l)
    PROVE  /\ ShelvesOK'
           /\ \A k \in Libraries : k # l => shelves'[k] = shelves[k] /\ (k \in Installed' <=> k \in Installed)
           /\ l \in Installed' => shelves'[l].mtime = now'
           /\ l \in Installed /\ l \notin Installed' => baseTime' = now'
           /\ l \notin Installed => baseTime' = now'
  <1>1. PICK v \in [syms : SUBSET Symbols, mtime : {now'}] \cup {NotInstalled} : shelves' = [shelves EXCEPT ![l] = v]
    BY DEF Touches
  <1>2. now \in Nat /\ now' = now + 1 /\ 0..now \subseteq 0..now' /\ now' \in 0..now'
    BY DEF ShelvesOK, Touches
  <1>3. shelves \in [Libraries -> [syms : SUBSET Symbols, mtime : 0..now'] \cup {NotInstalled}]
    BY <1>2 DEF ShelvesOK
  <1>4. shelves' \in [Libraries -> [syms : SUBSET Symbols, mtime : 0..now'] \cup {NotInstalled}]
    BY <1>1, <1>2, <1>3
  <1>5. shelves'[l] = v /\ \A k \in Libraries : k # l => shelves'[k] = shelves[k]
    BY <1>1, <1>3
  <1>6. ShelvesOK'
    BY <1>2, <1>4 DEF ShelvesOK, Touches
  <1>7. l \in Installed' => v.mtime = now'
    BY <1>1, <1>5 DEF Installed
  <1> QED BY <1>5, <1>6, <1>7 DEF Installed, Touches

LEMMA TouchedFaithful ==
    ASSUME ShelvesOK, NEW l \in Libraries, Touches(l), NEW print, NEW libs, NEW todo, Faithful(print, libs, todo)
    PROVE  Faithful(print, libs, todo)'
  <1>1. now \in Nat /\ now' = now + 1 /\ baseTime \in 0..now
    BY DEF ShelvesOK, Touches
  <1>2. print.base \in 0..now' /\ Past(print.children)'
    BY <1>1 DEF Faithful, Past
  <1>3. ASSUME NEW k \in Libraries, Untouched(k, print.children)'
        PROVE  k # l /\ Untouched(k, print.children) /\ shelves'[k] = shelves[k]
    <2>1. k # l
      <3>1. SUFFICES ASSUME k = l PROVE FALSE
        OBVIOUS
      <3>2. <<l, now'>> \in print.children
        BY <1>3, <3>1, TouchedShelves DEF Untouched
      <3>3. now' \in 0..now
        BY <3>2 DEF Faithful, Past
      <3> QED BY <1>1, <3>3
    <2> QED BY <1>3, <2>1, TouchedShelves DEF Untouched
  <1>4. ASSUME NEW k \in Libraries, Untouched(k, print.children)'
        PROVE  k \in todo \/ (k \in DOMAIN libs /\ libs[k] = shelves'[k].syms)
    BY <1>3, <1>4 DEF Faithful
  <1>5. ASSUME print.base = baseTime', NEW k \in DOMAIN libs, k \notin Installed'
        PROVE  libs[k] = {}
    <2>1. baseTime' = baseTime
      BY <1>1, <1>5 DEF Touches, Faithful
    <2>2. k \notin Installed
      BY <1>5, <2>1, <1>1, TouchedShelves DEF Installed
    <2> QED BY <1>5, <2>1, <2>2 DEF Faithful
  <1> QED BY <1>2, <1>4, <1>5 DEF Faithful

\* What a change of the directories makes of a process, at each of the places where it can be.
CutOff(s, fresh) == [[s EXCEPT !.fresh = fresh] EXCEPT !.answer = Nothing]

LEMMA ChangedAtRest ==
    ASSUME NEW s, NEW b, s = [at |-> s.at, index |-> s.index, fresh |-> s.fresh, ask |-> s.ask, answer |-> s.answer]
    PROVE  CutOff(s, b) = [at |-> s.at, index |-> s.index, fresh |-> b, ask |-> s.ask, answer |-> Nothing]
  <1>1. PICK x, i, f, k, a : s = [at |-> x, index |-> i, fresh |-> f, ask |-> k, answer |-> a]
    OBVIOUS
  <1>2. s.at = x /\ s.index = i /\ s.fresh = f /\ s.ask = k /\ s.answer = a
    BY <1>1
  <1>3. PICK r : r = [s EXCEPT !.fresh = b]
    OBVIOUS
  <1>4. r = [at |-> x, index |-> i, fresh |-> b, ask |-> k, answer |-> a]
    BY <1>1, <1>3
  <1>5. [r EXCEPT !.answer = Nothing] = [at |-> x, index |-> i, fresh |-> b, ask |-> k, answer |-> Nothing]
    BY <1>4
  <1> QED BY <1>2, <1>3, <1>5 DEF CutOff

LEMMA ChangedListing ==
    ASSUME NEW s, NEW b, s = [at |-> "list", index |-> Nothing, fresh |-> s.fresh, ask |-> s.ask, answer |-> s.answer, probed |-> s.probed]
    PROVE  CutOff(s, b) = [at |-> "list", index |-> Nothing, fresh |-> b, ask |-> s.ask, answer |-> Nothing, probed |-> s.probed]
  <1>1. PICK f, k, a, q : s = [at |-> "list", index |-> Nothing, fresh |-> f, ask |-> k, answer |-> a, probed |-> q]
    OBVIOUS
  <1>2. s.fresh = f /\ s.ask = k /\ s.answer = a /\ s.probed = q
    BY <1>1
  <1>3. PICK r : r = [s EXCEPT !.fresh = b]
    OBVIOUS
  <1>4. r = [at |-> "list", index |-> Nothing, fresh |-> b, ask |-> k, answer |-> a, probed |-> q]
    BY <1>1, <1>3
  <1>5. [r EXCEPT !.answer = Nothing] = [at |-> "list", index |-> Nothing, fresh |-> b, ask |-> k, answer |-> Nothing, probed |-> q]
    BY <1>4
  <1> QED BY <1>2, <1>3, <1>5 DEF CutOff

LEMMA ChangedStamping ==
    ASSUME NEW s, NEW b, s = [at |-> "stamp", index |-> Nothing, fresh |-> s.fresh, ask |-> s.ask, answer |-> s.answer, probed |-> s.probed, todo |-> s.todo]
    PROVE  CutOff(s, b) = [at |-> "stamp", index |-> Nothing, fresh |-> b, ask |-> s.ask, answer |-> Nothing, probed |-> s.probed, todo |-> s.todo]
  <1>1. PICK f, k, a, q, d : s = [at |-> "stamp", index |-> Nothing, fresh |-> f, ask |-> k, answer |-> a, probed |-> q, todo |-> d]
    OBVIOUS
  <1>2. s.fresh = f /\ s.ask = k /\ s.answer = a /\ s.probed = q /\ s.todo = d
    BY <1>1
  <1>3. PICK r : r = [s EXCEPT !.fresh = b]
    OBVIOUS
  <1>4. r = [at |-> "stamp", index |-> Nothing, fresh |-> b, ask |-> k, answer |-> a, probed |-> q, todo |-> d]
    BY <1>1, <1>3
  <1>5. [r EXCEPT !.answer = Nothing] = [at |-> "stamp", index |-> Nothing, fresh |-> b, ask |-> k, answer |-> Nothing, probed |-> q, todo |-> d]
    BY <1>4
  <1> QED BY <1>2, <1>3, <1>5 DEF CutOff

LEMMA ChangedScanning ==
    ASSUME NEW s, NEW b, s = [at |-> "scan", index |-> s.index, fresh |-> s.fresh, ask |-> s.ask, answer |-> s.answer, todo |-> s.todo, print |-> s.print]
    PROVE  CutOff(s, b) = [at |-> "scan", index |-> s.index, fresh |-> b, ask |-> s.ask, answer |-> Nothing, todo |-> s.todo, print |-> s.print]
  <1>1. PICK i, f, k, a, d, q : s = [at |-> "scan", index |-> i, fresh |-> f, ask |-> k, answer |-> a, todo |-> d, print |-> q]
    OBVIOUS
  <1>2. s.index = i /\ s.fresh = f /\ s.ask = k /\ s.answer = a /\ s.todo = d /\ s.print = q
    BY <1>1
  <1>3. PICK r : r = [s EXCEPT !.fresh = b]
    OBVIOUS
  <1>4. r = [at |-> "scan", index |-> i, fresh |-> b, ask |-> k, answer |-> a, todo |-> d, print |-> q]
    BY <1>1, <1>3
  <1>5. [r EXCEPT !.answer = Nothing] = [at |-> "scan", index |-> i, fresh |-> b, ask |-> k, answer |-> Nothing, todo |-> d, print |-> q]
    BY <1>4
  <1> QED BY <1>2, <1>3, <1>5 DEF CutOff

\* A process that was under way goes on, no longer fresh, and has no answer.
LEMMA ServersAfterAChange ==
    ASSUME ShelvesOK, NEW l \in Libraries, Touches(l), NEW s, ServerOK(s)
    PROVE  ServerOK([s EXCEPT !.fresh = FALSE, !.answer = Nothing])'
  <1>0. PICK no : no = FALSE
    OBVIOUS
  <1> DEFINE t == CutOff(s, no)
  <1>1. now' = now + 1 /\ now \in Nat
    BY DEF Touches, ShelvesOK
  <1>2. \A children : Past(children) => Past(children)'
    BY <1>1 DEF Past
  <1>3. \A k \in Libraries : \A children : Past(children) /\ Untouched(k, children)' => Untouched(k, children)
    <2> SUFFICES ASSUME NEW k \in Libraries, NEW children, Past(children), Untouched(k, children)'
                 PROVE  Untouched(k, children)
      OBVIOUS
    <2>1. k = l => now' \in 0..now
      BY TouchedShelves DEF Untouched, Past
    <2>2. k # l
      BY <1>1, <2>1
    <2> QED BY <2>2, TouchedShelves DEF Untouched
  <1>4. t = [s EXCEPT !.fresh = no, !.answer = Nothing]
    BY Zenon DEF CutOff
  <1>5. ServerOK(t)'
    <2>1. CASE AtRestOK(s)
      <3>1. s = [at |-> s.at, index |-> s.index, fresh |-> s.fresh, ask |-> s.ask, answer |-> s.answer]
        BY <2>1 DEF AtRestOK
      <3>2. t = [at |-> s.at, index |-> s.index, fresh |-> no, ask |-> s.ask, answer |-> Nothing]
        BY <3>1, ChangedAtRest
      <3> HIDE DEF t
      <3>3. /\ t.at = s.at /\ t.fresh = FALSE /\ t.answer = Nothing
            /\ t = [at |-> t.at, index |-> t.index, fresh |-> t.fresh, ask |-> t.ask, answer |-> t.answer]
        BY <1>0, <3>2
      <3> QED BY <2>1, <3>3 DEF ServerOK, AtRestOK, Asking
    <2>2. CASE ListOK(s)
      <3>1. s = [at |-> "list", index |-> Nothing, fresh |-> s.fresh, ask |-> s.ask, answer |-> s.answer, probed |-> s.probed]
        BY <2>2 DEF ListOK
      <3>2. t = [at |-> "list", index |-> Nothing, fresh |-> no, ask |-> s.ask, answer |-> Nothing, probed |-> s.probed]
        BY <3>1, ChangedListing
      <3> HIDE DEF t
      <3>3. /\ t.at = "list" /\ t.fresh = FALSE /\ t.answer = Nothing /\ t.probed = s.probed
            /\ t = [at |-> "list", index |-> Nothing, fresh |-> t.fresh, ask |-> t.ask, answer |-> t.answer, probed |-> t.probed]
        BY <1>0, <3>2
      <3>4. Past(t.probed.children)'
        BY <1>2, <2>2, <3>3 DEF ListOK
      <3>5. ListOK(t)'
        BY <3>3, <3>4 DEF ListOK, Asking
      <3> QED BY <3>3, <3>5 DEF ServerOK
    <2>3. CASE StampOK(s)
      <3>1. s = [at |-> "stamp", index |-> Nothing, fresh |-> s.fresh, ask |-> s.ask, answer |-> s.answer,
                 probed |-> s.probed, todo |-> s.todo]
        BY <2>3 DEF StampOK
      <3>2. t = [at |-> "stamp", index |-> Nothing, fresh |-> no, ask |-> s.ask, answer |-> Nothing,
                 probed |-> s.probed, todo |-> s.todo]
        BY <3>1, ChangedStamping
      <3> HIDE DEF t
      <3>3. /\ t.at = "stamp" /\ t.fresh = FALSE /\ t.answer = Nothing /\ t.probed = s.probed /\ t.todo = s.todo
            /\ t = [at |-> "stamp", index |-> Nothing, fresh |-> t.fresh, ask |-> t.ask, answer |-> t.answer,
                    probed |-> t.probed, todo |-> t.todo]
        BY <1>0, <3>2
      <3>4. Past(t.probed.children)'
        BY <1>2, <2>3, <3>3 DEF StampOK
      <3>5. \A k \in Libraries : Untouched(k, t.probed.children)' => k \in t.todo
        BY <1>3, <2>3, <3>3 DEF StampOK
      <3>6. StampOK(t)'
        BY <3>3, <3>4, <3>5 DEF StampOK, Asking
      <3> QED BY <3>3, <3>6 DEF ServerOK
    <2>4. CASE ScanOK(s)
      <3>1. s = [at |-> "scan", index |-> s.index, fresh |-> s.fresh, ask |-> s.ask, answer |-> s.answer,
                 todo |-> s.todo, print |-> s.print]
        BY <2>4 DEF ScanOK
      <3>2. t = [at |-> "scan", index |-> s.index, fresh |-> no, ask |-> s.ask, answer |-> Nothing,
                 todo |-> s.todo, print |-> s.print]
        BY <3>1, ChangedScanning
      <3> HIDE DEF t
      <3>3. /\ t.at = "scan" /\ t.fresh = FALSE /\ t.answer = Nothing
            /\ t.index = s.index /\ t.print = s.print /\ t.todo = s.todo
            /\ t = [at |-> "scan", index |-> t.index, fresh |-> t.fresh, ask |-> t.ask, answer |-> t.answer,
                    todo |-> t.todo, print |-> t.print]
        BY <1>0, <3>2
      <3>4. Faithful(t.print, t.index, t.todo)
        BY <2>4, <3>3 DEF ScanOK
      <3>5. Faithful(t.print, t.index, t.todo)'
        BY <3>4, TouchedFaithful
      <3>6. ScanOK(t)'
        BY <3>3, <3>5 DEF ScanOK, Asking
      <3> QED BY <3>3, <3>6 DEF ServerOK
    <2> QED BY <2>1, <2>2, <2>3, <2>4 DEF ServerOK
  <1> HIDE DEF t
  <1> QED BY <1>0, <1>4, <1>5

LEMMA UserKeeps ==
    ASSUME IndexInv, NEW l \in Libraries, ChangeLibrary(l) \/ InstallLibrary(l) \/ RemoveLibrary(l)
    PROVE  IndexInv'
  <1>1. ShelvesOK /\ Touches(l)
    BY ShelfSteps DEF IndexInv
  <1>2. Changed
    BY DEF ChangeLibrary, InstallLibrary, RemoveLibrary
  <1>3. ShelvesOK'
    BY <1>1, TouchedShelves
  <1>4. CacheOK'
    <2>1. SUFFICES ASSUME cacheFile' # Nothing PROVE Faithful(cacheFile.print, cacheFile.libs, {})'
      BY DEF CacheOK
    <2>2. cacheFile' = cacheFile
      BY <1>2 DEF Changed
    <2>3. PICK print, libs : print = cacheFile.print /\ libs = cacheFile.libs
      OBVIOUS
    <2>4. Faithful(print, libs, {})
      BY <2>1, <2>2, <2>3 DEF IndexInv, CacheOK
    <2>5. Faithful(print, libs, {})'
      BY <1>1, <2>4, TouchedFaithful
    <2> QED BY <2>2, <2>3, <2>5
  <1>5. ASSUME NEW p \in Processes
        PROVE  ServerOK(server[p])'
    <2>1. PICK s : s = server[p]
      OBVIOUS
    <2>2. server'[p] = [s EXCEPT !.fresh = FALSE, !.answer = Nothing]
      BY <1>2, <2>1 DEF Changed
    <2>3. ServerOK(s)
      BY <2>1 DEF IndexInv
    <2>4. ServerOK([s EXCEPT !.fresh = FALSE, !.answer = Nothing])'
      BY <1>1, <2>3, ServersAfterAChange
    <2> QED BY <2>2, <2>4
  <1>6. DOMAIN server' = Processes
    BY <1>2 DEF Changed
  <1> QED BY <1>3, <1>4, <1>5, <1>6 DEF IndexInv

-----------------------------------------------------------------------------
(* The index is right.                                                       *)

LEMMA IndexStep == IndexInv /\ [IndexNext]_indexVars => IndexInv'
  <1> SUFFICES ASSUME IndexInv, [IndexNext]_indexVars PROVE IndexInv'
    OBVIOUS
  <1>1. ASSUME NEW p \in Processes, NEW ask \in Asks, Place(p, ask) PROVE IndexInv'
    BY <1>1, PlaceStep
  <1>2. ASSUME NEW p \in Processes,
               LoadCache(p) \/ ListDirectory(p) \/ Stamp(p) \/ ReadLibrary(p) \/ SaveCache(p) \/ Look(p) \/ Restart(p)
        PROVE  IndexInv'
    BY <1>2, LoadCacheStep, ListDirectoryStep, StampStep, ReadLibraryStep, SaveCacheStep, LookStep, RestartStep
  <1>3. ASSUME NEW l \in Libraries, ChangeLibrary(l) \/ InstallLibrary(l) \/ RemoveLibrary(l) PROVE IndexInv'
    BY <1>3, UserKeeps
  <1>4. CASE UNCHANGED indexVars
    <2>1. UNCHANGED Directories /\ UNCHANGED server /\ UNCHANGED cacheFile
      BY <1>4 DEF indexVars, Directories
    <2>2. ASSUME NEW p \in Processes PROVE ServerOK(server[p])'
      <3>1. PICK s : s = server[p]
        OBVIOUS
      <3>2. ServerOK(s)'
        BY <2>1, <3>1, OfTheSameDirectories DEF IndexInv
      <3> QED BY <2>1, <3>1, <3>2
    <2>3. CacheOK'
      <3>1. PICK print, libs : print = cacheFile.print /\ libs = cacheFile.libs
        OBVIOUS
      <3>2. cacheFile # Nothing => Faithful(print, libs, {})'
        BY <2>1, <3>1, OfTheSameDirectories DEF IndexInv, CacheOK
      <3> QED BY <2>1, <3>1, <3>2 DEF CacheOK
    <2> QED BY <2>1, <2>2, <2>3, OfTheSameDirectories DEF IndexInv
  <1> QED BY <1>1, <1>2, <1>3, <1>4 DEF IndexNext

\* The index and its copy on disk, whoever wrote it, tell what is installed whenever
\* their fingerprint says that they do.
THEOREM IndexesAreFaithful == IndexSpec => []IndexInv
  BY IndexInitially, IndexStep, PTL DEF IndexSpec

\* place_one_component replaces an id that does not resolve only by the one symbol that
\* the installed libraries admit, while nothing changes under the process that looks.
THEOREM OnlySoleRewrites == IndexSpec => []RewritesAreSole
  <1>1. IndexInv => RewritesAreSole
    <2> SUFFICES ASSUME IndexInv, NEW p \in Processes, server[p].answer # Nothing, server[p].fresh
                 PROVE  RightAnswer(server[p])
      BY DEF RewritesAreSole, RightAnswer
    <2>1. AtRestOK(server[p]) /\ server[p].at = "idle"
      BY DEF IndexInv, ServerOK, AtRestOK, ListOK, StampOK, ScanOK, Asking
    <2> QED BY <2>1 DEF AtRestOK
  <1> QED BY <1>1, IndexesAreFaithful, PTL
=============================================================================
