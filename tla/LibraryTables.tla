---------------------------- MODULE LibraryTables ----------------------------
(***************************************************************************)
(* Library tables: which library a nickname stands for. register_*_library,*)
(* the searches, get_symbol_info and the footprint lookup read them through*)
(* konnect-core's tools/library.rs, placing a symbol through the schematic *)
(* editor's library.rs, each with rules of its own, while the user edits   *)
(* the tables in KiCad and moves libraries about.                          *)
(*                                                                         *)
(* A location is a library, a template table, or nothing; what is at it    *)
(* may go and come back.  A stock library's location is its nickname. One  *)
(* project is open, and its directory is the one every call is given.      *)
(* Pins are those of a symbol's units: KiCad draws none outside of them.   *)
(***************************************************************************)
EXTENDS Naturals, FiniteSets, SequencesExt

CONSTANTS
  Nicknames,
  Locations,
  Stock,        \* the nicknames of the libraries that come with KiCad
  Shelf,        \* Shelf[l]: the symbols a library at l has, each with the pins of its units and its parent
  Templates,    \* Templates[l]: the rows of the template table at l
  Uris,         \* the uris a row may have: a form, and a location ("plain", "variable") or
                \* a path below a directory ("project" for ${KIPRJMOD}, "relative")
  Beside,       \* Beside[dir][path]: the location that is, for the directory of the project's
                \* table ("project"), of the global one ("global") and of the process ("cwd")
  Exported,     \* are the variables of KiCad exported to the server?
  Tables0,      \* how the tables may be at the start
  NoParent, NoLibrary,
  MaxTableSteps \* bound on registrations and deeds of the user

ASSUME TablesAssumption == Stock \subseteq Locations /\ DOMAIN Templates \subseteq Locations /\ Exported \in BOOLEAN

VARIABLES
  tables,   \* tables[kind][scope]: the rows of a table, in the order of the file
  present,  \* the locations at which there is something
  done      \* registrations and deeds so far

tableVars == <<tables, present, done>>

Kinds == {"footprint", "symbol"}
Scopes == {"project", "global"}
MaxDepth == 4

Row(nick, uri, nested) == [nick |-> nick, uri |-> uri, nested |-> nested]

-----------------------------------------------------------------------------
(* How konnect-core reads a table: nested tables are followed, and a row's    *)
(* path is known if its uri is understood.                                    *)

\* Where a uri leads, the paths below a directory being below dir.
Leads(uri, dir) == IF uri.form \in {"project", "relative"} THEN Beside[dir][uri.at] ELSE uri.at

\* A path is taken as it is written, a relative one below the process's directory; a
\* variable is believed if what it leads to exists, and ${KIPRJMOD} is the table's directory.
Expand(uri, scope) ==
  LET at == Leads(uri, IF uri.form = "relative" THEN "cwd" ELSE scope)
  IN IF uri.form \in {"plain", "relative"} \/ at \in present THEN at ELSE NoLibrary

RECURSIVE Flat(_, _, _)
Flat(rows, scope, depth) ==
  FlattenSeq([i \in DOMAIN rows |->
    LET row == rows[i]
        at == Expand(row.uri, scope)
    IN IF ~row.nested THEN <<[nick |-> row.nick, path |-> at]>>
       ELSE IF depth >= MaxDepth \/ at \notin present \cap DOMAIN Templates THEN <<>>
       ELSE Flat(Templates[at], scope, depth + 1)])

Entries(kind, scope) == Flat(tables[kind][scope], scope, 0)

\* A fault to detect: the global table is asked first.
GlobalFirst(kind) == Entries(kind, "global") \o Entries(kind, "project")

\* A row of the project's table hides one of the global table.
Everywhere(kind) == Entries(kind, "project") \o Entries(kind, "global")

Items(l) == IF l \in present \cap DOMAIN Shelf THEN DOMAIN Shelf[l] ELSE {}
OfStock(nick, name) == IF nick \in Stock /\ name \in Items(nick) THEN nick ELSE NoLibrary

\* The path of the first of some rows.
FirstPath(libs) == IF libs = <<>> THEN NoLibrary ELSE Head(libs).path

\* A footprint: the first row with its nickname decides, wherever it leads.
ResolveFootprint(nick, name) ==
  LET libs == SelectSeq(Everywhere("footprint"), LAMBDA lib : lib.nick = nick)
  IN IF libs = <<>> THEN OfStock(nick, name)
     ELSE IF name \in Items(FirstPath(libs)) THEN FirstPath(libs) ELSE NoLibrary

\* The nickname a board is given for a footprint that was named by its path:
\* what the global table calls the directory, or the directory's own name.
NicknameOf(dir) ==
  LET libs == Entries("footprint", "global")
      i == SelectInSeq(libs, LAMBDA lib : lib.path = dir)
  IN IF i = 0 THEN dir ELSE libs[i].nick

\* A symbol: the first row with its nickname that leads somewhere.
SymbolLibrary(nick) ==
  FirstPath(SelectSeq(Everywhere("symbol"), LAMBDA lib : lib.nick = nick /\ lib.path # NoLibrary))

SearchSymbols ==
  LET libs == Everywhere("symbol")
  IN UNION {{<<libs[i].nick, name>> : name \in Items(libs[i].path)} : i \in DOMAIN libs}

SearchFootprints ==
  LET libs == Entries("footprint", "global")
  IN UNION {{<<libs[i].nick, name>> : name \in Items(libs[i].path)} : i \in DOMAIN libs}

\* A symbol and what it extends, within its file.
RECURSIVE Chain(_, _, _)
Chain(l, name, seen) ==
  IF name \in seen \/ name \notin Items(l) THEN {}
  ELSE {name} \cup Chain(l, Shelf[l][name].parent, seen \cup {name})

\* get_symbol_info: the pins a symbol has or inherits, whatever unit they are in.
PinsInFile(l, name) == UNION {UNION Range(Shelf[l][a].units) : a \in Chain(l, name, {})}

Info(nick, name) ==
  LET l == SymbolLibrary(nick)
  IN IF name \in Items(l) THEN [found |-> l, pins |-> PinsInFile(l, name)]
     ELSE [found |-> NoLibrary, pins |-> {}]

-----------------------------------------------------------------------------
(* How the schematic editor reads it when a symbol is placed: nested tables   *)
(* are not followed, a variable has to be exported, a relative path is below  *)
(* the table's directory, and a library that lacks the symbol is passed over. *)

Understood(uri) == uri.form # "variable" \/ Exported

\* The row that ends the search of one table: the first of that nickname whose
\* uri is not understood, or which leads to a file.
TablePath(scope, nick) ==
  LET rows == tables["symbol"][scope]
      i == SelectInSeq(rows, LAMBDA row : row.nick = nick /\ (~Understood(row.uri) \/ Leads(row.uri, scope) \in present))
  IN IF i = 0 \/ ~Understood(rows[i].uri) THEN NoLibrary ELSE Leads(rows[i].uri, scope)

SymbolSource(nick, name) ==
  LET holds == {scope \in Scopes : name \in Items(TablePath(scope, nick))}
  IN IF "project" \in holds THEN TablePath("project", nick)
     ELSE IF "global" \in holds THEN TablePath("global", nick)
     ELSE OfStock(nick, name)

\* Each parent is looked up again by its id, and its units join the symbol's but for
\* those that the symbol draws itself.
RECURSIVE UnitsFlattened(_, _, _)
UnitsFlattened(nick, name, seen) ==
  LET l == SymbolSource(nick, name)
  IN IF name \in seen \/ l = NoLibrary THEN <<>>
     ELSE Shelf[l][name].units @@ UnitsFlattened(nick, Shelf[l][name].parent, seen \cup {name})

PinsFlattened(nick, name) == UNION Range(UnitsFlattened(nick, name, {}))

Placed(nick, name) == [found |-> SymbolSource(nick, name), pins |-> PinsFlattened(nick, name)]

-----------------------------------------------------------------------------
TablesInit ==
  /\ tables \in Tables0
  /\ present = DOMAIN Shelf \cup DOMAIN Templates
  /\ done = 0

Deed == done < MaxTableSteps /\ done' = done + 1

Position(rows, nick) == SelectInSeq(rows, LAMBDA row : row.nick = nick)

Registered(rows, nick, uri, replace) ==
  LET i == Position(rows, nick)
  IN IF i = 0 THEN Append(rows, Row(nick, uri, FALSE))
     ELSE IF replace THEN [rows EXCEPT ![i].uri = uri]
     ELSE rows

Register(kind, scope, nick, uri, replace) ==
  /\ Deed
  /\ tables' = [tables EXCEPT ![kind][scope] = Registered(@, nick, uri, replace)]
  /\ UNCHANGED present

\* The user's deeds.  KiCad keeps nicknames apart within a table.
AddRow(kind, scope, row) ==
  /\ Deed /\ Position(tables[kind][scope], row.nick) = 0
  /\ tables' = [tables EXCEPT ![kind][scope] = Append(@, row)]
  /\ UNCHANGED present

RemoveRow(kind, scope, i) ==
  /\ Deed
  /\ tables' = [tables EXCEPT ![kind][scope] = RemoveAt(@, i)]
  /\ UNCHANGED present

MoveLibrary(l) ==
  /\ Deed
  /\ present' = IF l \in present THEN present \ {l} ELSE present \cup {l}
  /\ UNCHANGED tables

TablesOf(kind) ==
  \/ \E scope \in Scopes, nick \in Nicknames, uri \in Uris, replace \in BOOLEAN : Register(kind, scope, nick, uri, replace)
  \/ \E scope \in Scopes, nick \in Nicknames, uri \in Uris : AddRow(kind, scope, Row(nick, uri, FALSE))
  \/ \E scope \in Scopes : \E i \in DOMAIN tables[kind][scope] : RemoveRow(kind, scope, i)
  \/ \E l \in DOMAIN Shelf \cup DOMAIN Templates : MoveLibrary(l)

TablesNext == \E kind \in Kinds : TablesOf(kind)

TablesSpec == TablesInit /\ [][TablesNext]_tableVars

-----------------------------------------------------------------------------
\* A nickname means one thing in each table, nested ones included, and a row with
\* a variable is that of a stock library under its own name: how KiCad leaves them.
Tidy(kind, scope) ==
  LET libs == Entries(kind, scope)
      rows == tables[kind][scope]
  IN /\ \A i, j \in DOMAIN libs : libs[i].nick = libs[j].nick => i = j
     /\ \A i \in DOMAIN rows : rows[i].uri.form = "variable" /\ ~rows[i].nested => rows[i].uri.at = rows[i].nick

\* A row the editor does not understand hides nothing.
Understandable ==
  \A i \in DOMAIN tables["symbol"]["project"] :
    LET row == tables["symbol"]["project"][i]
    IN Understood(row.uri) \/ Position(tables["symbol"]["global"], row.nick) = 0

\* The nickname's rows lead to the same place for both readers.
Anchored(nick) ==
  \A scope \in Scopes : \A i \in DOMAIN tables["symbol"][scope] :
    tables["symbol"][scope][i].nick = nick => tables["symbol"][scope][i].uri.form # "relative"

\* Whoever draws a unit of a symbol it extends again draws all the pins of it again.
RedrawsInFull(l, name) ==
  \A b \in Chain(l, name, {}) : \A a \in Chain(l, b, {}) :
    \A u \in DOMAIN Shelf[l][a].units \cap DOMAIN Shelf[l][b].units : Shelf[l][a].units[u] \subseteq Shelf[l][b].units[u]

SymbolNames == UNION {DOMAIN Shelf[l] : l \in DOMAIN Shelf}
TablesTidy == (\A scope \in Scopes : Tidy("symbol", scope)) /\ Understandable
SameSymbol(nick, name) == Info(nick, name).found # NoLibrary => Placed(nick, name) = Info(nick, name)

\* What get_symbol_info describes is what is placed, and what search_symbols offers
\* can be placed: two readers of the tables, one answer.
ReadersAgree ==
  TablesTidy =>
    /\ \A nick \in {n \in Nicknames : Anchored(n)} :
         LET l == SymbolLibrary(nick) IN \A name \in Items(l) : RedrawsInFull(l, name) => SameSymbol(nick, name)
    /\ \A hit \in SearchSymbols : Anchored(hit[1]) => SymbolSource(hit[1], hit[2]) # NoLibrary

\* A footprint placed by its path is linked to the library it came from, unless
\* the project gives that nickname to another.
LinksLeadBack ==
  Tidy("footprint", "global") =>
    \A lib \in Range(Entries("footprint", "global")) : \A name \in Items(lib.path) :
      Position(tables["footprint"]["project"], NicknameOf(lib.path)) = 0
        => ResolveFootprint(NicknameOf(lib.path), name) = lib.path

\* A library registered for the project is the one found from then on, by both
\* readers, and no other nickname is disturbed, nested tables' own names apart.
RegistrationsTell ==
  [][done' > done => \A kind \in Kinds, scope \in Scopes : \A row \in Range(tables'[kind][scope]) :
       Register(kind, scope, row.nick, row.uri, TRUE) =>
         /\ (scope = "project" /\ row.uri.form = "plain")
              => \A name \in Items(row.uri.at)' :
                   row.uri.at = IF kind = "footprint" THEN ResolveFootprint(row.nick, name)' ELSE SymbolSource(row.nick, name)'
         /\ (\A r \in Range(tables[kind][scope]) : r.nick = row.nick => ~r.nested)
              => \A other \in Nicknames \ {row.nick} : SymbolLibrary(other)' = SymbolLibrary(other)]_tableVars

LibrariesHold == [](ReadersAgree /\ LinksLeadBack) /\ RegistrationsTell

\* Checked by no run, and false: a relative path is below one directory for one reader
\* and below another for the other; and where a symbol draws a unit of its parent's again
\* with fewer pins, get_symbol_info reports the pins of both, and the placed one lacks some.
ReadersAgreeThroughout == TablesTidy => \A nick \in Nicknames, name \in SymbolNames : SameSymbol(nick, name)

\* Checked by no run, and false: a footprint from a library of the project's table
\* that is named by its path is linked to its directory's name instead.
ProjectLinksLeadBack ==
  \A l \in present \cap DOMAIN Shelf : \A name \in DOMAIN Shelf[l] :
    (\E i \in DOMAIN Everywhere("footprint") : Everywhere("footprint")[i].path = l)
      => ResolveFootprint(NicknameOf(l), name) = l
=============================================================================
