----------------------------- MODULE SymbolIndex -----------------------------
(***************************************************************************)
(* Which installed symbol a lib_id means: konnect-schematic-editor's       *)
(* library.rs as place_one_component uses it (sch_components.rs).          *)
(*                                                                         *)
(* A lib_id that resolves is placed as it is.  One that does not is looked *)
(* up in an index of every installed library, and placed under the one id  *)
(* it can only have meant.  A process keeps the index it has; a fresh one  *)
(* takes the index another process left on disk, if the fingerprint of the *)
(* directories is still the one it was written with, or scans them: the    *)
(* fingerprint first, then the libraries, each by a thread of its own.     *)
(* Meanwhile the user installs and removes libraries and symbols.          *)
(*                                                                         *)
(* There is one symbol directory; the library tables are left out, and no  *)
(* two changes fall into one millisecond, the resolution of a fingerprint. *)
(***************************************************************************)
EXTENDS Naturals, FiniteSets

CONSTANTS
    Processes,     \* servers on one machine
    Libraries,     \* names of libraries
    Shelf,         \* library -> the symbols it may hold
    Starts,        \* installations at the start: library -> its symbols
    Power,         \* the library whose symbols carry a sign
    Folded,        \* symbol or stem -> its lower case
    Toggled,       \* stem -> its lower case with the sign put on or taken off
    Asks,          \* what callers ask for: [lib, stem]
    NotInstalled,
    Nothing,       \* no index, no file, no answer
    MaxChanges     \* bound: changes of the installation

ASSUME IndexAssumption ==
    /\ MaxChanges \in Nat
    /\ \A start \in Starts : DOMAIN start \subseteq Libraries /\ \A l \in DOMAIN start : start[l] \subseteq Shelf[l]
    /\ NotInstalled \notin [syms : SUBSET UNION {Shelf[l] : l \in Libraries}, mtime : Nat]

VARIABLES
    shelves,    \* library -> [syms, mtime], or NotInstalled
    baseTime,   \* when the directory itself last changed
    now,        \* changes so far, which is the clock
    cacheFile,  \* the index on disk: [print, libs], or Nothing
    server      \* process -> its index, and where its call is

indexVars == <<shelves, baseTime, now, cacheFile, server>>

Installed == {l \in Libraries : shelves[l] # NotInstalled}
Listing == [l \in Installed |-> shelves[l].syms]

\* probe_dir: how many entries, and each library's own modification time.
Probed == [count |-> Cardinality(Installed), children |-> {<<l, shelves[l].mtime>> : l \in Installed}]

\* A fault to detect: the libraries' own times are not looked at.
SameCount(print, probed, stamp) == print.base = stamp /\ print.count = probed.count

SamePrint(print, probed, stamp) ==
    print.base = stamp /\ print.count = probed.count /\ print.children = probed.children

-----------------------------------------------------------------------------
(* What a listing of the libraries makes of an id. *)

Resolves(id) == id.lib \in Installed /\ id.stem \in shelves[id.lib].syms

Owners(libs, folded, among) ==
    {[lib |-> p[1], stem |-> p[2]] : p \in {p \in (DOMAIN libs \cap among) \X UNION {libs[l] : l \in DOMAIN libs} :
        p[2] \in libs[p[1]] /\ Folded[p[2]] = folded}}

Sole(owners) == IF Cardinality(owners) = 1 THEN owners ELSE {}

\* canonical_lib_id_from: the one symbol of that name in any library, or else the one
\* of the power library with the sign toggled; a set of one id, or none.
Canonical(libs, ask) ==
    LET anywhere == Sole(Owners(libs, Folded[ask.stem], Libraries))
    IN  IF anywhere # {} THEN anywhere ELSE Sole(Owners(libs, Toggled[ask.stem], {Power}))

-----------------------------------------------------------------------------
\* A server; fresh while nothing has changed since its index was begun.
AtRest(index, fresh) == [at |-> "idle", index |-> index, fresh |-> fresh, ask |-> Nothing, answer |-> Nothing]

IndexInit ==
    /\ \E start \in Starts :
         shelves = [l \in Libraries |-> IF l \in DOMAIN start THEN [syms |-> start[l], mtime |-> 0] ELSE NotInstalled]
    /\ baseTime = 0
    /\ now = 0
    /\ cacheFile = Nothing
    /\ server = [p \in Processes |-> AtRest(Nothing, TRUE)]

Directories == <<shelves, baseTime, now>>
Become(p, s) == server' = [server EXCEPT ![p] = s]
At(p, phase) == server[p].at = phase

\* ensure_lib_symbol, then the index if the process has one.
Place(p, ask) ==
    /\ At(p, "idle")
    /\ LET asked == [server[p] EXCEPT !.ask = ask, !.answer = Nothing]
       IN  Become(p, IF Resolves(ask) THEN [asked EXCEPT !.answer = {ask}]
                     ELSE IF asked.index # Nothing THEN [asked EXCEPT !.at = "look"]
                     ELSE [asked EXCEPT !.at = "load", !.fresh = TRUE])
    /\ UNCHANGED <<Directories, cacheFile>>

\* load_symbol_index_cache: taken if the directories are what they were.
LoadCache(p) ==
    /\ At(p, "load")
    /\ IF cacheFile # Nothing /\ SamePrint(cacheFile.print, Probed, baseTime)
       THEN Become(p, [server[p] EXCEPT !.at = "look", !.index = cacheFile.libs])
       ELSE Become(p, [at |-> "list", index |-> Nothing, fresh |-> server[p].fresh, ask |-> server[p].ask,
                       answer |-> Nothing, probed |-> Probed])
    /\ UNCHANGED <<Directories, cacheFile>>

\* scan_libraries_with_symbols lists the directory after it has probed it,
ListDirectory(p) ==
    /\ At(p, "list")
    /\ Become(p, [at |-> "stamp", index |-> Nothing, fresh |-> server[p].fresh, ask |-> server[p].ask,
                  answer |-> Nothing, probed |-> server[p].probed, todo |-> Installed])
    /\ UNCHANGED <<Directories, cacheFile>>

\* takes its time,
Stamp(p) ==
    /\ At(p, "stamp")
    /\ Become(p, [at |-> "scan", index |-> [l \in {} |-> {}], fresh |-> server[p].fresh, ask |-> server[p].ask,
                  answer |-> Nothing, todo |-> server[p].todo,
                  print |-> [base |-> baseTime, count |-> server[p].probed.count, children |-> server[p].probed.children]])
    /\ UNCHANGED <<Directories, cacheFile>>

\* and reads the libraries in any order; one that is gone is empty.
ReadLibrary(p) ==
    /\ At(p, "scan")
    /\ \E l \in server[p].todo :
         LET syms == IF l \in Installed THEN shelves[l].syms ELSE {}
             libs == server[p].index
         IN  Become(p, [server[p] EXCEPT !.todo = @ \ {l},
                                         !.index = [k \in DOMAIN libs \cup {l} |-> IF k = l THEN syms ELSE libs[k]]])
    /\ UNCHANGED <<Directories, cacheFile>>

\* write_symbol_index_cache renames a file of its own over the old one, or fails.
SaveCache(p) ==
    /\ At(p, "scan")
    /\ server[p].todo = {}
    /\ \/ cacheFile' = [print |-> server[p].print, libs |-> server[p].index]
       \/ UNCHANGED cacheFile
    /\ Become(p, [AtRest(server[p].index, server[p].fresh) EXCEPT !.at = "look", !.ask = server[p].ask])
    /\ UNCHANGED Directories

\* The second ensure_lib_symbol: placed under the canonical id, or refused.
Look(p) ==
    /\ At(p, "look")
    /\ Become(p, [server[p] EXCEPT !.at = "idle", !.answer = {id \in Canonical(server[p].index, server[p].ask) : Resolves(id)}])
    /\ UNCHANGED <<Directories, cacheFile>>

\* A process ends, its call cut off and its index with it, and a new one starts.
Restart(p) ==
    /\ server[p] # AtRest(Nothing, TRUE)
    /\ Become(p, AtRest(Nothing, TRUE))
    /\ UNCHANGED <<Directories, cacheFile>>

-----------------------------------------------------------------------------
(* The user's installation. *)

Changed ==
    /\ now < MaxChanges
    /\ now' = now + 1
    /\ server' = [p \in Processes |-> [server[p] EXCEPT !.fresh = FALSE, !.answer = Nothing]]
    /\ UNCHANGED cacheFile

\* A symbol's file in a library moves the library's time and not the directory's.
ChangeLibrary(l) ==
    /\ l \in Installed
    /\ Changed
    /\ \E s \in Shelf[l] :
         shelves' = [shelves EXCEPT ![l] = [syms |-> IF s \in @.syms THEN @.syms \ {s} ELSE @.syms \cup {s}, mtime |-> now']]
    /\ UNCHANGED baseTime

\* A library comes with all its symbols.
InstallLibrary(l) ==
    /\ l \notin Installed
    /\ Changed
    /\ shelves' = [shelves EXCEPT ![l] = [syms |-> Shelf[l], mtime |-> now']]
    /\ baseTime' = now'

RemoveLibrary(l) ==
    /\ l \in Installed
    /\ Changed
    /\ shelves' = [shelves EXCEPT ![l] = NotInstalled]
    /\ baseTime' = now'

IndexNext ==
    \/ \E p \in Processes :
         \/ \E ask \in Asks : Place(p, ask)
         \/ LoadCache(p) \/ ListDirectory(p) \/ Stamp(p) \/ ReadLibrary(p) \/ SaveCache(p) \/ Look(p) \/ Restart(p)
    \/ \E l \in Libraries : ChangeLibrary(l) \/ InstallLibrary(l) \/ RemoveLibrary(l)

IndexSpec == IndexInit /\ [][IndexNext]_indexVars

-----------------------------------------------------------------------------
\* An id that does not resolve is placed under another one exactly if the installed
\* libraries admit that one and no other, and is refused otherwise: whichever process
\* made the index, whatever it raced with, and however many fingerprints ago.  Not so
\* once the installation changes under the process that has the index in memory.
RewritesAreSole ==
    \A p \in Processes : server[p].answer # Nothing /\ server[p].fresh =>
        server[p].answer = IF Resolves(server[p].ask) THEN {server[p].ask} ELSE Canonical(Listing, server[p].ask)

\* The same of every index, which is what canonical_lib_id says of itself: a process
\* never looks at the directories again.
RewritesStaySole ==
    \A p \in Processes : server[p].answer \notin {Nothing, {}, {server[p].ask}} =>
        server[p].answer = Canonical(Listing, server[p].ask)
=============================================================================
