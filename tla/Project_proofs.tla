---------------------------- MODULE Project_proofs ----------------------------
(***************************************************************************)
(* Proofs about what lies around a project.                                *)
(*                                                                         *)
(* The parts database, for any number of searches, any published libraries *)
(* and archives, and any limits: an answer is a recent one, however many   *)
(* downloads go on at once; and the database is a whole one until a        *)
(* download meets another, or what a client that has gone left running     *)
(* (CatalogueHolds).  The first rests on which file  *)
(* has which name: what is written without being looked at is never the    *)
(* file that bears the database's name.  The second on what is in the      *)
(* temporaries, at each step of a download.                                *)
(*                                                                         *)
(* The schematic viewer, for any sheets, directories and bounds: whatever  *)
(* is saved, opened and selected, in whatever order, a viewer at rest      *)
(* shows what is saved (ViewerHolds).                                      *)
(***************************************************************************)
EXTENDS PartsCatalogue, SchematicViewer, TLAPS

-----------------------------------------------------------------------------
(* The parts database.                                                       *)

Names == {"db", "download", "inflating"}

\* A sequence of anything.
Numbered(s) == s \in Seq({s[i] : i \in DOMAIN s})

\* No file has two names.
NamesOK ==
    /\ Numbered(files)
    /\ names \in [Names -> 1..Len(files) \cup {NoDatabase}]
    /\ \A m, n \in Names : names[m] = names[n] /\ names[m] # NoDatabase => m = n

Going(at, c, next, attempt, file) == [at |-> at, c |-> c, next |-> next, attempt |-> attempt, file |-> file]

\* An archive is written to a file that will never be the database.
LoaderOK(l) ==
    \/ l = IdleLoader
    \/ /\ l = Going(l.at, l.c, l.next, l.attempt, l.file)
       /\ l.at \in {"manifest", "chunks", "copy", "validate", "rename"}
       /\ l.c \in Catalogues
       /\ l.at \in {"manifest", "chunks"} => l.next \in Nat \ {0}
       /\ l.at \in {"chunks", "copy"} => l.file \in 1..Len(files)
       /\ l.at = "chunks" => l.file \notin {names["db"], names["inflating"]}

FilesInv ==
    /\ NamesOK
    /\ DOMAIN loader = Downloads
    /\ \A d \in Downloads : LoaderOK(loader[d])

\* What the database was in the course of every tick, so far.
SeenOK ==
    /\ ticks \in Nat
    /\ Numbered(seen) /\ Len(seen) = ticks + 1
    /\ Stored \in seen[ticks + 1]

\* x was in the database at tick t.
SeenAt(x, t) == t \in 0..ticks /\ x \in seen[t + 1]

KeptOK ==
    cache # NoDatabase =>
      /\ cache.at \in 0..ticks
      /\ \E t \in 0..ticks : t >= cache.at - Longest /\ SeenAt(cache.says, t)

SearcherOK(s) ==
    \/ s = IdleSearcher
    \/ /\ s.at = "open" /\ s = [at |-> "open", since |-> s.since]
       /\ s.since \in 0..ticks /\ ticks - s.since <= Longest
    \/ /\ s.at = "read" /\ s = [at |-> "read", says |-> s.says, since |-> s.since]
       /\ s.since \in 0..ticks /\ ticks - s.since <= Longest
       /\ \E t \in 0..ticks : t >= s.since /\ SeenAt(s.says, t)
    \/ /\ s.at = "answered" /\ s = [at |-> "answered", says |-> s.says, since |-> s.since]
       /\ s.since \in 0..ticks
       /\ \E t \in 0..ticks : t > s.since - Ttl - Longest /\ SeenAt(s.says, t)

SearchInv ==
    /\ SeenOK
    /\ KeptOK
    /\ DOMAIN searcher = Searchers
    /\ \A s \in Searchers : SearcherOK(searcher[s])

\* The first n chunks of the archive of c, and what is in the temporaries of a
\* download that nobody interferes with.
Part(c, n) == [i \in 1..n |-> <<c, i>>]

TemporariesOK(l) ==
    /\ l.at = "manifest" => l.next = 1
    /\ l.at = "chunks" => names["download"] = l.file /\ l.next <= Chunks[l.c] + 1 /\ files[l.file] = Part(l.c, l.next - 1)
    /\ l.at = "copy" => names["inflating"] = l.file /\ l.next = l.c
    /\ l.at = "validate" => names["inflating"] # NoDatabase /\ files[names["inflating"]] = Database(l.c, NoDatabase)
    /\ l.at = "rename" => names["inflating"] # NoDatabase /\ files[names["inflating"]] = Database(l.c, l.c)

DatabaseOK == names["db"] # NoDatabase => \E c \in Catalogues : files[names["db"]] = Database(c, c)

\* At most one download is at work; d is, if any is.
Alone == \A d, e \in Downloads : loader[d].at # "idle" /\ loader[e].at # "idle" => d = e
Only(d) == \A e \in Downloads : loader[e].at # "idle" => e = d

WholeFiles ==
    /\ Alone
    /\ \A d \in Downloads : TemporariesOK(loader[d])
    /\ DatabaseOK

WholeInv == met = {} => WholeFiles

-----------------------------------------------------------------------------
(* Sequences of anything, and records under change.                          *)

LEMMA NumberedDomain ==
    ASSUME NEW s, Numbered(s)
    PROVE  Len(s) \in Nat /\ DOMAIN s = 1..Len(s)
  BY DEF Numbered

LEMMA NumberedFunction ==
    ASSUME NEW t, NEW n \in Nat, DOMAIN t = 1..n, t = [i \in 1..n |-> t[i]]
    PROVE  Numbered(t) /\ Len(t) = n
  <1> DEFINE T == {t[i] : i \in DOMAIN t}
  <1>1. t \in [1..n -> T]
    OBVIOUS
  <1> HIDE DEF T
  <1>2. t \in Seq(T) /\ Len(t) = n
    BY <1>1
  <1> QED BY <1>2 DEF Numbered, T

LEMMA NumberedAppend ==
    ASSUME NEW s, Numbered(s), NEW x
    PROVE  /\ Numbered(Append(s, x))
           /\ Len(Append(s, x)) = Len(s) + 1
           /\ \A i \in 1..Len(s) : Append(s, x)[i] = s[i]
           /\ Append(s, x)[Len(s) + 1] = x
  <1> DEFINE S == {s[i] : i \in DOMAIN s}
             t == Append(s, x)
  <1>1. s \in Seq(S)
    BY DEF Numbered
  <1> HIDE DEF S
  <1>2. s \in Seq(S \cup {x}) /\ x \in S \cup {x}
    BY <1>1
  <1>3. /\ t \in Seq(S \cup {x}) /\ Len(t) = Len(s) + 1
        /\ \A i \in 1..Len(s) : t[i] = s[i]
        /\ t[Len(s) + 1] = x
    BY <1>2
  <1> HIDE DEF t
  <1>4. DOMAIN t = 1..Len(t) /\ Len(t) \in Nat /\ t = [i \in 1..Len(t) |-> t[i]]
    BY <1>3
  <1>5. Numbered(t)
    BY <1>4, NumberedFunction
  <1> QED BY <1>3, <1>5 DEF t

Replaced(s, k, x) == [s EXCEPT ![k] = x]

LEMMA NumberedReplaced ==
    ASSUME NEW s, Numbered(s), NEW k \in 1..Len(s), NEW x
    PROVE  /\ Numbered(Replaced(s, k, x))
           /\ Len(Replaced(s, k, x)) = Len(s)
           /\ \A i \in 1..Len(s) : Replaced(s, k, x)[i] = IF i = k THEN x ELSE s[i]
  <1> DEFINE t == Replaced(s, k, x)
  <1>1. Len(s) \in Nat /\ DOMAIN s = 1..Len(s)
    BY NumberedDomain
  <1>2. t = [i \in 1..Len(s) |-> IF i = k THEN x ELSE s[i]]
    BY <1>1 DEF Replaced
  <1> HIDE DEF t
  <1>3. DOMAIN t = 1..Len(s) /\ t = [i \in 1..Len(s) |-> t[i]] /\ \A i \in 1..Len(s) : t[i] = IF i = k THEN x ELSE s[i]
    BY <1>2
  <1>4. Numbered(t) /\ Len(t) = Len(s)
    BY <1>1, <1>3, NumberedFunction
  <1> QED BY <1>3, <1>4 DEF t

LEMMA GoingFields ==
    ASSUME NEW a, NEW c, NEW n, NEW m, NEW f
    PROVE  LET l == Going(a, c, n, m, f)
           IN  /\ l.at = a /\ l.c = c /\ l.next = n /\ l.attempt = m /\ l.file = f
               /\ \A x : [l EXCEPT !.at = x] = Going(x, c, n, m, f)
               /\ \A x : [l EXCEPT !.next = x] = Going(a, c, x, m, f)
               /\ \A x : [l EXCEPT !.attempt = x] = Going(a, c, n, x, f)
               /\ \A x : [l EXCEPT !.file = x] = Going(a, c, n, m, x)
  BY DEF Going

\* A download on its way, as the record that it is.
LEMMA OnItsWay ==
    ASSUME NEW d \in Downloads, FilesInv, loader[d].at # "idle"
    PROVE  /\ loader[d] = Going(loader[d].at, loader[d].c, loader[d].next, loader[d].attempt, loader[d].file)
           /\ loader[d] # IdleLoader
           /\ loader[d].c \in Catalogues
  BY DEF FilesInv, LoaderOK, IdleLoader

-----------------------------------------------------------------------------
(* What the steps do to names and files.                                     *)

LEMMA CreatedFile ==
    ASSUME NamesOK, NEW name \in {"download", "inflating"}, Created(name), NEW k, k = Opened(name)
    PROVE  /\ NamesOK'
           /\ k \in 1..Len(files') /\ k \in Nat /\ Len(files') \in Nat /\ Len(files') >= Len(files)
           /\ names'[name] = k /\ files'[k] = <<>>
           /\ k \in 1..Len(files) => k = names[name]
           /\ \A n \in Names \ {name} : names'[n] = names[n] /\ names[n] # k
           /\ \A i \in 1..Len(files) : i # k => files'[i] = files[i]
           /\ Stored' = Stored
  <1>1. Numbered(files) /\ Len(files) \in Nat /\ name \in Names /\ "db" \in Names /\ name # "db"
    BY NumberedDomain DEF NamesOK, Names
  <1>2. CASE names[name] = NoDatabase
    <2>1. k = Len(files) + 1 /\ names' = [names EXCEPT ![name] = k] /\ files' = Append(files, <<>>)
      BY <1>2 DEF Created, Opened
    <2>2. /\ Numbered(files') /\ Len(files') = Len(files) + 1
          /\ \A i \in 1..Len(files) : files'[i] = files[i]
          /\ files'[k] = <<>>
      BY <1>1, <2>1, NumberedAppend
    <2>3. k \in Nat /\ k \notin 1..Len(files) /\ k \in 1..Len(files') /\ 1..Len(files) \subseteq 1..Len(files')
      BY <1>1, <2>1, <2>2
    <2>4. \A n \in Names : names[n] # k
      BY <2>3, CatalogueAssumption DEF NamesOK
    <2>5. names' \in [Names -> 1..Len(files') \cup {NoDatabase}]
      BY <1>1, <2>1, <2>3 DEF NamesOK
    <2>6. names'[name] = k /\ \A n \in Names \ {name} : names'[n] = names[n]
      BY <1>1, <2>1 DEF NamesOK
    <2>7. NamesOK'
      BY <2>2, <2>4, <2>5, <2>6 DEF NamesOK
    <2>8. Stored' = Stored
      BY <1>1, <2>2, <2>6 DEF Stored, NamesOK
    <2> QED BY <1>1, <2>2, <2>3, <2>4, <2>6, <2>7, <2>8
  <1>3. CASE names[name] # NoDatabase
    <2>1. k = names[name] /\ UNCHANGED names /\ files' = Replaced(files, k, <<>>)
      BY <1>3 DEF Created, Opened, Replaced
    <2>2. k \in 1..Len(files)
      BY <1>1, <1>3, <2>1 DEF NamesOK
    <2>3. /\ Numbered(files') /\ Len(files') = Len(files)
          /\ \A i \in 1..Len(files) : files'[i] = IF i = k THEN <<>> ELSE files[i]
      BY <1>1, <2>1, <2>2, NumberedReplaced
    <2>4. \A n \in Names \ {name} : names[n] # k
      BY <1>1, <1>3, <2>1 DEF NamesOK
    <2>5. NamesOK'
      BY <2>1, <2>3 DEF NamesOK
    <2>6. Stored' = Stored
      BY <1>1, <2>1, <2>3, <2>4 DEF Stored, NamesOK
    <2> QED BY <1>1, <2>1, <2>2, <2>3, <2>4, <2>5, <2>6
  <1> QED BY <1>2, <1>3

\* Temporaries lose their names, or do not.
Shed == {names, Discarded, [names EXCEPT !["download"] = NoDatabase]}

LEMMA ShedFiles ==
    ASSUME NamesOK, names' \in Shed, UNCHANGED files
    PROVE  /\ NamesOK' /\ Stored' = Stored
           /\ names'["db"] = names["db"] /\ names'["inflating"] \in {names["inflating"], NoDatabase}
  <1>1. names'["db"] = names["db"] /\ \A n \in Names : names'[n] \in {names[n], NoDatabase}
    BY DEF Shed, Discarded, NamesOK, Names
  <1>2. names' \in [Names -> 1..Len(files) \cup {NoDatabase}]
    BY DEF Shed, Discarded, NamesOK
  <1> QED BY <1>1, <1>2 DEF NamesOK, Stored, Names

LEMMA WrittenFile ==
    ASSUME NamesOK, NEW k \in 1..Len(files), NEW x, files' = Replaced(files, k, x), UNCHANGED names
    PROVE  /\ NamesOK' /\ Len(files') = Len(files)
           /\ files'[k] = x
           /\ \A i \in 1..Len(files) : i # k => files'[i] = files[i]
           /\ k # names["db"] => Stored' = Stored
  <1>1. /\ Numbered(files') /\ Len(files') = Len(files)
        /\ \A i \in 1..Len(files) : files'[i] = IF i = k THEN x ELSE files[i]
    BY NumberedReplaced DEF NamesOK
  <1>2. "db" \in Names
    BY DEF Names
  <1> QED BY <1>1, <1>2 DEF NamesOK, Stored

LEMMA RenamedFile ==
    ASSUME NamesOK, NEW d, UNCHANGED files, names' = Renamed(d)
    PROVE  /\ NamesOK'
           /\ names'["db"] = names["inflating"] /\ names'["inflating"] = NoDatabase
  <1>1. PICK x : x = IF d \in strays THEN names["download"] ELSE NoDatabase
    OBVIOUS
  <1>2. names \in [Names -> 1..Len(files) \cup {NoDatabase}] /\ Names = {"db", "download", "inflating"}
    BY DEF NamesOK, Names
  <1>3. names' = [[[names EXCEPT !["db"] = names["inflating"]] EXCEPT !["inflating"] = NoDatabase] EXCEPT !["download"] = x]
    BY <1>1, <1>2 DEF Renamed
  <1>4. x \in {names["download"], NoDatabase}
    BY <1>1
  <1>5. names' \in [Names -> 1..Len(files) \cup {NoDatabase}]
    BY <1>2, <1>3, <1>4
  <1>6. names'["db"] = names["inflating"] /\ names'["inflating"] = NoDatabase /\ names'["download"] = x
    BY <1>2, <1>3
  <1> QED BY <1>2, <1>4, <1>5, <1>6 DEF NamesOK

\* A step of download d, which goes on as l.
LEMMA FilesStep ==
    ASSUME FilesInv, NEW d \in Downloads, NEW l, loader' = [loader EXCEPT ![d] = l],
           NamesOK', Len(files') >= Len(files), LoaderOK(l)',
           \A e \in Downloads \ {d} : loader[e].at = "chunks" => loader[e].file \notin {names'["db"], names'["inflating"]}
    PROVE  FilesInv'
  <1>1. Len(files) \in Nat /\ Len(files') \in Nat
    BY NumberedDomain DEF FilesInv, NamesOK
  <1>2. 1..Len(files) \subseteq 1..Len(files')
    BY <1>1
  <1>3. DOMAIN loader' = Downloads /\ loader'[d] = l /\ \A e \in Downloads \ {d} : loader'[e] = loader[e]
    BY DEF FilesInv
  <1>4. ASSUME NEW e \in Downloads
        PROVE  LoaderOK(loader[e])'
    <2>1. CASE e = d
      BY <1>3, <2>1
    <2>2. CASE e # d
      <3>1. PICK m : m = loader[e]
        OBVIOUS
      <3>2. LoaderOK(m)
        BY <3>1 DEF FilesInv
      <3>3. LoaderOK(m)'
        BY <1>2, <2>2, <3>1, <3>2 DEF LoaderOK
      <3> QED BY <1>3, <2>2, <3>1, <3>3
    <2> QED BY <2>1, <2>2
  <1> QED BY <1>3, <1>4 DEF FilesInv

-----------------------------------------------------------------------------
(* The steps of a download, and the files.                                   *)

LEMMA RestingLoader == LoaderOK(IdleLoader) /\ LoaderOK(IdleLoader)' /\ IdleLoader.at = "idle"
  BY DEF LoaderOK, IdleLoader

\* A step that at most takes names away, and leaves the files alone.
LEMMA NamesOnly ==
    ASSUME FilesInv, NEW d \in Downloads, NEW l, loader' = [loader EXCEPT ![d] = l], LoaderOK(l)',
           UNCHANGED files, names' \in Shed
    PROVE  FilesInv' /\ Stored' = Stored
  <1>1. NamesOK /\ NoDatabase \notin Nat /\ Len(files') >= Len(files)
    BY CatalogueAssumption, NumberedDomain DEF FilesInv, NamesOK
  <1>2. NamesOK' /\ Stored' = Stored /\ names'["db"] = names["db"] /\ names'["inflating"] \in {names["inflating"], NoDatabase}
    BY <1>1, ShedFiles
  <1>3. \A e \in Downloads \ {d} : loader[e].at = "chunks" => loader[e].file \notin {names'["db"], names'["inflating"]}
    BY <1>1, <1>2 DEF FilesInv, LoaderOK, IdleLoader
  <1> QED BY <1>1, <1>2, <1>3, FilesStep

\* A call goes on as l, if there is a call.
Continues(d, l) == \E o \in {l, IdleLoader} : loader' = [loader EXCEPT ![d] = o]

LEMMA ProceedsAs ==
    ASSUME NEW d, NEW l, Proceeds(d, l)
    PROVE  Continues(d, l)
  BY DEF Proceeds, Continues

LEMMA ThwartedEnds ==
    ASSUME NEW d, Thwarted(d)
    PROVE  loader' = [loader EXCEPT ![d] = IdleLoader] /\ names' \in Shed
  BY DEF Thwarted, Discards, Proceeds, Shed

\* A step that opens the temporary of a name.
LEMMA OpensFile ==
    ASSUME FilesInv, NEW d \in Downloads, NEW l, loader' = [loader EXCEPT ![d] = l],
           NEW name \in {"download", "inflating"}, Created(name), LoaderOK(l)'
    PROVE  FilesInv' /\ Stored' = Stored
  <1>1. PICK k : k = Opened(name)
    OBVIOUS
  <1>2. /\ NamesOK' /\ Stored' = Stored /\ Len(files') >= Len(files)
        /\ names'[name] = k /\ k \in Nat /\ (k \in 1..Len(files) => k = names[name])
        /\ \A n \in Names \ {name} : names'[n] = names[n]
    BY <1>1, CreatedFile DEF FilesInv
  <1>3. ASSUME NEW e \in Downloads, loader[e].at = "chunks"
        PROVE  loader[e].file \notin {names'["db"], names'["inflating"]}
    <2>1. loader[e].file \in 1..Len(files) /\ loader[e].file \notin {names["db"], names["inflating"]}
      BY <1>3 DEF FilesInv, LoaderOK, IdleLoader
    <2>2. names'["db"] = names["db"]
      BY <1>2 DEF Names
    <2>3. names'["inflating"] = names["inflating"] \/ (names'["inflating"] = k /\ name = "inflating")
      BY <1>2 DEF Names
    <2> QED BY <1>2, <2>1, <2>2, <2>3
  <1> QED BY <1>2, <1>3, FilesStep

LEMMA DownloadFiles ==
    ASSUME FilesInv, NEW d \in Downloads, NEW c \in Catalogues, NEW force, Download(d, c, force)
    PROVE  FilesInv' /\ Stored' = Stored
  <1> DEFINE l == [at |-> "manifest", c |-> c, next |-> 1, attempt |-> 1, file |-> 0]
  <1>1. l = Going("manifest", c, 1, 1, 0)
    BY DEF Going
  <1>2. loader' = [loader EXCEPT ![d] = l] /\ UNCHANGED files /\ names' \in Shed
    BY DEF Download, Shed
  <1>3. LoaderOK(l)'
    BY <1>1, GoingFields DEF LoaderOK
  <1> HIDE DEF l
  <1> QED BY <1>2, <1>3, NamesOnly

\* What becomes of a call that opens its archive, and of one that fetches a chunk.
LEMMA Opening ==
    ASSUME NEW d, NEW c, NEW n, NEW m, NEW f, NEW k, k = Opened("download"),
           loader[d] = Going("manifest", c, n, m, f), OpenArchive(d)
    PROVE  Continues(d, Going("chunks", c, n, m, k))
  <1>1. PICK l : l = [[loader[d] EXCEPT !.at = "chunks"] EXCEPT !.file = k]
    OBVIOUS
  <1>2. Proceeds(d, l)
    BY <1>1 DEF OpenArchive, Proceeds
  <1>3. [loader[d] EXCEPT !.at = "chunks"] = Going("chunks", c, n, m, f)
    BY GoingFields
  <1>4. [Going("chunks", c, n, m, f) EXCEPT !.file = k] = Going("chunks", c, n, m, k)
    BY GoingFields
  <1> QED BY <1>1, <1>2, <1>3, <1>4, ProceedsAs

LEMMA Fetching ==
    ASSUME NEW d, NEW c, NEW n, NEW m, NEW f, loader[d] = Going("chunks", c, n, m, f), FetchChunk(d)
    PROVE  Continues(d, Going("chunks", c, n + 1, 1, f))
  <1>1. PICK l : l = [[loader[d] EXCEPT !.next = loader[d].next + 1] EXCEPT !.attempt = 1]
    OBVIOUS
  <1>2. Proceeds(d, l)
    BY <1>1 DEF FetchChunk, Proceeds
  <1>3. loader[d].next = n
    BY GoingFields
  <1>4. [loader[d] EXCEPT !.next = n + 1] = Going("chunks", c, n + 1, m, f)
    BY GoingFields
  <1>5. [Going("chunks", c, n + 1, m, f) EXCEPT !.attempt = 1] = Going("chunks", c, n + 1, 1, f)
    BY GoingFields
  <1>6. l = Going("chunks", c, n + 1, 1, f)
    BY <1>1, <1>3, <1>4, <1>5
  <1>7. Continues(d, l)
    BY <1>2, ProceedsAs
  <1> QED BY <1>6, <1>7

LEMMA OpenArchiveFiles ==
    ASSUME FilesInv, NEW d \in Downloads, OpenArchive(d)
    PROVE  FilesInv' /\ Stored' = Stored
  <1>1. loader[d].at = "manifest" /\ Created("download")
    BY DEF OpenArchive
  <1>2. PICK c, n, m, f : c \in Catalogues /\ loader[d] = Going("manifest", c, n, m, f)
    BY <1>1, OnItsWay
  <1>3. n \in Nat \ {0}
    BY <1>2, GoingFields DEF FilesInv, LoaderOK, IdleLoader, Going
  <1>4. PICK k : k = Opened("download")
    OBVIOUS
  <1> DEFINE l == Going("chunks", c, n, m, k)
  <1>5. Continues(d, l)
    BY <1>2, <1>4, Opening
  <1>6. k \in 1..Len(files') /\ k \notin {names'["db"], names'["inflating"]}
    BY <1>1, <1>4, CreatedFile DEF FilesInv, Names
  <1>7. LoaderOK(l)'
    BY <1>2, <1>3, <1>6, GoingFields DEF LoaderOK
  <1> HIDE DEF l
  <1>8. PICK o \in {l, IdleLoader} : loader' = [loader EXCEPT ![d] = o]
    BY <1>5 DEF Continues
  <1> QED BY <1>1, <1>7, <1>8, RestingLoader, OpensFile

LEMMA FetchChunkFiles ==
    ASSUME FilesInv, NEW d \in Downloads, FetchChunk(d)
    PROVE  FilesInv' /\ Stored' = Stored
  <1>1. loader[d].at = "chunks"
    BY DEF FetchChunk
  <1>2. PICK c, n, m, f : c \in Catalogues /\ loader[d] = Going("chunks", c, n, m, f)
    BY <1>1, OnItsWay
  <1>3. n \in Nat \ {0} /\ f \in 1..Len(files) /\ f \notin {names["db"], names["inflating"]}
    BY <1>2, GoingFields DEF FilesInv, LoaderOK, IdleLoader, Going
  <1>4. loader[d].next = n /\ loader[d].file = f /\ loader[d].c = c
    BY <1>2, GoingFields
  <1> DEFINE l == Going("chunks", c, n + 1, 1, f)
  <1>5. Continues(d, l)
    BY <1>2, Fetching
  <1>6. PICK x : x = Written(files[f], n, <<c, n>>)
    OBVIOUS
  <1>7. files' = Replaced(files, f, x) /\ UNCHANGED names
    BY <1>4, <1>6 DEF FetchChunk, Replaced
  <1>8. NamesOK' /\ Len(files') = Len(files) /\ Stored' = Stored
    BY <1>3, <1>7, WrittenFile DEF FilesInv
  <1>9. LoaderOK(l)'
    BY <1>2, <1>3, <1>7, <1>8, GoingFields DEF LoaderOK
  <1>10. \A e \in Downloads \ {d} : loader[e].at = "chunks" => loader[e].file \notin {names'["db"], names'["inflating"]}
    BY <1>7 DEF FilesInv, LoaderOK, IdleLoader
  <1>11. Len(files') >= Len(files)
    BY <1>8, NumberedDomain DEF FilesInv, NamesOK
  <1> HIDE DEF l
  <1>12. PICK o \in {l, IdleLoader} : loader' = [loader EXCEPT ![d] = o]
    BY <1>5 DEF Continues
  <1> QED BY <1>8, <1>9, <1>10, <1>11, <1>12, RestingLoader, FilesStep

LEMMA RetryFetchFiles ==
    ASSUME FilesInv, NEW d \in Downloads, RetryFetch(d)
    PROVE  FilesInv' /\ Stored' = Stored
  <1>1. loader[d].at \in {"manifest", "chunks"}
    BY DEF RetryFetch
  <1>2. PICK a, c, n, m, f :
           a \in {"manifest", "chunks"} /\ c \in Catalogues /\ loader[d] = Going(a, c, n, m, f)
    BY <1>1, OnItsWay
  <1>3. /\ n \in Nat \ {0}
        /\ a = "chunks" => f \in 1..Len(files) /\ f \notin {names["db"], names["inflating"]}
    BY <1>2, GoingFields DEF FilesInv, LoaderOK, IdleLoader, Going
  <1> DEFINE l == Going(a, c, n, m + 1, f)
  <1>4. loader' = [loader EXCEPT ![d] = [loader[d] EXCEPT !.attempt = loader[d].attempt + 1]]
    BY DEF RetryFetch, FilesInv
  <1>5. loader[d].attempt = m /\ [loader[d] EXCEPT !.attempt = m + 1] = l
    BY <1>2, GoingFields
  <1>6. loader' = [loader EXCEPT ![d] = l]
    BY <1>4, <1>5
  <1>7. UNCHANGED files /\ UNCHANGED names /\ names' \in Shed
    BY DEF RetryFetch, Shed
  <1>8. LoaderOK(l)'
    BY <1>2, <1>3, <1>7, GoingFields DEF LoaderOK
  <1> HIDE DEF l
  <1> QED BY <1>6, <1>7, <1>8, NamesOnly

LEMMA Ends ==
    ASSUME NEW d, GiveUp(d) \/ BreakOff(d)
    PROVE  loader' = [loader EXCEPT ![d] = IdleLoader] /\ UNCHANGED files /\ names' \in Shed
  <1>1. CASE BreakOff(d)
    BY <1>1 DEF BreakOff, Shed
  <1>2. CASE GiveUp(d) /\ loader[d].at = "manifest"
    BY <1>2 DEF GiveUp, Proceeds, Shed
  <1>3. CASE GiveUp(d) /\ loader[d].at # "manifest"
    BY <1>3, ThwartedEnds DEF GiveUp
  <1> QED BY <1>1, <1>2, <1>3

LEMMA EndFiles ==
    ASSUME FilesInv, NEW d \in Downloads, GiveUp(d) \/ BreakOff(d)
    PROVE  FilesInv' /\ Stored' = Stored
  BY Ends, RestingLoader, NamesOnly

\* The archive that Inflate finds under its name.
Archive == IF names["download"] = NoDatabase THEN <<>> ELSE files[names["download"]]

LEMMA Inflates ==
    ASSUME FilesInv, NEW d \in Downloads, Inflate(d)
    PROVE  \/ \E c, c1, n, m, f, k :
                /\ c \in Catalogues /\ c1 \in Catalogues
                /\ loader[d] = Going("chunks", c, n, m, f)
                /\ Archive = Whole(c1) /\ k = Opened("inflating") /\ Created("inflating")
                /\ loader' = [loader EXCEPT ![d] = Going("copy", c, c1, m, k)]
           \/ loader' = [loader EXCEPT ![d] = IdleLoader] /\ names' \in Shed /\ UNCHANGED files
  <1>1. loader[d].at = "chunks"
    BY DEF Inflate
  <1>2. PICK c, n, m, f : c \in Catalogues /\ loader[d] = Going("chunks", c, n, m, f)
    BY <1>1, OnItsWay
  <1>3. PICK k : k = Opened("inflating")
    OBVIOUS
  <1>4. CASE /\ Created("inflating")
             /\ \E c1 \in Catalogues :
                  /\ Archive = Whole(c1)
                  /\ loader' = [loader EXCEPT ![d].at = "copy", ![d].file = Opened("inflating"), ![d].next = c1]
    <2>1. PICK c1 \in Catalogues :
             /\ Archive = Whole(c1)
             /\ loader' = [loader EXCEPT ![d].at = "copy", ![d].file = Opened("inflating"), ![d].next = c1]
      BY <1>4
    <2>2. loader' = [loader EXCEPT ![d] = [[[loader[d] EXCEPT !.at = "copy"] EXCEPT !.file = k] EXCEPT !.next = c1]]
      BY <1>3, <2>1 DEF FilesInv
    <2>3. [loader[d] EXCEPT !.at = "copy"] = Going("copy", c, n, m, f)
      BY <1>2, GoingFields
    <2>4. [Going("copy", c, n, m, f) EXCEPT !.file = k] = Going("copy", c, n, m, k)
      BY GoingFields
    <2>5. [Going("copy", c, n, m, k) EXCEPT !.next = c1] = Going("copy", c, c1, m, k)
      BY GoingFields
    <2>6. loader' = [loader EXCEPT ![d] = Going("copy", c, c1, m, k)]
      BY <2>2, <2>3, <2>4, <2>5
    <2>7. /\ c \in Catalogues /\ c1 \in Catalogues
          /\ loader[d] = Going("chunks", c, n, m, f)
          /\ Archive = Whole(c1) /\ k = Opened("inflating") /\ Created("inflating")
          /\ loader' = [loader EXCEPT ![d] = Going("copy", c, c1, m, k)]
      BY <1>2, <1>3, <1>4, <2>1, <2>6
    <2> QED BY <2>7, Zenon
  <1>5. CASE Thwarted(d) /\ UNCHANGED files
    BY <1>5, ThwartedEnds
  <1> QED BY <1>4, <1>5 DEF Inflate, Archive

LEMMA InflateFiles ==
    ASSUME FilesInv, NEW d \in Downloads, Inflate(d)
    PROVE  FilesInv' /\ Stored' = Stored
  <1>1. CASE loader' = [loader EXCEPT ![d] = IdleLoader] /\ names' \in Shed /\ UNCHANGED files
    BY <1>1, RestingLoader, NamesOnly
  <1>2. ASSUME NEW c \in Catalogues, NEW c1 \in Catalogues, NEW m, NEW k, k = Opened("inflating"), Created("inflating"),
               loader' = [loader EXCEPT ![d] = Going("copy", c, c1, m, k)]
        PROVE  FilesInv' /\ Stored' = Stored
    <2> DEFINE l == Going("copy", c, c1, m, k)
    <2>1. k \in 1..Len(files')
      BY <1>2, CreatedFile DEF FilesInv
    <2>2. LoaderOK(l)'
      BY <2>1, GoingFields DEF LoaderOK
    <2>3. loader' = [loader EXCEPT ![d] = l]
      BY <1>2
    <2>4. Created("inflating") /\ "inflating" \in {"download", "inflating"}
      BY <1>2
    <2> HIDE DEF l
    <2> QED BY <2>2, <2>3, <2>4, OpensFile
  <1> QED BY <1>1, <1>2, Inflates

\* A download that is past its archive, and goes on to a, or ends.
Onward(d, a) == [loader[d] EXCEPT !.at = a]

LEMMA GoesOn ==
    ASSUME FilesInv, NEW d \in Downloads, loader[d].at \in {"copy", "validate", "rename"},
           NEW a \in {"validate", "rename"}, NEW g, g = Onward(d, a), Continues(d, g),
           NamesOK', Len(files') >= Len(files),
           \A e \in Downloads : loader[e].at = "chunks" => loader[e].file \notin {names'["db"], names'["inflating"]}
    PROVE  FilesInv'
  <1>1. PICK a0, c, n, m, f :
           a0 \in {"copy", "validate", "rename"} /\ c \in Catalogues /\ loader[d] = Going(a0, c, n, m, f)
    BY OnItsWay
  <1>2. g = Going(a, c, n, m, f)
    BY <1>1, GoingFields DEF Onward
  <1>3. LoaderOK(g)'
    BY <1>1, <1>2, GoingFields DEF LoaderOK
  <1>4. PICK l \in {g, IdleLoader} : loader' = [loader EXCEPT ![d] = l]
    BY DEF Continues
  <1> QED BY <1>3, <1>4, RestingLoader, FilesStep

LEMMA CopyFiles ==
    ASSUME FilesInv, NEW d \in Downloads, Copy(d)
    PROVE  FilesInv'
  <1>1. loader[d].at = "copy" /\ UNCHANGED names
    BY DEF Copy
  <1>2. PICK k, x : k = loader[d].file /\ x = Database(loader[d].next, NoDatabase)
    OBVIOUS
  <1>3. k \in 1..Len(files)
    BY <1>1, <1>2 DEF FilesInv, LoaderOK, IdleLoader
  <1>4. files' = Replaced(files, k, x)
    BY <1>2 DEF Copy, Replaced
  <1>5. NamesOK' /\ Len(files') >= Len(files)
    BY <1>1, <1>3, <1>4, WrittenFile, NumberedDomain DEF FilesInv, NamesOK
  <1>6. \A e \in Downloads : loader[e].at = "chunks" => loader[e].file \notin {names'["db"], names'["inflating"]}
    BY <1>1 DEF FilesInv, LoaderOK, IdleLoader
  <1>7. PICK g : g = Onward(d, "validate") /\ Continues(d, g)
    BY DEF Copy, Goes, Onward, Continues, FilesInv
  <1> QED BY <1>1, <1>5, <1>6, <1>7, GoesOn

LEMMA ValidateFiles ==
    ASSUME FilesInv, NEW d \in Downloads, Validate(d)
    PROVE  FilesInv'
  <1> DEFINE f == names["inflating"]
  <1>1. loader[d].at = "validate"
    BY DEF Validate
  <1>2. CASE f # NoDatabase /\ IsDatabase(files[f])
    <2>1. PICK k, x : k = f /\ x = Database(files[f].parts, loader[d].c)
      OBVIOUS
    <2>2. k \in 1..Len(files)
      BY <1>2, <2>1 DEF FilesInv, NamesOK, Names
    <2>3. files' = Replaced(files, k, x) /\ UNCHANGED names /\ Proceeds(d, Onward(d, "rename"))
      BY <1>2, <2>1 DEF Validate, Replaced, Onward
    <2>6. PICK g : g = Onward(d, "rename") /\ Continues(d, g)
      BY <2>3 DEF Proceeds, Continues
    <2>4. NamesOK' /\ Len(files') >= Len(files)
      BY <2>2, <2>3, WrittenFile, NumberedDomain DEF FilesInv, NamesOK
    <2>5. \A e \in Downloads : loader[e].at = "chunks" => loader[e].file \notin {names'["db"], names'["inflating"]}
      BY <2>3 DEF FilesInv, LoaderOK, IdleLoader
    <2> QED BY <1>1, <2>4, <2>5, <2>6, GoesOn
  <1>3. CASE ~(f # NoDatabase /\ IsDatabase(files[f]))
    <2>1. loader' = [loader EXCEPT ![d] = IdleLoader] /\ names' \in Shed /\ UNCHANGED files
      BY <1>3, ThwartedEnds DEF Validate
    <2> QED BY <2>1, RestingLoader, NamesOnly
  <1> QED BY <1>2, <1>3

LEMMA RenameFiles ==
    ASSUME FilesInv, NEW d \in Downloads, Rename(d)
    PROVE  FilesInv'
  <1>1. loader' = [loader EXCEPT ![d] = IdleLoader] /\ UNCHANGED files
    BY DEF Rename, Proceeds
  <1>2. CASE UNCHANGED names
    BY <1>1, <1>2, RestingLoader, NamesOnly DEF Shed
  <1>3. CASE names' = Renamed(d)
    <2>1. NamesOK' /\ names'["db"] = names["inflating"] /\ names'["inflating"] = NoDatabase
      BY <1>1, <1>3, RenamedFile DEF FilesInv
    <2>2. \A e \in Downloads \ {d} : loader[e].at = "chunks" => loader[e].file \notin {names'["db"], names'["inflating"]}
      <3>1. ASSUME NEW e \in Downloads, loader[e].at = "chunks"
            PROVE  loader[e].file \in Nat /\ loader[e].file # names["inflating"]
        BY <3>1, NumberedDomain DEF FilesInv, NamesOK, LoaderOK, IdleLoader
      <3> QED BY <2>1, <3>1, CatalogueAssumption
    <2>3. Len(files') >= Len(files)
      BY <1>1, NumberedDomain DEF FilesInv, NamesOK
    <2> QED BY <1>1, <2>1, <2>2, <2>3, RestingLoader, FilesStep
  <1> QED BY <1>2, <1>3 DEF Rename

-----------------------------------------------------------------------------
(* Answers are recent: what a search has found was there at some tick.       *)

LEMMA FilesInitially == CatalogueInit => FilesInv
  <1> SUFFICES ASSUME CatalogueInit PROVE FilesInv
    OBVIOUS
  <1>1. Numbered(files) /\ Len(files) = 0
    <2>1. files = <<>>
      BY DEF CatalogueInit
    <2> QED BY <2>1 DEF Numbered
  <1>2. NamesOK
    BY <1>1 DEF CatalogueInit, NamesOK, Names
  <1> QED BY <1>2, RestingLoader DEF CatalogueInit, FilesInv

LEMMA SearchesInitially == CatalogueInit => SearchInv
  <1> SUFFICES ASSUME CatalogueInit PROVE SearchInv
    OBVIOUS
  <1>1. seen = <<{NoDatabase}>> /\ ticks = 0
    BY DEF CatalogueInit
  <1>2. Numbered(seen) /\ Len(seen) = 1 /\ seen[1] = {NoDatabase}
    <2>1. seen \in Seq({{NoDatabase}}) /\ Len(seen) = 1 /\ DOMAIN seen = 1..1 /\ seen[1] = {NoDatabase}
      BY <1>1
    <2> QED BY <2>1, NumberedFunction DEF Numbered
  <1>3. Stored = NoDatabase
    BY DEF CatalogueInit, Stored
  <1>4. SeenOK
    BY <1>1, <1>2, <1>3 DEF SeenOK
  <1>5. KeptOK /\ DOMAIN searcher = Searchers /\ \A s \in Searchers : SearcherOK(searcher[s])
    BY DEF CatalogueInit, KeptOK, SearcherOK
  <1> QED BY <1>4, <1>5 DEF SearchInv

\* What has been seen stays so, and what is known of searches with it.
LEMMA SearcherStays ==
    ASSUME UNCHANGED ticks, \A x, t : SeenAt(x, t) => SeenAt(x, t)', NEW s, SearcherOK(s)
    PROVE  SearcherOK(s)'
  BY DEF SearcherOK

LEMMA LoaderSearches ==
    ASSUME SearchInv, UNCHANGED searchVars, (UNCHANGED seen /\ Stored' = Stored) \/ Noted
    PROVE  SearchInv'
  <1>1. UNCHANGED <<ticks, cache, searcher>>
    BY DEF searchVars
  <1>2. ticks \in Nat /\ Numbered(seen) /\ Len(seen) = ticks + 1 /\ ticks + 1 \in 1..Len(seen)
    BY DEF SearchInv, SeenOK
  <1>3. SeenOK' /\ \A t \in 0..ticks : seen[t + 1] \subseteq seen'[t + 1]
    <2>1. CASE UNCHANGED seen /\ Stored' = Stored
      BY <1>1, <2>1 DEF SearchInv, SeenOK
    <2>2. CASE Noted
      <3>1. PICK x : x = seen[ticks + 1] \cup {Stored'}
        OBVIOUS
      <3>2. seen' = Replaced(seen, ticks + 1, x)
        BY <2>2, <3>1 DEF Noted, Replaced
      <3>3. /\ Numbered(seen') /\ Len(seen') = Len(seen)
            /\ \A i \in 1..Len(seen) : seen'[i] = IF i = ticks + 1 THEN x ELSE seen[i]
        BY <1>2, <3>2, NumberedReplaced
      <3>4. Stored' \in seen'[ticks + 1]
        BY <1>2, <3>1, <3>3
      <3>5. \A t \in 0..ticks : seen[t + 1] \subseteq seen'[t + 1]
        BY <1>2, <3>1, <3>3
      <3> QED BY <1>1, <1>2, <3>3, <3>4, <3>5 DEF SeenOK
    <2> QED BY <2>1, <2>2
  <1>4. \A x, t : SeenAt(x, t) => SeenAt(x, t)'
    BY <1>1, <1>3 DEF SeenAt
  <1>5. KeptOK'
    BY <1>1, <1>4 DEF SearchInv, KeptOK
  <1>6. ASSUME NEW s \in Searchers
        PROVE  SearcherOK(searcher[s])'
    <2>1. PICK r : r = searcher[s]
      OBVIOUS
    <2>2. SearcherOK(r)'
      BY <1>1, <1>4, <2>1, SearcherStays DEF SearchInv
    <2> QED BY <1>1, <2>1, <2>2
  <1> QED BY <1>1, <1>3, <1>5, <1>6 DEF SearchInv

\* A step of one search, which goes on as r.
LEMMA SearcherSteps ==
    ASSUME SearchInv, NEW s \in Searchers, NEW r, searcher' = [searcher EXCEPT ![s] = r], SearcherOK(r),
           UNCHANGED <<names, files, seen, ticks>>, KeptOK'
    PROVE  SearchInv'
  <1>1. Stored' = Stored
    BY DEF Stored
  <1>2. \A x, t : SeenAt(x, t) => SeenAt(x, t)'
    BY DEF SeenAt
  <1>3. SeenOK'
    BY <1>1 DEF SearchInv, SeenOK
  <1>4. DOMAIN searcher' = Searchers /\ searcher'[s] = r /\ \A q \in Searchers \ {s} : searcher'[q] = searcher[q]
    BY DEF SearchInv
  <1>5. ASSUME NEW q \in Searchers
        PROVE  SearcherOK(searcher[q])'
    <2>1. PICK m : m = searcher'[q]
      OBVIOUS
    <2>2. SearcherOK(m)
      BY <1>4, <2>1 DEF SearchInv
    <2>3. SearcherOK(m)'
      BY <1>2, <2>2, SearcherStays
    <2> QED BY <2>1, <2>3
  <1> QED BY <1>3, <1>4, <1>5 DEF SearchInv

LEMMA SearchStep ==
    ASSUME SearchInv, NEW s \in Searchers, Search(s)
    PROVE  SearchInv'
  <1> DEFINE known == [at |-> "answered", says |-> cache.says, since |-> ticks]
             asking == [at |-> "open", since |-> ticks]
  <1>1. UNCHANGED <<names, files, seen, ticks>> /\ UNCHANGED cache
    BY DEF Search
  <1>2. ticks \in Nat /\ Longest \in Nat /\ Ttl \in Nat \ {0}
    BY LimitsAssumption DEF SearchInv, SeenOK
  <1>3. KeptOK'
    BY <1>1 DEF SearchInv, KeptOK, SeenAt
  <1>4. CASE Fresh
    <2>1. PICK t \in 0..ticks : t >= cache.at - Longest /\ SeenAt(cache.says, t)
      BY <1>4 DEF SearchInv, KeptOK, Fresh
    <2>2. cache.at \in 0..ticks /\ ticks - cache.at < Ttl
      BY <1>4 DEF SearchInv, KeptOK, Fresh
    <2>3. t > ticks - Ttl - Longest
      BY <1>2, <2>1, <2>2
    <2>4. SearcherOK(known)
      BY <1>2, <2>1, <2>3 DEF SearcherOK
    <2>5. searcher' = [searcher EXCEPT ![s] = known]
      BY <1>4 DEF Search
    <2> HIDE DEF known
    <2> QED BY <1>1, <1>3, <2>4, <2>5, SearcherSteps
  <1>5. CASE ~Fresh
    <2>1. SearcherOK(asking)
      BY <1>2 DEF SearcherOK
    <2>2. searcher' = [searcher EXCEPT ![s] = asking]
      BY <1>5 DEF Search
    <2> HIDE DEF asking
    <2> QED BY <1>1, <1>3, <2>1, <2>2, SearcherSteps
  <1> QED BY <1>4, <1>5

LEMMA QueryStep ==
    ASSUME SearchInv, NEW s \in Searchers, Query(s)
    PROVE  SearchInv'
  <1> DEFINE r == [at |-> "read", says |-> Stored, since |-> searcher[s].since]
  <1>1. UNCHANGED <<names, files, seen, ticks>> /\ UNCHANGED cache
    BY DEF Query
  <1>2. ticks \in Nat /\ SeenAt(Stored, ticks)
    BY DEF SearchInv, SeenOK, SeenAt
  <1>3. KeptOK'
    BY <1>1 DEF SearchInv, KeptOK, SeenAt
  <1>4. searcher[s].since \in 0..ticks /\ ticks - searcher[s].since <= Longest
    BY DEF Query, SearchInv, SearcherOK, IdleSearcher
  <1>5. ticks \in 0..ticks /\ ticks >= searcher[s].since
    BY <1>2, <1>4
  <1>6. SearcherOK(r)
    BY <1>2, <1>4, <1>5 DEF SearcherOK
  <1>7. searcher' = [searcher EXCEPT ![s] = r]
    BY DEF Query
  <1> HIDE DEF r
  <1> QED BY <1>1, <1>3, <1>6, <1>7, SearcherSteps

LEMMA KeepStep ==
    ASSUME SearchInv, NEW s \in Searchers, Keep(s)
    PROVE  SearchInv'
  <1> DEFINE old == searcher[s]
             r == [at |-> "answered", says |-> old.says, since |-> old.since]
  <1>1. UNCHANGED <<names, files, seen, ticks>>
    BY DEF Keep
  <1>2. ticks \in Nat /\ Longest \in Nat /\ Ttl \in Nat \ {0}
    BY LimitsAssumption DEF SearchInv, SeenOK
  <1>3. /\ old = [at |-> "read", says |-> old.says, since |-> old.since]
        /\ old.since \in 0..ticks /\ ticks - old.since <= Longest
        /\ \E t \in 0..ticks : t >= old.since /\ SeenAt(old.says, t)
    BY DEF Keep, SearchInv, SearcherOK, IdleSearcher
  <1>4. PICK t \in 0..ticks : t >= old.since /\ SeenAt(old.says, t)
    BY <1>3
  <1>5. t > old.since - Ttl - Longest /\ t >= ticks - Longest
    BY <1>2, <1>3, <1>4
  <1>6. SearcherOK(r)
    BY <1>3, <1>4, <1>5 DEF SearcherOK
  <1>7. searcher' = [searcher EXCEPT ![s] = r]
    <2>1. searcher' = [searcher EXCEPT ![s] = [old EXCEPT !.at = "answered"]]
      BY DEF Keep, SearchInv
    <2>2. PICK m, b : old = [at |-> "read", says |-> m, since |-> b]
      BY <1>3
    <2>3. [old EXCEPT !.at = "answered"] = [at |-> "answered", says |-> m, since |-> b]
      BY <2>2
    <2>4. old.says = m /\ old.since = b
      BY <2>2
    <2> QED BY <2>1, <2>3, <2>4
  <1>8. KeptOK'
    <2>1. CASE cache' = [says |-> old.says, at |-> ticks]
      <3>1. PICK m : m = old.says
        OBVIOUS
      <3>2. cache'.says = m /\ cache'.at = ticks' /\ ticks' \in 0..ticks' /\ t \in 0..ticks'
        BY <1>1, <1>2, <2>1, <3>1
      <3>3. SeenAt(m, t)' /\ t >= cache'.at - Longest
        BY <1>1, <1>4, <1>5, <3>1, <3>2 DEF SeenAt
      <3> QED BY <3>2, <3>3 DEF KeptOK
    <2>2. CASE UNCHANGED cache
      BY <1>1, <2>2 DEF SearchInv, KeptOK, SeenAt
    <2> QED BY <2>1, <2>2 DEF Keep
  <1> HIDE DEF r
  <1> QED BY <1>1, <1>6, <1>7, <1>8, SearcherSteps

LEMMA AnsweredStep ==
    ASSUME SearchInv, NEW s \in Searchers, Answered(s)
    PROVE  SearchInv'
  <1>1. UNCHANGED <<names, files, seen, ticks>> /\ UNCHANGED cache /\ searcher' = [searcher EXCEPT ![s] = IdleSearcher]
    BY DEF Answered
  <1>2. KeptOK'
    BY <1>1 DEF SearchInv, KeptOK, SeenAt
  <1>3. SearcherOK(IdleSearcher)
    BY DEF SearcherOK
  <1> QED BY <1>1, <1>2, <1>3, SearcherSteps

LEMMA TickStep ==
    ASSUME SearchInv, Tick
    PROVE  SearchInv'
  <1>1. ticks \in Nat /\ ticks' = ticks + 1 /\ Longest \in Nat /\ Numbered(seen) /\ Len(seen) = ticks + 1
    BY LimitsAssumption DEF SearchInv, SeenOK, Tick
  <1>2. UNCHANGED <<names, files, cache, searcher>> /\ seen' = Append(seen, {Stored})
    BY DEF Tick
  <1>3. /\ Numbered(seen') /\ Len(seen') = Len(seen) + 1
        /\ \A i \in 1..Len(seen) : seen'[i] = seen[i]
        /\ seen'[Len(seen) + 1] = {Stored}
    BY <1>1, <1>2, NumberedAppend
  <1>4. Stored' = Stored
    BY <1>2 DEF Stored
  <1>5. SeenOK'
    BY <1>1, <1>3, <1>4 DEF SeenOK
  <1>6. \A x, t : SeenAt(x, t) => SeenAt(x, t)'
    BY <1>1, <1>3 DEF SeenAt
  <1>7. \A t \in 0..ticks : t \in 0..ticks'
    BY <1>1
  <1>8. KeptOK'
    BY <1>2, <1>6, <1>7 DEF SearchInv, KeptOK
  <1>9. ASSUME NEW s \in Searchers
        PROVE  SearcherOK(searcher[s])'
    <2>1. PICK r : r = searcher[s]
      OBVIOUS
    <2>2. SearcherOK(r) /\ (r.at \in {"open", "read"} => ticks - r.since < Longest)
      BY <2>1 DEF SearchInv, Tick
    <2>3. r.at \in {"open", "read"} /\ r.since \in 0..ticks => ticks' - r.since <= Longest
      BY <1>1, <2>2
    <2>4. SearcherOK(r)'
      BY <1>6, <1>7, <2>2, <2>3 DEF SearcherOK
    <2> QED BY <1>2, <2>1, <2>4
  <1> QED BY <1>2, <1>5, <1>8, <1>9 DEF SearchInv

\* The steps of a download, together.
Loading(d) ==
    \/ \E c \in Catalogues, force \in BOOLEAN : Download(d, c, force)
    \/ OpenArchive(d) \/ FetchChunk(d) \/ RetryFetch(d) \/ GiveUp(d) \/ BreakOff(d)
    \/ Inflate(d) \/ Copy(d) \/ Validate(d) \/ Rename(d)

LEMMA LoadingStep ==
    ASSUME FilesInv, SearchInv, NEW d \in Downloads, Loading(d)
    PROVE  FilesInv' /\ SearchInv'
  <1>1. CASE \/ \E c \in Catalogues, force \in BOOLEAN : Download(d, c, force)
             \/ OpenArchive(d) \/ FetchChunk(d) \/ RetryFetch(d) \/ GiveUp(d) \/ BreakOff(d) \/ Inflate(d)
    <2>1. FilesInv' /\ Stored' = Stored
      BY <1>1, DownloadFiles, OpenArchiveFiles, FetchChunkFiles, RetryFetchFiles, EndFiles, InflateFiles
    <2>2. UNCHANGED searchVars /\ UNCHANGED seen
      BY <1>1 DEF Download, OpenArchive, FetchChunk, RetryFetch, GiveUp, BreakOff, Inflate
    <2> QED BY <2>1, <2>2, LoaderSearches
  <1>2. CASE Copy(d) \/ Validate(d) \/ Rename(d)
    <2>1. FilesInv'
      BY <1>2, CopyFiles, ValidateFiles, RenameFiles
    <2>2. UNCHANGED searchVars /\ Noted
      BY <1>2 DEF Copy, Validate, Rename
    <2> QED BY <2>1, <2>2, LoaderSearches
  <1> QED BY <1>1, <1>2 DEF Loading

\* A step of a search, of the clock or of a client that goes away, which leaves the
\* files and the downloads alone.
Reading ==
    \/ \E d \in Downloads : Leave(d)
    \/ \E s \in Searchers : Search(s) \/ Query(s) \/ Keep(s) \/ Answered(s)
    \/ Tick
    \/ UNCHANGED catalogueVars

LEMMA ReadingStep ==
    ASSUME SearchInv, Reading
    PROVE  SearchInv' /\ UNCHANGED <<names, files, loader, met>>
  <1>1. UNCHANGED <<names, files, loader, met>>
    BY DEF Reading, Leave, Search, Query, Keep, Answered, Tick, catalogueVars
  <1>2. CASE \E s \in Searchers : Search(s) \/ Query(s) \/ Keep(s) \/ Answered(s)
    BY <1>1, <1>2, SearchStep, QueryStep, KeepStep, AnsweredStep
  <1>3. CASE Tick
    BY <1>1, <1>3, TickStep
  <1>4. CASE UNCHANGED catalogueVars
    <2>1. UNCHANGED searchVars /\ UNCHANGED seen /\ Stored' = Stored
      BY <1>4 DEF catalogueVars, searchVars, Stored
    <2> QED BY <1>1, <2>1, LoaderSearches
  <1>5. CASE \E d \in Downloads : Leave(d)
    <2>1. UNCHANGED searchVars /\ UNCHANGED seen /\ Stored' = Stored
      BY <1>5 DEF Leave, Stored
    <2> QED BY <1>1, <2>1, LoaderSearches
  <1> QED BY <1>2, <1>3, <1>4, <1>5 DEF Reading

LEMMA CatalogueSteps == [CatalogueNext]_catalogueVars => Reading \/ \E d \in Downloads : Loading(d)
  BY DEF CatalogueNext, Reading, Loading

LEMMA SameFiles ==
    ASSUME FilesInv, UNCHANGED <<names, files, loader>>
    PROVE  FilesInv'
  <1>1. NamesOK'
    BY DEF FilesInv, NamesOK
  <1>2. \A l : LoaderOK(l) => LoaderOK(l)'
    BY DEF LoaderOK
  <1>3. ASSUME NEW d \in Downloads PROVE LoaderOK(loader[d])'
    <2>1. PICK l : l = loader[d]
      OBVIOUS
    <2>2. LoaderOK(l)'
      BY <1>2, <2>1 DEF FilesInv
    <2> QED BY <2>1, <2>2
  <1> QED BY <1>1, <1>3 DEF FilesInv

LEMMA FilesStay == FilesInv /\ SearchInv /\ [CatalogueNext]_catalogueVars => FilesInv' /\ SearchInv'
  <1> SUFFICES ASSUME FilesInv, SearchInv, [CatalogueNext]_catalogueVars PROVE FilesInv' /\ SearchInv'
    OBVIOUS
  <1>1. CASE Reading
    BY <1>1, ReadingStep, SameFiles
  <1>2. ASSUME NEW d \in Downloads, Loading(d) PROVE FilesInv' /\ SearchInv'
    BY <1>2, LoadingStep
  <1> QED BY <1>1, <1>2, CatalogueSteps

\* A search says what the database held no longer ago than an answer is kept and a
\* search may take, whatever is downloaded meanwhile and by how many.
THEOREM AnswersAreAlwaysRecent == CatalogueSpec => []AnswersAreRecent
  <1>1. SearchInv => AnswersAreRecent
    BY DEF SearchInv, SearcherOK, AnswersAreRecent, SeenAt, IdleSearcher
  <1> QED BY <1>1, FilesInitially, SearchesInitially, FilesStay, PTL DEF CatalogueSpec

-----------------------------------------------------------------------------
(* A download alone: what it finds under a name is what it put there.        *)

LEMMA FirstPart == \A c : Part(c, 0) = <<>>
  BY DEF Part

LEMMA NextPart ==
    ASSUME NEW c, NEW n \in Nat \ {0}
    PROVE  Written(Part(c, n - 1), n, <<c, n>>) = Part(c, n)
  <1> DEFINE p == Part(c, n - 1)
  <1>1. Len(p) = n - 1 /\ \A i \in 1..(n - 1) : p[i] = <<c, i>>
    <2>1. p = [i \in 1..(n - 1) |-> <<c, i>>] /\ DOMAIN p = 1..(n - 1) /\ n - 1 \in Nat
      BY DEF Part
    <2>2. p = [i \in 1..(n - 1) |-> p[i]]
      BY <2>1
    <2>3. Len(p) = n - 1
      BY <2>1, <2>2, NumberedFunction
    <2> QED BY <2>1, <2>3
  <1> HIDE DEF p
  <1>2. Written(p, n, <<c, n>>) = [i \in 1..n |-> <<c, i>>]
    <2>1. (IF n > Len(p) THEN n ELSE Len(p)) = n
      BY <1>1
    <2>2. \A i \in 1..n : (IF i = n THEN <<c, n>> ELSE IF i <= Len(p) THEN p[i] ELSE Garbage) = <<c, i>>
      BY <1>1
    <2>3. Written(p, n, <<c, n>>) = [i \in 1..n |-> IF i = n THEN <<c, n>> ELSE IF i <= Len(p) THEN p[i] ELSE Garbage]
      BY <2>1 DEF Written
    <2> QED BY <2>2, <2>3
  <1> QED BY <1>2 DEF p, Part

\* An archive that is whole tells its library, for no library has an empty one.
LEMMA WholeTells ==
    ASSUME NEW c \in Catalogues, NEW c1 \in Catalogues, Part(c, Chunks[c]) = Whole(c1)
    PROVE  c = c1
  <1>1. 1 \in 1..Chunks[c] /\ 1 \in 1..Chunks[c1]
    BY CatalogueAssumption
  <1>2. Part(c, Chunks[c])[1] = <<c, 1>> /\ Whole(c1)[1] = <<c1, 1>>
    BY <1>1 DEF Part, Whole
  <1> QED BY <1>2

\* A step of the only download, which goes on as l.
LEMMA WholeStep ==
    ASSUME FilesInv, NEW d \in Downloads, Only(d), NEW l, loader' = [loader EXCEPT ![d] = l],
           TemporariesOK(l)', DatabaseOK'
    PROVE  WholeFiles'
  <1>1. loader'[d] = l /\ \A e \in Downloads \ {d} : loader'[e] = loader[e] /\ loader'[e].at = "idle"
    BY DEF FilesInv, Only
  <1>2. \A m : m.at = "idle" => TemporariesOK(m)'
    BY DEF TemporariesOK
  <1>3. ASSUME NEW e \in Downloads PROVE TemporariesOK(loader[e])'
    <2>1. PICK m : m = loader'[e]
      OBVIOUS
    <2>2. TemporariesOK(m)'
      BY <1>1, <1>2, <2>1
    <2> QED BY <2>1, <2>2
  <1> QED BY <1>1, <1>3 DEF WholeFiles, Alone

LEMMA RestingTemporaries == TemporariesOK(IdleLoader)'
  BY DEF TemporariesOK, IdleLoader

\* The database is neither renamed nor written.
LEMMA SameDatabase ==
    ASSUME DatabaseOK, names'["db"] = names["db"],
           names["db"] # NoDatabase => files'[names["db"]] = files[names["db"]]
    PROVE  DatabaseOK'
  BY DEF DatabaseOK

LEMMA DownloadWhole ==
    ASSUME FilesInv, WholeFiles, NEW d \in Downloads, Only(d), NEW c \in Catalogues, NEW force, Download(d, c, force)
    PROVE  WholeFiles'
  <1> DEFINE l == [at |-> "manifest", c |-> c, next |-> 1, attempt |-> 1, file |-> 0]
  <1>1. loader' = [loader EXCEPT ![d] = l] /\ UNCHANGED files /\ UNCHANGED names
    BY DEF Download
  <1>2. TemporariesOK(l)'
    BY DEF TemporariesOK
  <1>3. DatabaseOK'
    BY <1>1, SameDatabase DEF WholeFiles
  <1> HIDE DEF l
  <1> QED BY <1>1, <1>2, <1>3, WholeStep

LEMMA OpenArchiveWhole ==
    ASSUME FilesInv, WholeFiles, NEW d \in Downloads, Only(d), OpenArchive(d)
    PROVE  WholeFiles'
  <1>1. loader[d].at = "manifest" /\ Created("download")
    BY DEF OpenArchive
  <1>2. PICK c, n, m, f : c \in Catalogues /\ loader[d] = Going("manifest", c, n, m, f)
    BY <1>1, OnItsWay
  <1>3. n = 1
    BY <1>2, GoingFields DEF WholeFiles, TemporariesOK
  <1>4. PICK k : k = Opened("download")
    OBVIOUS
  <1> DEFINE l == Going("chunks", c, n, m, k)
  <1>8. Continues(d, l)
    BY <1>2, <1>4, Opening
  <1>9. /\ names'["download"] = k /\ files'[k] = Part(c, n - 1)
        /\ names'["db"] = names["db"] /\ names["db"] # k
        /\ \A i \in 1..Len(files) : i # k => files'[i] = files[i]
    BY <1>1, <1>3, <1>4, CreatedFile, FirstPart DEF FilesInv, Names
  <1>10. TemporariesOK(l)'
    <2>1. n <= Chunks[c] + 1
      BY <1>2, <1>3, CatalogueAssumption
    <2> QED BY <1>9, <2>1, GoingFields DEF TemporariesOK
  <1>11. DatabaseOK'
    BY <1>9, SameDatabase DEF WholeFiles, FilesInv, NamesOK, Names
  <1> HIDE DEF l
  <1>12. PICK o \in {l, IdleLoader} : loader' = [loader EXCEPT ![d] = o]
    BY <1>8 DEF Continues
  <1> QED BY <1>10, <1>11, <1>12, RestingTemporaries, WholeStep

LEMMA FetchChunkWhole ==
    ASSUME FilesInv, WholeFiles, NEW d \in Downloads, Only(d), FetchChunk(d)
    PROVE  WholeFiles'
  <1>1. loader[d].at = "chunks"
    BY DEF FetchChunk
  <1>2. PICK c, n, m, f : c \in Catalogues /\ loader[d] = Going("chunks", c, n, m, f)
    BY <1>1, OnItsWay
  <1>3. n \in Nat \ {0} /\ f \in 1..Len(files) /\ f \notin {names["db"], names["inflating"]}
    BY <1>2, GoingFields DEF FilesInv, LoaderOK, IdleLoader, Going
  <1>4. names["download"] = f /\ files[f] = Part(c, n - 1) /\ n <= Chunks[c]
    BY <1>2, GoingFields DEF WholeFiles, TemporariesOK, FetchChunk
  <1>6. loader[d].next = n /\ loader[d].file = f /\ loader[d].c = c
    BY <1>2, GoingFields
  <1> DEFINE l == Going("chunks", c, n + 1, 1, f)
  <1>9. Continues(d, l)
    BY <1>2, Fetching
  <1>10. PICK x : x = Part(c, n)
    OBVIOUS
  <1>11. files' = Replaced(files, f, x) /\ UNCHANGED names
    <2>1. files' = [files EXCEPT ![f] = Written(files[f], n, <<c, n>>)] /\ UNCHANGED names
      BY <1>6 DEF FetchChunk
    <2>2. Written(files[f], n, <<c, n>>) = x
      BY <1>3, <1>4, <1>10, NextPart
    <2>3. files' = [files EXCEPT ![f] = x]
      BY <2>1, <2>2, Zenon
    <2> QED BY <2>1, <2>3, Zenon DEF Replaced
  <1>12. files'[f] = x /\ \A i \in 1..Len(files) : i # f => files'[i] = files[i]
    BY <1>3, <1>11, WrittenFile DEF FilesInv
  <1>13. TemporariesOK(l)'
    <2>1. n + 1 <= Chunks[c] + 1 /\ (n + 1) - 1 = n
      BY <1>2, <1>3, <1>4, CatalogueAssumption
    <2> QED BY <1>4, <1>10, <1>11, <1>12, <2>1, GoingFields DEF TemporariesOK
  <1>14. DatabaseOK'
    BY <1>3, <1>11, <1>12, SameDatabase DEF WholeFiles, FilesInv, NamesOK, Names
  <1> HIDE DEF l
  <1>15. PICK o \in {l, IdleLoader} : loader' = [loader EXCEPT ![d] = o]
    BY <1>9 DEF Continues
  <1> QED BY <1>13, <1>14, <1>15, RestingTemporaries, WholeStep

LEMMA RetryFetchWhole ==
    ASSUME FilesInv, WholeFiles, NEW d \in Downloads, Only(d), RetryFetch(d)
    PROVE  WholeFiles'
  <1>1. loader[d].at \in {"manifest", "chunks"}
    BY DEF RetryFetch
  <1>2. PICK a, c, n, m, f :
           a \in {"manifest", "chunks"} /\ c \in Catalogues /\ loader[d] = Going(a, c, n, m, f)
    BY <1>1, OnItsWay
  <1> DEFINE l == Going(a, c, n, m + 1, f)
  <1>3. loader' = [loader EXCEPT ![d] = [loader[d] EXCEPT !.attempt = loader[d].attempt + 1]]
    BY DEF RetryFetch, FilesInv
  <1>4. loader[d].attempt = m /\ [loader[d] EXCEPT !.attempt = m + 1] = l
    BY <1>2, GoingFields
  <1>5. loader' = [loader EXCEPT ![d] = l]
    BY <1>3, <1>4
  <1>6. UNCHANGED files /\ UNCHANGED names
    BY DEF RetryFetch
  <1>7. TemporariesOK(Going(a, c, n, m, f))
    BY <1>2 DEF WholeFiles
  <1>8. TemporariesOK(l)'
    BY <1>2, <1>6, <1>7, GoingFields DEF TemporariesOK
  <1>9. DatabaseOK'
    BY <1>6, SameDatabase DEF WholeFiles
  <1> HIDE DEF l
  <1> QED BY <1>5, <1>8, <1>9, WholeStep

\* The download ends, with or without its temporaries.
LEMMA EndWhole ==
    ASSUME FilesInv, WholeFiles, NEW d \in Downloads, Only(d), loader' = [loader EXCEPT ![d] = IdleLoader],
           UNCHANGED files, names' \in Shed
    PROVE  WholeFiles'
  <1>1. names'["db"] = names["db"]
    BY ShedFiles DEF FilesInv
  <1>2. DatabaseOK'
    BY <1>1, SameDatabase DEF WholeFiles
  <1> QED BY <1>2, RestingTemporaries, WholeStep

LEMMA InflateWhole ==
    ASSUME FilesInv, WholeFiles, NEW d \in Downloads, Only(d), Inflate(d)
    PROVE  WholeFiles'
  <1>1. CASE loader' = [loader EXCEPT ![d] = IdleLoader] /\ names' \in Shed /\ UNCHANGED files
    BY <1>1, EndWhole
  <1>2. ASSUME NEW c \in Catalogues, NEW c1 \in Catalogues, NEW n, NEW m, NEW f, NEW k,
               loader[d] = Going("chunks", c, n, m, f),
               Archive = Whole(c1), k = Opened("inflating"), Created("inflating"),
               loader' = [loader EXCEPT ![d] = Going("copy", c, c1, m, k)]
        PROVE  WholeFiles'
    <2> DEFINE l == Going("copy", c, c1, m, k)
    <2>1. /\ names["download"] = f /\ files[f] = Part(c, n - 1) /\ n <= Chunks[c] + 1
          /\ n \in Nat /\ f \in Nat /\ n > Chunks[c]
      <3>1. PICK l0 : l0 = loader[d]
        OBVIOUS
      <3>2. l0.at = "chunks" /\ l0.c = c /\ l0.next = n /\ l0.file = f /\ l0 # IdleLoader
        BY <1>2, <3>1, GoingFields DEF IdleLoader
      <3>3. LoaderOK(l0) /\ TemporariesOK(l0) /\ l0.next > Chunks[l0.c]
        BY <3>1 DEF FilesInv, WholeFiles, Inflate
      <3>4. n \in Nat /\ f \in 1..Len(files)
        BY <3>2, <3>3 DEF LoaderOK
      <3>5. names["download"] = f /\ files[f] = Part(c, n - 1) /\ n <= Chunks[c] + 1
        BY <3>2, <3>3 DEF TemporariesOK
      <3> QED BY <3>2, <3>3, <3>4, <3>5
    <2>2. f # NoDatabase /\ n - 1 = Chunks[c]
      BY <2>1, CatalogueAssumption
    <2>3. Archive = Part(c, Chunks[c])
      BY <2>1, <2>2 DEF Archive
    <2>4. c = c1
      BY <1>2, <2>3, WholeTells
    <2>5. /\ names'["inflating"] = k
          /\ names'["db"] = names["db"] /\ names["db"] # k
          /\ \A i \in 1..Len(files) : i # k => files'[i] = files[i]
      BY <1>2, CreatedFile DEF FilesInv, Names
    <2>6. TemporariesOK(l)'
      BY <2>4, <2>5, GoingFields DEF TemporariesOK
    <2>7. DatabaseOK'
      BY <2>5, SameDatabase DEF WholeFiles, FilesInv, NamesOK, Names
    <2>8. loader' = [loader EXCEPT ![d] = l]
      BY <1>2
    <2> HIDE DEF l
    <2> QED BY <2>6, <2>7, <2>8, WholeStep
  <1> QED BY <1>1, <1>2, Inflates

\* The only download goes on to a, with what it left in the temporary, or ends.
LEMMA GoesOnWhole ==
    ASSUME FilesInv, WholeFiles, NEW d \in Downloads, Only(d), loader[d].at \in {"copy", "validate", "rename"},
           NEW a \in {"validate", "rename"}, NEW g, g = Onward(d, a), Continues(d, g), DatabaseOK',
           names'["inflating"] # NoDatabase,
           files'[names'["inflating"]] = Database(loader[d].c, IF a = "rename" THEN loader[d].c ELSE NoDatabase)
    PROVE  WholeFiles'
  <1>1. PICK a0, c, n, m, f : c \in Catalogues /\ loader[d] = Going(a0, c, n, m, f)
    BY OnItsWay
  <1>2. g = Going(a, c, n, m, f) /\ loader[d].c = c
    BY <1>1, GoingFields DEF Onward
  <1>3. TemporariesOK(g)'
    BY <1>2, GoingFields DEF TemporariesOK
  <1>4. PICK l \in {g, IdleLoader} : loader' = [loader EXCEPT ![d] = l]
    BY DEF Continues
  <1> QED BY <1>3, <1>4, RestingTemporaries, WholeStep

LEMMA CopyWhole ==
    ASSUME FilesInv, WholeFiles, NEW d \in Downloads, Only(d), Copy(d)
    PROVE  WholeFiles'
  <1>1. loader[d].at = "copy" /\ UNCHANGED names
    BY DEF Copy
  <1>2. PICK k, x : k = loader[d].file /\ x = Database(loader[d].c, NoDatabase)
    OBVIOUS
  <1>3. names["inflating"] = k /\ loader[d].next = loader[d].c /\ k \in 1..Len(files)
    BY <1>1, <1>2 DEF WholeFiles, TemporariesOK, FilesInv, LoaderOK, IdleLoader
  <1>4. files' = Replaced(files, k, x)
    BY <1>2, <1>3 DEF Copy, Replaced
  <1>5. files'[k] = x /\ \A i \in 1..Len(files) : i # k => files'[i] = files[i]
    BY <1>1, <1>3, <1>4, WrittenFile DEF FilesInv
  <1>6. k # NoDatabase /\ names["db"] # k
    BY <1>3, NumberedDomain, CatalogueAssumption DEF FilesInv, NamesOK, Names
  <1>7. DatabaseOK'
    BY <1>1, <1>5, <1>6, SameDatabase DEF WholeFiles, FilesInv, NamesOK, Names
  <1>8. PICK g : g = Onward(d, "validate") /\ Continues(d, g)
    BY DEF Copy, Goes, Onward, Continues, FilesInv
  <1> QED BY <1>1, <1>2, <1>3, <1>5, <1>6, <1>7, <1>8, GoesOnWhole

LEMMA ValidateWhole ==
    ASSUME FilesInv, WholeFiles, NEW d \in Downloads, Only(d), Validate(d)
    PROVE  WholeFiles'
  <1>1. loader[d].at = "validate"
    BY DEF Validate
  <1>2. PICK k, c, x : k = names["inflating"] /\ c = loader[d].c /\ x = Database(c, c)
    OBVIOUS
  <1>3. k # NoDatabase /\ files[k] = Database(c, NoDatabase) /\ k \in 1..Len(files) /\ c \in Catalogues
    BY <1>1, <1>2, OnItsWay DEF WholeFiles, TemporariesOK, FilesInv, NamesOK, Names
  <1>4. IsDatabase(files[k]) /\ files[k].parts = c
    BY <1>3 DEF IsDatabase, Database
  <1>5. files' = Replaced(files, k, x) /\ UNCHANGED names /\ Proceeds(d, Onward(d, "rename"))
    BY <1>2, <1>3, <1>4 DEF Validate, Replaced, Onward
  <1>9. PICK g : g = Onward(d, "rename") /\ Continues(d, g)
    BY <1>5 DEF Proceeds, Continues
  <1>6. files'[k] = x /\ \A i \in 1..Len(files) : i # k => files'[i] = files[i]
    BY <1>3, <1>5, WrittenFile DEF FilesInv
  <1>7. names["db"] # k
    BY <1>2, <1>3 DEF FilesInv, NamesOK, Names
  <1>8. DatabaseOK'
    BY <1>5, <1>6, <1>7, SameDatabase DEF WholeFiles, FilesInv, NamesOK, Names
  <1> QED BY <1>1, <1>2, <1>3, <1>5, <1>6, <1>8, <1>9, GoesOnWhole

LEMMA RenameWhole ==
    ASSUME FilesInv, WholeFiles, NEW d \in Downloads, Only(d), Rename(d)
    PROVE  WholeFiles'
  <1>1. loader[d].at = "rename" /\ loader' = [loader EXCEPT ![d] = IdleLoader] /\ UNCHANGED files
    BY DEF Rename, Proceeds
  <1>2. PICK k, c : k = names["inflating"] /\ c = loader[d].c
    OBVIOUS
  <1>3. k # NoDatabase /\ files[k] = Database(c, c) /\ c \in Catalogues
    BY <1>1, <1>2, OnItsWay DEF WholeFiles, TemporariesOK
  <1>4. names' = Renamed(d)
    BY <1>2, <1>3 DEF Rename
  <1>5. names'["db"] = k
    BY <1>1, <1>2, <1>4, RenamedFile DEF FilesInv
  <1>6. DatabaseOK'
    BY <1>1, <1>3, <1>5 DEF DatabaseOK
  <1> QED BY <1>1, <1>6, RestingTemporaries, WholeStep

\* A call that begins while nothing is at work meets nothing; what was met stays so.
LEMMA Met ==
    ASSUME FilesInv, NEW d \in Downloads, Loading(d), met' = {}, WholeInv
    PROVE  met = {} /\ WholeFiles /\ Only(d)
  <1>1. CASE \E c \in Catalogues, force \in BOOLEAN : Download(d, c, force)
    <2> DEFINE M == {IF e \in strays THEN "stray" ELSE "call" : e \in {e \in Downloads : loader[e].at # "idle"}}
    <2>1. met' = met \cup M
      BY <1>1 DEF Download
    <2>2. met = {} /\ M = {}
      BY <2>1
    <2>3. ASSUME NEW e \in Downloads, loader[e].at # "idle" PROVE FALSE
      <3>1. (IF e \in strays THEN "stray" ELSE "call") \in M
        BY <2>3
      <3> QED BY <2>2, <3>1
    <2> QED BY <2>2, <2>3 DEF WholeInv, Only
  <1>2. CASE ~\E c \in Catalogues, force \in BOOLEAN : Download(d, c, force)
    <2>1. met' = met /\ loader[d].at # "idle"
      BY <1>2 DEF Loading, OpenArchive, FetchChunk, RetryFetch, GiveUp, BreakOff, Inflate, Copy, Validate, Rename
    <2> QED BY <2>1 DEF WholeInv, WholeFiles, Alone, Only
  <1> QED BY <1>1, <1>2

LEMMA WholeStays ==
    ASSUME FilesInv, SearchInv, WholeInv, [CatalogueNext]_catalogueVars
    PROVE  WholeInv'
  <1> SUFFICES ASSUME met' = {} PROVE WholeFiles'
    BY DEF WholeInv
  <1>1. CASE Reading
    <2>1. UNCHANGED <<names, files, loader, met>>
      BY <1>1, ReadingStep
    <2>2. WholeFiles
      BY <2>1 DEF WholeInv
    <2>3. \A l : TemporariesOK(l) => TemporariesOK(l)'
      BY <2>1 DEF TemporariesOK
    <2>4. DatabaseOK'
      BY <2>1, <2>2, SameDatabase DEF WholeFiles
    <2>5. ASSUME NEW d \in Downloads PROVE TemporariesOK(loader[d])'
      <3>1. PICK l : l = loader[d]
        OBVIOUS
      <3>2. TemporariesOK(l)' /\ loader'[d] = l
        BY <2>1, <2>2, <2>3, <3>1 DEF WholeFiles
      <3> QED BY <3>2
    <2> QED BY <2>1, <2>2, <2>4, <2>5 DEF WholeFiles, Alone
  <1>2. ASSUME NEW d \in Downloads, Loading(d) PROVE WholeFiles'
    <2>1. WholeFiles /\ Only(d)
      BY <1>2, Met
    <2>2. CASE \E c \in Catalogues, force \in BOOLEAN : Download(d, c, force)
      BY <2>1, <2>2, DownloadWhole
    <2>3. CASE GiveUp(d) \/ BreakOff(d)
      BY <2>1, <2>3, Ends, EndWhole
    <2> QED BY <1>2, <2>1, <2>2, <2>3, OpenArchiveWhole, FetchChunkWhole, RetryFetchWhole, InflateWhole,
               CopyWhole, ValidateWhole, RenameWhole DEF Loading
  <1> QED BY <1>1, <1>2, CatalogueSteps

\* However many downloads there may be, and wherever they give up, break off or lose
\* their clients: until one begins while another, or an operation that one has left
\* behind, is at work, what bears the database's name is a whole database of the
\* library it is told to be; and answers are recent throughout.
THEOREM OneDownloadAtATime == CatalogueSpec => []CatalogueHolds
  <1>1. CatalogueInit => WholeInv
    BY DEF CatalogueInit, WholeInv, WholeFiles, Alone, TemporariesOK, DatabaseOK, IdleLoader
  <1>2. FilesInv /\ SearchInv /\ WholeInv /\ [CatalogueNext]_catalogueVars => FilesInv' /\ SearchInv' /\ WholeInv'
    BY FilesStay, WholeStays
  <1>3. FilesInv /\ SearchInv /\ WholeInv => CatalogueHolds
    <2>1. SearchInv => AnswersAreRecent
      BY DEF SearchInv, SearcherOK, AnswersAreRecent, SeenAt, IdleSearcher
    <2>2. ASSUME WholeFiles, Stored # NoDatabase
          PROVE  IsDatabase(Stored) /\ Stored.source = Stored.parts
      <3>1. PICK c \in Catalogues : Stored = Database(c, c)
        BY <2>2 DEF WholeFiles, DatabaseOK, Stored
      <3> QED BY <3>1 DEF IsDatabase, Database
    <2> QED BY <2>1, <2>2 DEF CatalogueHolds, DatabaseIsWhole, WholeInv
  <1> QED BY <1>1, <1>2, <1>3, FilesInitially, SearchesInitially, PTL DEF CatalogueSpec

-----------------------------------------------------------------------------
(* The schematic viewer.                                                     *)

\* What a worker is at.
Waiting(r) == [at |-> "waiting", root |-> r]
Reported(a, r, fs) == [at |-> a, root |-> r, changed |-> fs]
Redrawn(r, fs, old, fresh) == [at |-> "drawing", root |-> r, sheets |-> fs, old |-> old, fresh |-> fresh]
Merged(a, r, fs, old, fresh, k, x) ==
  [at |-> a, root |-> r, sheets |-> fs, old |-> old, fresh |-> fresh, key |-> k, switched |-> x]

\* The tree below a sheet, on a given disk.
Disks == [SheetFiles -> Forms \cup {Gone}]
KidsOn(d, f) == IF d[f] = Gone THEN {} ELSE {k \in d[f].kids : d[k] # Gone}
BelowOn(d, fs) == \A f \in fs : KidsOn(d, f) \subseteq fs
WalkOn(d, r) == {f \in SheetFiles : \A fs \in SUBSET SheetFiles : r \in fs /\ BelowOn(d, fs) => f \in fs}

\* Sheets with their images stand for the tree below r as it is saved, but for what is
\* known to have changed.
UpToDate(d, r, fs, shown, known) ==
  /\ fs \subseteq SheetFiles /\ r \in fs
  /\ known = {} => fs = WalkOn(d, r)
  /\ \A f \in fs : shown[f] \in {d[f], Gone} \/ f \in known

WorkerShape(k) ==
  \/ k = NoWorker
  \/ k = Waiting(k.root)
  \/ k.at \in {"draining", "quiet"} /\ k = Reported(k.at, k.root, k.changed)
  \/ k = Redrawn(k.root, k.sheets, k.old, k.fresh)
  \/ k.at \in {"merged", "told"} /\ k = Merged(k.at, k.root, k.sheets, k.old, k.fresh, k.key, k.switched)

DataTypes ==
  /\ disk = [f \in SheetFiles |-> disk[f]] /\ \A f \in SheetFiles : disk[f] \in Forms \cup {Gone}
  /\ images = [f \in SheetFiles |-> images[f]]
  /\ watcher = [of |-> watcher.of, dirs |-> watcher.dirs]
  /\ window = [selected |-> window.selected, image |-> window.image]
  /\ edits \in Nat /\ crossed \in BOOLEAN

CommandTypes ==
  /\ opens \in 0..MaxOpens /\ watcher.of \in 0..opens
  /\ command.at \in {"idle", "rendered", "watching", "refreshed"}
  /\ command.at \in {"rendered", "watching"} => command.root \in SheetFiles
  /\ command.at = "rendered" => opens < MaxOpens
  /\ command.at = "watching" => watcher.of < opens

WorkerTypes ==
  /\ pending = [w \in Workers |-> pending[w]]
  /\ worker = [w \in Workers |-> worker[w]]
  /\ \A w \in Workers : WorkerShape(worker[w]) /\ (w > opens => worker[w] = NoWorker /\ pending[w] = {})

ViewerTypes == DataTypes /\ CommandTypes /\ WorkerTypes

\* A design that is being opened.
OpeningOK ==
  /\ command.at = "rendered" =>
       /\ command.sheets = WalkOn(disk, command.root)
       /\ \A f \in command.sheets : command.images[f] \in {disk[f], Gone}
  /\ command.at = "watching" =>
       /\ command.dirs = DirsOf(command.sheets)
       /\ UpToDate(disk, command.root, command.sheets, command.images, pending[opens])
       /\ worker[opens] = Waiting(command.root)

\* The design in view: what is watched, and who reports.
PlaceOK ==
  /\ watcher.of \in Workers
  /\ watcher.dirs = DirsOf(listed) /\ recorded = DirsOf(listed)
  /\ root \in listed /\ active \in listed /\ listed \subseteq SheetFiles
  /\ \A f \in SheetFiles \ listed : images[f] = Nothing
  /\ \A w \in Workers \ {watcher.of} : worker[w].at \in {"none", "waiting", "draining"}

WindowOK == window.selected = active /\ (images[active] # Gone => window.image = images[active])

\* What a worker has drawn, or kept.
Image(k, f) == IF f \in DOMAIN k.fresh THEN k.fresh[f] ELSE k.old[f]
Picture(k) == [f \in k.sheets |-> Image(k, f)]

WaitingOK(w) == worker[w] = Waiting(root) /\ UpToDate(disk, root, listed, images, pending[w]) /\ WindowOK

ReportedOK(w) ==
  /\ worker[w].at \in {"draining", "quiet"} /\ worker[w] = Reported(worker[w].at, root, worker[w].changed)
  /\ UpToDate(disk, root, listed, images, pending[w] \cup worker[w].changed) /\ WindowOK

\* A drawing of the tree, in which a sheet that was not drawn keeps its image.
DrawingOK(w) ==
  LET k == worker[w]
  IN  /\ k.root = root /\ k.old = images /\ DOMAIN k.fresh \subseteq k.sheets
      /\ UpToDate(disk, root, k.sheets, Picture(k), pending[w])
      /\ \A f \in k.sheets : Image(k, f) # Nothing
      /\ \A f \in k.sheets \ DOMAIN k.fresh : images[f] # Gone

DrawnOK(w) == worker[w].at = "drawing" /\ DrawingOK(w) /\ WindowOK

MergedOK(w) ==
  /\ worker[w].at = "merged" /\ DrawingOK(w)
  /\ worker[w].key = active /\ active \in worker[w].sheets
  /\ ~worker[w].switched => WindowOK

ToldOK(w) ==
  LET k == worker[w]
  IN  /\ k.at = "told" /\ k.root = root /\ k.key = active
      /\ UpToDate(disk, root, listed, images, pending[w])
      /\ images[active] = Image(k, active) /\ images[active] # Nothing
      /\ ~k.switched /\ active \notin DOMAIN k.fresh => window.image = images[active]

StageOK(w) == WaitingOK(w) \/ ReportedOK(w) \/ DrawnOK(w) \/ MergedOK(w) \/ ToldOK(w)

RefreshOK == command.at = "refreshed" => command.file = active /\ command.image = disk[active]

ShownOK == root # Nothing /\ command.at \in {"idle", "refreshed"} => PlaceOK /\ StageOK(watcher.of) /\ RefreshOK

\* A command that began while nothing was being rendered has it to itself.
CommandsAlone == command.at # "idle" => \A w \in Workers : ~Busy(w)

ViewOK == CommandsAlone /\ OpeningOK /\ ShownOK
ViewInv == ViewerTypes /\ (~crossed => ViewOK)

-----------------------------------------------------------------------------
(* The tree below a sheet: the least set with it that is closed.             *)

LEMMA WalkIsBelow ==
    ASSUME NEW d \in Disks, NEW r \in SheetFiles
    PROVE  r \in WalkOn(d, r) /\ WalkOn(d, r) \subseteq SheetFiles /\ BelowOn(d, WalkOn(d, r))
  <1>1. r \in WalkOn(d, r) /\ WalkOn(d, r) \subseteq SheetFiles
    BY DEF WalkOn
  <1>2. \A f \in SheetFiles : KidsOn(d, f) \subseteq SheetFiles
    BY DEF Disks, KidsOn, Forms
  <1>3. ASSUME NEW f \in WalkOn(d, r), NEW k \in KidsOn(d, f) PROVE k \in WalkOn(d, r)
    <2>1. f \in SheetFiles /\ k \in SheetFiles
      BY <1>1, <1>2, <1>3
    <2>2. ASSUME NEW fs \in SUBSET SheetFiles, r \in fs, BelowOn(d, fs) PROVE k \in fs
      BY <1>3, <2>2 DEF WalkOn, BelowOn
    <2> QED BY <2>1, <2>2 DEF WalkOn
  <1> QED BY <1>1, <1>3 DEF BelowOn

LEMMA WalkIsLeast ==
    ASSUME NEW d, NEW r, NEW fs \in SUBSET SheetFiles, r \in fs, BelowOn(d, fs)
    PROVE  WalkOn(d, r) \subseteq fs
  BY DEF WalkOn

\* Two disks that differ in a file that is in the tree on neither of them.
LEMMA SameTree ==
    ASSUME NEW d \in Disks, NEW e \in Disks, NEW r \in SheetFiles, NEW f,
           \A g \in SheetFiles \ {f} : d[g] = e[g], f \notin WalkOn(d, r), f \notin WalkOn(e, r)
    PROVE  WalkOn(d, r) \subseteq WalkOn(e, r)
  <1> DEFINE both == WalkOn(d, r) \cap WalkOn(e, r)
  <1>1. r \in WalkOn(d, r) /\ WalkOn(d, r) \subseteq SheetFiles /\ BelowOn(d, WalkOn(d, r))
    BY WalkIsBelow
  <1>2. r \in WalkOn(e, r) /\ BelowOn(e, WalkOn(e, r))
    BY WalkIsBelow
  <1>3. ASSUME NEW g \in both, NEW k \in KidsOn(d, g) PROVE k \in both
    <2>1. k \in WalkOn(d, r) /\ k \in SheetFiles /\ k # f /\ g \in SheetFiles /\ g # f
      BY <1>1, <1>3 DEF BelowOn
    <2>2. d[g] = e[g] /\ d[k] = e[k]
      BY <2>1
    <2>3. k \in KidsOn(e, g)
      BY <1>3, <2>2 DEF KidsOn
    <2>4. k \in WalkOn(e, r)
      BY <1>2, <1>3, <2>3 DEF BelowOn
    <2> QED BY <2>1, <2>4
  <1>4. both \in SUBSET SheetFiles /\ r \in both /\ both \subseteq WalkOn(e, r)
    BY <1>1, <1>2
  <1> HIDE DEF both
  <1>5. WalkOn(d, r) \subseteq both
    BY <1>3, <1>4, WalkIsLeast DEF BelowOn
  <1> QED BY <1>4, <1>5

LEMMA DiskTyped == ViewInv => disk \in Disks
  BY DEF ViewInv, ViewerTypes, DataTypes, Disks

\* A save that was reported, or is of a file in the tree neither before nor after it,
\* leaves what is up to date so.
LEMMA SavedStays ==
    ASSUME NEW d \in Disks, NEW e \in Disks, NEW f, \A g \in SheetFiles \ {f} : e[g] = d[g],
           NEW r, NEW fs, NEW shown, NEW known, NEW heard, UpToDate(d, r, fs, shown, known), known \subseteq heard,
           f \in heard \/ (f \notin fs /\ f \notin WalkOn(e, r))
    PROVE  UpToDate(e, r, fs, shown, heard)
  <1>1. fs \subseteq SheetFiles /\ r \in fs /\ (known = {} => fs = WalkOn(d, r))
        /\ \A g \in fs : shown[g] \in {d[g], Gone} \/ g \in known
    BY DEF UpToDate
  <1>2. ASSUME heard = {} PROVE fs = WalkOn(e, r)
    <2>1. fs = WalkOn(d, r) /\ f \notin WalkOn(d, r) /\ f \notin WalkOn(e, r) /\ r \in SheetFiles
      BY <1>1, <1>2
    <2>2. \A g \in SheetFiles \ {f} : d[g] = e[g]
      OBVIOUS
    <2>3. WalkOn(d, r) \subseteq WalkOn(e, r)
      BY <2>1, <2>2, SameTree
    <2>4. WalkOn(e, r) \subseteq WalkOn(d, r)
      BY <2>1, SameTree
    <2> QED BY <2>1, <2>3, <2>4
  <1>3. ASSUME NEW g \in fs PROVE shown[g] \in {e[g], Gone} \/ g \in heard
    <2>1. CASE g = f
      BY <2>1
    <2>2. CASE g # f
      BY <1>1, <2>2
    <2> QED BY <2>1, <2>2
  <1> QED BY <1>1, <1>2, <1>3 DEF UpToDate

LEMMA ViewerInitially == ViewerInit => ViewInv
  <1> SUFFICES ASSUME ViewerInit PROVE ViewInv
    OBVIOUS
  <1>1. DataTypes
    <2>1. PICK form \in [SheetFiles -> UNION {Drawings[f] : f \in SheetFiles}] :
            (\A f \in SheetFiles : form[f] \in Drawings[f]) /\ disk = [f \in SheetFiles |-> [kids |-> form[f], edition |-> 0]]
      BY DEF ViewerInit
    <2>2. \A f \in SheetFiles : disk[f] \in Forms
      BY <2>1, ViewerAssumption DEF Forms
    <2>3. disk = [f \in SheetFiles |-> disk[f]]
      BY <2>1
    <2>4. crossed \in BOOLEAN /\ edits \in Nat
      BY DEF ViewerInit
    <2> QED BY <2>2, <2>3, <2>4 DEF ViewerInit, DataTypes
  <1>2. CommandTypes
    BY ViewerAssumption DEF ViewerInit, CommandTypes, NoCommand
  <1>3. WorkerTypes
    BY DEF ViewerInit, WorkerTypes, WorkerShape
  <1>4. ViewOK
    BY DEF ViewerInit, ViewOK, CommandsAlone, OpeningOK, ShownOK, NoCommand
  <1> QED BY <1>1, <1>2, <1>3, <1>4 DEF ViewInv, ViewerTypes

LEMMA NothingDone ==
    ASSUME ViewInv, UNCHANGED viewerVars
    PROVE  ViewInv'
  <1>1. ViewerTypes'
    BY DEF ViewInv, ViewerTypes, DataTypes, CommandTypes, WorkerTypes, viewerVars, shownVars
  <1>2. ASSUME ~crossed' PROVE ViewOK'
    <2>1. ViewOK
      BY <1>2 DEF ViewInv, viewerVars
    <2> QED BY <2>1 DEF ViewOK, CommandsAlone, OpeningOK, ShownOK, PlaceOK, RefreshOK, StageOK, WaitingOK,
              ReportedOK, DrawnOK, DrawingOK, MergedOK, ToldOK, WindowOK, Busy, viewerVars, shownVars
  <1> QED BY <1>1, <1>2 DEF ViewInv

\* A worker's stage, by what it is at.
LEMMA StageIs ==
    ASSUME NEW w \in Workers, StageOK(w)
    PROVE  /\ worker[w].at = "waiting" => WaitingOK(w)
           /\ worker[w].at \in {"draining", "quiet"} => ReportedOK(w)
           /\ worker[w].at = "drawing" => DrawnOK(w)
           /\ worker[w].at = "merged" => MergedOK(w)
           /\ worker[w].at = "told" => ToldOK(w)
           /\ worker[w].at \in {"waiting", "draining", "quiet", "drawing", "merged", "told"}
  <1>1. WaitingOK(w) => worker[w].at = "waiting"
    BY DEF WaitingOK, Waiting
  <1>2. /\ ReportedOK(w) => worker[w].at \in {"draining", "quiet"}
        /\ DrawnOK(w) => worker[w].at = "drawing"
        /\ MergedOK(w) => worker[w].at = "merged"
        /\ ToldOK(w) => worker[w].at = "told"
    BY DEF ReportedOK, DrawnOK, MergedOK, ToldOK
  <1> QED BY <1>1, <1>2 DEF StageOK

\* The workers beyond the last opening have not begun, and the one that is busy
\* is that of the design in view.
LEMMA BusyIsWatched ==
    ASSUME ViewInv, ~crossed, NEW w \in Workers, worker[w].at \notin {"none", "waiting"}
    PROVE  /\ command.at = "idle" /\ w <= opens
           /\ root # Nothing => PlaceOK /\ StageOK(watcher.of) /\ (worker[w].at # "draining" => w = watcher.of)
  <1>1. CommandsAlone /\ ShownOK
    BY DEF ViewInv, ViewOK
  <1>2. command.at = "idle"
    BY <1>1 DEF CommandsAlone, Busy
  <1>3. ~(w > opens)
    BY DEF ViewInv, ViewerTypes, WorkerTypes, NoWorker
  <1>4. w <= opens
    BY <1>3 DEF ViewInv, ViewerTypes, CommandTypes, Workers
  <1>5. root # Nothing => PlaceOK /\ StageOK(watcher.of)
    BY <1>1, <1>2 DEF ShownOK
  <1> QED BY <1>2, <1>4, <1>5 DEF PlaceOK

-----------------------------------------------------------------------------
(* The commands of the window.                                               *)

LEMMA OpenStep ==
    ASSUME ViewInv, NEW r \in Roots, Open(r)
    PROVE  ViewInv'
  <1>1. PICK failing \in MayFail(Walk(r)) :
          command' = IF r \in failing THEN NoCommand
                     ELSE [at |-> "rendered", root |-> r, sheets |-> Walk(r), images |-> Drawn(Walk(r), failing)]
    BY DEF Open
  <1>2. /\ command.at = "idle" /\ UNCHANGED <<disk, root, active, listed, images, recorded, window, watcher, pending, worker, opens, edits>>
        /\ crossed' = (crossed \/ \E w \in Workers : Busy(w)) /\ opens < MaxOpens
    BY DEF Open, Start, shownVars
  <1>3. r \in SheetFiles
    BY ViewerAssumption
  <1>4. ViewerTypes'
    <2>1. command'.at \in {"idle", "rendered"} /\ (command'.at = "rendered" => command'.root = r)
      BY <1>1 DEF NoCommand
    <2>2. crossed' \in BOOLEAN
      BY <1>2
    <2>3. DataTypes' /\ WorkerTypes'
      BY <1>2, <2>2 DEF ViewInv, ViewerTypes, DataTypes, WorkerTypes
    <2>4. CommandTypes'
      BY <1>2, <1>3, <2>1 DEF ViewInv, ViewerTypes, CommandTypes
    <2> QED BY <2>3, <2>4 DEF ViewerTypes
  <1>5. ASSUME ~crossed' PROVE ViewOK'
    <2>1. ~crossed /\ \A w \in Workers : ~Busy(w)
      BY <1>2, <1>5
    <2>2. CommandsAlone'
      BY <1>2, <2>1 DEF CommandsAlone, Busy
    <2>3. CASE r \in failing
      <3>1. command'.at = "idle"
        BY <1>1, <2>3 DEF NoCommand
      <3>2. OpeningOK'
        BY <3>1 DEF OpeningOK
      <3>3. root # Nothing => PlaceOK /\ StageOK(watcher.of)
        BY <1>2, <2>1 DEF ViewInv, ViewOK, ShownOK
      <3>4. ShownOK'
        BY <1>2, <3>1, <3>3 DEF ShownOK, PlaceOK, RefreshOK, StageOK, WaitingOK, ReportedOK, DrawnOK, DrawingOK,
             MergedOK, ToldOK, WindowOK
      <3> QED BY <2>2, <3>2, <3>4 DEF ViewOK
    <2>4. CASE r \notin failing
      <3>1. command'.at = "rendered" /\ command'.root = r /\ command'.sheets = Walk(r) /\ command'.images = Drawn(Walk(r), failing)
        BY <1>1, <2>4
      <3>2. \A f \in Walk(r) : Drawn(Walk(r), failing)[f] \in {disk[f], Gone}
        BY DEF Drawn
      <3>3. Walk(r) = WalkOn(disk, r)
        BY DEF Walk, WalkOn, Below, BelowOn, Kids, KidsOn
      <3>4. OpeningOK'
        BY <1>2, <3>1, <3>2, <3>3 DEF OpeningOK
      <3>5. ShownOK'
        BY <3>1 DEF ShownOK
      <3> QED BY <2>2, <3>4, <3>5 DEF ViewOK
    <2> QED BY <2>3, <2>4
  <1> QED BY <1>4, <1>5 DEF ViewInv

LEMMA BuildWatcherStep ==
    ASSUME ViewInv, BuildWatcher
    PROVE  ViewInv'
  <1> DEFINE n == opens + 1
             r == command.root
  <1>1. /\ command.at = "rendered" /\ opens' = n /\ worker' = [worker EXCEPT ![n] = Waiting(r)]
        /\ command' = [at |-> "watching", root |-> r, sheets |-> command.sheets, images |-> command.images,
                       dirs |-> DirsOf(Walk(r))]
        /\ UNCHANGED <<disk, root, active, listed, images, recorded, window, watcher, pending, crossed, edits>>
    BY DEF BuildWatcher, Waiting, shownVars
  <1>2. opens \in Nat /\ opens < MaxOpens /\ r \in SheetFiles /\ watcher.of \in 0..opens
    BY <1>1, ViewerAssumption DEF ViewInv, ViewerTypes, CommandTypes
  <1>3. n \in Workers /\ n > opens /\ n \in 0..MaxOpens
    BY <1>2, ViewerAssumption DEF Workers
  <1>4. /\ pending[n] = {} /\ worker = [w \in Workers |-> worker[w]]
        /\ \A w \in Workers : WorkerShape(worker[w]) /\ (w > opens => worker[w] = NoWorker /\ pending[w] = {})
        /\ pending = [w \in Workers |-> pending[w]]
    BY <1>3 DEF ViewInv, ViewerTypes, WorkerTypes
  <1>5. worker' = [w \in Workers |-> worker'[w]] /\ worker'[n] = Waiting(r) /\ \A w \in Workers \ {n} : worker'[w] = worker[w]
    BY <1>1, <1>3, <1>4
  <1>6. ViewerTypes'
    <2>1. DataTypes'
      BY <1>1 DEF ViewInv, ViewerTypes, DataTypes
    <2>2. command'.at = "watching" /\ command'.root = r
      BY <1>1
    <2>3. CommandTypes'
      BY <1>1, <1>2, <1>3, <2>2 DEF CommandTypes
    <2>4. WorkerShape(Waiting(r))
      BY DEF WorkerShape, Waiting
    <2>5. \A w \in Workers : w > opens' => w > opens /\ w # n
      BY <1>1, <1>2 DEF Workers
    <2>6. WorkerTypes'
      BY <1>1, <1>4, <1>5, <2>4, <2>5 DEF WorkerTypes
    <2> QED BY <2>1, <2>3, <2>6 DEF ViewerTypes
  <1>7. ASSUME ~crossed' PROVE ViewOK'
    <2>1. CommandsAlone /\ OpeningOK
      BY <1>1, <1>7 DEF ViewInv, ViewOK
    <2>2. CommandsAlone'
      BY <1>1, <1>5, <2>1 DEF CommandsAlone, Busy, Waiting
    <2>3. Walk(r) = WalkOn(disk, r)
      BY DEF Walk, WalkOn, Below, BelowOn, Kids, KidsOn
    <2>4. command.sheets = WalkOn(disk, r) /\ \A f \in command.sheets : command.images[f] \in {disk[f], Gone}
      BY <1>1, <2>1 DEF OpeningOK
    <2>5. r \in WalkOn(disk, r) /\ WalkOn(disk, r) \subseteq SheetFiles
      BY <1>2 DEF WalkOn
    <2>6. UpToDate(disk, r, command.sheets, command.images, {})
      BY <2>4, <2>5 DEF UpToDate
    <2>7. /\ command'.at = "watching" /\ command'.root = r /\ command'.sheets = command.sheets
          /\ command'.images = command.images /\ command'.dirs = DirsOf(command.sheets)
      BY <1>1, <2>3, <2>4
    <2>8. pending'[opens'] = {} /\ disk' = disk /\ worker'[opens'] = Waiting(r)
      BY <1>1, <1>4, <1>5
    <2>9. OpeningOK'
      BY <2>6, <2>7, <2>8 DEF OpeningOK, DirsOf
    <2>10. ShownOK'
      BY <2>7 DEF ShownOK
    <2> QED BY <2>2, <2>9, <2>10 DEF ViewOK
  <1> QED BY <1>6, <1>7 DEF ViewInv

LEMMA OpenEndsStep ==
    ASSUME ViewInv, OpenEnds
    PROVE  ViewInv'
  <1> DEFINE r == command.root
             new == [f \in SheetFiles |-> IF f \in command.sheets THEN command.images[f] ELSE Nothing]
  <1>1. /\ command.at = "watching" /\ root' = r /\ active' = r /\ listed' = command.sheets
        /\ images' = new
        /\ recorded' = DirsOf(command.sheets) /\ command' = NoCommand
        /\ UNCHANGED <<disk, pending, worker, crossed, opens, edits>>
    BY DEF OpenEnds
  <1>2. watcher' = [of |-> opens, dirs |-> command.dirs] /\ window' = [selected |-> r, image |-> command.images[r]]
    BY DEF OpenEnds
  <1>3. opens \in Workers /\ opens \in 0..opens /\ opens \in 0..MaxOpens /\ command'.at = "idle"
    BY <1>1, ViewerAssumption DEF ViewInv, ViewerTypes, CommandTypes, Workers, NoCommand
  <1>4. ViewerTypes'
    <2>1. images' = [f \in SheetFiles |-> images'[f]]
      BY <1>1
    <2>2. watcher' = [of |-> watcher'.of, dirs |-> watcher'.dirs] /\ window' = [selected |-> window'.selected, image |-> window'.image]
          /\ watcher'.of = opens
      BY <1>2
    <2>3. DataTypes'
      BY <1>1, <2>1, <2>2 DEF ViewInv, ViewerTypes, DataTypes
    <2>4. CommandTypes'
      BY <1>1, <1>3, <2>2 DEF CommandTypes
    <2>5. WorkerTypes'
      BY <1>1 DEF ViewInv, ViewerTypes, WorkerTypes
    <2> QED BY <2>3, <2>4, <2>5 DEF ViewerTypes
  <1>5. ASSUME ~crossed' PROVE ViewOK'
    <2>1. CommandsAlone /\ OpeningOK
      BY <1>1, <1>5 DEF ViewInv, ViewOK
    <2>2. \A w \in Workers : worker[w].at \in {"none", "waiting"}
      BY <1>1, <2>1 DEF CommandsAlone, Busy
    <2>3. command.dirs = DirsOf(command.sheets) /\ UpToDate(disk, r, command.sheets, command.images, pending[opens])
          /\ worker[opens] = Waiting(r)
      BY <1>1, <2>1 DEF OpeningOK
    <2>4. command.sheets \subseteq SheetFiles /\ r \in command.sheets
      BY <2>3 DEF UpToDate
    <2>5. \A f \in command.sheets : new[f] = command.images[f]
      BY <2>4
    <2>6. \A f \in SheetFiles \ command.sheets : new[f] = Nothing
      OBVIOUS
    <2> HIDE DEF new
    <2>7. UpToDate(disk, r, command.sheets, new, pending[opens])
      BY <2>3, <2>5 DEF UpToDate
    <2>8. watcher'.of = opens /\ watcher'.dirs = DirsOf(command.sheets)
      BY <1>2, <2>3
    <2>9. PlaceOK'
      BY <1>1, <1>3, <2>2, <2>4, <2>6, <2>8 DEF PlaceOK, DirsOf
    <2>10. WindowOK'
      BY <1>1, <1>2, <2>4, <2>5 DEF WindowOK
    <2>11. WaitingOK(watcher.of)'
      BY <1>1, <2>3, <2>7, <2>8, <2>10 DEF WaitingOK
    <2>12. ShownOK' /\ OpeningOK' /\ CommandsAlone'
      BY <1>3, <2>9, <2>11 DEF ShownOK, StageOK, RefreshOK, OpeningOK, CommandsAlone
    <2> QED BY <2>12 DEF ViewOK
  <1> QED BY <1>4, <1>5 DEF ViewInv

LEMMA SelectSheetStep ==
    ASSUME ViewInv, NEW f \in SheetFiles, SelectSheet(f)
    PROVE  ViewInv'
  <1>1. /\ command.at = "idle" /\ f \in listed
        /\ UNCHANGED <<disk, root, listed, images, recorded, watcher, pending, worker, command, opens, edits>>
        /\ crossed' = (crossed \/ \E w \in Workers : worker[w].at \in {"merged", "told"})
    BY DEF SelectSheet, Start
  <1>2. \/ active' = active /\ window' = window
        \/ active' = f /\ window' = [selected |-> f, image |-> images[f]] /\ images[f] # Gone
    BY DEF SelectSheet
  <1>3. ViewerTypes'
    <2>1. window' = [selected |-> window'.selected, image |-> window'.image]
      BY <1>2 DEF ViewInv, ViewerTypes, DataTypes
    <2>2. crossed' \in BOOLEAN
      BY <1>1
    <2>3. DataTypes'
      BY <1>1, <2>1, <2>2 DEF ViewInv, ViewerTypes, DataTypes
    <2> QED BY <1>1, <2>3 DEF ViewInv, ViewerTypes, CommandTypes, WorkerTypes
  <1>4. ASSUME ~crossed' PROVE ViewOK'
    <2>1. ~crossed /\ \A w \in Workers : worker[w].at \notin {"merged", "told"}
      BY <1>1, <1>4
    <2>2. OpeningOK' /\ CommandsAlone'
      BY <1>1 DEF OpeningOK, CommandsAlone
    <2>3. ASSUME root # Nothing PROVE (PlaceOK /\ StageOK(watcher.of))'
      <3>1. PlaceOK /\ StageOK(watcher.of)
        BY <1>1, <2>1, <2>3 DEF ViewInv, ViewOK, ShownOK
      <3>2. watcher.of \in Workers
        BY <3>1 DEF PlaceOK
      <3>3. PlaceOK'
        BY <1>1, <1>2, <3>1 DEF PlaceOK
      <3>4. WaitingOK(watcher.of) \/ ReportedOK(watcher.of) \/ DrawnOK(watcher.of)
        BY <2>1, <3>1, <3>2 DEF StageOK, MergedOK, ToldOK
      <3>5. WindowOK
        BY <3>4 DEF WaitingOK, ReportedOK, DrawnOK
      <3>6. WindowOK'
        BY <1>1, <1>2, <3>5 DEF WindowOK
      <3>7. (WaitingOK(watcher.of) \/ ReportedOK(watcher.of) \/ DrawnOK(watcher.of))'
        BY <1>1, <3>4, <3>6 DEF WaitingOK, ReportedOK, DrawnOK, DrawingOK
      <3> QED BY <3>3, <3>7 DEF StageOK
    <2>4. ShownOK'
      BY <1>1, <2>3 DEF ShownOK, RefreshOK
    <2> QED BY <2>2, <2>4 DEF ViewOK
  <1> QED BY <1>3, <1>4 DEF ViewInv

LEMMA RefreshStep ==
    ASSUME ViewInv, Refresh
    PROVE  ViewInv'
  <1>1. /\ command.at = "idle" /\ command' = [at |-> "refreshed", file |-> active, image |-> disk[active]]
        /\ UNCHANGED <<disk, root, active, listed, images, recorded, window, watcher, pending, worker, opens, edits>>
        /\ crossed' = (crossed \/ \E w \in Workers : Busy(w))
    BY DEF Refresh, Start, shownVars
  <1>2. command'.at = "refreshed" /\ command'.file = active /\ command'.image = disk[active]
    BY <1>1
  <1>3. ViewerTypes'
    <2>1. crossed' \in BOOLEAN
      BY <1>1
    <2> QED BY <1>1, <1>2, <2>1 DEF ViewInv, ViewerTypes, DataTypes, CommandTypes, WorkerTypes
  <1>4. ASSUME ~crossed' PROVE ViewOK'
    <2>1. ~crossed /\ \A w \in Workers : ~Busy(w)
      BY <1>1, <1>4
    <2>2. CommandsAlone'
      BY <1>1, <2>1 DEF CommandsAlone, Busy
    <2>3. OpeningOK' /\ RefreshOK'
      BY <1>1, <1>2 DEF OpeningOK, RefreshOK
    <2>4. root # Nothing => PlaceOK /\ StageOK(watcher.of)
      BY <1>1, <2>1 DEF ViewInv, ViewOK, ShownOK
    <2>5. root # Nothing => (PlaceOK /\ StageOK(watcher.of))'
      BY <1>1, <2>4 DEF PlaceOK, StageOK, WaitingOK, ReportedOK, DrawnOK, DrawingOK, MergedOK, ToldOK, WindowOK
    <2>6. ShownOK'
      BY <1>1, <2>3, <2>5 DEF ShownOK
    <2> QED BY <2>2, <2>3, <2>6 DEF ViewOK
  <1> QED BY <1>3, <1>4 DEF ViewInv

LEMMA RefreshedStep ==
    ASSUME ViewInv, Refreshed
    PROVE  ViewInv'
  <1>1. /\ command.at = "refreshed" /\ command' = NoCommand
        /\ images' = [images EXCEPT ![command.file] = command.image]
        /\ window' = [window EXCEPT !.image = command.image]
        /\ UNCHANGED <<disk, root, active, listed, recorded, watcher, pending, worker, crossed, opens, edits>>
    BY DEF Refreshed
  <1>2. command'.at = "idle"
    BY <1>1 DEF NoCommand
  <1>3. images = [f \in SheetFiles |-> images[f]] /\ window = [selected |-> window.selected, image |-> window.image]
    BY DEF ViewInv, ViewerTypes, DataTypes
  <1>4. window'.selected = window.selected /\ window'.image = command.image
        /\ window' = [selected |-> window'.selected, image |-> window'.image]
    BY <1>1, <1>3
  <1>5. images' = [f \in SheetFiles |-> images'[f]] /\ \A f \in SheetFiles \ {command.file} : images'[f] = images[f]
    BY <1>1, <1>3
  <1>6. ViewerTypes'
    <2>1. DataTypes'
      BY <1>1, <1>4, <1>5 DEF ViewInv, ViewerTypes, DataTypes
    <2> QED BY <1>1, <1>2, <2>1 DEF ViewInv, ViewerTypes, CommandTypes, WorkerTypes
  <1>7. ASSUME ~crossed' PROVE ViewOK'
    <2>1. CommandsAlone /\ ShownOK
      BY <1>1, <1>7 DEF ViewInv, ViewOK
    <2>2. OpeningOK' /\ CommandsAlone' /\ RefreshOK'
      BY <1>2 DEF OpeningOK, CommandsAlone, RefreshOK
    <2>3. ASSUME root # Nothing PROVE (PlaceOK /\ StageOK(watcher.of))'
      <3>1. PlaceOK /\ StageOK(watcher.of) /\ command.file = active /\ command.image = disk[active]
        BY <1>1, <2>1, <2>3 DEF ShownOK, RefreshOK
      <3>2. watcher.of \in Workers /\ active \in listed /\ listed \subseteq SheetFiles
        BY <3>1 DEF PlaceOK
      <3>3. worker[watcher.of].at \in {"none", "waiting"}
        BY <1>1, <2>1, <3>2 DEF CommandsAlone, Busy
      <3>4. WaitingOK(watcher.of)
        BY <3>1, <3>2, <3>3, StageIs
      <3>5. images'[active] = disk[active] /\ \A f \in SheetFiles \ {active} : images'[f] = images[f]
        BY <1>1, <1>3, <1>5, <3>1, <3>2
      <3>6. PlaceOK'
        BY <1>1, <3>1, <3>2, <3>5 DEF PlaceOK
      <3>7. WindowOK'
        BY <1>1, <1>4, <3>1, <3>4, <3>5 DEF WindowOK, WaitingOK
      <3>8. UpToDate(disk, root, listed, images', pending[watcher.of])
        BY <3>2, <3>4, <3>5 DEF WaitingOK, UpToDate
      <3>9. WaitingOK(watcher.of)'
        BY <1>1, <3>4, <3>7, <3>8 DEF WaitingOK
      <3> QED BY <3>6, <3>9 DEF StageOK
    <2>4. ShownOK'
      BY <1>1, <2>2, <2>3 DEF ShownOK
    <2> QED BY <2>2, <2>4 DEF ViewOK
  <1> QED BY <1>6, <1>7 DEF ViewInv

-----------------------------------------------------------------------------
(* The watcher and its worker.                                               *)

LEMMA SavesSheetStep ==
    ASSUME ViewInv, NEW f \in SheetFiles, NEW form \in Drawings[f] \cup {Gone}, SavesSheet(f, form)
    PROVE  ViewInv'
  <1> DEFINE saved == IF form = Gone THEN Gone ELSE [kids |-> form, edition |-> edits']
             heard == [w \in Workers |-> IF Hears(w, f) THEN pending[w] \cup {f} ELSE pending[w]]
  <1>1. /\ edits' = edits + 1 /\ disk' = [disk EXCEPT ![f] = saved] /\ pending' = heard
        /\ UNCHANGED <<root, active, listed, images, recorded, window, watcher, worker, command, opens>>
    BY DEF SavesSheet, shownVars
  <1>2. crossed' = (\/ crossed \/ command.at \in {"rendered", "refreshed"}
                    \/ command.at = "watching" /\ ~Hears(opens, f)
                    \/ (Drawing(f) \/ (root # Nothing /\ f \in Walk(root)')) /\ ~\E w \in Workers : Hears(w, f))
    BY DEF SavesSheet
  <1>3. /\ disk = [g \in SheetFiles |-> disk[g]] /\ edits \in Nat
        /\ \A g \in SheetFiles : disk[g] \in Forms \cup {Gone}
    BY DEF ViewInv, ViewerTypes, DataTypes
  <1>4. disk' = [g \in SheetFiles |-> disk'[g]] /\ disk'[f] = saved /\ \A g \in SheetFiles \ {f} : disk'[g] = disk[g]
    BY <1>1, <1>3
  <1>5. saved \in Forms \cup {Gone}
    <2>1. edits' \in Nat
      BY <1>1, <1>3
    <2>2. form # Gone => form \in SUBSET SheetFiles
      BY ViewerAssumption
    <2> QED BY <2>1, <2>2 DEF Forms
  <1>6. pending' = [w \in Workers |-> pending'[w]]
        /\ \A w \in Workers : (Hears(w, f) => pending'[w] = pending[w] \cup {f}) /\ (~Hears(w, f) => pending'[w] = pending[w])
    BY <1>1
  <1> HIDE DEF saved, heard
  <1>7. ViewerTypes'
    <2>1. crossed' \in BOOLEAN
      BY <1>2
    <2>2. \A g \in SheetFiles : disk'[g] \in Forms \cup {Gone}
      BY <1>3, <1>4, <1>5
    <2>3. DataTypes'
      BY <1>1, <1>3, <1>4, <2>1, <2>2 DEF ViewInv, ViewerTypes, DataTypes
    <2>4. CommandTypes'
      BY <1>1 DEF ViewInv, ViewerTypes, CommandTypes
    <2>5. \A w \in Workers : Hears(w, f) => ~(w > opens)
      <3>1. watcher.of \in 0..opens /\ opens \in Nat
        BY DEF ViewInv, ViewerTypes, CommandTypes
      <3> QED BY <3>1 DEF Hears, Workers
    <2>6. WorkerTypes'
      BY <1>1, <1>6, <2>5 DEF ViewInv, ViewerTypes, WorkerTypes
    <2> QED BY <2>3, <2>4, <2>6 DEF ViewerTypes
  <1>8. disk \in Disks /\ disk' \in Disks
    BY <1>3, <1>4, <1>5 DEF Disks
  <1>9. ASSUME ~crossed' PROVE ViewOK'
    <2>1. ViewOK /\ command.at \notin {"rendered", "refreshed"} /\ (command.at = "watching" => Hears(opens, f))
      BY <1>2, <1>9 DEF ViewInv
    <2>2. CommandsAlone'
      BY <1>1, <2>1 DEF ViewOK, CommandsAlone, Busy
    <2>3. OpeningOK'
      <3>1. ASSUME command.at = "watching"
            PROVE  UpToDate(disk', command.root, command.sheets, command.images, pending'[opens])
        <4>1. UpToDate(disk, command.root, command.sheets, command.images, pending[opens])
          BY <2>1, <3>1 DEF ViewOK, OpeningOK
        <4>2. opens \in Workers
          BY <3>1 DEF ViewInv, ViewerTypes, CommandTypes, Workers
        <4>3. pending'[opens] = pending[opens] \cup {f}
          BY <1>6, <2>1, <3>1, <4>2
        <4> HIDE DEF Disks
        <4> QED BY <1>4, <1>8, <4>1, <4>3, SavedStays
      <3> QED BY <1>1, <2>1, <3>1 DEF ViewOK, OpeningOK, DirsOf
    <2>4. ASSUME root # Nothing, command.at = "idle" PROVE (PlaceOK /\ StageOK(watcher.of))'
      <3> DEFINE v == watcher.of
      <3>1. PlaceOK /\ StageOK(v)
        BY <2>1, <2>4 DEF ViewOK, ShownOK
      <3>2. v \in Workers /\ watcher.dirs = DirsOf(listed)
        BY <3>1 DEF PlaceOK
      <3>3. PlaceOK'
        BY <1>1, <3>1 DEF PlaceOK
      <3>4. ASSUME ~Hears(v, f) PROVE f \notin listed /\ ~Drawing(f) /\ f \notin WalkOn(disk', root)
        <4>1. \A w \in Workers : ~Hears(w, f)
          BY <2>4, <3>4 DEF Hears
        <4>2. Walk(root)' = WalkOn(disk', root')
          BY DEF Walk, WalkOn, Below, BelowOn, Kids, KidsOn
        <4>3. ~Drawing(f) /\ f \notin Walk(root)'
          BY <1>2, <1>9, <2>4, <4>1
        <4>4. f \notin listed
          BY <3>2, <3>4 DEF Hears, DirsOf
        <4> QED BY <1>1, <4>2, <4>3, <4>4
      <3>5. pending[v] \subseteq pending'[v] /\ (Hears(v, f) => f \in pending'[v])
        BY <1>6, <3>2
      <3>6. ASSUME NEW fs, NEW shown, NEW known, UpToDate(disk, root, fs, shown, pending[v] \cup known),
                   f \notin fs \/ fs = listed \/ Drawing(f)
            PROVE  UpToDate(disk', root, fs, shown, pending'[v] \cup known)
        <4>1. f \in pending'[v] \cup known \/ (f \notin fs /\ f \notin WalkOn(disk', root))
          BY <3>4, <3>5, <3>6
        <4>2. pending[v] \cup known \subseteq pending'[v] \cup known
          BY <3>5
        <4> HIDE DEF Disks
        <4> QED BY <1>4, <1>8, <3>6, <4>1, <4>2, SavedStays
      <3>7. ASSUME NEW fs, NEW shown, UpToDate(disk, root, fs, shown, pending[v]),
                   f \notin fs \/ fs = listed \/ Drawing(f)
            PROVE  UpToDate(disk', root, fs, shown, pending'[v])
        <4>1. pending[v] = pending[v] \cup {} /\ pending'[v] = pending'[v] \cup {}
          OBVIOUS
        <4> QED BY <3>6, <3>7, <4>1
      <3>8. CASE WaitingOK(v)
        <4>1. UpToDate(disk', root, listed, images, pending'[v])
          BY <3>7, <3>8 DEF WaitingOK
        <4>2. WaitingOK(v)'
          BY <1>1, <3>8, <4>1 DEF WaitingOK, WindowOK
        <4> QED BY <3>3, <4>2 DEF StageOK
      <3>9. CASE ReportedOK(v)
        <4>1. UpToDate(disk', root, listed, images, pending'[v] \cup worker[v].changed)
          BY <3>6, <3>9 DEF ReportedOK
        <4>2. ReportedOK(v)'
          BY <1>1, <3>9, <4>1 DEF ReportedOK, WindowOK
        <4> QED BY <3>3, <4>2 DEF StageOK
      <3>10. ASSUME DrawingOK(v), worker[v].at \in {"drawing", "merged"} PROVE DrawingOK(v)'
        <4>1. f \in worker[v].sheets => Drawing(f)
          BY <3>2, <3>10 DEF Drawing
        <4>2. UpToDate(disk', root, worker[v].sheets, Picture(worker[v]), pending'[v])
          BY <3>7, <3>10, <4>1 DEF DrawingOK
        <4> QED BY <1>1, <3>10, <4>2 DEF DrawingOK
      <3>11. CASE DrawnOK(v)
        <4>1. DrawnOK(v)'
          BY <1>1, <3>10, <3>11 DEF DrawnOK, WindowOK
        <4> QED BY <3>3, <4>1 DEF StageOK
      <3>12. CASE MergedOK(v)
        <4>1. MergedOK(v)'
          BY <1>1, <3>10, <3>12 DEF MergedOK, WindowOK
        <4> QED BY <3>3, <4>1 DEF StageOK
      <3>13. CASE ToldOK(v)
        <4>1. UpToDate(disk', root, listed, images, pending'[v])
          BY <3>7, <3>13 DEF ToldOK
        <4>2. ToldOK(v)'
          BY <1>1, <3>13, <4>1 DEF ToldOK
        <4> QED BY <3>3, <4>2 DEF StageOK
      <3> QED BY <3>1, <3>8, <3>9, <3>11, <3>12, <3>13 DEF StageOK
    <2>5. ShownOK'
      BY <1>1, <2>1, <2>4 DEF ShownOK, RefreshOK
    <2> QED BY <2>2, <2>3, <2>5 DEF ViewOK
  <1> QED BY <1>7, <1>9 DEF ViewInv

\* A worker that is not in view may wake and drain what it is left with, or leave;
\* whatever it is at, nothing else depends on it.
LEMMA OtherWorker ==
    ASSUME ViewInv, ~crossed, NEW w \in Workers, NEW k, root = Nothing \/ w # watcher.of,
           worker' = [worker EXCEPT ![w] = k], k.at \in {"none", "waiting", "draining"},
           pending' = [pending EXCEPT ![w] = {}],
           command.at = "watching" => w # opens /\ k.at # "draining",
           command.at = "refreshed" => k.at # "draining", command.at = "rendered" => k.at # "draining",
           UNCHANGED <<disk, root, active, listed, images, recorded, window, watcher, command, opens>>
    PROVE  ViewOK'
  <1>1. pending = [v \in Workers |-> pending[v]] /\ worker = [v \in Workers |-> worker[v]]
        /\ command.at \in {"idle", "rendered", "watching", "refreshed"}
    BY DEF ViewInv, ViewerTypes, WorkerTypes, CommandTypes
  <1>2. worker'[w] = k /\ \A v \in Workers \ {w} : worker'[v] = worker[v] /\ pending'[v] = pending[v]
    BY <1>1
  <1>3. ViewOK
    BY DEF ViewInv
  <1>4. CommandsAlone'
    BY <1>1, <1>2, <1>3 DEF ViewOK, CommandsAlone, Busy
  <1>5. OpeningOK'
    <2>1. command.at = "watching" => opens \in Workers
      BY DEF ViewInv, ViewerTypes, CommandTypes, Workers
    <2> QED BY <1>2, <1>3, <2>1 DEF ViewOK, OpeningOK, DirsOf
  <1>6. ASSUME root # Nothing, command.at \in {"idle", "refreshed"} PROVE (PlaceOK /\ StageOK(watcher.of) /\ RefreshOK)'
    <2>1. PlaceOK /\ StageOK(watcher.of) /\ RefreshOK
      BY <1>3, <1>6 DEF ViewOK, ShownOK
    <2>2. watcher.of \in Workers /\ watcher.of # w
      BY <1>6, <2>1 DEF PlaceOK
    <2>3. worker'[watcher.of] = worker[watcher.of] /\ pending'[watcher.of] = pending[watcher.of]
      BY <1>2, <2>2
    <2>4. PlaceOK'
      BY <1>2, <2>1 DEF PlaceOK
    <2>5. StageOK(watcher.of)' /\ RefreshOK'
      BY <2>1, <2>3 DEF RefreshOK, StageOK, WaitingOK, ReportedOK, DrawnOK, DrawingOK, MergedOK, ToldOK, WindowOK
    <2> QED BY <2>4, <2>5
  <1>7. ShownOK'
    BY <1>6 DEF ShownOK
  <1> QED BY <1>4, <1>5, <1>7 DEF ViewOK

\* The types after a step of one worker that has begun.
LEMMA TypesStay ==
    ASSUME ViewInv, NEW w \in Workers, NEW k, WorkerShape(k), worker' = [worker EXCEPT ![w] = k], worker[w] # NoWorker,
           pending' = pending \/ pending' = [pending EXCEPT ![w] = {}],
           DataTypes', watcher'.of = watcher.of, UNCHANGED <<command, opens>>
    PROVE  ViewerTypes' /\ worker'[w] = k /\ \A v \in Workers \ {w} : worker'[v] = worker[v] /\ pending'[v] = pending[v]
  <1>1. /\ pending = [v \in Workers |-> pending[v]] /\ worker = [v \in Workers |-> worker[v]]
        /\ \A v \in Workers : WorkerShape(worker[v]) /\ (v > opens => worker[v] = NoWorker /\ pending[v] = {})
    BY DEF ViewInv, ViewerTypes, WorkerTypes
  <1>2. worker'[w] = k /\ \A v \in Workers \ {w} : worker'[v] = worker[v] /\ pending'[v] = pending[v]
    BY <1>1
  <1>3. worker' = [v \in Workers |-> worker'[v]] /\ pending' = [v \in Workers |-> pending'[v]]
    BY <1>1
  <1>4. WorkerTypes'
    BY <1>1, <1>2, <1>3 DEF WorkerTypes
  <1>5. CommandTypes'
    BY DEF ViewInv, ViewerTypes, CommandTypes
  <1> QED BY <1>2, <1>4, <1>5 DEF ViewerTypes

LEMMA WakeStep ==
    ASSUME ViewInv, NEW w \in Workers, Wake(w)
    PROVE  ViewInv'
  <1> DEFINE k == Reported("draining", worker[w].root, pending[w])
  <1>1. /\ worker[w].at = "waiting" /\ pending[w] # {} /\ worker' = [worker EXCEPT ![w] = k]
        /\ pending' = [pending EXCEPT ![w] = {}] /\ crossed' = (crossed \/ command.at # "idle")
        /\ UNCHANGED <<disk, root, active, listed, images, recorded, window, watcher, command, opens, edits>>
    BY DEF Wake, Reported, shownVars
  <1>2. WorkerShape(k) /\ k.at = "draining" /\ k.root = worker[w].root /\ k.changed = pending[w]
    BY DEF WorkerShape, Reported
  <1> HIDE DEF k
  <1>3. worker[w] # NoWorker
    BY <1>1 DEF NoWorker
  <1>4. DataTypes'
    <2>1. crossed' \in BOOLEAN
      BY <1>1
    <2> QED BY <1>1, <2>1 DEF ViewInv, ViewerTypes, DataTypes
  <1>5. ViewerTypes' /\ worker'[w] = k /\ \A v \in Workers \ {w} : worker'[v] = worker[v] /\ pending'[v] = pending[v]
    BY <1>1, <1>2, <1>3, <1>4, TypesStay
  <1>6. ASSUME ~crossed' PROVE ViewOK'
    <2>1. ~crossed /\ command.at = "idle" /\ ViewOK
      BY <1>1, <1>6 DEF ViewInv
    <2>2. CASE root = Nothing \/ w # watcher.of
      BY <1>1, <1>2, <2>1, <2>2, OtherWorker
    <2>3. CASE root # Nothing /\ w = watcher.of
      <3>1. PlaceOK /\ StageOK(w)
        BY <2>1, <2>3 DEF ViewOK, ShownOK
      <3>2. WaitingOK(w)
        BY <1>1, <3>1, StageIs
      <3>3. pending'[w] = {}
        BY <1>1 DEF ViewInv, ViewerTypes, WorkerTypes
      <3>4. worker[w].root = root
        BY <3>2 DEF WaitingOK, Waiting
      <3>5. UpToDate(disk, root, listed, images, pending'[w] \cup k.changed)
        BY <1>2, <3>2, <3>3 DEF WaitingOK
      <3>6. k = Reported("draining", root, k.changed)
        BY <1>2, <3>4 DEF k
      <3>7. ReportedOK(w)'
        BY <1>1, <1>2, <1>5, <3>2, <3>5, <3>6 DEF ReportedOK, WaitingOK, WindowOK
      <3>8. PlaceOK'
        BY <1>1, <1>5, <2>3, <3>1 DEF PlaceOK
      <3> QED BY <1>1, <2>1, <2>3, <3>7, <3>8 DEF ViewOK, ShownOK, StageOK, RefreshOK, CommandsAlone, OpeningOK
    <2> QED BY <2>2, <2>3
  <1> QED BY <1>5, <1>6 DEF ViewInv

LEMMA DrainStep ==
    ASSUME ViewInv, NEW w \in Workers, Drain(w)
    PROVE  ViewInv'
  <1> DEFINE k == Reported("draining", worker[w].root, worker[w].changed \cup pending[w])
  <1>1. /\ worker[w].at = "draining" /\ pending[w] # {} /\ worker' = [worker EXCEPT ![w].changed = @ \cup pending[w]]
        /\ pending' = [pending EXCEPT ![w] = {}]
        /\ UNCHANGED <<disk, root, active, listed, images, recorded, window, watcher, command, crossed, opens, edits>>
    BY DEF Drain, shownVars
  <1>2. worker[w] = Reported("draining", worker[w].root, worker[w].changed)
    BY <1>1 DEF ViewInv, ViewerTypes, WorkerTypes, WorkerShape, NoWorker, Waiting, Redrawn, Merged
  <1>3. worker' = [worker EXCEPT ![w] = k]
    <2>1. [worker[w] EXCEPT !.changed = @ \cup pending[w]] = k
      BY <1>2 DEF Reported
    <2> QED BY <1>1, <2>1
  <1>4. WorkerShape(k) /\ k.at = "draining" /\ k.root = worker[w].root /\ k.changed = worker[w].changed \cup pending[w]
    BY DEF WorkerShape, Reported
  <1> HIDE DEF k
  <1>5. worker[w] # NoWorker
    BY <1>1 DEF NoWorker
  <1>6. DataTypes'
    BY <1>1 DEF ViewInv, ViewerTypes, DataTypes
  <1>7. ViewerTypes' /\ worker'[w] = k /\ \A v \in Workers \ {w} : worker'[v] = worker[v] /\ pending'[v] = pending[v]
    BY <1>1, <1>3, <1>4, <1>5, <1>6, TypesStay
  <1>8. ASSUME ~crossed' PROVE ViewOK'
    <2>1. ~crossed /\ ViewOK
      BY <1>1, <1>8 DEF ViewInv
    <2>2. command.at = "idle" /\ (root # Nothing => PlaceOK /\ StageOK(watcher.of))
      BY <1>1, <2>1, BusyIsWatched
    <2>3. CASE root = Nothing \/ w # watcher.of
      BY <1>1, <1>3, <1>4, <2>1, <2>2, <2>3, OtherWorker
    <2>4. CASE root # Nothing /\ w = watcher.of
      <3>1. PlaceOK /\ StageOK(w)
        BY <2>2, <2>4
      <3>2. ReportedOK(w)
        BY <1>1, <3>1, StageIs
      <3>3. pending'[w] = {}
        BY <1>1 DEF ViewInv, ViewerTypes, WorkerTypes
      <3>4. worker[w].root = root
        BY <3>2 DEF ReportedOK, Reported
      <3>5. pending'[w] \cup k.changed = pending[w] \cup worker[w].changed
        BY <1>4, <3>3
      <3>6. UpToDate(disk, root, listed, images, pending'[w] \cup k.changed)
        BY <3>2, <3>5 DEF ReportedOK
      <3>7. k = Reported("draining", root, k.changed)
        BY <1>4, <3>4 DEF k
      <3>8. ReportedOK(w)'
        BY <1>1, <1>4, <1>7, <3>2, <3>6, <3>7 DEF ReportedOK, WindowOK
      <3>9. PlaceOK'
        BY <1>1, <1>7, <2>4, <3>1 DEF PlaceOK
      <3> QED BY <1>1, <2>2, <2>4, <3>8, <3>9 DEF ViewOK, ShownOK, StageOK, RefreshOK, CommandsAlone, OpeningOK
    <2> QED BY <2>3, <2>4
  <1> QED BY <1>7, <1>8 DEF ViewInv

LEMMA QuietStep ==
    ASSUME ViewInv, NEW w \in Workers, Quiet(w)
    PROVE  ViewInv'
  <1> DEFINE k == Reported("quiet", worker[w].root, worker[w].changed)
  <1>1. /\ worker[w].at = "draining" /\ ~Dropped(w) /\ worker' = [worker EXCEPT ![w].at = "quiet"]
        /\ UNCHANGED <<disk, root, active, listed, images, recorded, window, watcher, pending, command, crossed, opens, edits>>
    BY DEF Quiet, shownVars
  <1>2. worker[w] = Reported("draining", worker[w].root, worker[w].changed)
    BY <1>1 DEF ViewInv, ViewerTypes, WorkerTypes, WorkerShape, NoWorker, Waiting, Redrawn, Merged
  <1>3. worker' = [worker EXCEPT ![w] = k]
    <2>1. [worker[w] EXCEPT !.at = "quiet"] = k
      BY <1>2 DEF Reported
    <2> QED BY <1>1, <2>1
  <1>4. WorkerShape(k) /\ k.at = "quiet" /\ k.root = worker[w].root /\ k.changed = worker[w].changed
    BY DEF WorkerShape, Reported
  <1> HIDE DEF k
  <1>5. worker[w] # NoWorker
    BY <1>1 DEF NoWorker
  <1>6. DataTypes'
    BY <1>1 DEF ViewInv, ViewerTypes, DataTypes
  <1>7. ViewerTypes' /\ worker'[w] = k /\ \A v \in Workers \ {w} : worker'[v] = worker[v]
    BY <1>1, <1>3, <1>4, <1>5, <1>6, TypesStay
  <1>8. ASSUME ~crossed' PROVE ViewOK'
    <2>1. ~crossed /\ ViewOK
      BY <1>1, <1>8 DEF ViewInv
    <2>2. command.at = "idle" /\ (root # Nothing => PlaceOK /\ StageOK(watcher.of))
      BY <1>1, <2>1, BusyIsWatched
    <2>3. w = watcher.of
      BY <1>1, <2>2 DEF Dropped
    <2>4. ASSUME root # Nothing PROVE (PlaceOK /\ StageOK(watcher.of))'
      <3>1. PlaceOK /\ StageOK(w)
        BY <2>2, <2>3, <2>4
      <3>2. ReportedOK(w)
        BY <1>1, <3>1, StageIs
      <3>3. worker[w].root = root
        BY <3>2 DEF ReportedOK, Reported
      <3>4. k = Reported("quiet", root, k.changed)
        BY <1>4, <3>3 DEF k
      <3>5. ReportedOK(w)'
        BY <1>1, <1>4, <1>7, <3>2, <3>4 DEF ReportedOK, WindowOK
      <3>6. PlaceOK'
        BY <1>1, <1>7, <2>3, <3>1 DEF PlaceOK
      <3> QED BY <1>1, <2>3, <3>5, <3>6 DEF StageOK
    <2> QED BY <1>1, <2>2, <2>4 DEF ViewOK, ShownOK, RefreshOK, CommandsAlone, OpeningOK
  <1> QED BY <1>7, <1>8 DEF ViewInv

LEMMA LeavesStep ==
    ASSUME ViewInv, NEW w \in Workers, Leaves(w)
    PROVE  ViewInv'
  <1>1. /\ worker[w].at \in {"waiting", "draining"} /\ Dropped(w) /\ pending[w] = {} /\ worker' = [worker EXCEPT ![w] = NoWorker]
        /\ UNCHANGED <<disk, root, active, listed, images, recorded, window, watcher, pending, command, crossed, opens, edits>>
    BY DEF Leaves, shownVars
  <1>2. WorkerShape(NoWorker) /\ NoWorker.at = "none" /\ worker[w] # NoWorker
    BY <1>1 DEF WorkerShape, NoWorker
  <1>3. DataTypes'
    BY <1>1 DEF ViewInv, ViewerTypes, DataTypes
  <1>4. ViewerTypes'
    BY <1>1, <1>2, <1>3, TypesStay
  <1>5. pending' = [pending EXCEPT ![w] = {}]
    BY <1>1 DEF ViewInv, ViewerTypes, WorkerTypes
  <1>6. ASSUME ~crossed' PROVE ViewOK'
    BY <1>1, <1>2, <1>5, <1>6, OtherWorker DEF Dropped
  <1> QED BY <1>4, <1>6 DEF ViewInv

\* What the busy worker in view does is all that happens: it has the window to itself.
LEMMA InViewAlone ==
    ASSUME ViewInv, ~crossed, NEW w \in Workers, worker[w].at \in {"quiet", "drawing", "merged", "told"},
           command' = command, root' = root, watcher'.of = watcher.of,
           root # Nothing => PlaceOK' /\ StageOK(w)'
    PROVE  ViewOK'
  <1>1. command.at = "idle" /\ (root # Nothing => w = watcher.of)
    BY BusyIsWatched
  <1>2. root' # Nothing => PlaceOK' /\ StageOK(watcher.of)'
    BY <1>1
  <1> QED BY <1>1, <1>2 DEF ViewOK, ShownOK, RefreshOK, CommandsAlone, OpeningOK

\* The other workers of a place stay where they are.
LEMMA PlaceStays ==
    ASSUME PlaceOK, NEW w, w = watcher.of, watcher'.of = watcher.of, \A v \in Workers \ {w} : worker'[v] = worker[v],
           watcher'.dirs = DirsOf(listed'), recorded' = DirsOf(listed'),
           root' \in listed', active' \in listed', listed' \subseteq SheetFiles,
           \A f \in SheetFiles \ listed' : images'[f] = Nothing
    PROVE  PlaceOK'
  BY DEF PlaceOK, DirsOf

LEMMA RedrawStep ==
    ASSUME ViewInv, NEW w \in Workers, Redraw(w)
    PROVE  ViewInv'
  <1>1. /\ worker[w].at = "quiet"
        /\ UNCHANGED <<disk, root, active, listed, images, recorded, window, watcher, pending, command, crossed, opens, edits>>
    BY DEF Redraw, shownVars
  <1>2. worker[w] # NoWorker
    BY <1>1 DEF NoWorker
  <1>3. DataTypes'
    BY <1>1 DEF ViewInv, ViewerTypes, DataTypes
  <1>4. CASE root # worker[w].root
    <2>1. worker' = [worker EXCEPT ![w] = NoWorker] /\ WorkerShape(NoWorker)
      BY <1>4 DEF Redraw, WorkerShape
    <2>2. ViewerTypes'
      BY <1>1, <1>2, <1>3, <2>1, TypesStay
    <2>3. ASSUME ~crossed' PROVE ViewOK'
      <3>1. ~crossed
        BY <1>1, <2>3
      <3>2. command.at = "idle" /\ (root # Nothing => StageOK(watcher.of) /\ w = watcher.of)
        BY <1>1, <3>1, BusyIsWatched
      <3>3. ASSUME root # Nothing PROVE FALSE
        <4>1. ReportedOK(w)
          BY <1>1, <3>2, <3>3, StageIs
        <4> QED BY <1>4, <4>1 DEF ReportedOK, Reported
      <3> QED BY <1>1, <3>1, <3>2, <3>3, InViewAlone
    <2> QED BY <2>2, <2>3 DEF ViewInv
  <1>5. CASE root = worker[w].root
    <2> DEFINE sheets == Walk(root)
               need == Need(sheets, worker[w].changed)
    <2>1. PICK failing \in MayFail({f \in need : disk[f] # Gone}) :
            worker' = [worker EXCEPT ![w] = [at |-> "drawing", root |-> root, sheets |-> sheets, old |-> images,
                                             fresh |-> Drawn(need, failing)]]
      BY <1>5 DEF Redraw
    <2> DEFINE fresh == Drawn(need, failing)
               k == Redrawn(root, sheets, images, fresh)
    <2>2. worker' = [worker EXCEPT ![w] = k]
      BY <2>1 DEF Redrawn
    <2>3. WorkerShape(k) /\ k.at = "drawing" /\ k.root = root /\ k.sheets = sheets /\ k.old = images /\ k.fresh = fresh
      BY DEF WorkerShape, Redrawn
    <2>4. DOMAIN fresh = need /\ \A f \in need : fresh[f] \in {disk[f], Gone}
      BY DEF Drawn
    <2>5. \A f \in sheets : f \in need <=> (f \in worker[w].changed \/ images[f] \in {Nothing, Gone})
      BY DEF Need
    <2>6. need \subseteq sheets
      BY DEF Need
    <2>7. sheets = WalkOn(disk, root)
      BY DEF Walk, WalkOn, Below, BelowOn, Kids, KidsOn
    <2> HIDE DEF k, fresh, need, sheets
    <2>8. ViewerTypes' /\ worker'[w] = k /\ \A v \in Workers \ {w} : worker'[v] = worker[v]
      BY <1>1, <1>2, <1>3, <2>2, <2>3, TypesStay
    <2>9. ASSUME ~crossed' PROVE ViewOK'
      <3>1. ~crossed
        BY <1>1, <2>9
      <3>2. ASSUME root # Nothing PROVE PlaceOK' /\ StageOK(w)'
        <4>1. PlaceOK /\ StageOK(w) /\ w = watcher.of
          BY <1>1, <3>1, <3>2, BusyIsWatched
        <4>2. ReportedOK(w)
          BY <1>1, <4>1, StageIs
        <4>3. UpToDate(disk, root, listed, images, pending[w] \cup worker[w].changed) /\ WindowOK
          BY <4>2 DEF ReportedOK
        <4>4. PlaceOK'
          BY <1>1, <2>8, <4>1, PlaceStays DEF PlaceOK
        <4>5. root \in SheetFiles /\ \A f \in SheetFiles \ listed : images[f] = Nothing
          BY <4>1 DEF PlaceOK
        <4>6. root \in sheets /\ sheets \subseteq SheetFiles
          BY <2>7, <4>5 DEF WalkOn
        <4>7. ASSUME NEW f \in sheets
              PROVE  /\ Image(k, f) \in {disk[f], Gone} \/ f \in pending[w]
                     /\ Image(k, f) # Nothing
                     /\ f \notin need => images[f] # Gone
          <5>1. CASE f \in need
            <6>1. Image(k, f) \in {disk[f], Gone}
              BY <2>3, <2>4, <5>1 DEF Image
            <6>2. disk[f] \in Forms \cup {Gone}
              BY <4>6 DEF ViewInv, ViewerTypes, DataTypes
            <6> QED BY <5>1, <6>1, <6>2, ViewerAssumption
          <5>2. CASE f \notin need
            <6>1. f \notin worker[w].changed /\ images[f] \notin {Nothing, Gone} /\ Image(k, f) = images[f]
              BY <2>3, <2>4, <2>5, <5>2 DEF Image
            <6>2. f \in listed
              BY <4>5, <4>6, <6>1
            <6>3. images[f] = disk[f] \/ f \in pending[w]
              BY <4>3, <6>1, <6>2 DEF UpToDate
            <6> QED BY <6>1, <6>3
          <5> QED BY <5>1, <5>2
        <4>8. \A f \in sheets : Picture(k)[f] = Image(k, f)
          BY <2>3 DEF Picture
        <4>9. UpToDate(disk, root, sheets, Picture(k), pending[w])
          BY <2>7, <4>6, <4>7, <4>8 DEF UpToDate
        <4>10. DrawingOK(w)'
          BY <1>1, <2>3, <2>4, <2>6, <2>8, <4>7, <4>9 DEF DrawingOK
        <4>11. WindowOK'
          BY <1>1, <4>3 DEF WindowOK
        <4>12. DrawnOK(w)'
          BY <2>3, <2>8, <4>10, <4>11 DEF DrawnOK
        <4> QED BY <4>4, <4>12 DEF StageOK
      <3> QED BY <1>1, <3>1, <3>2, InViewAlone
    <2> QED BY <2>8, <2>9 DEF ViewInv
  <1> QED BY <1>4, <1>5

LEMMA MergeStep ==
    ASSUME ViewInv, NEW w \in Workers, Merge(w)
    PROVE  ViewInv'
  <1> DEFINE o == worker[w]
             k == Merged("merged", o.root, o.sheets, o.old, o.fresh, active', active # active')
  <1>1. /\ o.at = "drawing" /\ active' = (IF active \in o.sheets THEN active ELSE o.root) /\ worker' = [worker EXCEPT ![w] = k]
        /\ UNCHANGED <<disk, root, listed, images, recorded, window, watcher, pending, command, crossed, opens, edits>>
    BY DEF Merge, Merged
  <1>2. /\ k.at = "merged" /\ k.root = o.root /\ k.sheets = o.sheets /\ k.old = o.old /\ k.fresh = o.fresh
        /\ k.key = active'
    BY DEF Merged
  <1>3. k.switched <=> active # active'
    BY DEF Merged
  <1>4. WorkerShape(k)
    BY DEF Merged, WorkerShape
  <1> HIDE DEF k
  <1>5. worker[w] # NoWorker
    BY <1>1 DEF NoWorker
  <1>6. DataTypes'
    BY <1>1 DEF ViewInv, ViewerTypes, DataTypes
  <1>7. ViewerTypes' /\ worker'[w] = k /\ \A v \in Workers \ {w} : worker'[v] = worker[v]
    BY <1>1, <1>4, <1>5, <1>6, TypesStay
  <1>8. ASSUME ~crossed' PROVE ViewOK'
    <2>1. ~crossed
      BY <1>1, <1>8
    <2>2. ASSUME root # Nothing PROVE PlaceOK' /\ StageOK(w)'
      <3>1. PlaceOK /\ StageOK(w) /\ w = watcher.of
        BY <1>1, <2>1, <2>2, BusyIsWatched
      <3>2. DrawnOK(w)
        BY <1>1, <3>1, StageIs
      <3>3. DrawingOK(w) /\ WindowOK
        BY <3>2 DEF DrawnOK
      <3>4. o.root = root /\ root \in o.sheets
        BY <3>3 DEF DrawingOK, UpToDate
      <3>5. active' \in o.sheets /\ active' \in listed
        BY <1>1, <3>1, <3>4 DEF PlaceOK
      <3>6. PlaceOK'
        BY <1>1, <1>7, <3>1, <3>5, PlaceStays DEF PlaceOK
      <3>7. Picture(k) = Picture(o) /\ \A f : Image(k, f) = Image(o, f)
        BY <1>2 DEF Picture, Image
      <3>8. DrawingOK(w)'
        BY <1>1, <1>2, <1>7, <3>3, <3>7 DEF DrawingOK
      <3>9. ~k.switched => WindowOK'
        BY <1>1, <1>3, <3>3 DEF WindowOK
      <3>10. MergedOK(w)'
        BY <1>2, <1>7, <3>5, <3>8, <3>9 DEF MergedOK
      <3> QED BY <3>6, <3>10 DEF StageOK
    <2> QED BY <1>1, <2>1, <2>2, InViewAlone
  <1> QED BY <1>7, <1>8 DEF ViewInv

LEMMA PublishStep ==
    ASSUME ViewInv, NEW w \in Workers, Publish(w)
    PROVE  ViewInv'
  <1> DEFINE o == worker[w]
             k == Merged("told", o.root, o.sheets, o.old, o.fresh, o.key, o.switched)
             new == DirsOf(o.sheets)
             shown == [f \in SheetFiles |-> IF f \in DOMAIN o.fresh THEN o.fresh[f]
                                            ELSE IF f \in o.sheets THEN o.old[f] ELSE Nothing]
  <1>1. /\ o.at = "merged" /\ recorded' = new /\ listed' = o.sheets
        /\ watcher' = [watcher EXCEPT !.dirs = (@ \cup (new \ recorded)) \ (recorded \ new)]
        /\ worker' = [worker EXCEPT ![w].at = "told"]
        /\ UNCHANGED <<disk, root, active, window, pending, command, crossed, opens, edits>>
    BY DEF Publish
  <1>2. images' = shown
    BY DEF Publish
  <1>3. o = Merged("merged", o.root, o.sheets, o.old, o.fresh, o.key, o.switched)
    BY <1>1 DEF ViewInv, ViewerTypes, WorkerTypes, WorkerShape, NoWorker, Waiting, Reported, Redrawn
  <1>4. worker' = [worker EXCEPT ![w] = k]
    <2>1. [o EXCEPT !.at = "told"] = k
      BY <1>3 DEF Merged
    <2> QED BY <1>1, <2>1
  <1>5. /\ k.at = "told" /\ k.root = o.root /\ k.sheets = o.sheets /\ k.old = o.old /\ k.fresh = o.fresh /\ k.key = o.key
    BY DEF Merged
  <1>6. k.switched = o.switched /\ WorkerShape(k)
    BY DEF Merged, WorkerShape
  <1>7. worker[w] # NoWorker
    BY <1>1 DEF NoWorker
  <1>8. watcher = [of |-> watcher.of, dirs |-> watcher.dirs]
    BY DEF ViewInv, ViewerTypes, DataTypes
  <1>9. watcher'.of = watcher.of /\ watcher'.dirs = (watcher.dirs \cup (new \ recorded)) \ (recorded \ new)
        /\ watcher' = [of |-> watcher'.of, dirs |-> watcher'.dirs]
    BY <1>1, <1>8
  <1>10. images' = [f \in SheetFiles |-> images'[f]]
    BY <1>2
  <1>11. \A f \in SheetFiles : /\ f \in o.sheets => shown[f] = Image(o, f)
                               /\ f \notin o.sheets /\ f \notin DOMAIN o.fresh => shown[f] = Nothing
    BY DEF Image
  <1> HIDE DEF k, new, shown
  <1>12. DataTypes'
    BY <1>1, <1>9, <1>10 DEF ViewInv, ViewerTypes, DataTypes
  <1>13. ViewerTypes' /\ worker'[w] = k /\ \A v \in Workers \ {w} : worker'[v] = worker[v]
    BY <1>1, <1>4, <1>6, <1>7, <1>9, <1>12, TypesStay
  <1>14. ASSUME ~crossed' PROVE ViewOK'
    <2>1. ~crossed
      BY <1>1, <1>14
    <2>2. ASSUME root # Nothing PROVE PlaceOK' /\ StageOK(w)'
      <3>1. PlaceOK /\ StageOK(w) /\ w = watcher.of
        BY <1>1, <2>1, <2>2, BusyIsWatched
      <3>2. MergedOK(w)
        BY <1>1, <3>1, StageIs
      <3>3. DrawingOK(w) /\ o.key = active /\ active \in o.sheets /\ (~o.switched => WindowOK)
        BY <3>2 DEF MergedOK
      <3>4. /\ o.root = root /\ o.old = images /\ DOMAIN o.fresh \subseteq o.sheets
            /\ UpToDate(disk, root, o.sheets, Picture(o), pending[w])
            /\ \A f \in o.sheets : Image(o, f) # Nothing
            /\ \A f \in o.sheets \ DOMAIN o.fresh : images[f] # Gone
        BY <3>3 DEF DrawingOK
      <3>5. root \in o.sheets /\ o.sheets \subseteq SheetFiles
        BY <3>4 DEF UpToDate
      <3>6. watcher'.dirs = new
        BY <1>9, <3>1 DEF PlaceOK
      <3>7. PlaceOK'
        BY <1>1, <1>2, <1>9, <1>11, <1>13, <3>1, <3>3, <3>4, <3>5, <3>6, PlaceStays DEF new
      <3>8. \A f \in o.sheets : images'[f] = Image(o, f) /\ Picture(o)[f] = Image(o, f)
        BY <1>2, <1>11, <3>5 DEF Picture
      <3>9. UpToDate(disk, root, o.sheets, images', pending[w])
        BY <3>4, <3>8 DEF UpToDate
      <3>10. \A f : Image(k, f) = Image(o, f)
        BY <1>5 DEF Image
      <3>11. images'[active] = Image(k, active) /\ images'[active] # Nothing
        BY <3>3, <3>4, <3>8, <3>10
      <3>12. ASSUME ~k.switched, active \notin DOMAIN o.fresh PROVE window.image = images'[active]
        <4>1. WindowOK
          BY <1>6, <3>3, <3>12
        <4>2. images[active] # Gone /\ images'[active] = images[active]
          BY <3>3, <3>4, <3>8, <3>12 DEF Image
        <4> QED BY <4>1, <4>2 DEF WindowOK
      <3>13. ToldOK(w)'
        BY <1>1, <1>5, <1>13, <3>3, <3>4, <3>9, <3>11, <3>12 DEF ToldOK
      <3> QED BY <3>7, <3>13 DEF StageOK
    <2> QED BY <1>1, <1>9, <2>1, <2>2, InViewAlone
  <1> QED BY <1>13, <1>14 DEF ViewInv

LEMMA TellStep ==
    ASSUME ViewInv, NEW w \in Workers, Tell(w)
    PROVE  ViewInv'
  <1> DEFINE o == worker[w]
             k == Waiting(o.root)
             told == (o.switched \/ o.key \in DOMAIN o.fresh) /\ Image(o, o.key) \notin {Nothing, Gone}
  <1>1. /\ o.at = "told" /\ worker' = [worker EXCEPT ![w] = k]
        /\ window' = [selected |-> o.key, image |-> IF told THEN Image(o, o.key) ELSE window.image]
        /\ UNCHANGED <<disk, root, active, listed, images, recorded, watcher, pending, command, crossed, opens, edits>>
    BY DEF Tell, Waiting, Image
  <1>2. WorkerShape(k) /\ worker[w] # NoWorker
    BY <1>1 DEF WorkerShape, Waiting, NoWorker
  <1>3. /\ window'.selected = o.key /\ window' = [selected |-> window'.selected, image |-> window'.image]
        /\ told => window'.image = Image(o, o.key)
        /\ ~told => window'.image = window.image
    BY <1>1
  <1> HIDE DEF told, k
  <1>4. DataTypes'
    BY <1>1, <1>3 DEF ViewInv, ViewerTypes, DataTypes
  <1>5. ViewerTypes' /\ worker'[w] = k /\ \A v \in Workers \ {w} : worker'[v] = worker[v]
    BY <1>1, <1>2, <1>4, TypesStay
  <1>6. ASSUME ~crossed' PROVE ViewOK'
    <2>1. ~crossed
      BY <1>1, <1>6
    <2>2. ASSUME root # Nothing PROVE PlaceOK' /\ StageOK(w)'
      <3>1. PlaceOK /\ StageOK(w) /\ w = watcher.of
        BY <1>1, <2>1, <2>2, BusyIsWatched
      <3>2. ToldOK(w)
        BY <1>1, <3>1, StageIs
      <3>3. /\ o.root = root /\ o.key = active /\ images[active] = Image(o, active) /\ images[active] # Nothing
            /\ UpToDate(disk, root, listed, images, pending[w])
        BY <3>2 DEF ToldOK
      <3>4. ~o.switched /\ active \notin DOMAIN o.fresh => window.image = images[active]
        BY <3>2 DEF ToldOK
      <3>5. ASSUME images[active] # Gone PROVE window'.image = images[active]
        <4>1. CASE told
          BY <1>3, <3>3, <4>1
        <4>2. CASE ~told
          <5>1. ~o.switched /\ active \notin DOMAIN o.fresh
            BY <3>3, <3>5, <4>2 DEF told
          <5> QED BY <1>3, <3>4, <4>2, <5>1
        <4> QED BY <4>1, <4>2
      <3>6. WindowOK'
        BY <1>1, <1>3, <3>3, <3>5 DEF WindowOK
      <3>7. WaitingOK(w)'
        BY <1>1, <1>5, <3>3, <3>6 DEF WaitingOK, k
      <3>8. PlaceOK'
        BY <1>1, <1>5, <3>1, PlaceStays DEF PlaceOK
      <3> QED BY <3>7, <3>8 DEF StageOK
    <2> QED BY <1>1, <2>1, <2>2, InViewAlone
  <1> QED BY <1>5, <1>6 DEF ViewInv

-----------------------------------------------------------------------------

LEMMA ViewStep == ViewInv /\ [ViewerNext]_viewerVars => ViewInv'
  <1> SUFFICES ASSUME ViewInv, [ViewerNext]_viewerVars PROVE ViewInv'
    OBVIOUS
  <1>1. CASE UNCHANGED viewerVars
    BY <1>1, NothingDone
  <1>2. CASE \E r \in Roots : Open(r)
    BY <1>2, OpenStep
  <1>3. CASE BuildWatcher \/ OpenEnds \/ Refresh \/ Refreshed
    BY <1>3, BuildWatcherStep, OpenEndsStep, RefreshStep, RefreshedStep
  <1>4. CASE \E f \in SheetFiles : SelectSheet(f) \/ (\E form \in Drawings[f] \cup {Gone} : SavesSheet(f, form))
    BY <1>4, SelectSheetStep, SavesSheetStep
  <1>5. CASE \E w \in Workers : Wake(w) \/ Drain(w) \/ Quiet(w) \/ Leaves(w) \/ Redraw(w) \/ Merge(w) \/ Publish(w) \/ Tell(w)
    BY <1>5, WakeStep, DrainStep, QuietStep, LeavesStep, RedrawStep, MergeStep, PublishStep, TellStep
  <1> QED BY <1>1, <1>2, <1>3, <1>4, <1>5 DEF ViewerNext

\* What is up to date, and of which nothing more is known, is what is saved.
LEMMA RestIsCurrent == ViewInv => ViewerHolds
  <1> SUFFICES ASSUME ViewInv, AtRest, ~crossed PROVE ShowsWhatIsSaved
    BY DEF ViewerHolds
  <1>1. PlaceOK /\ StageOK(watcher.of)
    BY DEF ViewInv, ViewOK, ShownOK, AtRest
  <1>2. watcher.of \in Workers /\ active \in listed
    BY <1>1 DEF PlaceOK
  <1>3. worker[watcher.of].at \in {"none", "waiting"} /\ pending[watcher.of] = {}
    BY <1>2 DEF AtRest, Busy
  <1>4. WaitingOK(watcher.of)
    BY <1>1, <1>2, <1>3, StageIs
  <1>5. listed = WalkOn(disk, root) /\ (\A f \in listed : images[f] \in {disk[f], Gone}) /\ WindowOK
    BY <1>3, <1>4 DEF WaitingOK, UpToDate
  <1>6. Walk(root) = WalkOn(disk, root)
    BY DEF Walk, WalkOn, Below, BelowOn, Kids, KidsOn
  <1> QED BY <1>2, <1>5, <1>6 DEF ShowsWhatIsSaved, WindowOK

\* The viewer has caught up (read_svg_cache, files_needing_render, watch_loop): at rest
\* it lists the tree as it is saved and shows what is saved, unless a command or an
\* unwatched save crossed a rendering.
THEOREM TheViewerCatchesUp == ViewerSpec => []ViewerHolds
  <1> QED BY ViewerInitially, ViewStep, RestIsCurrent, PTL DEF ViewerSpec
=============================================================================
