--------------------------- MODULE PartsCatalogue ---------------------------
(***************************************************************************)
(* The JLCPCB parts database: tools/integration.rs.  A download fetches a  *)
(* manifest and the chunks of an archive into one file beside the database,*)
(* inflates it into another, validates that and renames it into place.     *)
(* Searches read the database and keep their answers for a while (the      *)
(* QueryCache of tools/mod.rs).                                            *)
(*                                                                         *)
(* Creating a file that exists empties it, whoever has it open; a rename   *)
(* moves the file, and whoever has it open writes on.  So files are        *)
(* numbered, and a name stands for a number.                               *)
(*                                                                         *)
(* A client that goes away takes its call with it, but not the operation   *)
(* on files that is under way: those run on threads of their own, and      *)
(* inflating and validating is one such operation.                         *)
(***************************************************************************)
EXTENDS Integers, Sequences, FiniteSets

CONSTANTS
  Downloads,    \* calls of download_jlcpcb_database
  Searchers,    \* calls that query the database
  Catalogues,   \* the published libraries
  Chunks,       \* Chunks[c]: how many chunks the archive of c has
  NoDatabase, Garbage,
  MaxAttempts,  \* RETRY_MAX_ATTEMPTS
  Ttl,          \* ticks for which an answer is kept
  Longest,      \* ticks a search may take
  MaxFetches,   \* bound: attempts that fail, calls that end where they stand, clients that go away
  MaxFiles, MaxTicks, MaxAsked  \* bounds on files, the clock and searches

ASSUME CatalogueAssumption == Chunks \in [Catalogues -> Nat \ {0}] /\ NoDatabase \notin Nat
ASSUME LimitsAssumption == {MaxAttempts, Ttl} \subseteq Nat \ {0} /\ Longest \in Nat

VARIABLES
  names,     \* "db", "download", "inflating" -> the file of that name, or NoDatabase
  files,     \* the files there have been: an archive's chunks, or a database
  loader,    \* download -> where it is
  strays,    \* the downloads whose clients have gone, and that are finishing an operation
  met,       \* history: what a download has found at work, a "call" or a "stray"
  failures,
  ticks, seen,  \* the clock; seen[t]: what the database was in the course of tick t
  cache,     \* the kept answer: [says, at], or NoDatabase
  searcher,  \* search -> where it is
  questions

catalogueVars == <<names, files, loader, strays, met, failures, ticks, seen, cache, searcher, questions>>

Database(c, source) == [parts |-> c, source |-> source]
Whole(c) == [i \in 1..Chunks[c] |-> <<c, i>>]
IdleLoader == [at |-> "idle"]
IdleSearcher == [at |-> "idle"]

CatalogueInit ==
  /\ names = [name \in {"db", "download", "inflating"} |-> NoDatabase]
  /\ files = <<>>
  /\ loader = [d \in Downloads |-> IdleLoader]
  /\ strays = {} /\ met = {}
  /\ failures = 0
  /\ ticks = 0 /\ seen = <<{NoDatabase}>>
  /\ cache = NoDatabase
  /\ searcher = [s \in Searchers |-> IdleSearcher]
  /\ questions = 0

Stored == IF names["db"] = NoDatabase THEN NoDatabase ELSE files[names["db"]]
Noted == seen' = [seen EXCEPT ![ticks + 1] = @ \cup {Stored'}]
Goes(d, at) == loader' = [loader EXCEPT ![d].at = at]
searchVars == <<ticks, cache, searcher, questions>>

\* File::create: the file of that name is emptied, or there is a new one.
Created(name) ==
  IF names[name] = NoDatabase
  THEN names' = [names EXCEPT ![name] = Len(files) + 1] /\ files' = Append(files, <<>>)
  ELSE UNCHANGED names /\ files' = [files EXCEPT ![names[name]] = <<>>]
Opened(name) == IF names[name] = NoDatabase THEN Len(files) + 1 ELSE names[name]

\* The operation is done: the call goes on as l, or there is no call any more.
Proceeds(d, l) ==
  /\ loader' = [loader EXCEPT ![d] = IF d \in strays THEN IdleLoader ELSE l]
  /\ strays' = strays \ {d}

\* The temporaries are removed, one and then the other: without its call at most the first.
Discarded == [names EXCEPT !["download"] = NoDatabase, !["inflating"] = NoDatabase]
Discards(d) ==
  names' \in IF d \in strays THEN {names, [names EXCEPT !["download"] = NoDatabase]} ELSE {Discarded}
Thwarted(d) == Discards(d) /\ Proceeds(d, IdleLoader)

-----------------------------------------------------------------------------
\* A database that is there is downloaded again only by force.
Download(d, c, force) ==
  /\ loader[d].at = "idle" /\ Len(files) < MaxFiles
  /\ names["db"] = NoDatabase \/ force
  /\ loader' = [loader EXCEPT ![d] = [at |-> "manifest", c |-> c, next |-> 1, attempt |-> 1, file |-> 0]]
  /\ met' = met \cup {IF e \in strays THEN "stray" ELSE "call" : e \in {e \in Downloads : loader[e].at # "idle"}}
  /\ UNCHANGED <<names, files, strays, failures, seen, searchVars>>

\* The archive is opened once the manifest is there.
OpenArchive(d) ==
  /\ loader[d].at = "manifest"
  /\ Created("download")
  /\ Proceeds(d, [loader[d] EXCEPT !.at = "chunks", !.file = Opened("download")])
  /\ UNCHANGED <<met, failures, seen, searchVars>>

\* A chunk goes where this call's own writing has got to; what is left out is zeros.
Written(file, at, chunk) ==
  [i \in 1..(IF at > Len(file) THEN at ELSE Len(file)) |->
     IF i = at THEN chunk ELSE IF i <= Len(file) THEN file[i] ELSE Garbage]

FetchChunk(d) ==
  /\ loader[d].at = "chunks" /\ loader[d].next <= Chunks[loader[d].c]
  /\ files' = [files EXCEPT ![loader[d].file] = Written(@, loader[d].next, <<loader[d].c, loader[d].next>>)]
  /\ Proceeds(d, [loader[d] EXCEPT !.next = @ + 1, !.attempt = 1])
  /\ UNCHANGED <<names, met, failures, seen, searchVars>>

FetchFails == failures < MaxFetches /\ failures' = failures + 1

\* get_with_backoff: a transient failure is tried again, a few times.
RetryFetch(d) ==
  /\ loader[d].at \in {"manifest", "chunks"} /\ d \notin strays
  /\ FetchFails /\ loader[d].attempt < MaxAttempts
  /\ loader' = [loader EXCEPT ![d].attempt = @ + 1]
  /\ UNCHANGED <<names, files, strays, met, seen, searchVars>>

\* Given up, or refused, or a full disk while inflating: the temporaries of a
\* download that had begun are removed.
GiveUp(d) ==
  /\ loader[d].at \in {"manifest", "chunks", "copy", "validate"} /\ FetchFails
  /\ IF loader[d].at = "manifest" THEN UNCHANGED names /\ Proceeds(d, IdleLoader) ELSE Thwarted(d)
  /\ UNCHANGED <<files, met, seen, searchVars>>

\* A body that breaks off, an error of a write or the rename, or a client that goes
\* away between two operations: the call ends where it stands and removes nothing.
BreakOff(d) ==
  /\ loader[d].at \in {"manifest", "chunks", "rename"} /\ d \notin strays /\ FetchFails
  /\ loader' = [loader EXCEPT ![d] = IdleLoader]
  /\ UNCHANGED <<names, files, strays, met, seen, searchVars>>

\* The client goes away during an operation, which is finished without it.
Leave(d) ==
  /\ loader[d].at # "idle" /\ d \notin strays /\ FetchFails
  /\ strays' = strays \cup {d}
  /\ UNCHANGED <<names, files, loader, met, seen, searchVars>>

\* inflate_and_validate opens the archive by its name, and goes on if it is one.
Inflate(d) ==
  /\ loader[d].at = "chunks" /\ loader[d].next > Chunks[loader[d].c]
  /\ LET archive == IF names["download"] = NoDatabase THEN <<>> ELSE files[names["download"]]
     IN \/ /\ \E c \in Catalogues :
                /\ archive = Whole(c)
                /\ loader' = [loader EXCEPT ![d].at = "copy", ![d].file = Opened("inflating"), ![d].next = c]
           /\ Created("inflating")
           /\ UNCHANGED strays
        \/ /\ \A c \in Catalogues : archive # Whole(c)
           /\ Thwarted(d)
           /\ UNCHANGED files
  /\ UNCHANGED <<met, failures, seen, searchVars>>

\* The database is written out; this takes a while, and the file may be moved meanwhile.
Copy(d) ==
  /\ loader[d].at = "copy"
  /\ files' = [files EXCEPT ![loader[d].file] = Database(loader[d].next, NoDatabase)]
  /\ Goes(d, "validate")
  /\ UNCHANGED <<names, strays, met, failures, searchVars>>
  /\ Noted

IsDatabase(f) == f \in [parts : Catalogues, source : Catalogues \cup {NoDatabase}]

\* Whatever has the name now is asked for its parts and told where it comes from
\* (a file that is missing would be made, empty, and refused just so).
Validate(d) ==
  /\ loader[d].at = "validate"
  /\ LET f == names["inflating"]
     IN IF f # NoDatabase /\ IsDatabase(files[f])
        THEN /\ files' = [files EXCEPT ![f] = Database(@.parts, loader[d].c)]
             /\ Proceeds(d, [loader[d] EXCEPT !.at = "rename"])
             /\ UNCHANGED names
        ELSE Thwarted(d) /\ UNCHANGED files
  /\ UNCHANGED <<met, failures, searchVars>>
  /\ Noted

\* In place; the archive is removed after that.
Renamed(d) ==
  [names EXCEPT !["db"] = names["inflating"], !["inflating"] = NoDatabase,
                !["download"] = IF d \in strays THEN @ ELSE NoDatabase]

\* A fault to detect: the database is renamed into place before it is validated.
RenameFirst(d) ==
  /\ loader[d].at \in {"copy", "rename"}
  /\ names' = IF names["inflating"] = NoDatabase THEN names ELSE Renamed(d)
  /\ Proceeds(d, IdleLoader)
  /\ UNCHANGED <<files, met, failures, searchVars>>
  /\ Noted

Rename(d) ==
  /\ loader[d].at = "rename"
  /\ names' = IF names["inflating"] = NoDatabase THEN names ELSE Renamed(d)
  /\ Proceeds(d, IdleLoader)
  /\ UNCHANGED <<files, met, failures, searchVars>>
  /\ Noted

-----------------------------------------------------------------------------
\* One query stands for all: its answer says which library it was answered from.
Fresh == cache # NoDatabase /\ ticks - cache.at < Ttl

Search(s) ==
  /\ searcher[s].at = "idle" /\ questions < MaxAsked /\ names["db"] # NoDatabase
  /\ questions' = questions + 1
  /\ searcher' = [searcher EXCEPT ![s] = IF Fresh THEN [at |-> "answered", says |-> cache.says, since |-> ticks]
                                         ELSE [at |-> "open", since |-> ticks]]
  /\ UNCHANGED <<names, files, loader, strays, met, failures, seen, ticks, cache>>

Query(s) ==
  /\ searcher[s].at = "open"
  /\ searcher' = [searcher EXCEPT ![s] = [at |-> "read", says |-> Stored, since |-> @.since]]
  /\ UNCHANGED <<names, files, loader, strays, met, failures, seen, ticks, cache, questions>>

Keep(s) ==
  /\ searcher[s].at = "read"
  /\ cache' = IF IsDatabase(searcher[s].says) THEN [says |-> searcher[s].says, at |-> ticks] ELSE cache
  /\ searcher' = [searcher EXCEPT ![s].at = "answered"]
  /\ UNCHANGED <<names, files, loader, strays, met, failures, seen, ticks, questions>>

Answered(s) ==
  /\ searcher[s].at = "answered"
  /\ searcher' = [searcher EXCEPT ![s] = IdleSearcher]
  /\ UNCHANGED <<names, files, loader, strays, met, failures, seen, ticks, cache, questions>>

Tick ==
  /\ ticks < MaxTicks
  /\ \A s \in Searchers : searcher[s].at \in {"open", "read"} => ticks - searcher[s].since < Longest
  /\ ticks' = ticks + 1
  /\ seen' = Append(seen, {Stored})
  /\ UNCHANGED <<names, files, loader, strays, met, failures, cache, searcher, questions>>

CatalogueNext ==
  \/ \E d \in Downloads :
       \/ \E c \in Catalogues, force \in BOOLEAN : Download(d, c, force)
       \/ OpenArchive(d) \/ FetchChunk(d) \/ RetryFetch(d) \/ GiveUp(d) \/ BreakOff(d) \/ Leave(d)
       \/ Inflate(d) \/ Copy(d) \/ Validate(d) \/ Rename(d)
  \/ \E s \in Searchers : Search(s) \/ Query(s) \/ Keep(s) \/ Answered(s)
  \/ Tick

CatalogueSpec == CatalogueInit /\ [][CatalogueNext]_catalogueVars

-----------------------------------------------------------------------------
\* What bears the database's name is a whole database that says which library it
\* is: downloads that fail at any point leave the one before in place.
DatabaseIsWhole == Stored # NoDatabase => IsDatabase(Stored) /\ Stored.source = Stored.parts

\* An answer tells what the database held at some moment since the question, or
\* at most Ttl and a search before it: a new download is seen that soon.
AnswersAreRecent ==
  \A s \in Searchers :
    searcher[s].at = "answered" =>
      \E t \in 0..ticks : t > searcher[s].since - Ttl - Longest /\ searcher[s].says \in seen[t + 1]

\* The database is a whole one where no download has begun while another, or what
\* one has left behind, was at work; answers are recent whatever the downloads do.
CatalogueHolds == (met = {} => DatabaseIsWhole) /\ AnswersAreRecent

\* Not so: that a failure never leaves a half-written file under the database's name.
\* A client goes away and asks again; what its first call has left behind empties the
\* temporary that the second has validated, and the second renames it into place.
NeverHalfWritten == "call" \notin met /\ Stored # NoDatabase => IsDatabase(Stored)
=============================================================================
