----------------------------- MODULE RunJournal -----------------------------
(***************************************************************************)
(* The run journal of kam-state/src/journal.rs: one line per batch in      *)
(* journal.jsonl and, budget permitting, a directory of images per batch.  *)
(* A server appends under a mutex, so it has one append at a time; what    *)
(* interrupts it is an I/O error or the end of the server, after any write.*)
(***************************************************************************)
EXTENDS Integers, Sequences, FiniteSets, Sublists

CONSTANTS
    Servers,     \* processes with this journal directory open
    Runs,        \* the batches recorded, each under an id of its own
    NoRun,       \* the run of a server that records none
    ImageFiles,  \* ImageFiles[r]: image files the documents of run r need, one unit of bytes each
    MaxEntries, MaxImageSets, MaxImageBytes, MaxEntryBytes,  \* JournalLimits
    MaxStops     \* bound: appends cut short

ASSUME RunsAssumption == NoRun \notin Runs
ASSUME ImagesAssumption == ImageFiles \in [Runs -> Nat]
ASSUME LimitsAssumption == {MaxEntries, MaxImageSets, MaxImageBytes, MaxEntryBytes, MaxStops} \subseteq Nat

VARIABLES
    lines,     \* journal.jsonl: each line the runs written into it, and whether it parses
    ended,     \* the file ends in a newline (or is empty)
    files,     \* files[r]: image files of run r on disk; 0 when it has no directory
    append,    \* append[s]: the append server s is at
    returned,  \* the runs whose append returned Ok
    stops      \* how many appends were cut short so far

journalVars == <<lines, ended, files, append, returned, stops>>

Line == [runs : SUBSET Runs, whole : BOOLEAN]

\* `kept' is what compaction read, `victims' the image sets eviction has yet to
\* remove, oldest first.
AppendState == [at : {"idle", "images", "line", "newline", "compact", "rename", "measure", "evict"},
            run : Runs \cup {NoRun}, kept : Seq(Line), victims : Seq(Runs)]

Idle == [at |-> "idle", run |-> NoRun, kept |-> <<>>, victims |-> <<>>]

JournalInit ==
    /\ lines = <<>> /\ ended = TRUE
    /\ files = [r \in Runs |-> 0]
    /\ append = [s \in Servers |-> Idle]
    /\ returned = {} /\ stops = 0

\* The runs a reader of the journal sees, oldest first; a line that does not
\* parse is skipped.
Entries(ls) ==
    LET good == Sublist(ls, {i \in DOMAIN ls : ls[i].whole})
    IN  [i \in DOMAIN good |-> CHOOSE r \in good[i].runs : TRUE]

\* Of these runs the ones that have images.
WithImages(runs) == Sublist(runs, {i \in DOMAIN runs : files[runs[i]] > 0})

Readable(r) == \E i \in DOMAIN lines : lines[i].whole /\ r \in lines[i].runs

Used == returned \cup {append[s].run : s \in Servers} \cup {r \in Runs : files[r] > 0}
          \cup UNION {lines[i].runs : i \in DOMAIN lines}

Goto(s, at) == append' = [append EXCEPT ![s].at = at]

\* append: take the lock and an id, and decide whether the entry has images.
Begin(s, r) ==
    /\ append[s].at = "idle" /\ r \notin Used
    /\ append' = [append EXCEPT ![s] = [Idle EXCEPT !.run = r,
                    !.at = IF ImageFiles[r] \in 1..MaxEntryBytes THEN "images" ELSE "line"]]
    /\ UNCHANGED <<lines, ended, files, returned, stops>>

\* The images are written one file after the other, before the line.
WriteImage(s) ==
    LET r == append[s].run
    IN  /\ append[s].at = "images"
        /\ files' = [files EXCEPT ![r] = @ + 1]
        /\ Goto(s, IF files[r] + 1 = ImageFiles[r] THEN "line" ELSE "images")
        /\ UNCHANGED <<lines, ended, returned, stops>>

\* Text that is appended goes behind what is there: with no newline at the end
\* of the file it joins the last line, and neither entry parses any more.
Written(r, whole) ==
    IF ended THEN Append(lines, [runs |-> {r}, whole |-> whole])
    ELSE [lines EXCEPT ![Len(lines)] = [runs |-> @.runs \cup {r}, whole |-> FALSE]]

WriteLine(s) ==
    /\ append[s].at = "line"
    /\ lines' = Written(append[s].run, TRUE)
    /\ ended' = FALSE
    /\ Goto(s, "newline")
    /\ UNCHANGED <<files, returned, stops>>

\* writeln! on an unbuffered file: the newline is a write of its own.
EndLine(s) ==
    /\ append[s].at = "newline"
    /\ ended' = TRUE
    /\ Goto(s, "compact")
    /\ UNCHANGED <<lines, files, returned, stops>>

\* compact_entries reads the file and is done unless it has grown too long.
ReadLines(s) ==
    /\ append[s].at = "compact"
    /\ append' = [append EXCEPT ![s] =
         IF Len(lines) <= MaxEntries THEN [@ EXCEPT !.at = "measure"]
         ELSE [@ EXCEPT !.at = "rename", !.kept = SubSeq(lines, Len(lines) - MaxEntries + 1, Len(lines))]]
    /\ UNCHANGED <<lines, ended, files, returned, stops>>

\* A fault to detect: the lines are put back without the last newline.
ReplaceLinesUnended(s) ==
    /\ append[s].at = "rename"
    /\ lines' = append[s].kept
    /\ ended' = FALSE
    /\ append' = [append EXCEPT ![s].at = "measure", ![s].kept = <<>>]
    /\ UNCHANGED <<files, returned, stops>>

\* write_atomic puts what was kept in place of whatever is there now.
ReplaceLines(s) ==
    /\ append[s].at = "rename"
    /\ lines' = append[s].kept
    /\ ended' = TRUE
    /\ append' = [append EXCEPT ![s].at = "measure", ![s].kept = <<>>]
    /\ UNCHANGED <<files, returned, stops>>

\* The bytes of the first n image sets.
Bytes(n, sets) == Total([i \in DOMAIN sets |-> files[sets[i]]], n)

\* A fault to detect: only the number of sets is looked at.
VictimsByCount(sets) ==
    SubSeq(sets, 1, IF Len(sets) > MaxImageSets THEN Len(sets) - MaxImageSets ELSE 0)

\* The oldest of these image sets, as many as the two budgets call for.
Victims(sets) ==
    LET over(k) == Len(sets) - k > MaxImageSets \/ Bytes(Len(sets), sets) - Bytes(k, sets) > MaxImageBytes
        n == CHOOSE k \in 0..Len(sets) : (k = Len(sets) \/ ~over(k)) /\ \A j \in 0..(k - 1) : over(j)
    IN  SubSeq(sets, 1, n)

\* evict_images measures the sets of the entries it can read, and of no others.
Measure(s) ==
    /\ append[s].at = "measure"
    /\ append' = [append EXCEPT ![s].at = "evict",
                                ![s].victims = Victims(WithImages(Entries(lines)))]
    /\ UNCHANGED <<lines, ended, files, returned, stops>>

\* remove_dir_all, file by file.  A set that another server removed is an error.
EvictFile(s) ==
    /\ append[s].at = "evict" /\ append[s].victims # <<>>
    /\ LET r == Head(append[s].victims)
       IN  IF files[r] = 0
           THEN /\ append' = [append EXCEPT ![s] = Idle]
                /\ UNCHANGED files
           ELSE /\ files' = [files EXCEPT ![r] = @ - 1]
                /\ append' = [append EXCEPT ![s].victims = IF files[r] = 1 THEN Tail(@) ELSE @]
    /\ UNCHANGED <<lines, ended, returned, stops>>

Return(s) ==
    /\ append[s].at = "evict" /\ append[s].victims = <<>>
    /\ returned' = returned \cup {append[s].run}
    /\ append' = [append EXCEPT ![s] = Idle]
    /\ UNCHANGED <<lines, ended, files, stops>>

\* An I/O error or the end of the server leaves the disk as it is, perhaps with
\* the first part of a line.
CutShort(s) ==
    /\ append[s].at # "idle" /\ stops < MaxStops
    /\ stops' = stops + 1
    /\ append' = [append EXCEPT ![s] = Idle]
    /\ \/ UNCHANGED <<lines, ended>>
       \/ /\ append[s].at = "line"
          /\ lines' = Written(append[s].run, FALSE)
          /\ ended' = FALSE
    /\ UNCHANGED <<files, returned>>

JournalStep(s) ==
    \/ \E r \in Runs : Begin(s, r)
    \/ WriteImage(s) \/ WriteLine(s) \/ EndLine(s)
    \/ ReadLines(s) \/ ReplaceLines(s)
    \/ Measure(s) \/ EvictFile(s) \/ Return(s)
    \/ CutShort(s)

JournalNext == \E s \in Servers : JournalStep(s)

JournalSpec == JournalInit /\ [][JournalNext]_journalVars
-----------------------------------------------------------------------------
JournalTypeOK ==
    /\ lines \in Seq(Line) /\ ended \in BOOLEAN
    /\ files \in [Runs -> Nat]
    /\ append \in [Servers -> AppendState]
    /\ returned \subseteq Runs /\ stops \in Nat

\* A recorded run whose append returned Ok and whose line can not be read although
\* no newer lines pushed it out: the line it shares is torn.
Lost == {r \in returned : ~Readable(r) /\ \E i \in DOMAIN lines : r \in lines[i].runs}

\* With one server, each append cut short costs at most one entry that was
\* acknowledged: the one that came to stand behind the torn line (entries and
\* compact_entries, `a journal with one corrupt line is still worth reading').
TornLinesCostOne == Cardinality(Lost) <= stops

\* After an append that returned Ok the images of the entries a reader sees are
\* within both budgets (evict_images).
BudgetHolds ==
    [][\A s \in Servers : Return(s) =>
         LET sets == WithImages(Entries(lines))
         IN  Len(sets) <= MaxImageSets /\ Bytes(Len(sets), sets) <= MaxImageBytes]_journalVars

\* What the doc of the limits says (journal.rs:45, "Image sets ... kept on disk"):
\* with no append cut short, the sets on disk are within the budget whenever an
\* append has returned, whether or not a line names them.
BudgetOnDisk ==
    [][\A s \in Servers : Return(s) /\ stops = 0 =>
         Cardinality({r \in Runs : files[r] > 0}) <= MaxImageSets]_journalVars

\* What the doc of write_lock asks for, and what two servers on one directory
\* break: an entry that was acknowledged is readable until MaxEntries newer
\* ones are.
EntriesSurvive ==
    \A r \in returned : Readable(r) \/ Cardinality({q \in returned : Readable(q)}) >= MaxEntries
=============================================================================
