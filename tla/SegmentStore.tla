---------------------------- MODULE SegmentStore ----------------------------
(***************************************************************************)
(* One session's segments under their writer, the background compressor    *)
(* and a reader of the history.  An append cuts a torn tail, finds where   *)
(* the log continues, writes the batch line by line and syncs; it may fail *)
(* at any of these, or the process may be killed.  The compressor scans,   *)
(* packs a sealed segment into a temporary file, renames it and removes    *)
(* the plain one.  A query lists the segments and then opens them one by   *)
(* one.  Only one process owns the directory (the exclusive lock), and a   *)
(* kill loses nothing that was written.                                    *)
(***************************************************************************)
EXTENDS SegmentLog

CONSTANTS MaxSeq,       \* events in the log
          MaxBatch,     \* events in a batch
          SnapshotKinds,\* whether snapshots can be restored later
          Queries,      \* kinds of history queries
          Limit,        \* events that a query for older ones asks for
          MaxFaults     \* kills and I/O errors together

ASSUME SegmentStoreAssumption ==
  /\ MaxSeq \in Nat /\ MaxBatch \in Nat \ {0}
  /\ SnapshotKinds \subseteq {"snapshot", "unusable"}
  /\ Queries \subseteq {"after", "before"}
  /\ Limit \in Nat \ {0} /\ MaxFaults \in Nat

VARIABLES
  plain, packed, temps,  \* the directory: plain, compressed, temporary files
  cache,    \* the last sequence number as the store remembers it, or 0
  job,      \* the append under way: its segment and the lines to be written
  writer,   \* ready, busy, unsure after a failure, or lost without recovery
  state,    \* what the writer has folded
  written,  \* the visible events of the batches that were written to their end
  comp,     \* the compressor
  query,    \* the reader
  faults    \* how many of the bounded faults have happened

disk == <<plain, packed, temps>>
appending == <<cache, job, writer, state, written>>
vars == <<plain, packed, temps, cache, job, writer, state, written,
          comp, query, faults>>

NoJob == [name |-> 0, lines |-> NoLines, done |-> 0]
NoWork == [pc |-> "wait", active |-> 0, todo |-> {}]
NoQuery == [kind |-> "none", cursor |-> 0, paths |-> <<>>, above |-> 0, got |-> <<>>,
            scan |-> NewStream, held |-> NoLines, count |-> 0, from |-> 0,
            result |-> "none"]

Log == CommitsForward(AllFiles(plain, packed))
History == Records(Log)

Init ==
  /\ plain = <<>> /\ packed = <<>> /\ temps = {}
  /\ cache = 0 /\ job = NoJob /\ writer = "ready" /\ state = <<>>
  /\ written = <<>>
  /\ comp = NoWork /\ query = NoQuery
  /\ faults = 0

-----------------------------------------------------------------------------
(* Append.                                                                 *)

CanContinue == cache # 0 \/ Continuable(WithoutTail(plain), packed)
Base == IF cache # 0 THEN cache ELSE LastSequence(WithoutTail(plain), packed)

\* The torn tail is cut, and the segment is opened, created if it is new.
Begin(count, kind, cut) ==
  LET name == IF cut \/ plain = <<>> THEN Base + 1 ELSE Active(plain)
  IN /\ writer = "ready" /\ CanContinue
     /\ Base + count <= MaxSeq
     /\ plain' = Opened(WithoutTail(plain), name, [lines |-> NoLines, torn |-> FALSE])
     /\ job' = [name |-> name, lines |-> Batch(Base, count, kind, state), done |-> 0]
     /\ writer' = "busy"
     /\ UNCHANGED <<packed, temps, cache, state, written, comp, query, faults>>

AppendBatch ==
  \E count \in 1..MaxBatch :
    Begin(count, IF state = <<>> THEN "created" ELSE "event", FALSE)

\* A snapshot starts a new segment if the active one has reached its target;
\* lines are of any size.
AppendSnapshot ==
  /\ state # <<>>
  /\ \E kind \in SnapshotKinds, cut \in BOOLEAN : Begin(1, kind, cut)

\* The last sequence number is not to be had: the append is refused, and the
\* runner that asked for it fails.
RefuseAppend ==
  /\ writer = "ready" /\ ~CanContinue
  /\ plain' = WithoutTail(plain)
  /\ writer' = "unsure" /\ state' = <<>>
  /\ UNCHANGED <<packed, temps, cache, job, written, comp, query, faults>>

\* Part of a line is on disk, or the whole of it.
WritePart ==
  /\ writer = "busy" /\ job.done < Len(job.lines) /\ ~plain[job.name].torn
  /\ plain' = [plain EXCEPT ![job.name].torn = TRUE]
  /\ UNCHANGED <<packed, temps, appending, comp, query, faults>>

WriteLine ==
  /\ writer = "busy" /\ job.done < Len(job.lines)
  /\ plain' = [plain EXCEPT ![job.name] =
                 [lines |-> Append(@.lines, job.lines[job.done + 1]), torn |-> FALSE]]
  /\ job' = [job EXCEPT !.done = @ + 1]
  /\ written' = IF job'.done = Len(job.lines) THEN written \o Records(<<job.lines>>)
                ELSE written
  /\ UNCHANGED <<packed, temps, cache, writer, state, comp, query, faults>>

\* Synced: the store remembers where the log ends, the writer folds the batch.
Acknowledge ==
  /\ writer = "busy" /\ job.done = Len(job.lines)
  /\ cache' = Last(job.lines).seq
  /\ state' = state \o Records(<<job.lines>>)
  /\ writer' = "ready" /\ job' = NoJob
  /\ UNCHANGED <<disk, written, comp, query, faults>>

\* A write or the sync fails; what was written stays, the cache is dropped.
AppendFails ==
  /\ writer = "busy" /\ faults < MaxFaults
  /\ faults' = faults + 1
  /\ cache' = 0 /\ job' = NoJob /\ writer' = "unsure" /\ state' = <<>>
  /\ UNCHANGED <<disk, written, comp, query>>

Recover ==
  /\ writer = "unsure"
  /\ state' = Recovered(plain, packed)
  /\ writer' = IF state' = <<>> THEN "lost" ELSE "ready"
  /\ UNCHANGED <<disk, cache, job, written, comp, query, faults>>

\* The process is killed and started again.
Kill ==
  /\ faults < MaxFaults /\ plain # <<>>
  /\ faults' = faults + 1
  /\ cache' = 0 /\ job' = NoJob /\ writer' = "unsure" /\ state' = <<>>
  /\ comp' = NoWork /\ query' = NoQuery
  /\ UNCHANGED <<disk, written>>

-----------------------------------------------------------------------------
(* Compression.  A scan reads which segment is active, then lists the      *)
(* others; each is looked at again when its turn comes.                    *)

Source == Min(comp.todo)
NextSource == [comp EXCEPT !.pc = "check", !.todo = @ \ {Source}]

ScanActive ==
  /\ comp.pc = "wait" /\ Cardinality(DOMAIN plain) > 1
  /\ comp' = [NoWork EXCEPT !.pc = "list", !.active = Active(plain)]
  /\ UNCHANGED <<disk, appending, query, faults>>

\* Mutant: what has been packed is not looked at again.
ListUnpacked ==
  /\ comp.pc = "list"
  /\ comp' = [comp EXCEPT !.pc = "check", !.todo = DOMAIN plain \ ({comp.active} \cup DOMAIN packed)]
  /\ UNCHANGED <<disk, appending, query, faults>>

ListSealed ==
  /\ comp.pc = "list"
  /\ comp' = [comp EXCEPT !.pc = "check", !.todo = DOMAIN plain \ {comp.active}]
  /\ UNCHANGED <<disk, appending, query, faults>>

StillActive(name) == name = Active(plain)

\* Nothing to do for the candidate: it is the active segment after all.
SkipSource ==
  /\ comp.pc = "check" /\ comp.todo # {}
  /\ StillActive(Source)
  /\ comp' = NextSource
  /\ UNCHANGED <<disk, appending, query, faults>>

\* An earlier run was interrupted after the rename.
RemoveLeftover ==
  /\ comp.pc = "check" /\ comp.todo # {}
  /\ ~StillActive(Source) /\ Source \in DOMAIN packed
  /\ plain' = Restrict(plain, DOMAIN plain \ {Source})
  /\ comp' = NextSource
  /\ UNCHANGED <<packed, temps, appending, query, faults>>

Pack ==
  /\ comp.pc = "check" /\ comp.todo # {}
  /\ ~StillActive(Source) /\ Source \notin DOMAIN packed
  /\ PrefixKnown(plain[Source].lines)
  /\ temps' = temps \cup {Source}
  /\ comp' = [comp EXCEPT !.pc = "packed"]
  /\ UNCHANGED <<plain, packed, appending, query, faults>>

Rename ==
  /\ comp.pc = "packed"
  /\ packed' = Opened(packed, Source, CompletePrefix(plain[Source].lines))
  /\ temps' = temps \ {Source}
  /\ comp' = [comp EXCEPT !.pc = "renamed"]
  /\ UNCHANGED <<plain, appending, query, faults>>

RemoveSource ==
  /\ comp.pc = "renamed"
  /\ plain' = Restrict(plain, DOMAIN plain \ {Source})
  /\ comp' = NextSource
  /\ UNCHANGED <<packed, temps, appending, query, faults>>

CompressionFails ==
  /\ comp.pc \in {"packed", "renamed"} /\ faults < MaxFaults
  /\ faults' = faults + 1
  /\ temps' = temps \ {Source}
  /\ comp' = NextSource
  /\ UNCHANGED <<plain, packed, appending, query>>

\* Nothing is left; a wake or the retry interval starts the next scan.
Rest ==
  /\ comp.pc = "check" /\ comp.todo = {}
  /\ comp' = NoWork
  /\ UNCHANGED <<disk, appending, query, faults>>

-----------------------------------------------------------------------------
(* History queries.                                                        *)

Listed(paths) == [i \in DOMAIN paths |-> [name |-> paths[i], plain |-> paths[i] \in DOMAIN plain]]
LastSeen == IF History = <<>> THEN 0 ELSE Last(History)

\* The segments are listed: from the cursor's on, or from it back.
Ask ==
  /\ query.result # "reading"
  /\ \E kind \in Queries, cursor \in {0} \cup ToSet(History) :
       LET upTo == {n \in Names(plain, packed) : cursor = 0 \/ n <= cursor}
           paths == IF kind = "after" THEN HistoryPaths(plain, packed, cursor)
                    ELSE Reverse(Ascending(upTo))
       IN query' = [NoQuery EXCEPT !.kind = kind, !.cursor = cursor,
                      !.paths = Listed(paths), !.from = LastSeen, !.result = "reading"]
  /\ UNCHANGED <<disk, appending, comp, faults>>

Path == Head(query.paths)
Reading == query.result = "reading" /\ query.paths # <<>>
Gone == Path.plain /\ Path.name \notin DOMAIN plain

\* What an open file reads: a removed file keeps what it held.
Content == IF ~Path.plain THEN packed[Path.name]
           ELSE IF Gone THEN query.held ELSE plain[Path.name].lines

\* The segment was removed between the listing and the opening.
MissSegment ==
  /\ Reading /\ Gone /\ query.held = NoLines
  /\ query' = [NoQuery EXCEPT !.result = "gone"]
  /\ UNCHANGED <<disk, appending, comp, faults>>

ReadAfter ==
  /\ Reading /\ query.kind = "after" /\ ~Gone
  /\ query' = [query EXCEPT !.scan = ReadForward(@, <<Content>>), !.paths = Tail(@)]
  /\ UNCHANGED <<disk, appending, comp, faults>>

AnswerAfter ==
  /\ query.result = "reading" /\ query.kind = "after" /\ query.paths = <<>>
  /\ LET seen == Records(query.scan.commits)
         after(n) == n > query.cursor
     IN query' = [query EXCEPT !.scan = NewStream, !.got = SelectSeq(seen, after),
                    !.result = IF query.scan.faults > 0 THEN "invalid"
                               ELSE IF query.cursor \in {0} \cup ToSet(seen) THEN "ok"
                               ELSE "unknown"]
  /\ UNCHANGED <<disk, appending, comp, faults>>

\* Mutant: the cursor's own event is among those before it.
BeforeAndAt(records) ==
  LET before(n) == query.cursor = 0 \/ n <= query.cursor IN SelectSeq(records, before)

\* The first pass over a segment counts, the second takes the last that are
\* still wanted.  The cursor's segment is read up to the cursor.
Before(records) ==
  LET before(n) == query.cursor = 0 \/ n < query.cursor IN SelectSeq(records, before)
Wanted == Limit - Len(query.got)

CountSegment ==
  /\ Reading /\ query.kind = "before" /\ ~Gone /\ query.held = NoLines
  /\ LET commits == CommitsForward(<<Content>>)
         records == Records(commits)
         overlaps == /\ query.above # 0 /\ commits # <<>>
                     /\ Last(Last(commits)).seq >= query.above
     IN query' = IF query.above = 0 /\ query.cursor # 0 /\ query.cursor \notin ToSet(records)
                 THEN [NoQuery EXCEPT !.result = "unknown"]
                 ELSE IF overlaps THEN [NoQuery EXCEPT !.result = "invalid"]
                 ELSE IF Before(records) = <<>>
                 THEN [query EXCEPT !.above = Path.name, !.paths = Tail(@)]
                 ELSE [query EXCEPT !.held = Content, !.count = Len(Before(records))]
  /\ UNCHANGED <<disk, appending, comp, faults>>

TakeSegment ==
  /\ Reading /\ query.kind = "before" /\ query.held # NoLines
  /\ LET records == Records(CommitsForward(<<Content>>))
         taken == IF query.count < Wanted THEN query.count ELSE Wanted
         local == SubSeq(records, query.count - taken + 1, query.count)
         got == local \o query.got
     IN query' = [query EXCEPT !.got = got, !.held = NoLines, !.count = 0,
                    !.above = Path.name,
                    !.paths = IF Len(got) = Limit THEN <<>> ELSE Tail(@)]
  /\ UNCHANGED <<disk, appending, comp, faults>>

AnswerBefore ==
  /\ query.result = "reading" /\ query.kind = "before" /\ query.paths = <<>>
  /\ query' = [query EXCEPT !.result = "ok"]
  /\ UNCHANGED <<disk, appending, comp, faults>>

-----------------------------------------------------------------------------
Compressor == \/ ScanActive \/ ListSealed \/ SkipSource \/ RemoveLeftover
              \/ Pack \/ Rename \/ RemoveSource \/ Rest
Next ==
  \/ AppendBatch \/ AppendSnapshot \/ RefuseAppend
  \/ WritePart \/ WriteLine \/ Acknowledge \/ AppendFails \/ Recover \/ Kill
  \/ ScanActive \/ ListSealed \/ SkipSource \/ RemoveLeftover
  \/ Pack \/ Rename \/ RemoveSource \/ CompressionFails \/ Rest
  \/ Ask \/ MissSegment \/ ReadAfter \/ AnswerAfter
  \/ CountSegment \/ TakeSegment \/ AnswerBefore

Spec == Init /\ [][Next]_vars

\* The compressor is a task that is always scheduled again.
FairSpec == Spec /\ WF_vars(Compressor)
=============================================================================
