----------------------------- MODULE SegmentLog -----------------------------
(***************************************************************************)
(* What a session's directory holds and how it is read back: segments of   *)
(* envelope lines, the streams that put lines together to commits and to   *)
(* snapshot windows, and the recovery of a state from them.                *)
(*                                                                         *)
(* An event is known by its sequence number, a state by the numbers of the *)
(* events folded into it: <<>> is the state before SessionCreated.  A file *)
(* is its complete lines and whether an unfinished one follows them.  A    *)
(* directory maps the first number of a segment to its plain file and to   *)
(* the lines of its compressed one; both exist for a while.                *)
(***************************************************************************)
EXTENDS Naturals, SequencesExt

\* Left fold over a sequence.  (The set of one element has each intermediate
\* result computed once.)
FoldLines(op(_, _), base, seq) ==
  LET f[i \in 0..Len(seq)] ==
        IF i = 0 THEN base
        ELSE CHOOSE r \in {op(acc, seq[i]) : acc \in {f[i - 1]}} : TRUE
  IN f[Len(seq)]

LineKinds == {"created", "event", "snapshot", "unusable"}
NoLines == <<>>

IsSnapshot(line) == line.kind \in {"snapshot", "unusable"}
Visible(line) == ~IsSnapshot(line)

\* The lines of a batch that continues the log after sequence number base.
\* A snapshot carries the state of its writer; the first batch creates the session.
Batch(base, count, kind, state) ==
  [i \in 1..count |->
     [seq |-> base + i, index |-> i - 1, count |-> count,
      kind |-> IF kind = "created" /\ i > 1 THEN "event" ELSE kind,
      state |-> IF kind \in {"snapshot", "unusable"} THEN state ELSE <<>>]]

-----------------------------------------------------------------------------
(* Segments.                                                               *)

Names(plain, packed) == DOMAIN plain \cup DOMAIN packed

\* The plain file is preferred to the compressed one of the same name.
LinesOf(plain, packed, name) ==
  IF name \in DOMAIN plain THEN plain[name].lines ELSE packed[name]

\* The files with one more, if it is new.
Opened(files, name, content) ==
  [n \in DOMAIN files \cup {name} |-> IF n \in DOMAIN files THEN files[n] ELSE content]

\* A set of numbers in ascending order.
Ascending(S) == [i \in 1..Cardinality(S) |->
                   CHOOSE n \in S : Cardinality({m \in S : m < n}) = i - 1]

SegmentPaths(plain, packed) == Ascending(Names(plain, packed))

\* 0 when there is none.
Greatest(S) == Max(S \cup {0})
Active(plain) == Greatest(DOMAIN plain)
Latest(plain, packed) == Greatest(Names(plain, packed))

WithoutTail(plain) ==
  IF plain = <<>> THEN plain ELSE [plain EXCEPT ![Active(plain)].torn = FALSE]

\* Whether the latest segment says where the log continues, and where.
Continuable(plain, packed) ==
  LET name == Latest(plain, packed)
  IN name = 0 \/ (name \in DOMAIN plain /\ plain[name].lines # NoLines)
LastSequence(plain, packed) ==
  LET name == Latest(plain, packed)
  IN IF name = 0 THEN 0 ELSE Last(plain[name].lines).seq

\* Mutant: the index is compared as if it were counted from one.
CompletePrefixShort(lines) ==
  IF lines = NoLines \/ Last(lines).index = Last(lines).count THEN lines
  ELSE SubSeq(lines, 1, Len(lines) - 1 - Last(lines).index)

\* What compression keeps: all but an incomplete batch at the end.
CompletePrefix(lines) ==
  IF lines = NoLines \/ Last(lines).index + 1 = Last(lines).count THEN lines
  ELSE SubSeq(lines, 1, Len(lines) - 1 - Last(lines).index)

\* The incomplete batch can be followed back to its first line.
PrefixKnown(lines) ==
  LET last == Last(lines)
      start == Len(lines) - last.index
  IN lines # NoLines /\ last.index + 1 # last.count =>
       /\ start \in DOMAIN lines
       /\ \A i \in start..Len(lines) : /\ lines[i].count = last.count
                                       /\ lines[i].index = i - start

-----------------------------------------------------------------------------
(* Streams of commits.                                                     *)

NewStream == [previous |-> 0, pending |-> NoLines, commits |-> <<>>, faults |-> 0]

\* Mutant: only the event numbers are compared.
FollowsNumber(dir, p, line) ==
  IF dir = "forward" THEN line.seq = p.seq + 1 ELSE p.seq = line.seq + 1

Follows(dir, p, line) ==
  /\ line.count = p.count
  /\ IF dir = "forward" THEN line.index = p.index + 1 /\ line.seq = p.seq + 1
                        ELSE p.index = line.index + 1 /\ p.seq = line.seq + 1

\* One line of a segment goes into the stream.
Push(dir, stream, line) ==
  LET ordered == \/ stream.previous = 0
                 \/ IF dir = "forward" THEN line.seq > stream.previous
                                       ELSE line.seq < stream.previous
      starts == IF dir = "forward" THEN line.index = 0 ELSE line.index + 1 = line.count
      follows == stream.pending # NoLines /\ Follows(dir, Last(stream.pending), line)
      grown == IF follows THEN Append(stream.pending, line)
               ELSE IF starts THEN <<line>> ELSE NoLines
      commit == IF dir = "forward" THEN grown ELSE Reverse(grown)
  IN IF ~ordered
     THEN [stream EXCEPT !.pending = NoLines, !.faults = @ + 1]
     ELSE IF grown # NoLines /\ Len(grown) = line.count
     THEN [stream EXCEPT !.previous = line.seq, !.pending = NoLines,
                         !.commits = Append(@, commit)]
     ELSE [stream EXCEPT !.previous = line.seq, !.pending = grown]

PushAll(dir, stream, lines) ==
  LET push(st, line) == Push(dir, st, line) IN FoldLines(push, stream, lines)

\* Segments one after the other; a batch does not continue in the next.
ReadForward(stream, files) ==
  LET push(st, lines) == [PushAll("forward", st, lines) EXCEPT !.pending = NoLines]
  IN FoldLines(push, stream, files)

CommitsForward(files) == ReadForward(NewStream, files).commits
CommitsReverse(lines) == PushAll("reverse", NewStream, Reverse(lines)).commits

AllFiles(plain, packed) ==
  LET paths == SegmentPaths(plain, packed)
  IN [i \in DOMAIN paths |-> LinesOf(plain, packed, paths[i])]

-----------------------------------------------------------------------------
(* Recovery.                                                               *)

\* Windows from the newest to the oldest: a snapshot and the commits after it.
Windows(lines) ==
  LET take(acc, commit) ==
        IF Len(commit) = 1 /\ IsSnapshot(commit[1])
        THEN [windows |-> Append(acc.windows,
                [snapshot |-> commit, commits |-> acc.commits]), commits |-> <<>>]
        ELSE [acc EXCEPT !.commits = <<commit>> \o @]
      all == FoldLines(take, [windows |-> <<>>, commits |-> <<>>],
                      CommitsReverse(lines))
  IN IF all.commits = <<>> THEN all.windows
     ELSE Append(all.windows, [snapshot |-> NoLines, commits |-> all.commits])

\* An event needs a created session; a snapshot replaces the state if it can.
ApplyEnvelope(state, line) ==
  CASE line.kind = "snapshot" -> line.state
    [] line.kind = "unusable" -> state
    [] line.kind = "created" -> <<line.seq>>
    [] OTHER -> IF state = <<>> THEN state ELSE Append(state, line.seq)

FoldCommits(state, commits) ==
  LET fold(st, commit) == FoldLines(ApplyEnvelope, st, commit) IN FoldLines(fold, state, commits)

\* Mutant: the commits of the windows passed over are forgotten.
FromWindowsOlder(lines, atStart) ==
  LET visit(acc, w) ==
        IF acc.found \/ acc.stopped \/ (w.snapshot # NoLines /\ w.snapshot[1].kind = "unusable")
        THEN acc
        ELSE IF w.snapshot = NoLines /\ ~atStart THEN [acc EXCEPT !.stopped = TRUE]
        ELSE [acc EXCEPT !.found = TRUE,
                !.state = FoldCommits(IF w.snapshot = NoLines THEN <<>> ELSE w.snapshot[1].state,
                                      w.commits)]
  IN FoldLines(visit, [found |-> FALSE, stopped |-> FALSE, state |-> <<>>], Windows(lines))

\* The windows are visited until one is an origin: a usable snapshot, or the
\* start of the session.  The commits of those passed over are folded after it.
FromWindows(lines, atStart) ==
  LET visit(acc, w) ==
        IF acc.found \/ acc.stopped THEN acc
        ELSE IF w.snapshot # NoLines /\ w.snapshot[1].kind = "unusable"
        THEN [acc EXCEPT !.newer = w.commits \o @]
        ELSE IF w.snapshot = NoLines /\ ~atStart THEN [acc EXCEPT !.stopped = TRUE]
        ELSE [acc EXCEPT !.found = TRUE,
                !.state = FoldCommits(IF w.snapshot = NoLines THEN <<>> ELSE w.snapshot[1].state,
                                      w.commits \o acc.newer)]
  IN FoldLines(visit, [found |-> FALSE, stopped |-> FALSE, newer |-> <<>>, state |-> <<>>],
              Windows(lines))

\* <<>> when no created session could be recovered.
Recovered(plain, packed) ==
  LET latest == Latest(plain, packed)
      near == FromWindows(LinesOf(plain, packed, latest), latest = 1)
  IN IF latest \notin DOMAIN plain THEN <<>>
     ELSE IF near.found THEN near.state
     ELSE FoldCommits(<<>>, CommitsForward(AllFiles(plain, packed)))

-----------------------------------------------------------------------------
(* History.                                                                *)

\* The visible records of complete batches.
Seen(records, line) == IF Visible(line) THEN Append(records, line.seq) ELSE records
Records(commits) ==
  LET take(records, commit) == FoldLines(Seen, records, commit) IN FoldLines(take, <<>>, commits)

\* The segments a query with this cursor reads; 0 stands for no cursor.
HistoryPaths(plain, packed, cursor) ==
  LET paths == SegmentPaths(plain, packed)
      upTo == Cardinality({n \in Names(plain, packed) : n <= cursor})
      boundary == IF cursor = 0 THEN 1 ELSE upTo
  IN SubSeq(paths, IF boundary = 0 THEN 1 ELSE boundary, Len(paths))
=============================================================================
