-------------------------- MODULE SegmentPromises --------------------------
(***************************************************************************)
(* What the segments, the compressor and the history queries promise, and  *)
(* the refinement of DurableLog.                                           *)
(***************************************************************************)
EXTENDS SegmentStore

\* Whatever a crash or an I/O error left in the files, the log read from either
\* end is the same, in order and without a gap in a batch (log.rs, both
\* directions of CommitStream).
EndsAgree ==
  \A n \in Names(plain, packed) :
    LET lines == LinesOf(plain, packed, n)
    IN Reverse(CommitsReverse(lines)) = CommitsForward(<<lines>>)

\* Compression, torn tails and incomplete batches show nowhere: reading all
\* segments gives the events of the batches that were written whole, and a session
\* that cannot be recovered never had one.
NothingLost ==
  /\ History = written
  /\ writer = "lost" => History = <<>>

\* The log reads the same from both ends, and has what was written.
LogWhole == EndsAgree /\ NothingLost

\* A query that succeeds returns a piece of the history without gaps: the events
\* after the cursor, none missing that was there when it was asked, or the last
\* Limit events before it.  Appends and compression go on meanwhile, and a cursor
\* that was handed out is known in every state of the files.
AfterExact ==
  LET later(n) == n > query.cursor
  IN /\ IsPrefix(query.got, SelectSeq(History, later))
     /\ \A n \in ToSet(History) :
          n > query.cursor /\ n <= query.from => n \in ToSet(query.got)
BeforeExact ==
  \E end \in 0..Len(History) :
    /\ query.got = SubSeq(History, Max({0, end - Limit}) + 1, end)
    /\ IF query.cursor = 0 THEN end = 0 \/ History[end] >= query.from
       ELSE end + 1 \in DOMAIN History /\ History[end + 1] = query.cursor
QueriesExact ==
  /\ query.result \notin {"unknown", "invalid"}
  /\ query.result = "ok" => IF query.kind = "after" THEN AfterExact ELSE BeforeExact

\* The segments persist what DurableLog promises: batches enter the log whole,
\* an acknowledged event stays, compression shows nowhere, and a recovery, from
\* whichever snapshot it starts, folds exactly the events of the log.
Persistent == INSTANCE DurableLog WITH
  Events <- 1..MaxSeq,
  log <- written,
  batch <- IF job.done < Len(job.lines) THEN Records(<<job.lines>>) ELSE <<>>,
  writer <- IF writer = "lost" THEN "unsure" ELSE writer,
  seen <- state
DurableLogHolds == Persistent!Spec

\* A sealed segment ends up compressed, its plain file removed, however often
\* the work was interrupted.
SealedPacked ==
  \A n \in 1..MaxSeq : (n \in DOMAIN plain /\ n # Active(plain)) ~> n \notin DOMAIN plain

\* RECOVERY-01: what remains of the log suffices to go on, so the session goes on.
Appendable == writer = "ready" => CanContinue
=============================================================================
