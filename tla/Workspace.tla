------------------------------ MODULE Workspace ------------------------------
(***************************************************************************)
(* The built-in tools at work in one workspace: file.write, file.edit and  *)
(* shell.run calls that run side by side, with the executor's permits, its *)
(* timeout and its cancellation around them, and an agent that reads the   *)
(* live output of a command page by page.                                  *)
(*                                                                         *)
(* A file's work is done by a blocking thread, which a cancellation does   *)
(* not reach.  A command is a shell and at most one child it leaves in the *)
(* background, in its process group; both write to the pipe a collector    *)
(* copies to the live file.  Chunks of output are numbered.                *)
(***************************************************************************)
EXTENDS Integers, Sequences, FiniteSets, SequencesExt

CONSTANTS Runs,        \* the calls
          Letters,     \* what the file is made of
          MaxText,     \* letters it has at the start
          MaxPermits,  \* calls that run at one time
          MaxOutput,   \* chunks of a command's output
          PageSize     \* chunks of a page

ASSUME WorkspaceAssumption == MaxPermits \in Nat \ {0} /\ PageSize \in Nat \ {0} /\ {MaxOutput, MaxText} \subseteq Nat

VARIABLES
  call,     \* the calls: their kind, what they write, how far they are
  file,     \* the file in the workspace
  thread,   \* the blocking thread of a call
  group,    \* the shell of a call, its child, and their output
  reader    \* what has been read of the live output, and of which call

workspaceVars == <<call, file, thread, group, reader>>

NoProcess == [shell |-> "none", child |-> "none", holds |-> FALSE, ok |-> FALSE, armed |-> FALSE,
              wrote |-> 0, log |-> <<>>]
NoThread == [at |-> "none", original |-> <<>>, new |-> <<>>, torn |-> FALSE]
NoReader == [of |-> {}, next |-> 0, got |-> <<>>, last |-> FALSE]

Requested(kind, content, edits, limited) ==
  [kind |-> kind, content |-> content, edits |-> edits, limited |-> limited,
   phase |-> "waiting", outcome |-> "none", output |-> 0]

(* What is asked for: edits of a letter, two edits at once beside a write, *)
(* and a command with or without a time limit of its own beside a write.   *)
EditsOf(olds) == [k \in 1..Len(olds) |-> [old |-> olds[k], new |-> IF k = 1 THEN <<"new", "new">> ELSE <<>>]]
Shells == {Requested("shell", <<>>, <<>>, limited) : limited \in BOOLEAN}
Writes == {Requested("write", content, <<>>, FALSE) : content \in {<<>>, <<"own">>}}
LetterEdits == {Requested("edit", <<>>, EditsOf(<< <<letter>> >>), FALSE) : letter \in Letters}
PairEdits ==
  LET olds == BoundedSeq(Letters, 2) \ {<<>>}
  IN {Requested("edit", <<>>, EditsOf(pair), FALSE) : pair \in olds \X olds}

WorkspaceInit ==
  /\ file \in BoundedSeq(Letters, MaxText)
  /\ \/ call \in [Runs -> Writes \cup LetterEdits]
     \/ \E c \in Runs : call \in [Runs -> Writes \cup PairEdits] /\ {d \in Runs : call[d].kind = "edit"} = {c}
     \/ \E c \in Runs : call \in [Runs -> Writes \cup Shells] /\ {d \in Runs : call[d].kind = "shell"} = {c} /\ file = <<>>
  /\ thread = [c \in Runs |-> NoThread] /\ group = [c \in Runs |-> NoProcess] /\ reader = NoReader

Running(c) == call[c].phase \notin {"waiting", "done"}
Returns(c, outcome) == [call EXCEPT ![c].phase = "done", ![c].outcome = outcome]
-----------------------------------------------------------------------------
(* A call starts when it has a permit. *)
StartCall(c) ==
  /\ call[c].phase = "waiting" /\ Cardinality({d \in Runs : Running(d)}) < MaxPermits
  /\ IF call[c].kind = "shell"
     THEN /\ call' = [call EXCEPT ![c].phase = "wait"]
          /\ group' = [group EXCEPT ![c] = [NoProcess EXCEPT !.shell = "running", !.armed = TRUE]]
          /\ UNCHANGED thread
     ELSE /\ call' = [call EXCEPT ![c].phase = "blocking"]
          /\ thread' = [thread EXCEPT ![c].at = IF call[c].kind = "edit" THEN "read" ELSE "open", ![c].new = call[c].content]
          /\ UNCHANGED group
  /\ UNCHANGED <<file, reader>>
-----------------------------------------------------------------------------
(* file.edit: every old text is looked for in the original, from the left  *)
(* and without overlaps of its own; it must be found once.  The matches    *)
(* must not overlap, and are replaced from the last to the first.          *)
OccursAt(text, old, i) == i + Len(old) <= Len(text) + 1 /\ SubSeq(text, i, i + Len(old) - 1) = old
Found(text, old) ==
  FoldLeft(LAMBDA found, i :
             IF OccursAt(text, old, i) /\ (found = <<>> \/ i >= found[Len(found)] + Len(old)) THEN Append(found, i) ELSE found,
           <<>>, [i \in 1..(Len(text) + 1) |-> i])

Unique(text, edits) == \A k \in 1..Len(edits) : Len(Found(text, edits[k].old)) = 1
StartOf(text, edit) == Found(text, edit.old)[1]
Apart(text, edits) ==
  \A j, k \in 1..Len(edits) :
    j # k /\ StartOf(text, edits[j]) <= StartOf(text, edits[k])
      => StartOf(text, edits[j]) + Len(edits[j].old) <= StartOf(text, edits[k])
Replaceable(text, edits) == Unique(text, edits) /\ Apart(text, edits)

Replaced(text, start, edit) ==
  SubSeq(text, 1, start - 1) \o edit.new \o SubSeq(text, start + Len(edit.old), Len(text))
Edited(text, edits) ==
  FoldLeft(LAMBDA t, e : Replaced(t, StartOf(text, e), e), text,
           SortSeq(edits, LAMBDA e, f : StartOf(text, e) > StartOf(text, f)))

(* What a thread has to tell is heard only while its call still runs. *)
TellsCall(c, outcome) == IF Running(c) THEN Returns(c, outcome) ELSE call

ReadOriginal(c) ==
  /\ thread[c].at = "read"
  /\ IF Replaceable(file, call[c].edits)
     THEN /\ thread' = [thread EXCEPT ![c] = [@ EXCEPT !.at = "open", !.original = file, !.new = Edited(file, call[c].edits)]]
          /\ UNCHANGED call
     ELSE thread' = [thread EXCEPT ![c] = NoThread] /\ call' = TellsCall(c, "failed")
  /\ UNCHANGED <<file, group, reader>>

(* A file is opened empty and then written from its beginning: two writers *)
(* at once may leave the end of the longer text behind the shorter one.    *)
Truncate(c) ==
  /\ thread[c].at = "open"
  /\ file' = <<>>
  /\ LET others == {d \in Runs \ {c} : thread[d].at = "write"}
     IN thread' = [d \in Runs |-> CASE d = c -> [thread[c] EXCEPT !.at = "write", !.torn = others # {}]
                                    [] d \in others -> [thread[d] EXCEPT !.torn = TRUE]
                                    [] OTHER -> thread[d]]
  /\ UNCHANGED <<call, group, reader>>

WriteContent(c) ==
  /\ thread[c].at = "write"
  /\ file' = thread[c].new \o SubSeq(file, Len(thread[c].new) + 1, Len(file))
  /\ thread' = [thread EXCEPT ![c].at = "ended"]
  /\ call' = TellsCall(c, "succeeded")
  /\ UNCHANGED <<group, reader>>
-----------------------------------------------------------------------------
(* The processes of a command, which nobody controls. *)
ShellWorks(c) ==
  /\ group[c].shell = "running"
  /\ \/ \E holds \in BOOLEAN :
          /\ group[c].child = "none"
          /\ group' = [group EXCEPT ![c].child = "running", ![c].holds = holds]
     \/ \E ok \in BOOLEAN : group' = [group EXCEPT ![c].shell = "exited", ![c].ok = ok]
  /\ UNCHANGED <<call, file, thread, reader>>

Writers(p) == p.shell = "running" \/ (p.child = "running" /\ p.holds)
Prints(c) ==
  /\ Writers(group[c]) /\ group[c].wrote < MaxOutput
  /\ group' = [group EXCEPT ![c].wrote = @ + 1]
  /\ UNCHANGED <<call, file, thread, reader>>

ChildEnds(c) ==
  /\ group[c].child = "running" /\ group' = [group EXCEPT ![c].child = "ended"]
  /\ UNCHANGED <<call, file, thread, reader>>

Collect(c) ==
  /\ Running(c) /\ Len(group[c].log) < group[c].wrote
  /\ group' = [group EXCEPT ![c].log = Append(@, Len(@) + 1)]
  /\ UNCHANGED <<call, file, thread, reader>>

\* Mutant: only the shell is killed, not its group.
KilledAlone(p) == [p EXCEPT !.shell = IF @ = "running" THEN "killed" ELSE @, !.armed = FALSE]
(* The whole group is killed, unless the shell has been waited for: its    *)
(* number may be another's by then.                                        *)
Killed(p) ==
  [p EXCEPT !.shell = IF @ = "running" THEN "killed" ELSE @,
            !.child = IF p.armed /\ @ = "running" THEN "ended" ELSE @, !.armed = FALSE]

Waited(c) ==
  /\ call[c].phase = "wait" /\ group[c].shell = "exited"
  /\ group' = [group EXCEPT ![c].armed = FALSE]
  /\ call' = [call EXCEPT ![c].phase = "join", ![c].outcome = IF group[c].ok THEN "succeeded" ELSE "failed"]
  /\ UNCHANGED <<file, thread, reader>>

ToolTimeout(c) ==
  /\ call[c].phase = "wait" /\ call[c].limited
  /\ group' = [group EXCEPT ![c] = Killed(@)]
  /\ call' = [call EXCEPT ![c].phase = "join", ![c].outcome = "timed out"]
  /\ UNCHANGED <<file, thread, reader>>

(* The pipe ends when the last process that holds it does. *)
Collected(c) == ~Writers(group[c]) /\ Len(group[c].log) = group[c].wrote
ShellReturns(c) ==
  /\ call[c].phase = "join" /\ Collected(c)
  /\ call' = [Returns(c, call[c].outcome) EXCEPT ![c].output = Len(group[c].log)]
  /\ UNCHANGED <<file, thread, group, reader>>
-----------------------------------------------------------------------------
(* The executor gives a call up when it is cancelled, also while it waits  *)
(* for a permit, and when it takes too long; the call's future is dropped, *)
(* and with it the handle of its process.                                  *)
\* Mutant: a call whose command has ended takes as long as it takes.
GivesUpWaiting(c) == call[c].phase \in {"wait", "blocking"}
GivesUp(c) == Running(c)

Abandon(c, outcome) ==
  /\ call' = Returns(c, outcome)
  /\ group' = [group EXCEPT ![c] = IF call[c].phase = "waiting" THEN @ ELSE [Killed(@) EXCEPT !.armed = group[c].armed]]
  /\ UNCHANGED <<file, thread, reader>>
Cancel(c) == call[c].phase # "done" /\ Abandon(c, "cancelled")
ExecutorTimeout(c) == GivesUp(c) /\ Abandon(c, "given up")

(* file.read of the live output: a page from an offset, and the offset of  *)
(* the next one unless the page reaches the end.                           *)
PageEnd(log, offset) == IF offset + PageSize < Len(log) THEN offset + PageSize ELSE Len(log)
ReadPage(c) ==
  /\ group[c].log # <<>> /\ reader.of \subseteq {c} /\ (reader.last => Len(reader.got) < Len(group[c].log))
  /\ LET log == group[c].log
         end == PageEnd(log, reader.next)
     IN reader' = [of |-> {c}, next |-> end, got |-> reader.got \o SubSeq(log, reader.next + 1, end), last |-> end >= Len(log)]
  /\ UNCHANGED <<call, file, thread, group>>

CallWorks(c) == StartCall(c) \/ ReadOriginal(c) \/ Truncate(c) \/ WriteContent(c) \/ Collect(c) \/ Waited(c) \/ ShellReturns(c)
WorkspaceNext ==
  \E c \in Runs :
    \/ CallWorks(c) \/ ToolTimeout(c) \/ Cancel(c) \/ ExecutorTimeout(c) \/ ReadPage(c)
    \/ ShellWorks(c) \/ Prints(c) \/ ChildEnds(c)
WorkspaceSpec == WorkspaceInit /\ [][WorkspaceNext]_workspaceVars
-----------------------------------------------------------------------------
(* The result of a command has all the output of its processes.            *)
OutputWhole ==
  \A c \in Runs : call[c].kind = "shell" /\ call[c].outcome \in {"succeeded", "failed", "timed out"} /\ call[c].phase = "done"
    => call[c].output = group[c].wrote

(* When a command was given up or timed out before its shell had ended, no *)
(* process of its group goes on.                                           *)
QuietAfter ==
  \A c \in Runs :
    /\ group[c].shell = "killed" => group[c].child # "running"
    /\ call[c].phase = "done" => group[c].shell # "running"

(* An edit replaces what it found in the original, and leaves everything   *)
(* else where it was: character by character, each is kept, or belongs to  *)
(* the one match that covers it.                                           *)
Kept(text, edits) ==
  FoldLeft(LAMBDA t, i :
             LET here == {k \in 1..Len(edits) : StartOf(text, edits[k]) = i /\ edits[k].old # <<>>}
                 before == {k \in 1..Len(edits) : StartOf(text, edits[k]) = i /\ edits[k].old = <<>>}
                 inside == \E k \in 1..Len(edits) : StartOf(text, edits[k]) <= i /\ i < StartOf(text, edits[k]) + Len(edits[k].old)
                 new(ks) == IF ks = {} THEN <<>> ELSE edits[CHOOSE k \in ks : TRUE].new
             IN t \o new(before) \o new(here) \o (IF inside \/ i > Len(text) THEN <<>> ELSE <<text[i]>>),
           <<>>, [i \in 1..(Len(text) + 1) |-> i])
EditsExact ==
  \A c \in Runs : call[c].kind = "edit" /\ thread[c].at \in {"open", "write", "ended"}
    => thread[c].new = Kept(thread[c].original, call[c].edits)

(* When nobody writes, the file holds what one call wrote, unless two      *)
(* wrote at once.                                                          *)
FileWhole ==
  (\A c \in Runs : thread[c].at # "write" /\ ~thread[c].torn)
    => file \in BoundedSeq(Letters, MaxText) \cup {thread[c].new : c \in Runs}

(* The pages of a growing file join: nothing is skipped or repeated, and   *)
(* the last page reaches the end there was.                                *)
PagesJoin == \A i \in 1..Len(reader.got) : reader.got[i] = i

WorkspaceHonest == OutputWhole /\ QuietAfter /\ EditsExact /\ FileWhole /\ PagesJoin
=============================================================================
