--------------------------- MODULE ManagedProcess ---------------------------
(***************************************************************************)
(* One child and its process group: ManagedProcess.start, running, stop,   *)
(* _read and _finish_readers (processes.py).  start() makes the leader the *)
(* head of a session of its own; the leader forks helpers (vLLM's engine   *)
(* and tensor-parallel workers), some of which inherit the stdout and      *)
(* stderr pipes the supervisor's reader tasks read.  The two pipes are     *)
(* alike and independent: the model has one.  What is written to it is     *)
(* text and line ends (a line feed, a carriage return); a byte is known by *)
(* its position.                                                           *)
(***************************************************************************)
EXTENDS Integers, Sequences, FiniteSetsExt

CONSTANTS
    Helpers,        \* other processes of the group
    Holders,        \* those of them that keep the pipes open
    Limit,          \* what a read returns at most, and the longest piece of a line
    MaxStops,       \* bound: calls of stop(), one after the other
    MaxOutput       \* bound: bytes the group writes

ASSUME HoldersAssumption == Holders \subseteq Helpers
ASSUME LimitAssumption == Limit \in Nat \ {0}
ASSUME BoundsAssumption == MaxStops \in Nat /\ MaxOutput \in Nat

VARIABLES
    leader,     \* the leader: not started, running, dead
    helpers,    \* the helpers that are alive
    known,      \* self.process.returncode is not None
    readers,    \* the tasks in self.readers are still reading
    output,     \* everything the group has written
    taken,      \* how much of it _read has taken
    start,      \* where `pending` starts
    log,        \* the pieces emitted, as pairs of first and last position
    at,         \* where stop() is
    stops,      \* calls of stop() so far
    waitsForPipes   \* does this CPython's Process.wait() also wait for the pipes?
                    \* (releases differ; it never changes)

stream == <<output, taken, start, log>>
vars == <<leader, helpers, known, readers, stream, at, stops, waitsForPipes>>

Text == "text"
LineEnd == "end"

\* What the variables hold; process, returncode and readers (processes.py:18-19,
\* 37-40) go together: there is no status and no reader without a process.
TypeOK ==
    /\ leader \in {"none", "running", "dead"}
    /\ helpers \in SUBSET Helpers
    /\ known \in BOOLEAN /\ readers \in BOOLEAN
    /\ output \in Seq({Text, LineEnd}) /\ taken \in 0..Len(output)
    /\ start \in 1..(taken + 1) /\ log \subseteq (1..taken) \X (1..taken)
    /\ at \in {"idle", "grace", "killed", "readers", "returned"}
    /\ stops \in 0..MaxStops /\ waitsForPipes \in BOOLEAN
    /\ leader = "none" => ~known /\ ~readers /\ helpers = {}
    /\ known => leader = "dead"

Init ==
    /\ leader = "none" /\ helpers = {} /\ known = FALSE /\ readers = FALSE
    /\ output = <<>> /\ taken = 0 /\ start = 1 /\ log = {}
    /\ at = "idle" /\ stops = 0 /\ waitsForPipes \in BOOLEAN

---------------------------------------------------------------------------

PipesOpen == leader = "running" \/ helpers \intersect Holders # {}

\* create_subprocess_exec with start_new_session, and the two reader tasks.
Start ==
    /\ leader = "none" /\ stops = 0
    /\ leader' = "running" /\ readers' = TRUE
    /\ UNCHANGED <<helpers, known, at, stops, stream, waitsForPipes>>

\* running(): the supervisor asks this before and between calls of stop().
Running == leader # "none" /\ ~known

\* stop(): nothing to signal once the leader's status is known.
StopCalled ==
    /\ at \in {"idle", "returned"} /\ stops < MaxStops
    /\ stops' = stops + 1
    /\ at' = IF Running THEN "grace" ELSE "readers"
    /\ UNCHANGED <<leader, helpers, known, readers, stream, waitsForPipes>>

\* process.wait() can return.
WaitDone_Signalled == leader = "dead"
WaitDone == known /\ (waitsForPipes => ~PipesOpen)

LeaderGoneInGrace ==
    /\ at = "grace" /\ WaitDone /\ at' = "readers"
    /\ UNCHANGED <<leader, helpers, known, readers, stops, stream, waitsForPipes>>

\* The grace period ends with SIGKILL to the whole group.
GraceOver_LeaderOnly ==
    /\ at = "grace" /\ ~WaitDone /\ at' = "killed"
    /\ leader' = "dead"
    /\ UNCHANGED <<helpers, known, readers, stops, stream, waitsForPipes>>
GraceOver ==
    /\ at = "grace" /\ ~WaitDone
    /\ leader' = "dead" /\ helpers' = {}
    /\ at' = "killed"
    /\ UNCHANGED <<known, readers, stops, stream, waitsForPipes>>

Killed ==
    /\ at = "killed" /\ WaitDone /\ at' = "readers"
    /\ UNCHANGED <<leader, helpers, known, readers, stops, stream, waitsForPipes>>

\* _finish_readers: gather the reader tasks, which end with the pipes.
StopReturns_NoGather ==
    /\ at = "readers" /\ at' = "returned"
    /\ UNCHANGED <<leader, helpers, known, readers, stops, stream, waitsForPipes>>
StopReturns ==
    /\ at = "readers" /\ ~readers /\ at' = "returned"
    /\ UNCHANGED <<leader, helpers, known, readers, stops, stream, waitsForPipes>>

---------------------------------------------------------------------------
(* The operating system and the children.                                  *)

Fork(h) ==
    /\ leader = "running" /\ helpers' = helpers \union {h}
    /\ UNCHANGED <<leader, known, readers, at, stops, stream, waitsForPipes>>

\* By itself, or on SIGTERM: nobody has to obey, and not all at once.
LeaderExits ==
    /\ leader = "running" /\ leader' = "dead"
    /\ UNCHANGED <<helpers, known, readers, at, stops, stream, waitsForPipes>>

HelperExits(h) ==
    /\ h \in helpers /\ helpers' = helpers \ {h}
    /\ UNCHANGED <<leader, known, readers, at, stops, stream, waitsForPipes>>

Write ==
    /\ PipesOpen /\ Len(output) < MaxOutput
    /\ \E symbol \in {Text, LineEnd} : output' = Append(output, symbol)
    /\ UNCHANGED <<leader, helpers, known, readers, taken, start, log, at, stops,
                   waitsForPipes>>

---------------------------------------------------------------------------
(* The reader task.                                                        *)

\* _emit_complete_lines, with `pending` the positions from..to: the runs of text
\* that a line end ends (an empty line is not emitted), and where the rest starts.
Ends(from, to) == {p \in from..to : output[p] = LineEnd}
Rest_OneLine(from, to) == IF Ends(from, to) = {} THEN from ELSE Min(Ends(from, to)) + 1
Rest(from, to) == Max(Ends(from, to) \union {from - 1}) + 1
Lines(from, to) ==
    {piece \in (from..to) \X (from..to) :
        /\ piece[1] <= piece[2] /\ Ends(piece[1], piece[2]) = {}
        /\ piece[1] = from \/ piece[1] - 1 \in Ends(from, to)
        /\ piece[2] + 1 \in Ends(from, to)}

\* The rest is cut while it is longer than Limit.
Cuts(from, to) == IF from > to THEN 0 ELSE (to - from) \div Limit
Chunks(from, cuts) == {<<from + c * Limit, from + (c + 1) * Limit - 1>> : c \in 0..(cuts - 1)}

\* One turn of _read's loop: a chunk of whatever size has arrived.
Read ==
    /\ readers
    /\ \E k \in 1..Min({Limit, Len(output) - taken}) :
          LET rest == Rest(start, taken + k)
              cuts == Cuts(rest, taken + k)
          IN  /\ taken' = taken + k
              /\ log' = log \union Lines(start, taken + k) \union Chunks(rest, cuts)
              /\ start' = rest + cuts * Limit
    /\ UNCHANGED <<leader, helpers, known, readers, output, at, stops, waitsForPipes>>

\* The end of the pipes: what is left is emitted and the task ends.
PipesClose_DropsRest ==
    /\ readers /\ ~PipesOpen /\ taken = Len(output) /\ readers' = FALSE
    /\ UNCHANGED <<leader, helpers, known, stream, at, stops, waitsForPipes>>
PipesClose ==
    /\ readers /\ ~PipesOpen /\ taken = Len(output) /\ readers' = FALSE
    /\ log' = IF start > taken THEN log ELSE log \union {<<start, taken>>}
    /\ start' = taken + 1
    /\ UNCHANGED <<leader, helpers, known, output, taken, at, stops, waitsForPipes>>

---------------------------------------------------------------------------

\* The child watcher reaps the leader.
StatusArrives ==
    /\ leader = "dead" /\ ~known /\ known' = TRUE
    /\ UNCHANGED <<leader, helpers, readers, at, stops, stream, waitsForPipes>>

Loop ==
    \/ LeaderGoneInGrace \/ GraceOver \/ Killed \/ StopReturns
    \/ StatusArrives \/ Read \/ PipesClose

Children == LeaderExits \/ Write \/ \E h \in Helpers : Fork(h) \/ HelperExits(h)

Terminated == at = "returned" /\ stops = MaxStops /\ UNCHANGED vars

\* Nothing but the supervisor's own steps is fair: children may ignore SIGTERM.
Next == Start \/ StopCalled \/ Loop \/ Children \/ Terminated
Spec == Init /\ [][Next]_vars
FairSpec == Spec /\ WF_vars(LeaderGoneInGrace \/ GraceOver) /\ WF_vars(Killed)
                 /\ WF_vars(StopReturns) /\ WF_vars(StatusArrives) /\ WF_vars(Read)
                 /\ WF_vars(PipesClose)

---------------------------------------------------------------------------

Logged == UNION {piece[1]..piece[2] : piece \in log}

\* When stop() has returned (processes.py:53-65), the leader has been reaped, no
\* process of the group still writes to the supervisor's pipes, and every byte of
\* text any of them ever wrote is in the log, whoever exited first and however
\* the output was cut into reads.
ReturnedMeansDrained ==
    at = "returned" /\ leader # "none" =>
        /\ leader = "dead" /\ known /\ ~PipesOpen
        /\ Logged = {p \in 1..Len(output) : output[p] = Text}

\* The framing (processes.py:67-96): a line of at most Limit bytes is emitted in one
\* piece once its end is read, no piece runs over a line end, and what is held back
\* never exceeds Limit, so that a progress bar without line ends is still shown.
LinesKept ==
    /\ \A a, b \in 1..taken :
          (/\ Ends(a, b) = {} /\ a <= b /\ b - a < Limit
           /\ a = 1 \/ output[a - 1] = LineEnd
           /\ b < taken /\ output[b + 1] = LineEnd) => <<a, b>> \in log
    /\ \A piece \in log : Ends(piece[1], piece[2]) = {}
    /\ taken - start < Limit

\* A stop() that finds the leader alive returns, with every process ignoring
\* SIGTERM (processes.py:57-65), where wait() waits for the pipes as well: the
\* kill after the grace period then reaches whatever holds them.
StopFromRunningReturns ==
    at \in {"grace", "killed"} /\ waitsForPipes ~> at = "returned"

\* What the supervisors assume of a child (Child) is what start, stop and the
\* child watcher give them.
C == INSTANCE Child WITH
        child <- IF leader = "none" THEN "none" ELSE IF known THEN "exited" ELSE "running",
        stopping <- at \notin {"idle", "returned"}
IsAChild == C!Spec

\* README.md:749-751: the supervisor forwards shutdown, waits a grace period,
\* then terminates stragglers: none is left when stop() returns.
NoStragglers == at = "returned" => helpers = {}
=============================================================================
