--------------------------- MODULE ProcessProofs ---------------------------
(***************************************************************************)
(* Theorems about ManagedProcess, for any helpers, any limit of a read and *)
(* any output.                                                             *)
(***************************************************************************)
EXTENDS ManagedProcess, WellFoundedInduction, TLAPS

USE HoldersAssumption, LimitAssumption, BoundsAssumption

\* The leader, its status, the readers and stop().
Lifecycle ==
    /\ leader \in {"none", "running", "dead"} /\ helpers \subseteq Helpers
    /\ known \in BOOLEAN /\ readers \in BOOLEAN
    /\ at \in {"idle", "grace", "killed", "readers", "returned"}
    /\ stops \in 0..MaxStops /\ waitsForPipes \in BOOLEAN
    /\ at # "idle" => stops > 0
    /\ leader = "none" => ~known /\ ~readers /\ helpers = {}
    /\ known => leader = "dead"
    /\ at \in {"grace", "killed"} => leader # "none"
    /\ at \in {"readers", "returned"} => leader = "none" \/ known
    /\ at = "returned" => ~readers
    /\ leader # "none" /\ ~readers => ~PipesOpen

LEMMA LifecycleInit == Init => Lifecycle
<1> SUFFICES ASSUME Init PROVE Lifecycle
    OBVIOUS
<1>1. stops \in 0..MaxStops
      BY DEF Init
<1> QED BY <1>1 DEF Init, Lifecycle

LEMMA LifecycleNext == Lifecycle /\ [Next]_vars => Lifecycle'
<1> SUFFICES ASSUME Lifecycle, [Next]_vars PROVE Lifecycle'
    OBVIOUS
<1> USE DEF Lifecycle, PipesOpen
<1>1. CASE Start
      BY <1>1 DEF Start
<1>2. CASE StopCalled
  <2>1. stops' \in 0..MaxStops /\ stops' > 0
        BY <1>2 DEF StopCalled
  <2> QED BY <1>2, <2>1 DEF StopCalled, Running
<1>3. CASE LeaderGoneInGrace \/ GraceOver \/ Killed
      BY <1>3 DEF LeaderGoneInGrace, GraceOver, Killed, WaitDone, PipesOpen
<1>4. CASE StopReturns \/ StatusArrives
  <2>1. CASE StopReturns
        BY <2>1 DEF StopReturns
  <2>2. CASE StatusArrives
        BY <2>2 DEF StatusArrives
  <2> QED BY <1>4, <2>1, <2>2
<1>5. CASE Read
      BY <1>5 DEF Read
<1>6. CASE PipesClose
      BY <1>6 DEF PipesClose
<1>7. CASE LeaderExits \/ Write
      BY <1>7 DEF LeaderExits, Write
<1>8. ASSUME NEW h \in Helpers, Fork(h) \/ HelperExits(h) PROVE Lifecycle'
      BY <1>8 DEF Fork, HelperExits
<1>9. CASE UNCHANGED vars
      BY <1>9 DEF vars
<1> QED BY <1>1, <1>3, <1>4, <1>5, <1>6, <1>7, <1>8, <1>9, <1>2
        DEF Next, Loop, Children, Terminated

LEMMA LifecycleHolds == Spec => []Lifecycle
BY LifecycleInit, LifecycleNext, PTL DEF Spec

---------------------------------------------------------------------------
(* A managed process is the child the supervisors assume.                  *)

LEMMA ChildStep == Lifecycle /\ [Next]_vars => [C!Next]_C!vars
<1> SUFFICES ASSUME Lifecycle, [Next]_vars PROVE [C!Next]_C!vars
    OBVIOUS
<1> USE DEF Lifecycle, C!Next, C!vars
<1>1. CASE Start
      BY <1>1 DEF Start, C!Start
<1>2. CASE StopCalled
      BY <1>2 DEF StopCalled, C!StopCalled
<1>3. CASE LeaderGoneInGrace \/ GraceOver \/ Killed
      BY <1>3 DEF LeaderGoneInGrace, GraceOver, Killed
<1>4. CASE StopReturns
      BY <1>4 DEF StopReturns, C!StopReturns
<1>5. CASE StatusArrives
      BY <1>5 DEF StatusArrives, C!Exit
<1>6. CASE LeaderExits
      BY <1>6 DEF LeaderExits
<1>7. CASE UNCHANGED <<leader, known, at>>
      BY <1>7
<1> QED BY <1>1, <1>2, <1>3, <1>4, <1>5, <1>6, <1>7
        DEF Next, Loop, Children, Terminated, Read, PipesClose, Write, Fork, HelperExits,
            vars

\* What start(), stop() and the child watcher give the supervisors is what they
\* assume of a child (processes.py:22-65).
THEOREM IsAChildHolds == Spec => IsAChild
<1>1. Init => C!Init
      BY DEF Init, C!Init
<1> QED BY <1>1, ChildStep, LifecycleHolds, PTL DEF Spec, IsAChild, C!Spec
---------------------------------------------------------------------------
(* Least and greatest elements, and division.                              *)

LEMMA LeastOf == ASSUME NEW S \in SUBSET Nat, S # {} PROVE \E x \in S : \A y \in S : x <= y
<1> DEFINE R == OpToRel(<, Nat)
<1>1. IsWellFoundedOn(R, Nat)
      BY NatLessThanWellFounded
<1>2. \A x, y \in Nat : x < y => <<x, y>> \in R
      BY DEF OpToRel
<1> HIDE DEF R
<1>3. PICK x \in S : \A y \in S : ~ (<<y, x>> \in R)
      BY <1>1, WFMin
<1>4. ASSUME NEW y \in S PROVE x <= y
  <2>1. x \in Nat /\ y \in Nat /\ ~ (<<y, x>> \in R)
        BY <1>3
  <2>2. ~ (y < x)
        BY <1>2, <2>1
  <2> QED BY <2>1, <2>2
<1> QED BY <1>4

LEMMA MaxOf ==
    ASSUME NEW hi \in Nat, NEW S \in SUBSET (0..hi), S # {}
    PROVE  Max(S) \in S /\ \A x \in S : x <= Max(S)
<1> DEFINE T == {hi - x : x \in S}
<1>1. \A x \in S : hi - x \in Nat
      OBVIOUS
<1>2. T \in SUBSET Nat
      BY <1>1
<1>3. T # {}
  <2>1. PICK y \in S : TRUE
        OBVIOUS
  <2>2. hi - y \in T
        OBVIOUS
  <2> QED BY <2>2
<1>4. PICK n \in T : \A m \in T : n <= m
      BY <1>2, <1>3, LeastOf
<1>5. PICK x \in S : n = hi - x
      OBVIOUS
<1>6. \A y \in S : hi - y \in T
      OBVIOUS
<1>7. \A y \in S : x >= y
      BY <1>4, <1>5, <1>6
<1> QED BY <1>7 DEF Max

LEMMA MinOf ==
    ASSUME NEW S \in SUBSET Nat, S # {}
    PROVE  Min(S) \in S /\ \A x \in S : Min(S) <= x
BY LeastOf DEF Min

LEMMA MinPair == ASSUME NEW a \in Nat, NEW b \in Nat PROVE Min({a, b}) <= b /\ Min({a, b}) \in Nat
BY DEF Min
LEMMA Mono == ASSUME NEW a \in Nat, NEW b \in Nat, NEW l \in Nat, a <= b PROVE a * l <= b * l
OBVIOUS
LEMMA Division ==
    ASSUME NEW a \in Nat, NEW l \in Nat \ {0}
    PROVE  a \div l \in Nat /\ (a \div l) * l <= a /\ a < (a \div l) * l + l
OBVIOUS
---------------------------------------------------------------------------
(* The framing of the output.                                              *)

\* Nothing behind the rest ends a line, and the rest starts behind a line end.
LEMMA RestFacts ==
    ASSUME NEW from \in Nat \ {0}, NEW to \in Nat, from <= to + 1
    PROVE  /\ Rest(from, to) \in from..(to + 1)
           /\ Rest(from, to) = from \/ Rest(from, to) - 1 \in Ends(from, to)
           /\ Ends(Rest(from, to), to) = {}
<1> DEFINE S == Ends(from, to) \union {from - 1}
<1>1. S \in SUBSET (0..to) /\ S # {}
      BY DEF Ends
<1> HIDE DEF S
<1>2. Max(S) \in S /\ \A x \in S : x <= Max(S)
      BY <1>1, MaxOf
<1>3. Rest(from, to) = Max(S) + 1
      BY DEF Rest, S
<1>4. Max(S) \in (from - 1)..to
      BY <1>2 DEF S, Ends
<1>5. Ends(Rest(from, to), to) = {}
  <2> SUFFICES ASSUME NEW p \in Ends(Rest(from, to), to) PROVE FALSE
      OBVIOUS
  <2>1. p \in Int /\ Rest(from, to) <= p /\ p <= to /\ output[p] = LineEnd
        BY <1>3, <1>4 DEF Ends
  <2>2. p \in S
        BY <1>3, <1>4, <2>1 DEF S, Ends
  <2> QED BY <1>2, <1>3, <1>4, <2>1, <2>2
<1>6. Max(S) = from - 1 \/ Max(S) \in Ends(from, to)
      BY <1>2 DEF S
<1> QED BY <1>3, <1>4, <1>5, <1>6

\* What the cuts leave is not longer than Limit, and not empty.
LEMMA CutFacts ==
    ASSUME NEW from \in Nat \ {0}, NEW to \in Nat, from <= to + 1
    PROVE  /\ Cuts(from, to) \in Nat
           /\ to - (from + Cuts(from, to) * Limit) < Limit
           /\ from + Cuts(from, to) * Limit <= to + 1
           /\ Cuts(from, to) > 0 => from + Cuts(from, to) * Limit <= to
<1>1. CASE from > to
      BY <1>1 DEF Cuts
<1>2. CASE from <= to
  <2>1. to - from \in Nat
        BY <1>2
  <2> DEFINE c == (to - from) \div Limit
  <2>2. c \in Nat /\ c * Limit <= to - from /\ to - from < c * Limit + Limit
        BY <2>1, Division
  <2>3. Cuts(from, to) = c
        BY <1>2 DEF Cuts
  <2>4. c * Limit \in Nat
        BY <2>2
  <2> HIDE DEF c
  <2> QED BY <2>2, <2>3, <2>4
<1> QED BY <1>1, <1>2

\* The chunks are what lies between the start of the rest and its last cut.
LEMMA ChunkFacts ==
    ASSUME NEW from \in Nat \ {0}, NEW cuts \in Nat, NEW next \in Nat,
           next = from + cuts * Limit
    PROVE  /\ Chunks(from, cuts) \subseteq (from..(next - 1)) \X (from..(next - 1))
           /\ \A p \in from..(next - 1) :
                 \E piece \in Chunks(from, cuts) : p \in piece[1]..piece[2]
<1>1. ASSUME NEW c \in 0..(cuts - 1)
      PROVE  /\ from + c * Limit \in from..(next - 1)
             /\ from + (c + 1) * Limit - 1 \in from..(next - 1)
  <2>1. c \in Nat /\ c + 1 <= cuts
        OBVIOUS
  <2>2. (c + 1) * Limit <= cuts * Limit
        BY <2>1, Mono
  <2>3. (c + 1) * Limit = c * Limit + Limit /\ c * Limit \in Nat
        BY <2>1
  <2> QED BY <2>2, <2>3
<1>2. ASSUME NEW p \in from..(next - 1)
      PROVE  \E piece \in Chunks(from, cuts) : p \in piece[1]..piece[2]
  <2> DEFINE c == (p - from) \div Limit
  <2>1. p - from \in Nat
        OBVIOUS
  <2>2. c \in Nat /\ c * Limit <= p - from /\ p - from < c * Limit + Limit
        BY <2>1, Division
  <2>3. p - from < cuts * Limit
        OBVIOUS
  <2> HIDE DEF c
  <2>4. c < cuts
    <3> SUFFICES ASSUME cuts <= c PROVE FALSE
        BY <2>2
    <3>1. cuts * Limit <= c * Limit
          BY <2>2, Mono
    <3> QED BY <2>1, <2>2, <2>3, <3>1
  <2>5. c \in 0..(cuts - 1)
        BY <2>2, <2>4
  <2>6. <<from + c * Limit, from + (c + 1) * Limit - 1>> \in Chunks(from, cuts)
        BY <2>5 DEF Chunks
  <2>7. (c + 1) * Limit = c * Limit + Limit /\ c * Limit \in Nat
        BY <2>2
  <2>8. p \in (from + c * Limit)..(from + (c + 1) * Limit - 1)
        BY <2>2, <2>7
  <2> DEFINE piece == <<from + c * Limit, from + (c + 1) * Limit - 1>>
  <2>9. p \in piece[1]..piece[2]
        BY <2>8
  <2> QED BY <2>6, <2>9
<1>3. ASSUME NEW piece \in Chunks(from, cuts)
      PROVE  piece \in (from..(next - 1)) \X (from..(next - 1))
  <2>1. PICK c \in 0..(cuts - 1) : piece = <<from + c * Limit, from + (c + 1) * Limit - 1>>
        BY DEF Chunks
  <2> QED BY <1>1, <2>1
<1> QED BY <1>2, <1>3

\* A byte of text with a line end behind it is in one of the lines.
LEMMA LineAround ==
    ASSUME NEW from \in Nat \ {0}, NEW to \in Nat, NEW p \in from..to,
           output[p] # LineEnd, NEW e \in Ends(from, to), p < e
    PROVE  \E piece \in Lines(from, to) : p \in piece[1]..piece[2]
<1> DEFINE before == {x \in Ends(from, to) : x < p} \union {from - 1}
           after == {x \in Ends(from, to) : p < x}
<1>1. before \in SUBSET (0..to) /\ before # {}
      BY DEF Ends
<1>2. after \in SUBSET Nat /\ after # {}
      BY DEF Ends
<1>3. Max(before) \in before /\ \A x \in before : x <= Max(before)
      BY <1>1, MaxOf
<1>4. Min(after) \in after /\ \A x \in after : Min(after) <= x
      BY <1>2, MinOf
<1> DEFINE a == Max(before) + 1
           b == Min(after) - 1
<1>5. a \in from..p /\ (a = from \/ a - 1 \in Ends(from, to))
      BY <1>3 DEF Ends
<1>6. b \in p..to /\ b + 1 \in Ends(from, to)
      BY <1>4 DEF Ends
<1>7. Ends(a, b) = {}
  <2> SUFFICES ASSUME NEW x \in Ends(a, b) PROVE FALSE
      OBVIOUS
  <2>1. x \in a..b /\ output[x] = LineEnd /\ x # p
        BY DEF Ends
  <2>2. x \in Ends(from, to)
        BY <1>5, <1>6, <2>1 DEF Ends
  <2>3. CASE x < p
        BY <1>3, <2>1, <2>2, <2>3, <1>5, <1>1
  <2>4. CASE p < x
        BY <1>4, <2>1, <2>2, <2>4, <1>6, <1>2
  <2>5. x \in Nat /\ p \in Nat /\ x # p
        BY <2>1, <2>2 DEF Ends
  <2> QED BY <2>3, <2>4, <2>5
<1>8. <<a, b>> \in Lines(from, to)
      BY <1>5, <1>6, <1>7 DEF Lines
<1> HIDE DEF a, b
<1>9. p \in (<<a, b>>)[1]..(<<a, b>>)[2]
      BY <1>5, <1>6
<1> QED BY <1>8, <1>9

\* The reader's position, and that it has taken everything once it is done.
Framed ==
    /\ output \in Seq({Text, LineEnd}) /\ taken \in 0..Len(output)
    /\ start \in 1..(taken + 1) /\ log \subseteq (1..taken) \X (1..taken)
    /\ leader = "none" => output = <<>>
    /\ leader # "none" /\ ~readers => taken = Len(output) /\ start = taken + 1

\* What is held back: no line end and less than Limit, from the start of a line or
\* from behind at least Limit bytes of one.
Held ==
    /\ Ends(start, taken) = {} /\ taken - start < Limit
    /\ readers => \/ start = 1 \/ output[start - 1] = LineEnd
                  \/ Limit < start /\ start <= taken /\ Ends(start - Limit, start) = {}

\* What has been emitted: all the text before it, in pieces of lines, and whole
\* the lines that fit.
IsLine(a, b) ==
    /\ Ends(a, b) = {} /\ a <= b /\ b - a < Limit
    /\ a = 1 \/ output[a - 1] = LineEnd
    /\ b < taken /\ output[b + 1] = LineEnd

Emitted ==
    /\ \A piece \in log : piece[2] < start /\ Ends(piece[1], piece[2]) = {}
    /\ \A p \in 1..(start - 1) :
          output[p] = Text => \E piece \in log : p \in piece[1]..piece[2]
    /\ \A a, b \in 1..taken : IsLine(a, b) => <<a, b>> \in log

Framing == Framed /\ Held /\ Emitted

LEMMA FramingInit == Init => Framing
BY DEF Init, Framing, Framed, Held, Emitted, Ends

LEMMA WriteKeeps == ASSUME Lifecycle, Framing, Write PROVE Framing'
<1> USE DEF Framing, Framed
<1>1. PICK symbol \in {Text, LineEnd} : output' = Append(output, symbol)
      BY DEF Write
<1>2. UNCHANGED <<leader, readers, taken, start, log>>
      BY DEF Write
<1>3. leader # "none" /\ readers
      BY DEF Write, Lifecycle, PipesOpen
<1>4. output' \in Seq({Text, LineEnd}) /\ Len(output') = Len(output) + 1
      BY <1>1
<1>5. \A p \in 1..Len(output) : output'[p] = output[p]
      BY <1>1
<1>6. \A a \in Int, b \in Int : 1 <= a /\ b <= taken => Ends(a, b)' = Ends(a, b)
      BY <1>2, <1>5 DEF Ends
<1>7. Framed'
      BY <1>2, <1>3, <1>4
<1>8. Held'
      BY <1>2, <1>5, <1>6 DEF Held
<1>9. \A a, b \in 1..taken : IsLine(a, b)' => IsLine(a, b)
  <2> SUFFICES ASSUME NEW a \in 1..taken, NEW b \in 1..taken, IsLine(a, b)'
               PROVE  IsLine(a, b)
      OBVIOUS
  <2>1. Ends(a, b)' = Ends(a, b)
        BY <1>6
  <2>2. b < taken /\ output[b + 1] = LineEnd
        BY <1>2, <1>5 DEF IsLine
  <2>3. a = 1 \/ output[a - 1] = LineEnd
        BY <1>5 DEF IsLine
  <2> QED BY <2>1, <2>2, <2>3 DEF IsLine
<1>10. Emitted'
  <2>1. \A piece \in log : Ends(piece[1], piece[2])' = Ends(piece[1], piece[2])
        BY <1>6
  <2>2. \A p \in 1..(start - 1) : output'[p] = output[p]
        BY <1>5
  <2> QED BY <1>2, <1>9, <2>1, <2>2 DEF Emitted
<1> QED BY <1>7, <1>8, <1>10

LEMMA PipesCloseKeeps == ASSUME Lifecycle, Framing, PipesClose PROVE Framing'
<1> USE DEF Framing, Framed
<1>1. /\ readers /\ taken = Len(output) /\ readers' = FALSE /\ start' = taken + 1
      /\ UNCHANGED <<leader, output, taken>>
      BY DEF PipesClose
<1>2. leader # "none"
      BY <1>1 DEF Lifecycle
<1>3. \A a, b : Ends(a, b)' = Ends(a, b)
      BY <1>1 DEF Ends
<1>4. log' = IF start > taken THEN log ELSE log \union {<<start, taken>>}
      BY DEF PipesClose
<1>5. Framed'
      BY <1>1, <1>2, <1>4
<1>6. Held'
      BY <1>1, <1>3 DEF Held, Ends
<1>7. \A a, b : IsLine(a, b)' <=> IsLine(a, b)
      BY <1>1, <1>3 DEF IsLine
<1>8. Emitted'
  <2>1. ASSUME NEW piece \in log'
        PROVE  piece[2] < start' /\ Ends(piece[1], piece[2]) = {}
    <3>1. CASE piece \in log
          BY <1>1, <3>1 DEF Emitted
    <3>2. CASE piece = <<start, taken>>
          BY <1>1, <3>2 DEF Held
    <3> QED BY <1>4, <3>1, <3>2
  <2>2. ASSUME NEW p \in 1..taken, output[p] = Text
        PROVE  \E piece \in log' : p \in piece[1]..piece[2]
    <3>1. CASE p < start
          BY <1>4, <2>2, <3>1 DEF Emitted
    <3>2. CASE start <= p
      <4>1. <<start, taken>> \in log'
            BY <1>4, <3>2
      <4>2. p \in (<<start, taken>>)[1]..(<<start, taken>>)[2]
            BY <3>2
      <4> QED BY <4>1, <4>2
    <3> QED BY <3>1, <3>2
  <2>3. \A piece \in log' : piece[2] < start' /\ Ends(piece[1], piece[2])' = {}
        BY <1>3, <2>1
  <2>4. \A p \in 1..(start' - 1) :
           output'[p] = Text => \E piece \in log' : p \in piece[1]..piece[2]
        BY <1>1, <2>2
  <2>5. \A a, b \in 1..taken' : IsLine(a, b)' => <<a, b>> \in log'
        BY <1>1, <1>4, <1>7 DEF Emitted
  <2> QED BY <2>3, <2>4, <2>5 DEF Emitted
<1> QED BY <1>5, <1>6, <1>8

\* The chunk has arrived and the lines it ends have been found.
LEMMA ReadKeeps == ASSUME Lifecycle, Framing, Read PROVE Framing'
<1>1. PICK k \in 1..Min({Limit, Len(output) - taken}) :
         LET rest == Rest(start, taken + k)
             cuts == Cuts(rest, taken + k)
         IN  /\ taken' = taken + k
             /\ log' = log \union Lines(start, taken + k) \union Chunks(rest, cuts)
             /\ start' = rest + cuts * Limit
      BY DEF Read
<1> DEFINE to == taken + k
           rest == Rest(start, to)
           cuts == Cuts(rest, to)
           next == rest + cuts * Limit
           lines == Lines(start, to)
           chunks == Chunks(rest, cuts)
<1>2. taken' = to /\ start' = next /\ log' = log \union lines \union chunks
      BY <1>1
<1>3. readers /\ UNCHANGED <<leader, readers, output>> /\ leader # "none"
      BY DEF Read, Lifecycle
<1>4. /\ output \in Seq({Text, LineEnd}) /\ taken \in Nat /\ taken <= Len(output)
      /\ start \in Nat \ {0} /\ start <= taken + 1 /\ log \subseteq (1..taken) \X (1..taken)
      BY DEF Framing, Framed
<1>5. to \in Nat /\ taken < to /\ to <= Len(output)
  <2>1. Len(output) - taken \in Nat /\ Limit \in Nat
        BY <1>4
  <2>2. Min({Limit, Len(output) - taken}) <= Len(output) - taken
        /\ Min({Limit, Len(output) - taken}) \in Nat
        BY <2>1, MinPair
  <2>3. k \in Nat /\ 1 <= k /\ k <= Len(output) - taken
        BY <2>1, <2>2
  <2> QED BY <1>4, <2>3
<1> HIDE DEF to, rest, cuts, next, lines, chunks
<1>6. /\ rest \in start..(to + 1)
      /\ rest = start \/ rest - 1 \in Ends(start, to)
      /\ Ends(rest, to) = {}
  <2>1. start <= to + 1
        BY <1>4, <1>5
  <2>2. /\ Rest(start, to) \in start..(to + 1)
        /\ Rest(start, to) = start \/ Rest(start, to) - 1 \in Ends(start, to)
        /\ Ends(Rest(start, to), to) = {}
        BY <1>4, <1>5, <2>1, RestFacts
  <2> QED BY <2>2 DEF rest
<1>7. rest \in Nat \ {0} /\ rest <= to + 1
      BY <1>4, <1>5, <1>6
<1>8. /\ cuts \in Nat /\ to - next < Limit
      /\ next <= to + 1 /\ (cuts > 0 => next <= to)
  <2>1. /\ Cuts(rest, to) \in Nat /\ to - (rest + Cuts(rest, to) * Limit) < Limit
        /\ rest + Cuts(rest, to) * Limit <= to + 1
        /\ Cuts(rest, to) > 0 => rest + Cuts(rest, to) * Limit <= to
        BY <1>5, <1>7, CutFacts
  <2> QED BY <2>1 DEF cuts, next
<1>9. next = rest + cuts * Limit /\ next \in Nat
      BY <1>5, <1>7, <1>8 DEF next
<1>10. /\ chunks \subseteq (rest..(next - 1)) \X (rest..(next - 1))
       /\ \A p \in rest..(next - 1) : \E piece \in chunks : p \in piece[1]..piece[2]
       BY <1>7, <1>8, <1>9, ChunkFacts DEF chunks
<1>11. next = rest \/ (rest + Limit <= next /\ next <= to)
  <2>1. cuts * Limit \in Nat /\ (cuts > 0 => 1 * Limit <= cuts * Limit)
        BY <1>8, Mono
  <2>2. cuts = 0 => cuts * Limit = 0
        OBVIOUS
  <2> QED BY <1>7, <1>8, <1>9, <2>1, <2>2
<1>12. \A e \in Ends(start, to) : e \in start..to /\ e < rest
  <2> SUFFICES ASSUME NEW e \in Ends(start, to) PROVE e \in start..to /\ e < rest
      OBVIOUS
  <2>1. e \in start..to /\ output[e] = LineEnd
        BY DEF Ends
  <2>2. rest <= e => e \in Ends(rest, to)
        BY <1>6, <2>1 DEF Ends
  <2> QED BY <1>4, <1>5, <1>6, <1>7, <2>1, <2>2
<1>13. /\ lines \subseteq (start..(rest - 1)) \X (start..(rest - 1))
       /\ \A piece \in lines : Ends(piece[1], piece[2]) = {}
       BY <1>4, <1>5, <1>7, <1>12 DEF lines, Lines
<1>14. \A a, b \in start..to :
          (/\ a <= b /\ Ends(a, b) = {} /\ (a = start \/ a - 1 \in Ends(start, to))
           /\ b + 1 \in Ends(start, to)) => <<a, b>> \in lines
       BY DEF lines, Lines
<1>15. \A a, b : Ends(a, b)' = Ends(a, b)
       BY <1>3 DEF Ends
<1>16. Framed'
  <2>1. log' \subseteq (1..to) \X (1..to)
    <3>1. log \subseteq (1..to) \X (1..to)
          BY <1>4, <1>5
    <3>2. lines \subseteq (1..to) \X (1..to)
          BY <1>4, <1>5, <1>7, <1>13
    <3>3. chunks \subseteq (1..to) \X (1..to)
      <4>1. rest..(next - 1) \subseteq 1..to
            BY <1>5, <1>7, <1>8, <1>9
      <4> QED BY <1>10, <4>1
    <3> QED BY <1>2, <3>1, <3>2, <3>3
  <2>2. start' \in 1..(to + 1)
        BY <1>2, <1>5, <1>7, <1>8, <1>9, <1>11
  <2> QED BY <1>2, <1>3, <1>4, <1>5, <2>1, <2>2 DEF Framed
<1>17. Held'
  <2>1. Ends(next, to) = {}
        BY <1>5, <1>6, <1>7, <1>9, <1>11 DEF Ends
  <2>2. CASE next = start
        BY <1>2, <1>3, <1>4, <1>5, <1>8, <1>15, <2>1, <2>2 DEF Held, Framing
  <2>3. CASE next = rest /\ rest # start
    <3>1. output[next - 1] = LineEnd
          BY <1>6, <2>3 DEF Ends
    <3> QED BY <1>2, <1>3, <1>8, <1>15, <2>1, <3>1 DEF Held
  <2>4. CASE rest + Limit <= next /\ next <= to
    <3>1. Limit < next
          BY <1>7, <1>9, <2>4
    <3>2. Ends(next - Limit, next) = {}
          BY <1>5, <1>6, <1>7, <1>9, <2>4 DEF Ends
    <3> QED BY <1>2, <1>3, <1>8, <1>15, <2>1, <2>4, <3>1, <3>2 DEF Held
  <2> QED BY <1>11, <2>2, <2>3, <2>4
<1>18. ASSUME NEW piece \in log'
       PROVE  piece[2] < next /\ Ends(piece[1], piece[2]) = {}
  <2>1. CASE piece \in log
    <3>1. piece[2] \in Nat /\ piece[2] < start /\ Ends(piece[1], piece[2]) = {}
          BY <1>4, <2>1 DEF Framing, Emitted
    <3> QED BY <1>4, <1>5, <1>6, <1>7, <1>9, <1>11, <3>1
  <2>2. CASE piece \in lines
    <3>1. piece[2] \in start..(rest - 1) /\ Ends(piece[1], piece[2]) = {}
          BY <1>13, <2>2
    <3> QED BY <1>4, <1>7, <1>9, <1>11, <3>1
  <2>3. CASE piece \in chunks
    <3>1. /\ piece[1] \in Nat /\ piece[2] \in Nat /\ rest <= piece[1] /\ piece[2] < next
          /\ piece[2] <= to
      <4>1. piece[1] \in rest..(next - 1) /\ piece[2] \in rest..(next - 1)
            BY <1>10, <2>3
      <4> QED BY <1>5, <1>7, <1>8, <1>9, <4>1
    <3>2. Ends(piece[1], piece[2]) \subseteq Ends(rest, to)
          BY <1>5, <1>7, <3>1 DEF Ends
    <3> QED BY <1>6, <3>1, <3>2
  <2> QED BY <1>2, <2>1, <2>2, <2>3
<1>19. ASSUME NEW p \in 1..(next - 1), output[p] = Text
       PROVE  \E piece \in log' : p \in piece[1]..piece[2]
  <2>0. p \in Nat /\ 1 <= p /\ p < next
        BY <1>9
  <2>1. CASE p < start
        BY <1>2, <1>4, <1>19, <2>0, <2>1 DEF Framing, Emitted
  <2>2. CASE start <= p /\ p < rest
    <3>1. rest - 1 \in Ends(start, to)
          BY <1>4, <1>6, <1>7, <2>0, <2>2
    <3>2. output[p] # LineEnd /\ output[rest - 1] = LineEnd
          BY <1>19, <3>1 DEF Text, LineEnd, Ends
    <3>3. p # rest - 1
          BY <3>2
    <3>4. p < rest - 1 /\ p \in start..to
          BY <1>4, <1>5, <1>7, <2>0, <2>2, <3>3
    <3>5. \E piece \in lines : p \in piece[1]..piece[2]
          BY <1>4, <1>5, <3>1, <3>2, <3>4, LineAround DEF lines
    <3> QED BY <1>2, <3>5
  <2>3. CASE rest <= p
        BY <1>2, <1>7, <1>9, <1>10, <2>0, <2>3
  <2> QED BY <1>4, <1>7, <2>0, <2>1, <2>2, <2>3
<1>20. ASSUME NEW a \in 1..to, NEW b \in 1..to, IsLine(a, b)'
       PROVE  <<a, b>> \in log'
  <2>1. /\ Ends(a, b) = {} /\ a <= b /\ b - a < Limit
        /\ a = 1 \/ output[a - 1] = LineEnd
        /\ b < to /\ output[b + 1] = LineEnd
        BY <1>2, <1>3, <1>15, <1>20 DEF IsLine
  <2>2. CASE b < taken
    <3>1. a \in 1..taken /\ b \in 1..taken /\ IsLine(a, b)
          BY <1>4, <2>1, <2>2 DEF IsLine
    <3> QED BY <1>2, <3>1 DEF Framing, Emitted
  <2>3. CASE taken <= b
    <3>1. start <= a
          BY <1>3, <1>4, <2>1, <2>3 DEF Framing, Held, Ends
    <3>2. b + 1 \in Ends(start, to)
          BY <1>4, <1>5, <2>1, <2>3 DEF Ends
    <3>3. a = start \/ a - 1 \in Ends(start, to)
          BY <1>4, <1>5, <2>1, <3>1 DEF Ends
    <3>4. a \in start..to /\ b \in start..to
          BY <1>4, <1>5, <2>1, <3>1
    <3> QED BY <1>2, <1>14, <2>1, <3>2, <3>3, <3>4
  <2> QED BY <1>4, <2>2, <2>3
<1>21. Emitted'
  <2>1. \A piece \in log' : piece[2] < start' /\ Ends(piece[1], piece[2])' = {}
        BY <1>2, <1>15, <1>18
  <2>2. \A p \in 1..(start' - 1) :
           output'[p] = Text => \E piece \in log' : p \in piece[1]..piece[2]
        BY <1>2, <1>3, <1>19
  <2>3. \A a, b \in 1..taken' : IsLine(a, b)' => <<a, b>> \in log'
        BY <1>2, <1>20
  <2> QED BY <2>1, <2>2, <2>3 DEF Emitted
<1> QED BY <1>16, <1>17, <1>21 DEF Framing

\* The steps that leave the stream alone.
LEMMA StreamKept ==
    ASSUME Framing, UNCHANGED <<stream, readers>>, leader' = "none" <=> leader = "none"
    PROVE  Framing'
<1>1. \A a, b : Ends(a, b)' = Ends(a, b)
      BY DEF stream, Ends
<1>2. Framed'
      BY DEF stream, Framing, Framed
<1>3. Held'
      BY <1>1 DEF stream, Framing, Held
<1>4. \A a, b : IsLine(a, b)' <=> IsLine(a, b)
      BY <1>1 DEF stream, IsLine
<1>5. Emitted'
      BY <1>1, <1>4 DEF stream, Framing, Emitted
<1> QED BY <1>2, <1>3, <1>5 DEF Framing

LEMMA StartKeeps == ASSUME Framing, Start PROVE Framing'
<1>1. UNCHANGED stream /\ leader = "none" /\ leader' = "running" /\ readers' = TRUE
      BY DEF Start
<1>2. taken = 0 /\ start = 1
      BY <1>1 DEF Framing, Framed
<1>3. \A a, b : Ends(a, b)' = Ends(a, b)
      BY <1>1 DEF stream, Ends
<1>4. Framed'
      BY <1>1 DEF stream, Framing, Framed
<1>5. Held'
      BY <1>1, <1>2, <1>3 DEF stream, Framing, Held
<1>6. Emitted'
      BY <1>1, <1>2, <1>3 DEF stream, Framing, Emitted
<1> QED BY <1>4, <1>5, <1>6 DEF Framing

LEMMA FramingNext == Lifecycle /\ Framing /\ [Next]_vars => Framing'
<1> SUFFICES ASSUME Lifecycle, Framing, [Next]_vars PROVE Framing'
    OBVIOUS
<1>1. CASE StopCalled \/ LeaderGoneInGrace \/ Killed \/ StopReturns \/ StatusArrives
      BY <1>1, StreamKept
         DEF StopCalled, LeaderGoneInGrace, Killed, StopReturns, StatusArrives
<1>2. CASE GraceOver \/ LeaderExits
      BY <1>2, StreamKept DEF GraceOver, LeaderExits, Lifecycle
<1>3. ASSUME NEW h \in Helpers, Fork(h) \/ HelperExits(h) PROVE Framing'
      BY <1>3, StreamKept DEF Fork, HelperExits
<1>4. CASE UNCHANGED vars
      BY <1>4, StreamKept DEF vars
<1> QED BY <1>1, <1>2, <1>3, <1>4, StartKeeps, ReadKeeps, WriteKeeps, PipesCloseKeeps
        DEF Next, Loop, Children, Terminated

LEMMA FramingHolds == Spec => []Framing
BY LifecycleHolds, FramingInit, FramingNext, PTL DEF Spec

---------------------------------------------------------------------------

\* The variables keep their types, and there is no status and no reader without a
\* process (processes.py:18-19, 37-40).
THEOREM ProcessTypeCorrect == Spec => []TypeOK
<1>1. Lifecycle /\ Framing => TypeOK
      BY DEF Lifecycle, Framing, Framed, TypeOK
<1> QED BY <1>1, LifecycleHolds, FramingHolds, PTL

\* When stop() has returned every byte of text the group ever wrote is in the log
\* and nobody can add to it (processes.py:53-65).
THEOREM DrainedHolds == Spec => []ReturnedMeansDrained
<1>1. Lifecycle /\ Framing => ReturnedMeansDrained
  <2> SUFFICES ASSUME Lifecycle, Framing, at = "returned", leader # "none"
               PROVE  /\ leader = "dead" /\ known /\ ~PipesOpen
                      /\ Logged = {p \in 1..Len(output) : output[p] = Text}
      BY DEF ReturnedMeansDrained
  <2>1. leader = "dead" /\ known /\ ~PipesOpen /\ ~readers
        BY DEF Lifecycle
  <2>2. taken = Len(output) /\ start = taken + 1 /\ taken \in Nat
        BY <2>1 DEF Framing, Framed
  <2>3. ASSUME NEW p \in Logged PROVE p \in 1..Len(output) /\ output[p] = Text
    <3>1. PICK piece \in log : p \in piece[1]..piece[2]
          BY DEF Logged
    <3>2. piece \in (1..taken) \X (1..taken) /\ Ends(piece[1], piece[2]) = {}
          BY DEF Framing, Framed, Emitted
    <3>3. p \in 1..Len(output)
          BY <2>2, <3>1, <3>2
    <3>4. output[p] # LineEnd
          BY <3>1, <3>2 DEF Ends
    <3>5. output[p] \in {Text, LineEnd}
          BY <3>3 DEF Framing, Framed
    <3> QED BY <3>3, <3>4, <3>5
  <2>4. ASSUME NEW p \in 1..Len(output), output[p] = Text PROVE p \in Logged
        BY <2>2, <2>4 DEF Framing, Emitted, Logged
  <2> QED BY <2>1, <2>3, <2>4
<1> QED BY <1>1, LifecycleHolds, FramingHolds, PTL

\* A line that fits is emitted in one piece, however it was read, and nothing is
\* held back for long (processes.py:67-96).
THEOREM LinesKeptHolds == Spec => []LinesKept
<1>1. Framing => LinesKept
      BY DEF Framing, Held, Emitted, IsLine, LinesKept
<1> QED BY <1>1, FramingHolds, PTL
=============================================================================
