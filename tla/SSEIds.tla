------------------------------- MODULE SSEIds -------------------------------
(***************************************************************************)
(* SSEIdParser.feed (router.py): the router's private look at a streamed   *)
(* answer, which finds the response identifiers in it while the bytes go   *)
(* through.  The engine writes events, lines ended by LF or by CR LF and   *)
(* closed by an empty line; the network cuts them into chunks anywhere.    *)
(* A text is the set of its positions in the stream, so a byte keeps its   *)
(* place whatever is dropped around it.                                    *)
(***************************************************************************)
EXTENDS Integers, Sequences, FiniteSets

CONSTANTS
    Chunk,          \* longest chunk httpx hands over, 64 KiB
    Keep,           \* what is kept of a buffer that has grown too long, 64 KiB
    MaxStream       \* bound: length of the stream

ASSUME SizesAssumption == Keep \in Nat \ {0} /\ Chunk \in 1..Keep /\ MaxStream \in Nat

VARIABLES
    stream,     \* what the engine has sent so far
    buffer,     \* self.buffer
    found       \* how often the callback was given the identifier of each position

parserVars == <<stream, buffer, found>>

\* A line end's byte, a whole data line that carries an identifier, or the rest of
\* any line: a comment, a field, data without an identifier, "[DONE]".
Symbols == {"id", "other", "cr", "lf"}

\* What the variables hold; a stream that never ends an event does not fill the
\* router's memory: the buffer keeps at most 128 KiB (router.py:85-86).
ParserTypeOK ==
    /\ stream \in Seq(Symbols) /\ Len(stream) <= MaxStream
    /\ buffer \subseteq 1..Len(stream) /\ Cardinality(buffer) <= 2 * Keep
    /\ found \in [1..MaxStream -> Nat]

ParserInit ==
    /\ stream = <<>> /\ buffer = {}
    /\ found = [p \in 1..MaxStream |-> 0]

---------------------------------------------------------------------------
(* The parser: s is the stream with the new chunk.                         *)

Adjacent(text, p, q) == p < q /\ \A x \in text : x <= p \/ q <= x

\* bytes.replace(b"\r\n", b"\n"): every CR with an LF behind it goes.
Normalised_Chunk(s, text) ==
    {p \in text : ~(s[p] = "cr" /\ \E q \in text : /\ Adjacent(text, p, q) /\ s[q] = "lf"
                                                   /\ Len(stream) < p)}
Normalised(s, text) ==
    {p \in text : ~(s[p] = "cr" /\ \E q \in text : Adjacent(text, p, q) /\ s[q] = "lf")}

\* Beyond 128 KiB only the last 64 KiB are kept.
Trimmed_Never(text) == text
Trimmed(text) ==
    IF Cardinality(text) > 2 * Keep
    THEN {p \in text : Cardinality({q \in text : p <= q}) <= Keep} ELSE text

\* partition at the first empty line, again and again: in each run of LFs the second,
\* the fourth and so on end an event.
RunBefore(s, text, p) ==
    {r \in text : r < p /\ \A x \in text : r <= x /\ x < p => s[x] = "lf"}
EventEnds(s, text) ==
    {p \in text : s[p] = "lf" /\ Cardinality(RunBefore(s, text, p)) % 2 = 1}
Remaining(s, text) == {p \in text : \A e \in EventEnds(s, text) : e < p}

Feed(s) ==
    LET text == Trimmed(Normalised(s, buffer \union (Len(stream) + 1)..Len(s)))
        events == text \ Remaining(s, text)
    IN  /\ buffer' = Remaining(s, text)
        /\ found' = [p \in 1..MaxStream |->
                        IF p \in events /\ s[p] = "id" THEN found[p] + 1 ELSE found[p]]

---------------------------------------------------------------------------
(* The engine and the network.                                             *)

\* A line is an identifier's data line or any number of other symbols, and ends
\* with LF or CR LF.
MayFollow(before, symbol) ==
    CASE before = "lf" -> TRUE
      [] before = "cr" -> symbol = "lf"
      [] before = "id" -> symbol \in {"cr", "lf"}
      [] before = "other" -> symbol # "id"
WellFormed(s) == \A p \in 1..Len(s) : MayFollow(IF p = 1 THEN "lf" ELSE s[p - 1], s[p])

Arrives(k) ==
    /\ Len(stream) + k <= MaxStream
    /\ \E chunk \in [1..k -> Symbols] :
          /\ WellFormed(stream \o chunk)
          /\ stream' = stream \o chunk
          /\ Feed(stream \o chunk)

ParserNext == \E k \in 1..Chunk : Arrives(k)
ParserSpec == ParserInit /\ [][ParserNext]_parserVars

---------------------------------------------------------------------------
(* The reference: read off the stream, with no regard to the chunks.       *)

\* The LFs that end an empty line.
EmptyLines(s) ==
    {p \in 2..Len(s) :
        /\ s[p] = "lf"
        /\ s[p - 1] = "lf" \/ (s[p - 1] = "cr" /\ (p = 2 \/ s[p - 2] = "lf"))}

\* No event, the unfinished one included, is longer than what is kept.
EventsFit(s) ==
    \A p \in 1..Len(s) : \E q \in EmptyLines(s) \union {0} : q < p /\ p - q <= Keep

\* Wherever the stream is cut, the identifiers reported so far are those of the events
\* whose empty line has been read, each as often as it was sent, as long as no
\* event is longer than 64 KiB (router.py:79-92): a follow-up that a client sends
\* on reading an event finds its engine in the index.
EveryIdFound ==
    EventsFit(stream) =>
        \A p \in 1..MaxStream :
            LET complete == \E e \in EmptyLines(stream) : p < e
            IN  found[p] = IF complete /\ stream[p] = "id" THEN 1 ELSE 0
=============================================================================
