------------------------------- MODULE Stream -------------------------------
(***************************************************************************)
(* StreamEncoder and StreamDecoder (stream.go) over an io.Writer and an    *)
(* io.Reader that may stop early, fail, or reach the end at any moment.    *)
(*                                                                         *)
(* A stream is a header and then frames: a length prefix and a body.  A    *)
(* byte is a cell that says which byte of which message it is, and the     *)
(* decoder only makes sense of cells that come in the right place.  The    *)
(* dense state that spans messages is a counter: a body can be decoded     *)
(* only where the decoder has seen what the encoder had when it wrote it   *)
(* (DenseStream shows that this is enough).                                *)
(*                                                                         *)
(* The caller is single threaded at each end.  A call that does I/O is     *)
(* several steps, one for each Write or Read, and the other end may run in *)
(* between.                                                                *)
(***************************************************************************)
EXTENDS Naturals, SequencesExt

CONSTANTS
    Messages,       \* the values a program may encode
    Size,           \* the body bytes of each
    Head1,          \* what the cells of the stream header belong to
    HeaderLen,      \* bytes of the stream header (5)
    OneByteLimit,   \* the first body length whose prefix takes 2 bytes (0x80)
    FlushAt,        \* the buffered bytes at which Encode flushes (1<<14)
    MaxMessages,    \* bound: Encode calls on each stream
    MaxStreams      \* bound: streams, one after the other

ASSUME StreamsAssumption ==
    /\ Head1 \notin Messages
    /\ Size \in [Messages -> Nat \ {0}]
    /\ HeaderLen \in Nat \ {0}
    /\ OneByteLimit \in Nat /\ FlushAt \in Nat
    /\ MaxStreams \in Nat \ {0}
    /\ MaxMessages \in [1 .. MaxStreams -> Nat]

VARIABLES
    \* StreamEncoder
    encPc,      \* "idle", "flush" or "close" (in Flush, Close), "closed"
    encBroken,
    headerOut,
    buf,        \* enc.buf: what Flush has not written yet
    encSeen,    \* messages the encoder's dense state has taken in
    \* the streams: between Write and Read
    stream,     \* the stream being written
    pipe,       \* per stream, the bytes written and not read
    \* StreamDecoder
    decPc,      \* "idle", "header", "length", "body" (in Decode), "closed"
    decBroken,
    headerRead,
    window,     \* dec.buf from the cursor on
    frameLen,
    decSeen,    \* messages the decoder's dense state has taken in
    reading,    \* the stream being read
    result,     \* how the last Decode returned
    \* history
    accepted,   \* per stream, the messages framed by Encode
    unsent,     \* per stream, the bytes that Reset left unwritten
    got         \* per stream, the messages returned by Decode

encVars == <<encPc, encBroken, headerOut, buf, encSeen, stream, accepted, unsent>>
decVars == <<decPc, decBroken, headerRead, window, frameLen, decSeen, reading,
             result, got>>
vars == <<encVars, pipe, decVars>>

-----------------------------------------------------------------------------
(* Bytes *)

PrefixLen(m) == IF Size[m] < OneByteLimit THEN 1 ELSE 2

Cells(m, n, seen) == [i \in 1 .. n |-> [of |-> m, at |-> i, seen |-> seen]]

\* The frame of m: its prefix bytes first, then its body.
Frame(m, seen) == Cells(m, PrefixLen(m) + Size[m], seen)
StreamHeader == Cells(Head1, HeaderLen, 0)

Drop(s, n) == SubSeq(s, n + 1, Len(s))
Take(s, n) == SubSeq(s, 1, Min({n, Len(s)}))

Streams == 1 .. MaxStreams

Init ==
    /\ encPc = "idle" /\ encBroken = FALSE /\ headerOut = FALSE
    /\ buf = <<>> /\ encSeen = 0
    /\ stream = 1
    /\ pipe = [s \in Streams |-> <<>>]
    /\ decPc = "idle" /\ decBroken = FALSE /\ headerRead = FALSE
    /\ window = <<>> /\ frameLen = 0 /\ decSeen = 0
    /\ reading = 1 /\ result = "none"
    /\ accepted = [s \in Streams |-> <<>>]
    /\ unsent = [s \in Streams |-> <<>>]
    /\ got = [s \in Streams |-> <<>>]

-----------------------------------------------------------------------------
(* StreamEncoder *)

Headed == IF headerOut THEN buf ELSE buf \o StreamHeader

CanEncode ==
    /\ encPc = "idle"
    /\ ~encBroken
    /\ encSeen < MaxMessages[stream]

\* The header once, the frame, and a Flush when the buffer has grown large.
\* The message is framed whatever that Flush returns.
Encode(m) ==
    /\ CanEncode
    /\ headerOut' = TRUE
    /\ buf' = Headed \o Frame(m, encSeen)
    /\ encSeen' = encSeen + 1
    /\ accepted' = [accepted EXCEPT ![stream] = Append(@, m)]
    /\ encPc' = IF Len(buf') >= FlushAt THEN "flush" ELSE "idle"
    /\ UNCHANGED <<encBroken, stream, unsent, pipe, decVars>>

\* encodeReflect fails half-way: the bytes are rolled back, the dense state
\* is not.
EncodeFails ==
    /\ CanEncode
    /\ headerOut' = TRUE
    /\ buf' = Headed
    /\ encSeen' = encSeen + 1
    /\ encBroken' = TRUE
    /\ UNCHANGED <<encPc, stream, accepted, unsent, pipe, decVars>>

Flush ==
    /\ encPc = "idle"
    /\ buf # <<>>
    /\ encPc' = "flush"
    /\ UNCHANGED <<encBroken, headerOut, buf, encSeen, stream, accepted, unsent,
                   pipe, decVars>>

Close ==
    /\ encPc = "idle"
    /\ encPc' = IF buf = <<>> THEN "closed" ELSE "close"
    /\ UNCHANGED <<encBroken, headerOut, buf, encSeen, stream, accepted, unsent,
                   pipe, decVars>>

\* Mutant of Write: after an error the bytes that went out stay buffered.
MutWriteAgain(n, err) ==
    /\ encPc \in {"flush", "close"}
    /\ n \in 0 .. Len(buf)
    /\ pipe' = [pipe EXCEPT ![stream] = @ \o Take(buf, n)]
    /\ buf' = IF err THEN buf ELSE Drop(buf, n)
    /\ encPc' = IF err \/ n = 0 THEN "idle"
                ELSE IF buf' # <<>> THEN encPc
                ELSE IF encPc = "close" THEN "closed" ELSE "idle"
    /\ UNCHANGED <<encBroken, headerOut, encSeen, stream, accepted, unsent, decVars>>

\* Mutant of Write: after an error the rest of the buffer is dropped.
MutWriteOnce(n, err) ==
    /\ encPc \in {"flush", "close"}
    /\ n \in 0 .. Len(buf)
    /\ pipe' = [pipe EXCEPT ![stream] = @ \o Take(buf, n)]
    /\ buf' = IF err THEN <<>> ELSE Drop(buf, n)
    /\ encPc' = IF err \/ n = 0 THEN "idle"
                ELSE IF buf' # <<>> THEN encPc
                ELSE IF encPc = "close" THEN "closed" ELSE "idle"
    /\ UNCHANGED <<encBroken, headerOut, encSeen, stream, accepted, unsent, decVars>>

\* One w.Write in the loop of Flush takes n bytes and returns an error or
\* not.  An error, or no progress, ends the call with the rest moved to the
\* front of the buffer.
Write(n, err) ==
    /\ encPc \in {"flush", "close"}
    /\ n \in 0 .. Len(buf)
    /\ pipe' = [pipe EXCEPT ![stream] = @ \o Take(buf, n)]
    /\ buf' = Drop(buf, n)
    /\ encPc' = IF err \/ n = 0 THEN "idle"
                ELSE IF buf' # <<>> THEN encPc
                ELSE IF encPc = "close" THEN "closed" ELSE "idle"
    /\ UNCHANGED <<encBroken, headerOut, encSeen, stream, accepted, unsent, decVars>>

\* Reset(w): a new stream; what was not flushed to the old one is dropped.
ResetEncoder ==
    /\ encPc = "idle"
    /\ stream < MaxStreams
    /\ stream' = stream + 1
    /\ unsent' = [unsent EXCEPT ![stream] = Headed]
    /\ buf' = <<>>
    /\ headerOut' = FALSE
    /\ encSeen' = 0
    /\ encBroken' = FALSE
    /\ UNCHANGED <<encPc, accepted, pipe, decVars>>

-----------------------------------------------------------------------------
(* StreamDecoder *)

\* frameLen is a local of Decode.
Return(r) == decPc' = "idle" /\ result' = r /\ frameLen' = 0
Break == Return("error") /\ decBroken' = TRUE

Decode ==
    /\ decPc = "idle"
    /\ ~decBroken
    /\ decPc' = IF headerRead THEN "length" ELSE "header"
    /\ result' = "none"
    /\ UNCHANGED <<decBroken, headerRead, window, frameLen, decSeen, reading,
                   got, encVars, pipe>>

\* The cells at the cursor are the header, or the whole prefix of a frame.
AtHeader == Take(window, HeaderLen) = StreamHeader
AtPrefix ==
    /\ window # <<>>
    /\ Head(window).of \in Messages
    /\ LET m == Head(window).of IN
        Take(window, PrefixLen(m)) = Take(Frame(m, Head(window).seen), PrefixLen(m))

\* What fill is asked for: the header, one more byte of the prefix, the body.
Need ==
    CASE decPc = "header" -> HeaderLen
      [] decPc = "length" -> IF AtPrefix THEN 0 ELSE Len(window) + 1
      [] decPc = "body"   -> frameLen
      [] OTHER -> 0

Filling == Len(window) < Need
AtBoundary == decPc \in {"header", "length"}

\* One r.Read in the loop of fill brings n bytes.
Read(n) ==
    /\ Filling
    /\ n \in 1 .. Len(pipe[reading])
    /\ window' = window \o Take(pipe[reading], n)
    /\ pipe' = [pipe EXCEPT ![reading] = Drop(@, n)]
    /\ UNCHANGED <<decPc, decBroken, headerRead, frameLen, decSeen, reading,
                   result, got, encVars>>

\* It brings n bytes and an error, or none and the end of the stream as the
\* reader sees it now.  In the middle of a body the stream is lost.
ReadFails(n) ==
    /\ Filling
    /\ n \in 0 .. Len(pipe[reading])
    /\ window' = window \o Take(pipe[reading], n)
    /\ pipe' = [pipe EXCEPT ![reading] = Drop(@, n)]
    /\ IF AtBoundary THEN Return("error") /\ UNCHANGED decBroken ELSE Break
    /\ UNCHANGED <<headerRead, decSeen, reading, got, encVars>>

\* Mutant of ReadEnds: the end of the stream is clean in the middle of a prefix.
MutReadEnds ==
    /\ Filling
    /\ pipe[reading] = <<>>
    /\ IF ~AtBoundary THEN Break ELSE Return("eof") /\ UNCHANGED decBroken
    /\ UNCHANGED <<headerRead, window, decSeen, reading, got, encVars, pipe>>

ReadEnds ==
    /\ Filling
    /\ pipe[reading] = <<>>
    /\ IF ~AtBoundary THEN Break
       ELSE /\ Return(IF window = <<>> THEN "eof" ELSE "error")
            /\ UNCHANGED decBroken
    /\ UNCHANGED <<headerRead, window, decSeen, reading, got, encVars, pipe>>

\* readHeader, then on to the first frame.
ReadHeader ==
    /\ decPc = "header" /\ ~Filling
    /\ window' = Drop(window, HeaderLen)
    /\ headerRead' = TRUE
    /\ IF AtHeader
       THEN decPc' = "length" /\ UNCHANGED <<decBroken, frameLen, result>>
       ELSE Break
    /\ UNCHANGED <<decSeen, reading, got, encVars, pipe>>

ReadFrameLen ==
    /\ decPc = "length" /\ ~Filling
    /\ LET m == Head(window).of IN
        /\ frameLen' = Size[m]
        /\ window' = Drop(window, PrefixLen(m))
    /\ decPc' = "body"
    /\ UNCHANGED <<decBroken, headerRead, decSeen, reading, result, got, encVars, pipe>>

\* The buffered body belongs to one frame and the dense state is the one it
\* was written against.
Body(m) == Take(window, frameLen) = Drop(Frame(m, decSeen), PrefixLen(m))

\* Mutant of DecodeBody: a value the target refuses is skipped.
MutDecodeBody(ok) ==
    /\ decPc = "body" /\ ~Filling
    /\ decSeen' = decSeen + 1
    /\ IF \E m \in Messages : Body(m)
       THEN /\ got' = IF ok
                      THEN [got EXCEPT ![reading] =
                                Append(@, CHOOSE m \in Messages : Body(m))]
                      ELSE got
            /\ window' = Drop(window, frameLen)
            /\ Return(IF ok THEN "value" ELSE "error")
            /\ UNCHANGED decBroken
       ELSE Break /\ UNCHANGED <<got, window>>
    /\ UNCHANGED <<headerRead, reading, encVars, pipe>>

\* decodeReflect: ok says whether the caller's target takes the value.  A
\* body that is not one decodes to an error, or not to its length.
DecodeBody(ok) ==
    /\ decPc = "body" /\ ~Filling
    /\ decSeen' = decSeen + 1
    /\ IF ok /\ \E m \in Messages : Body(m)
       THEN /\ got' = [got EXCEPT ![reading] = Append(@, CHOOSE m \in Messages : Body(m))]
            /\ window' = Drop(window, frameLen)
            /\ Return("value")
            /\ UNCHANGED decBroken
       ELSE Break /\ UNCHANGED <<got, window>>
    /\ UNCHANGED <<headerRead, reading, encVars, pipe>>

\* Reset(r), to a stream that exists; nobody reads the rest of the old one.
ResetDecoder ==
    /\ decPc = "idle"
    /\ reading < stream
    /\ reading' = reading + 1
    /\ window' = <<>>
    /\ headerRead' = FALSE
    /\ decSeen' = 0
    /\ decBroken' = FALSE
    /\ result' = "none"
    /\ pipe' = [pipe EXCEPT ![reading] = <<>>]
    /\ UNCHANGED <<decPc, frameLen, got, encVars>>

CloseDecoder ==
    /\ decPc = "idle"
    /\ decPc' = "closed"
    /\ window' = <<>>
    /\ UNCHANGED <<decBroken, headerRead, frameLen, decSeen, reading, result,
                   got, encVars, pipe>>

Parse == ReadHeader \/ ReadFrameLen \/ DecodeBody(TRUE)

Next ==
    \/ \E m \in Messages : Encode(m)
    \/ EncodeFails
    \/ Flush
    \/ Close
    \/ \E n \in 0 .. Len(buf), err \in BOOLEAN : Write(n, err)
    \/ ResetEncoder
    \/ Decode
    \/ \E n \in 0 .. Len(pipe[reading]) : Read(n) \/ ReadFails(n)
    \/ ReadEnds
    \/ Parse
    \/ DecodeBody(FALSE)
    \/ ResetDecoder
    \/ CloseDecoder

\* The caller flushes again after an error and calls Decode again after an
\* end; the writer and the reader do not fail for ever.
Progress ==
    /\ WF_vars(Flush)
    /\ SF_vars(\E n \in 1 .. Len(buf) : Write(n, FALSE))
    /\ WF_vars(Decode)
    /\ SF_vars(\E n \in 1 .. Len(pipe[reading]) : Read(n))
    /\ WF_vars(Parse)

Spec == Init /\ [][Next]_vars /\ Progress

-----------------------------------------------------------------------------
(* Properties *)

Cell == [of : Messages \cup {Head1}, at : Nat, seen : Nat]

TypeOK ==
    /\ encPc \in {"idle", "flush", "close", "closed"}
    /\ decPc \in {"idle", "header", "length", "body", "closed"}
    /\ encBroken \in BOOLEAN /\ decBroken \in BOOLEAN
    /\ headerOut \in BOOLEAN /\ headerRead \in BOOLEAN
    /\ buf \in Seq(Cell) /\ window \in Seq(Cell)
    /\ unsent \in [Streams -> Seq(Cell)]
    /\ pipe \in [Streams -> Seq(Cell)]
    /\ encSeen \in Nat /\ decSeen \in Nat /\ frameLen \in Nat
    /\ stream \in Streams /\ reading \in Streams
    /\ result \in {"none", "value", "eof", "error"}
    /\ accepted \in [Streams -> Seq(Messages)]
    /\ got \in [Streams -> Seq(Messages)]

\* The frames of a stream from its nth message on.
FramesFrom(s, n) ==
    FlattenSeq([i \in 1 .. Len(accepted[s]) - n |->
                    Frame(accepted[s][n + i], n + i - 1)])

\* The bytes the decoder has still to consume, from the cursor on.
Expected ==
    LET n == Len(got[reading]) IN
    IF ~headerRead
    THEN (IF reading = stream /\ ~headerOut THEN <<>> ELSE StreamHeader)
         \o FramesFrom(reading, n)
    ELSE IF decPc = "body"
    THEN Drop(FramesFrom(reading, n), PrefixLen(accepted[reading][n + 1]))
    ELSE FramesFrom(reading, n)

\* The bytes of a stream that are not out: those in the buffer, or those that
\* Reset left unwritten.
Behind(s) == IF s = stream THEN buf ELSE unsent[s]

\* No byte is lost, sent twice or moved, through short writes, failed flushes,
\* retries and reads that break off in the middle of a header or a prefix:
\* what is in the window, in flight and not out is what is still expected.
Conservation ==
    ~decBroken /\ decPc # "closed" =>
        window \o pipe[reading] \o Behind(reading) = Expected

\* io.EOF says a clean end: all that was written of the stream is delivered,
\* and what is not out begins with a whole frame.
CleanEnd ==
    [][result' = "eof" /\ result # "eof" =>
        pipe[reading] = <<>> /\ Behind(reading) = Expected]_vars

\* The numbers of the messages no byte of which is in the buffer.
Departed(s) ==
    {n \in 1 .. Len(accepted[s]) : Len(FramesFrom(s, n)) >= Len(Behind(s))}

Channel ==
    INSTANCE MessageStreams
    WITH writing <- stream, posted <- accepted, taken <- got,
         departed <- [s \in Streams |-> Departed(s)], ended <- result = "eof"

\* The two ends and what lies between them are a channel of messages: Decode
\* hands out the next message of the stream that Encode accepted, once, only
\* when its last byte has left the encoder, whatever failed before; io.EOF
\* comes only after all that have left; nothing of another stream is ever handed
\* out.
Delivery == Channel!Spec

\* A message that Encode accepted is delivered in the end, unless the decoder
\* breaks, is closed or is still on an earlier stream, or the encoder is
\* reset to the next.
EventuallyDelivered ==
    \A s \in Streams : \A n \in 1 .. MaxMessages[s] :
        Len(accepted[s]) >= n
            ~> \/ Len(got[s]) >= n
               \/ decBroken \/ decPc = "closed" \/ reading < s \/ stream > s
=============================================================================
