----------------------------- MODULE SseFraming -----------------------------
(***************************************************************************)
(* SseFramer (transport/sse.rs): LineSplitter and EventBuilder, one step   *)
(* per turn of push's loop.  The alphabet has a symbol for each token the  *)
(* parser looks for; "bad" is a byte that is not UTF-8, "x" any other.  A  *)
(* "data:" alone also stands for the line data without a colon.  The space *)
(* after a colon, and the fields id and retry, are left out.               *)
(***************************************************************************)
EXTENDS EventPipeline, FiniteSetsExt

CONSTANT Alphabets    \* sets of the symbols that occur in one body

VARIABLES alphabet, policy    \* the body's symbols; SseDispatch

sseVars == <<vars, alphabet, policy>>

Symbols == {"data:", "event:", "x", "bom", "bad", "CR", "LF"}
Breaks == {"CR", "LF"}

Width(b) == CASE b = "data:" -> 5 [] b = "event:" -> 6 [] b = "bom" -> 3 [] OTHER -> 1

SizeOf(bytes) == SumUpTo([i \in DOMAIN bytes |-> Width(bytes[i])], Len(bytes))

NoEvent == <<>>    \* None and Some("") are the same to EventBuilder

\* SseFramer::new
SseInit ==
    /\ SharedInit
    /\ alphabet \in Alphabets
    /\ policy \in {"BlankLine", "EachDataLine"}
    /\ framer = [line |-> <<>>, afterCr |-> FALSE, firstLine |-> TRUE,
                 event |-> NoEvent, data |-> <<>>]

----------------------------------------------------------------------------
(* EventBuilder *)

Retained(f) == SizeOf(f.data) + SizeOf(f.event)

\* Send the pending event, if it has data, and start the next one.
Dispatch(f) ==
    [framer |-> [f EXCEPT !.data = <<>>, !.event = NoEvent],
     sent |-> IF f.data = <<>> THEN <<>>
              ELSE <<[type |-> "Event", event |-> f.event, data |-> Front(f.data),
                      size |-> SizeOf(Front(f.data)) + SizeOf(f.event)]>>]

Nothing(f) == [framer |-> f, sent |-> <<>>]

\* EventBuilder::line, with its effect and the event it sends.
ApplyLine(f, line) ==
    CASE line = <<>> -> Dispatch(f)
      [] line # <<>> /\ Head(line) = "event:" -> Nothing([f EXCEPT !.event = Tail(line)])
      [] line # <<>> /\ Head(line) = "data:" ->
            LET g == [f EXCEPT !.data = @ \o Append(Tail(line), "LF")]
            IN IF policy = "EachDataLine" THEN Dispatch(g) ELSE Nothing(g)
      [] OTHER -> Nothing(f)

----------------------------------------------------------------------------
(* LineSplitter *)

\* take_line: the stream's first line loses its byte-order mark.
Text(f, line) ==
    IF f.firstLine /\ line # <<>> /\ Head(line) = "bom" THEN Tail(line) ELSE line

\* The LF of a CRLF, also when it begins a new chunk.
Unread(f) == IF f.afterCr /\ chunk # <<>> /\ Head(chunk) = "LF" THEN Tail(chunk) ELSE chunk

\* The bytes up to the next line ending, or all of them.
Piece(bytes) ==
    LET ends == {i \in DOMAIN bytes : bytes[i] \in Breaks}
    IN IF ends = {} THEN bytes ELSE SubSeq(bytes, 1, Min(ends) - 1)

\* Mutant: the limit bounds a line, not the event it belongs to.
LineBudget(f) == limits.frame

Budget(f) == Max({limits.frame - Retained(f), 0})

\* Mutant: a CR at the end of a chunk is forgotten with the chunk.
LeaveOpenForgettingCr(f, line) == [f EXCEPT !.line = line, !.afterCr = FALSE]

\* The line stays open until the next chunk.
LeaveOpen(f, line) == [f EXCEPT !.line = line]

\* One turn of push's loop: next_line, then the line it completed.
SseTurn ==
    /\ step = "Framing"
    /\ LET bytes == Unread(framer)
           piece == Piece(bytes)
           line == framer.line \o piece
           f == [framer EXCEPT !.afterCr = @ /\ chunk = <<>>]
           ending == bytes[Len(piece) + 1]
           done == [f EXCEPT !.line = <<>>, !.firstLine = FALSE, !.afterCr = ending = "CR"]
           outcome == ApplyLine(done, Text(f, line))
       IN IF SizeOf(piece) > Max({Budget(f) - SizeOf(f.line), 0})
          THEN framer' = f /\ Fails("FrameLimit")
          ELSE \/ /\ piece = bytes
                  /\ framer' = LeaveOpen(f, line)
                  /\ Returns
               \/ /\ piece # bytes /\ "bad" \in Range(line)
                  /\ framer' = done
                  /\ Fails("NotUtf8")
               \/ /\ piece # bytes /\ "bad" \notin Range(line)
                  /\ framer' = outcome.framer
                  /\ Found(SubSeq(bytes, Len(piece) + 2, Len(bytes)), outcome.sent)
    /\ UNCHANGED <<alphabet, policy>>

\* SseFramer::finish: an unterminated line counts, a pending event is sent.
SseFinish ==
    /\ LET line == Text(framer, framer.line)
           last == IF framer.line = <<>> THEN Nothing(framer)
                   ELSE ApplyLine([framer EXCEPT !.line = <<>>, !.firstLine = FALSE], line)
       IN IF "bad" \in Range(framer.line)
          THEN framer' = [framer EXCEPT !.line = <<>>] /\ Flushes(<<Err("NotUtf8")>>)
          ELSE /\ framer' = Dispatch(last.framer).framer
               /\ Flushes(last.sent \o Dispatch(last.framer).sent)
    /\ UNCHANGED <<alphabet, policy>>

SseNext ==
    \/ SseTurn \/ SseFinish
    \/ (Shared \/ \E b \in alphabet : Arrive(b)) /\ UNCHANGED <<alphabet, policy>>

SseSpec == SseInit /\ [][SseNext]_sseVars

----------------------------------------------------------------------------
(* The reference: the events of a whole body, after the WHATWG rules *)

\* The positions that end a line; the LF of a CRLF is not one.
Ends(b) == {i \in DOMAIN b : b[i] = "CR" \/ (b[i] = "LF" /\ ~(i > 1 /\ b[i - 1] = "CR"))}

\* The open line up to position i.
OpenLine(b, i) ==
    SubSeq(b, 1 + Max({0} \cup {j \in 1..(i - 1) : b[j] \in Breaks}), i)

\* The line that ends at i, without the byte-order mark of the body.
LineAt(b, i) ==
    LET line == Front(OpenLine(b, i))
    IN IF i = Min(Ends(b)) /\ line # <<>> /\ Head(line) = "bom" THEN Tail(line) ELSE line

IsField(name, line) == line # <<>> /\ Head(line) = name

\* The ends of the lines that end an event.
Dispatches(b) ==
    {i \in Ends(b) : \/ LineAt(b, i) = <<>>
                     \/ policy = "EachDataLine" /\ IsField("data:", LineAt(b, i))}

\* The values of a field in the event that the line ending at i belongs to.
Values(b, name, i) ==
    LET from == Max({0} \cup {j \in Dispatches(b) : j < i})
        at == {j \in Ends(b) : from < j /\ j <= i /\ IsField(name, LineAt(b, j))}
        order == SetToSortSeq(at, <)
    IN [k \in DOMAIN order |-> Tail(LineAt(b, order[k]))]

\* The event's name is the last one given, its data all that were given.
NameAt(b, i) == IF Values(b, "event:", i) = <<>> THEN NoEvent ELSE Last(Values(b, "event:", i))

DataAt(b, i) == FoldLeft(LAMBDA data, v : data \o Append(v, "LF"), <<>>, Values(b, "data:", i))

\* What is held for the event that is open when the line up to p is.
HeldAt(b, p) ==
    LET i == Max({0} \cup {j \in Ends(b) : j < p})
    IN IF i \in Dispatches(b) \cup {0} THEN 0 ELSE SizeOf(DataAt(b, i)) + SizeOf(NameAt(b, i))

\* Where the body fails, and how.
TooLongAt(b) ==
    {p \in DOMAIN b : b[p] \notin Breaks /\ SizeOf(OpenLine(b, p)) + HeldAt(b, p) > limits.frame}

GarbledAt(b) == {i \in Ends(b) : "bad" \in Range(LineAt(b, i))}

\* The results of framing b in one piece.
Parsed(b) ==
    LET failing == TooLongAt(b) \cup GarbledAt(b)
        sent == {i \in Dispatches(b) : /\ \A p \in failing : i < p
                                       /\ Values(b, "data:", i) # <<>>}
        order == SetToSortSeq(sent, <)
        events == [k \in DOMAIN order |->
                     [type |-> "Event", event |-> NameAt(b, order[k]),
                      data |-> Front(DataAt(b, order[k])),
                      size |-> SizeOf(Front(DataAt(b, order[k]))) + SizeOf(NameAt(b, order[k]))]]
    IN IF failing = {} THEN events
       ELSE Append(events,
                   Err(IF Min(failing) \in GarbledAt(b) THEN "NotUtf8" ELSE "FrameLimit"))

\* The end of the body counts as a blank line.
AtEnd(b) == b \o <<"CR", "CR">>

----------------------------------------------------------------------------
(* Properties *)

\* However the body was split into chunks, the decoder gets the events that the
\* whole body has, up to the first error, and no event of an unread rest: the
\* claim of the property tests in transport/sse.rs.
ChunkingInvisible ==
    LET framed == Parsed(received)
        flushed == Parsed(AtEnd(received))
        broken == {Append(framed, Err(e)) : e \in {"Network", "Idle"}}
    IN /\ step = "Reading" /\ chunk = <<>> => out = WithinOutput(framed)
       /\ step = "Over" =>
             \/ out = WithinOutput(flushed)
             \/ \E items \in broken : out = WithinOutput(items)

\* What the framer holds between two chunks never exceeds the frame limit,
\* however the event is spread over lines and chunks.
HeldWithinLimit ==
    step = "Reading" => SizeOf(framer.line) + Retained(framer) <= limits.frame

=============================================================================
