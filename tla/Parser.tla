------------------------------- MODULE Parser -------------------------------
(***************************************************************************)
(* resp/parser: the goroutine that ParseStream starts, on what writers put *)
(* on the wire (or in the append-only file) with the ToBytes of resp/reply.*)
(*                                                                         *)
(* A byte is a symbol: "*", "$", "+", "-", ":", the digits, "CR", "LF" or  *)
(* a letter.  A message is [kind, args], args sequences of bytes or Null.  *)
(* Sending a payload on the channel takes no step of its own: every user   *)
(* of ParseStream receives until the channel is closed.                    *)
(***************************************************************************)
EXTENDS Integers, Sequences, FiniteSets

LOCAL Ext == INSTANCE SequencesExt

CONSTANTS
    Messages,    \* what writers send
    Null,        \* a nil []byte
    NotInt,      \* what strconv.ParseInt returns with an error
    MaxSent,     \* bounds the messages
    MaxTorn      \* bounds the messages of which only a part arrives

ASSUME NotIntAssumption == NotInt \notin Int
ASSUME MaxSentAssumption == MaxSent \in Nat /\ MaxTorn \in Nat

VARIABLES
    sent,        \* the messages, [msg, whole], in the order written
    wire,        \* bytes written and not yet read
    eof,         \* nothing more will be written
    state,       \* readState
    payloads,    \* sent on the channel
    status       \* "reading", "closed" (the channel) or "panicked"

vars == <<sent, wire, eof, state, payloads, status>>

-----------------------------------------------------------------------------
(* Numbers and messages as bytes                                           *)

Digits == <<"0", "1", "2", "3", "4", "5", "6", "7", "8", "9">>
CRLF == <<"CR", "LF">>

Itoa(n) == <<Digits[n + 1]>>    \* of one digit

ParseUint(s) ==
    IF s = <<>> \/ \E i \in DOMAIN s : s[i] \notin Ext!ToSet(Digits) THEN NotInt
    ELSE Ext!FoldLeft(LAMBDA n, d : 10 * n + Ext!SelectInSeq(Digits, LAMBDA c : c = d) - 1, 0, s)

ParseInt(s) ==
    IF s # <<>> /\ s[1] \in {"+", "-"}
    THEN LET n == ParseUint(Tail(s)) IN IF n = NotInt \/ s[1] = "+" THEN n ELSE -n
    ELSE ParseUint(s)

nullBulkReplyBytes == <<"$", "-", "1">>
BulkBytes(arg) == <<"$">> \o Itoa(Len(arg)) \o CRLF \o arg \o CRLF

\* A BulkReply of nil, which no handler makes, has no line end.
ArgBytes(arg) == IF arg = Null THEN nullBulkReplyBytes \o CRLF ELSE BulkBytes(arg)
BulkReplyBytes(arg) == IF arg = Null THEN nullBulkReplyBytes ELSE BulkBytes(arg)

ToBytes(msg) ==
    CASE msg.kind = "multi" -> <<"*">> \o Itoa(Len(msg.args)) \o CRLF
                               \o Ext!FlattenSeq([i \in DOMAIN msg.args |-> ArgBytes(msg.args[i])])
      [] msg.kind = "bulk" -> BulkReplyBytes(msg.args[1])
      [] msg.kind = "null" -> nullBulkReplyBytes \o CRLF
      [] msg.kind = "empty" -> <<"*", "0">> \o CRLF
      [] msg.kind = "status" -> <<"+">> \o msg.args[1] \o CRLF
      [] msg.kind = "error" -> <<"-">> \o msg.args[1] \o CRLF
      [] msg.kind = "int" -> <<":">> \o msg.args[1] \o CRLF

Payload(kind, args) == [kind |-> kind, args |-> args]
Failure == Payload("failure", <<>>)
EOF == Payload("eof", <<>>)
NoData == Payload("nil", <<>>)

-----------------------------------------------------------------------------
(* The reader                                                              *)

NoState == [readingMultiLine |-> FALSE, expectedArgsCount |-> 0, msgType |-> "none", args |-> <<>>, bulkLen |-> 0]

isDoneLate(st) == st.expectedArgsCount > 0 /\ Len(st.args) > st.expectedArgsCount

isDone(st) == st.expectedArgsCount > 0 /\ Len(st.args) = st.expectedArgsCount

LineLengthToLF == Ext!SelectInSeq(wire, LAMBDA b : b = "LF")

\* The bytes that the next readLine takes; 0 if they are not there yet.
LineLength ==
    IF state.bulkLen = 0 THEN Ext!SelectInSeq(wire, LAMBDA b : b = "LF")
    ELSE IF Len(wire) >= state.bulkLen + 2 THEN state.bulkLen + 2 ELSE 0

\* The line terminator is not there.
LineIsBad(line) == line[Len(line) - 1] # "CR" \/ line[Len(line)] # "LF"

\* What one iteration makes of a line: the next state and what is sent on the
\* channel.  Every failure resets the state.
Goes(st, sends) == [state |-> st, sends |-> sends]
Sends(p) == Goes(NoState, <<p>>)

parseMultiBulkHeader(line) ==
    LET expected == ParseUint(SubSeq(line, 2, Len(line) - 2))
    IN  IF expected = NotInt THEN Sends(Failure)
        ELSE IF expected = 0 THEN Sends(Payload("empty", <<>>))
        ELSE Goes([NoState EXCEPT !.readingMultiLine = TRUE, !.expectedArgsCount = expected, !.msgType = "*"], <<>>)

parseBulkHeader(line) ==
    LET len == ParseInt(SubSeq(line, 2, Len(line) - 2))
    IN  IF len = NotInt THEN Sends(Failure)
        ELSE IF len = -1 THEN Sends(Payload("null", <<>>))
        ELSE IF len <= 0 THEN Sends(Failure)
        ELSE Goes([NoState EXCEPT !.readingMultiLine = TRUE, !.expectedArgsCount = 1, !.msgType = "$", !.bulkLen = len], <<>>)

\* Anything else than a status, an error or an integer is no error: Data is nil.
parseSingleLineReply(line) ==
    LET rest == SubSeq(line, 2, Len(line) - 2)
    IN  CASE line[1] = "+" -> Sends(Payload("status", <<rest>>))
          [] line[1] = "-" -> Sends(Payload("error", <<rest>>))
          [] line[1] = ":" -> IF ParseInt(rest) = NotInt THEN Sends(Failure) ELSE Sends(Payload("int", <<rest>>))
          [] OTHER -> Sends(NoData)

\* A line that begins with $ is the length of the next argument.  An argument
\* of no bytes, or nil, is taken at once; the empty line behind the former is
\* left for the next iteration.
readBody(st, body) ==
    LET len == ParseInt(Tail(body))
    IN  IF body[1] # "$" THEN [st EXCEPT !.args = Append(@, body)]
        ELSE IF len <= 0 THEN [st EXCEPT !.args = Append(@, <<>>)]
        ELSE [st EXCEPT !.bulkLen = len]

readMulti(line) ==
    LET body == SubSeq(line, 1, Len(line) - 2)
        st == readBody([state EXCEPT !.bulkLen = 0], body)
    IN  IF body[1] = "$" /\ ParseInt(Tail(body)) = NotInt THEN Sends(Failure)
        ELSE IF isDone(st) THEN Sends(Payload(IF st.msgType = "*" THEN "multi" ELSE "bulk", st.args))
        ELSE Goes(st, <<>>)

\* An index out of range: LF alone, or an empty line where an argument of an
\* array is to begin.
Panics(line) ==
    \/ Len(line) = 1
    \/ state.readingMultiLine /\ Len(line) = 2 /\ ~LineIsBad(line)

Parsed(line) ==
    IF LineIsBad(line) THEN Sends(Failure)
    ELSE IF state.readingMultiLine THEN readMulti(line)
    ELSE IF line[1] = "*" THEN parseMultiBulkHeader(line)
    ELSE IF line[1] = "$" THEN parseBulkHeader(line)
    ELSE parseSingleLineReply(line)

-----------------------------------------------------------------------------
(* Actions                                                                 *)

Init ==
    /\ sent = <<>> /\ wire = <<>> /\ eof = FALSE
    /\ state = NoState /\ payloads = <<>> /\ status = "reading"

\* One iteration of the loop of parseIt.
Parse ==
    /\ status = "reading" /\ LineLength > 0
    /\ \E line \in {SubSeq(wire, 1, LineLength)} :
        /\ ~Panics(line)
        /\ \E next \in {Parsed(line)} : state' = next.state /\ payloads' = payloads \o next.sends
    /\ wire' = SubSeq(wire, LineLength + 1, Len(wire))
    /\ UNCHANGED <<sent, eof, status>>

\* The panic is recovered; the channel is not closed.
ParsePanics ==
    /\ status = "reading" /\ LineLength > 0
    /\ Panics(SubSeq(wire, 1, LineLength))
    /\ wire' = SubSeq(wire, LineLength + 1, Len(wire))
    /\ status' = "panicked"
    /\ UNCHANGED <<sent, eof, state, payloads>>

\* The stream ends, also in the middle of a line.
ParseEnds ==
    /\ status = "reading" /\ eof /\ LineLength = 0
    /\ wire' = <<>>
    /\ payloads' = Append(payloads, EOF)
    /\ status' = "closed"
    /\ UNCHANGED <<sent, eof, state>>

\* Something is written while the reader waits for it.  An iteration looks at
\* no byte beyond its line, so a writer that is ahead of the reader gives the
\* same payloads.
CanWrite == ~eof /\ LineLength = 0 /\ Len(sent) < MaxSent

Encoded == [msg \in Messages |-> ToBytes(msg)]

Send(msg) ==
    /\ CanWrite
    /\ sent' = Append(sent, [msg |-> msg, whole |-> TRUE])
    /\ wire' = wire \o Encoded[msg]
    /\ UNCHANGED <<eof, state, payloads, status>>

\* A crash leaves a part of a command in the append-only file; later ones
\* follow it.
Tear(msg) ==
    /\ CanWrite /\ msg.kind = "multi"
    /\ Cardinality({i \in DOMAIN sent : ~sent[i].whole}) < MaxTorn
    /\ \E n \in 1 .. Len(Encoded[msg]) - 1 : wire' = wire \o SubSeq(Encoded[msg], 1, n)
    /\ sent' = Append(sent, [msg |-> msg, whole |-> FALSE])
    /\ UNCHANGED <<eof, state, payloads, status>>

Close ==
    /\ ~eof
    /\ eof' = TRUE
    /\ UNCHANGED <<sent, wire, state, payloads, status>>

Read == Parse \/ ParsePanics \/ ParseEnds

Next == Read \/ (\E msg \in Messages : Send(msg) \/ Tear(msg)) \/ Close

\* The reader is a goroutine of its own.
Spec == Init /\ [][Next]_vars /\ WF_vars(Read)

-----------------------------------------------------------------------------
(* Properties                                                              *)

\* A message as the parser hands it on: nil in an array becomes empty.
Received(msg) == Payload(msg.kind, [i \in DOMAIN msg.args |-> IF msg.args[i] = Null THEN <<>> ELSE msg.args[i]])

\* The forms that the parser does not read back: an argument that begins
\* with $, an empty one before the last of an array, an empty bulk or nil.
Misread(msg) ==
    msg.kind \in {"multi", "bulk"} /\ \E i \in DOMAIN msg.args :
        IF msg.args[i] = Null THEN msg.kind = "bulk"
        ELSE \/ msg.args[i] # <<>> /\ msg.args[i][1] = "$"
             \/ msg.args[i] = <<>> /\ (i < Len(msg.args) \/ msg.kind = "bulk")

\* An array whose last argument is empty is read, and the empty line behind it
\* makes one more payload.
EndsEmpty(msg) == msg.kind = "multi" /\ msg.args # <<>> /\ msg.args[Len(msg.args)] = <<>>

\* The first message that was torn or is misread, or one beyond the last.
FirstBad ==
    LET bad == {i \in DOMAIN sent : ~sent[i].whole \/ Misread(sent[i].msg)}
    IN  IF bad = {} THEN Len(sent) + 1 ELSE CHOOSE i \in bad : \A j \in bad : i <= j

\* What the handler and LoadAof act on: they skip errors and nil.  The client
\* of the cluster gives these to a waiting request too (OnePayloadEach).
Data == SelectSeq(payloads, LAMBDA p : p.kind \notin {"failure", "eof", "nil"})

ReceivedSeq(from, to) == [i \in 1 .. to - from + 1 |-> Received(sent[from + i - 1].msg)]

\* The type of the state: between two lines no message is complete.
TypeOK ==
    /\ Len(sent) <= MaxSent /\ eof \in BOOLEAN /\ status \in {"reading", "closed", "panicked"}
    /\ state.bulkLen \in Nat /\ Len(state.args) < 1 + state.expectedArgsCount
    /\ state.readingMultiLine <=> state.expectedArgsCount > 0
    /\ ~isDone(state)

\* Whatever the lines of several messages are split into, the parser hands on
\* every message before the first torn or misread one as it was sent, in
\* order and once: bytes of an argument (a line end, a *) are never taken for
\* protocol, an extra line behind an empty last argument is skipped, and no such message
\* makes the parser panic.
RoundTrip ==
    LET n == FirstBad - 1
        seen == IF Len(Data) < n THEN Len(Data) ELSE n
    IN  /\ SubSeq(Data, 1, seen) = ReceivedSeq(1, seen)
        /\ FirstBad > Len(sent) => Len(Data) <= n /\ status # "panicked"

\* The client of the cluster gives every payload, an error or nil too, to the
\* request that waits longest: a message that is whole and in none of the forms
\* above makes one payload, neither more nor less.
OnePayloadEach ==
    (\A i \in DOMAIN sent : sent[i].whole /\ ~Misread(sent[i].msg) /\ ~EndsEmpty(sent[i].msg))
    => LET made == SelectSeq(payloads, LAMBDA p : p.kind # "eof")
       IN  Len(made) <= Len(sent) /\ made = ReceivedSeq(1, Len(made))

\* When the stream ends, everything that was sent has been handed on and the
\* channel is closed, so that no user of it waits for ever; unless a message
\* was torn or is misread.
EndsWithAll ==
    eof ~> \/ status = "closed" /\ Data = ReceivedSeq(1, Len(sent))
           \/ FirstBad <= Len(sent)

\* parseIt keeps its state well formed (a length is only awaited inside a
\* message), reads what is whole as it was written, and makes one payload of a
\* message unless a line is left over.
ParserInv == TypeOK /\ RoundTrip /\ OnePayloadEach
=============================================================================
