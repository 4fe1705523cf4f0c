----------------------------- MODULE SseFraming -----------------------------
(***************************************************************************)
(* mcp-wire: events as text/event-stream.  A sender writes events with     *)
(* encode_sse_event, the network hands the text over in chunks cut         *)
(* anywhere, and SseDecoder::feed puts the events together again.  A text  *)
(* is a sequence of symbols; a field name is one symbol, as feed never     *)
(* looks inside it.                                                        *)
(***************************************************************************)
EXTENDS Naturals, Sequences, SequencesExt

CONSTANTS Texts,      \* payloads: sequences over Symbols
          Names,      \* event names and ids: sequences over Symbols
          MaxEvents   \* bound: events sent

Symbols == {"x", " ", ":", "\n", "\r"}

\* What the constants have to satisfy.
SseAssumption == Texts \cup Names \subseteq Seq(Symbols) /\ MaxEvents \in Nat

\* Option<String> as a sequence of at most one text.
Options == {<<>>} \cup {<<n>> : n \in Names}
Events == [event : Options, data : Texts, id : Options]

VARIABLES sent,      \* events encoded so far
          wire,      \* text that has not arrived
          buffer,    \* SseDecoder: an unfinished line
          pending,   \* SseDecoder: an unfinished event
          got        \* events feed has returned

vars == <<sent, wire, buffer, pending, got>>

\* str::split('\n')
Lines(text) ==
    LET upTo[i \in 0 .. Len(text)] ==
          IF i = 0 THEN << <<>> >>
          ELSE LET lines == upTo[i - 1] IN
               IF text[i] = "\n" THEN Append(lines, <<>>)
               ELSE [lines EXCEPT ![Len(lines)] = Append(@, text[i])]
    IN  upTo[Len(text)]

\* The part of a text before its first symbol in S; all of it if none is.
Before(text, S) ==
    LET stops == {i \in DOMAIN text : text[i] \in S}
    IN  IF stops = {} THEN text
        ELSE SubSeq(text, 1, (CHOOSE i \in stops : \A j \in stops : i =< j) - 1)

-----------------------------------------------------------------------------
(* encode_sse_event *)

FirstLine(text) == Before(text, {"\n", "\r"})

Field(name, value) == <<name, ":", " ">> \o value \o <<"\n">>

EncodeSseEvent(e) ==
    FlattenSeq([i \in DOMAIN e.event |-> Field("event", FirstLine(e.event[i]))])
    \o FlattenSeq([i \in DOMAIN e.id |-> Field("id", FirstLine(e.id[i]))])
    \o FlattenSeq([i \in DOMAIN Lines(e.data) |-> Field("data", Lines(e.data)[i])])
    \o <<"\n">>

-----------------------------------------------------------------------------
(* SseDecoder *)

NoPending == [event |-> <<>>, id |-> <<>>, data_lines |-> <<>>]

\* strip_prefix(' ') of what follows the colon
Value(line, field) ==
    LET raw == SubSeq(line, Len(field) + 2, Len(line))
    IN  IF raw # <<>> /\ raw[1] = " " THEN Tail(raw) ELSE raw

\* Comments and unknown fields leave the event as it is.
ApplyLine(p, line) ==
    LET field == Before(line, {":"})
        value == Value(line, field)
    IN  CASE field = <<"data">>  -> [p EXCEPT !.data_lines = Append(@, value)]
          [] field = <<"event">> -> [p EXCEPT !.event = <<value>>]
          [] field = <<"id">>    -> [p EXCEPT !.id = <<value>>]
          [] OTHER               -> p

\* Without a data line there is no event.
Dispatched(p) ==
    IF p.data_lines = <<>> THEN <<>>
    ELSE << [event |-> p.event, id |-> p.id,
             data |-> FoldLeft(LAMBDA text, line : text \o <<"\n">> \o line,
                               p.data_lines[1], Tail(p.data_lines))] >>

\* Mutant: what came before an event without data stays for the next one.
FinishLineNoReset(d, text) ==
    LET line == IF text # <<>> /\ Last(text) = "\r" THEN Front(text) ELSE text
    IN  IF line = <<>>
        THEN [pending |-> IF d.pending.data_lines = <<>> THEN d.pending ELSE NoPending,
              events |-> d.events \o Dispatched(d.pending)]
        ELSE [d EXCEPT !.pending = ApplyLine(@, line)]

\* A finished line, without the \r some senders end it with: a blank one
\* finishes the event.
FinishLine(d, text) ==
    LET line == IF text # <<>> /\ Last(text) = "\r" THEN Front(text) ELSE text
    IN  IF line = <<>>
        THEN [pending |-> NoPending, events |-> d.events \o Dispatched(d.pending)]
        ELSE [d EXCEPT !.pending = ApplyLine(@, line)]

\* Every line the chunk finishes, and the rest for later.
Feed(b, p, chunk) ==
    LET lines == Lines(b \o chunk)
    IN  [buffer |-> Last(lines),
         done |-> FoldLeft(FinishLine, [pending |-> p, events |-> <<>>], Front(lines))]

-----------------------------------------------------------------------------
(* The sender and the network *)

Init == sent = <<>> /\ wire = <<>> /\ buffer = <<>> /\ pending = NoPending /\ got = <<>>

Send(e) ==
    /\ Len(sent) < MaxEvents
    /\ sent' = Append(sent, e)
    /\ wire' = wire \o EncodeSseEvent(e)
    /\ UNCHANGED <<buffer, pending, got>>

\* Another sender's lines: a keep-alive comment, and an event without data.
SendOther(text) ==
    /\ wire = <<>> /\ Len(sent) < MaxEvents
    /\ wire' = text
    /\ UNCHANGED <<sent, buffer, pending, got>>

Arrive(n) ==
    LET fed == Feed(buffer, pending, SubSeq(wire, 1, n)) IN
    /\ wire' = SubSeq(wire, n + 1, Len(wire))
    /\ buffer' = fed.buffer
    /\ pending' = fed.done.pending
    /\ got' = got \o fed.done.events
    /\ UNCHANGED sent

Comment == <<":", "x", "\n">>
NameOnly == Field("event", <<"x">>) \o <<"\r", "\n">>

Next ==
    \/ \E e \in Events : Send(e)
    \/ \E text \in {Comment, NameOnly} : SendOther(text)
    \/ \E n \in 1 .. Len(wire) : Arrive(n)

Spec == Init /\ [][Next]_vars

-----------------------------------------------------------------------------
(* Properties *)

TypeOK ==
    /\ sent \in Seq(Events)
    /\ "\n" \notin Range(buffer)
    /\ Len(pending.event) =< 1 /\ Len(pending.id) =< 1

\* What of an event the format can carry: the first line of its names, and
\* its payload without a \r at the end of a line.
Carried(e) ==
    LET kept(i) == ~(e.data[i] = "\r" /\ (i = Len(e.data) \/ e.data[i + 1] = "\n"))
    IN  [event |-> [i \in DOMAIN e.event |-> FirstLine(e.event[i])],
         id    |-> [i \in DOMAIN e.id |-> FirstLine(e.id[i])],
         data  |-> LET at == SelectSeq([i \in DOMAIN e.data |-> i], kept)
                   IN  [i \in DOMAIN at |-> e.data[at[i]]]]

Expected == [i \in DOMAIN sent |-> Carried(sent[i])]

(***************************************************************************)
(* However the text is cut into chunks, feed returns the events that were  *)
(* sent, in order, one each and none before it is complete; comments and   *)
(* events without data between them leave no trace.                        *)
(***************************************************************************)
EventsArriveWhole ==
    /\ IsPrefix(got, Expected)
    /\ wire = <<>> => got = Expected
=============================================================================
