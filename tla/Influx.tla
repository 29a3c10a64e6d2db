-------------------------------- MODULE Influx --------------------------------
(***************************************************************************)
(* Readings into InfluxDB and back (influx.py, and GET /telemetry in       *)
(* routes/telemetry.py): line protocol out, Flux built from what a client  *)
(* asks, and InfluxDB's CSV read table by table.                           *)
(*                                                                         *)
(* A text is a sequence of characters, because the properties are about    *)
(* quoting.  A number is the text a double has.  One device sends: the     *)
(* tags `device` and `sensor` are written, filtered and read alike.        *)
(* InfluxDB is external.  Windows (`every`) are InfluxDB's to compute and  *)
(* are left out, and so are durations, which it is sent as they are.       *)
(***************************************************************************)
EXTENDS Integers, FiniteSets, SequencesExt

CONSTANTS
  Chars,       \* the characters of names, filters and values; true and false count as one
  Batches,     \* what POST /telemetry may send: sequences of readings
  Asks,        \* what GET /telemetry may ask
  Moments,     \* instants at which a batch may arrive, in ticks
  Milli,       \* ticks in a millisecond
  Naive,       \* the zone of a time without one
  MaxFields    \* bound: fields sent before the last batch

VARIABLES
  points,      \* what InfluxDB holds
  ingested,    \* history: every field of every reading sent, in order
  answer       \* the answer to GET /telemetry, until the client has read it

influxVars == <<points, ingested, answer>>

Text == Seq(Chars)
ASSUME CharsAssumption == {"\\", "\"", ",", "=", " ", "true", "false"} \subseteq Chars

NoTime == [instant |-> 0, zone |-> "none"]
Time == [instant : Int, zone : Int \cup {Naive}]

\* A number is written without what ends or quotes a value.
Numeral == {t \in Text : t # <<>> /\ \A i \in DOMAIN t :
                            t[i] \notin {"\\", "\"", ",", "=", " ", "true", "false"}}
Value == [kind : {"str"}, text : Text]
         \cup [kind : {"bool"}, text : {<<"true">>, <<"false">>}]
         \cup [kind : {"int", "float"}, text : Numeral]
Reading == [sensor : Text, fields : Seq([name : Text, value : Value]) \ {<<>>},
            ts : {NoTime} \cup Time]

ASSUME BatchesAssumption == Batches \subseteq Seq(Reading)
ASSUME AsksAssumption ==
  Asks \subseteq [sensor : SUBSET Text, field : SUBSET Text, start : Time, stop : SUBSET Time,
                 limit : Nat \ {0}]
ASSUME ClockAssumption == Moments \subseteq Int /\ Milli \in Nat \ {0}

NoAnswer == [status |-> 0]

InfluxInit == points = {} /\ ingested = <<>> /\ answer = NoAnswer

-----------------------------------------------------------------------------
(* Times: _measured_at(), flux_time() *)

\* What a device or a client writes for an instant: the time on the clock of its zone.
Wall(ts) == IF ts.zone = Naive THEN ts.instant ELSE ts.instant + ts.zone

\* "naive ones taken as UTC".
Utc(ts) == IF ts.zone = Naive THEN Wall(ts) ELSE Wall(ts) - ts.zone
MeasuredAt(ts, now) == IF ts = NoTime THEN now ELSE Utc(ts)

\* int() of a number of milliseconds, which cuts towards 1970.
Ms(at) == IF at >= 0 THEN at \div Milli ELSE -((-at) \div Milli)

-----------------------------------------------------------------------------
(* Line protocol: line() *)

Concat(n, Part(_)) == FlattenSeq([i \in 1 .. n |-> Part(i)])

\* A run of line breaks becomes one space.
Clean(text) ==
  Concat(Len(text), LAMBDA i : CASE text[i] # "\n" -> <<text[i]>>
                                 [] text[i] = "\n" /\ i > 1 /\ text[i - 1] = "\n" -> <<>>
                                 [] OTHER -> <<" ">>)

Escape(text, special) ==
  Concat(Len(text), LAMBDA i : IF text[i] \in special THEN <<"\\", text[i]>> ELSE <<text[i]>>)

\* A defect to test the properties with: backslashes stay as they are.
KeyWithBackslashes(text) == Escape(Clean(text), {",", "=", " "})
Key(text) == Escape(Clean(text), {"\\", ",", "=", " "})

FieldValue(v) ==
  IF v.kind = "str" THEN <<"\"">> \o Escape(Clean(v.text), {"\\", "\""}) \o <<"\"">>
  ELSE v.text

Line(sensor, fields, at) ==
  [sensor |-> sensor, ms |-> Ms(at),
   fields |-> Concat(Len(fields), LAMBDA i : (IF i = 1 THEN <<>> ELSE <<",">>) \o
                Key(fields[i].name) \o <<"=">> \o FieldValue(fields[i].value))]

-----------------------------------------------------------------------------
(* InfluxDB reads line protocol *)

\* The fields read, the name and the value being read, and whether a backslash is before it.
Nothing == ""
Backslash == "\\"
Parsed(done, key, value, mode, before) ==
  [done |-> done, key |-> key, value |-> value, mode |-> mode, before |-> before]
FieldStart(done) == Parsed(done, <<>>, <<>>, "key", Nothing)
Done(s) == Append(s.done, [name |-> s.key, value |-> s.value])

Added(s, c, mode) ==
  IF s.mode = "key" THEN Parsed(s.done, Append(s.key, c), s.value, mode, Nothing)
  ELSE Parsed(s.done, s.key, Append(s.value, c), mode, Nothing)

ReadChar(s, c) ==
  IF s.mode = "end" THEN s
  ELSE IF s.before = Backslash THEN Added(s, c, s.mode)
  ELSE CASE c = "\\" -> Parsed(s.done, s.key, s.value, s.mode, Backslash)
         [] c = "\"" /\ s.mode # "key" ->
              Added(s, c, IF s.mode = "string" THEN "value" ELSE "string")
         [] c = "=" /\ s.mode = "key" -> Parsed(s.done, s.key, s.value, "value", Nothing)
         [] c = "," /\ s.mode = "value" -> FieldStart(Done(s))
         [] c = " " /\ s.mode # "string" -> Parsed(s.done, s.key, s.value, "end", Nothing)
         [] OTHER -> Added(s, c, s.mode)

FieldsAfter(s, text) ==
  LET state[i \in 0 .. Len(text)] == IF i = 0 THEN s ELSE ReadChar(state[i - 1], text[i])
  IN state[Len(text)]

ReadFields(text) == Done(FieldsAfter(FieldStart(<<>>), text))

\* A value in quotes is a string, and any other is true, false or a double.
ReadValue(v) ==
  IF Head(v) = "\"" THEN [type |-> "string", text |-> SubSeq(v, 2, Len(v) - 1)]
  ELSE [type |-> IF v \in {<<"true">>, <<"false">>} THEN "boolean" ELSE "double", text |-> v]

ReadLine(l) ==
  LET read == ReadFields(l.fields) IN
  [i \in DOMAIN read |->
     LET v == ReadValue(read[i].value) IN
     [sensor |-> l.sensor, field |-> read[i].name, ms |-> l.ms, type |-> v.type, text |-> v.text]]

\* One value per series and time: the last one written, of those that are at the places I.
SeriesOf(p) == <<p.sensor, p.field, p.ms>>
Overwritten(held, new, I) ==
  {q \in held : \A i \in I : SeriesOf(new[i]) # SeriesOf(q)}
  \cup {new[i] : i \in {i \in I : \A j \in I : j > i => SeriesOf(new[j]) # SeriesOf(new[i])}}

\* A field keeps the type it was first written with.
Conflicts(p, ps) == \E q \in ps : q.sensor = p.sensor /\ q.field = p.field /\ q.type # p.type

-----------------------------------------------------------------------------
(* POST /telemetry: ingest(), as far as InfluxDB's answer *)

Entries(batch, now, sure) ==
  LET Of(r) == [i \in DOMAIN r.fields |->
        [sensor |-> r.sensor, field |-> r.fields[i].name, value |-> r.fields[i].value,
         at |-> IF r.ts = NoTime THEN now ELSE r.ts.instant, sure |-> sure]]
  IN Concat(Len(batch), LAMBDA i : Of(batch[i]))

ReadBack(batch, now) ==
  Concat(Len(batch), LAMBDA i :
    ReadLine(Line(batch[i].sensor, batch[i].fields, MeasuredAt(batch[i].ts, now))))

Ingesting == answer = NoAnswer /\ Len(ingested) < MaxFields /\ UNCHANGED answer

\* Readings without a time share the one they arrive at.
StoreBatch(batch, now) ==
  LET new == ReadBack(batch, now) IN
  /\ Ingesting
  /\ \A p \in ToSet(new) : ~Conflicts(p, points \cup ToSet(new))
  /\ points' = Overwritten(points, new, DOMAIN new)
  /\ ingested' = ingested \o Entries(batch, now, TRUE)

\* InfluxDB refuses the batch, but keeps what fits; or fails; or its answer is lost.
BatchFails(batch, now) ==
  LET new == ReadBack(batch, now)
      fits == {i \in DOMAIN new : ~Conflicts(new[i], points \cup ToSet(new))}
  IN
  /\ Ingesting
  /\ points' \in {points, Overwritten(points, new, fits)}
  /\ ingested' = ingested \o Entries(batch, now, FALSE)

-----------------------------------------------------------------------------
(* Flux: build_query(), and InfluxDB that runs it *)

\* Of the two characters ${ the first gets a backslash.
EscapeDollar(text) ==
  Concat(Len(text), LAMBDA i : IF text[i] = "$" /\ i < Len(text) /\ text[i + 1] = "{"
                               THEN <<"\\", "$">> ELSE <<text[i]>>)

\* A defect to test the properties with: quotes first, and then their backslashes.
FluxStringTwice(text) ==
  <<"\"">> \o EscapeDollar(Escape(Escape(text, {"\""}), {"\\"})) \o <<"\"">>
FluxString(text) ==
  <<"\"">> \o EscapeDollar(Escape(Escape(text, {"\\"}), {"\""})) \o <<"\"">>

\* A filter that was not asked for is an empty set.
BuildQuery(ask) ==
  [sensor |-> {FluxString(t) : t \in ask.sensor}, field |-> {FluxString(t) : t \in ask.field},
   start |-> Utc(ask.start), stop |-> {Utc(ts) : ts \in ask.stop}, limit |-> ask.limit]

\* A literal ends at a quote that is not escaped, and ${ without a backslash is not text.
LiteralStart == [text |-> <<>>, escaped |-> FALSE, dollar |-> FALSE, ended |-> FALSE]
AddedToLiteral(s, c) == [s EXCEPT !.text = Append(@, c), !.escaped = FALSE,
                                  !.dollar = c = "$" /\ ~s.escaped]
ReadLiteralChar(s, c) ==
  IF s.ended THEN s
  ELSE IF s.escaped THEN AddedToLiteral(s, c)
  ELSE CASE c = "\\" -> [s EXCEPT !.escaped = TRUE, !.dollar = FALSE]
         [] c = "\"" \/ (c = "{" /\ s.dollar) -> [s EXCEPT !.ended = TRUE]
         [] OTHER -> AddedToLiteral(s, c)

LiteralAfter(s, text) ==
  LET state[i \in 0 .. Len(text)] == IF i = 0 THEN s ELSE ReadLiteralChar(state[i - 1], text[i])
  IN state[Len(text)]
ReadLiteral(literal) == LiteralAfter(LiteralStart, Tail(literal)).text

Selected(flux) ==
  {p \in points : /\ \A l \in flux.sensor : ReadLiteral(l) = p.sensor
                  /\ \A l \in flux.field : ReadLiteral(l) = p.field
                  /\ flux.start <= p.ms * Milli
                  /\ \A t \in flux.stop : p.ms * Milli < t}

-----------------------------------------------------------------------------
(* InfluxDB's CSV: a table for each type of values, each with its annotation and header *)

Blank == [first |-> "", cells |-> <<>>]
Annotated(type, header) == <<[first |-> "#datatype", cells |-> type],
                             [first |-> "", cells |-> header]>>
Cells(p) == <<<<"_result">>, <<"0">>, <<p.ms>>, p.text, p.field, p.sensor>>

InOrder(ps) ==
  CHOOSE rows \in [1 .. Cardinality(ps) -> ps] :
    \A j \in DOMAIN rows : \A i \in 1 .. j - 1 : rows[i] # rows[j] /\ rows[i].ms <= rows[j].ms

Table(type, ps, limit) ==
  LET rows == InOrder(ps)
      n == IF Len(rows) < limit THEN Len(rows) ELSE limit
  IN Annotated(<<"string", "long", "dateTime:RFC3339", type, "string", "string">>,
               <<"result", "table", "_time", "_value", "_field", "sensor">>)
     \o [i \in 1 .. n |-> [first |-> "", cells |-> Cells(rows[i])]] \o <<Blank>>

\* A query that fails once its answer has begun ends it with a table that says so.
ErrorTable == <<Blank>> \o Annotated(<<"string", "string">>, <<"error", "reference">>)
              \o <<[first |-> "", cells |-> <<<<"out of memory">>, <<>>>>]>>

Csv(flux) ==
  LET Of(type) == {p \in Selected(flux) : p.type = type}
  IN FlattenSeq([i \in 1 .. 3 |->
       LET type == <<"double", "string", "boolean">>[i] IN
       IF Of(type) = {} THEN <<>> ELSE Table(type, Of(type), flux.limit)])

-----------------------------------------------------------------------------
(* parse_csv() *)

None == [kind |-> "None", text |-> <<>>]

\* _typed(): an empty cell is None, whatever its type.
Typed(type, cell) ==
  IF cell = <<>> THEN None
  ELSE [kind |-> CASE type = "double" -> "float" [] type = "boolean" -> "bool" [] OTHER -> "str",
        text |-> cell]

Row(header, types, cells) ==
  LET Named == {i \in DOMAIN header : header[i] \notin {"result", "table"}} IN
  [name \in {header[i] : i \in Named} |->
     LET i == CHOOSE i \in Named : header[i] = name IN Typed(types[i], cells[i])]

\* A blank line ends a table; the next one begins with its types and its header.
Tables(types, header, rows) == [types |-> types, header |-> header, rows |-> rows]
WithRow(s, cells) ==
  Tables(s.types, s.header, Append(s.rows, Row(s.header, s.types, cells)))

\* A defect to test the properties with: the types of the first table are kept.
ReadRecordOfOneType(s, record) ==
  IF record = Blank THEN Tables(s.types, <<>>, s.rows)
  ELSE IF record.first = "#datatype"
    THEN Tables(IF s.types = <<>> THEN record.cells ELSE s.types, <<>>, s.rows)
  ELSE IF s.header = <<>> THEN Tables(s.types, record.cells, s.rows)
  ELSE WithRow(s, record.cells)
ReadRecord(s, record) ==
  IF record = Blank THEN Tables(s.types, <<>>, s.rows)
  ELSE IF record.first = "#datatype" THEN Tables(record.cells, <<>>, s.rows)
  ELSE IF s.header = <<>> THEN Tables(s.types, record.cells, s.rows)
  ELSE WithRow(s, record.cells)

TablesAfter(s, records) ==
  LET state[i \in 0 .. Len(records)] == IF i = 0 THEN s ELSE ReadRecord(state[i - 1], records[i])
  IN state[Len(records)]
ParseCsv(records) == TablesAfter(Tables(<<>>, <<>>, <<>>), records).rows

-----------------------------------------------------------------------------
(* GET /telemetry: query() *)

\* http_error(): what a failure of InfluxDB becomes; 0 is no answer, or no token to ask with.
HttpError(status) == IF status = 0 THEN 503 ELSE IF status \in {400, 422} THEN 422 ELSE 502

\* A defect to test the properties with: as many points as asked for are taken for all.
TruncatedAbove(rows, limit) == Len(rows) > limit
Truncated(rows, limit) == Len(rows) >= limit

\* A row without the columns of a reading is a KeyError, and a 500.
\* A defect to test the properties with: it is left out.
PointsOfReadings(ask, rows) ==
  LET kept == SelectSeq(rows, LAMBDA r : {"_time", "_field"} \subseteq DOMAIN r) IN
  [status |-> 200, ask |-> ask, points |-> kept, truncated |-> Truncated(kept, ask.limit)]
Points(ask, rows) ==
  IF \E i \in DOMAIN rows : ~({"_time", "_field"} \subseteq DOMAIN rows[i])
  THEN [status |-> 500]
  ELSE [status |-> 200, ask |-> ask, points |-> rows, truncated |-> Truncated(rows, ask.limit)]

Asking == answer = NoAnswer /\ UNCHANGED <<points, ingested>>

Query(ask) == Asking /\ answer' = Points(ask, ParseCsv(Csv(BuildQuery(ask))))

\* InfluxDB fails in the middle of its answer, which began with status 200.
QueryBreaks(ask) ==
  LET whole == Csv(BuildQuery(ask)) IN
  /\ Asking
  /\ \E n \in 0 .. Len(whole) : answer' = Points(ask, ParseCsv(SubSeq(whole, 1, n) \o ErrorTable))

QueryFails ==
  /\ Asking
  /\ \E status \in {0, 400, 401, 500} : answer' = [status |-> HttpError(status)]

Answered == answer # NoAnswer /\ answer' = NoAnswer /\ UNCHANGED <<points, ingested>>

InfluxNext ==
  \/ \E batch \in Batches, now \in Moments : StoreBatch(batch, now) \/ BatchFails(batch, now)
  \/ \E ask \in Asks : Query(ask) \/ QueryBreaks(ask)
  \/ QueryFails \/ Answered

InfluxSpec == InfluxInit /\ [][InfluxNext]_influxVars

-----------------------------------------------------------------------------
(* Properties *)

Series(e) == <<e.sensor, Clean(e.field), Ms(e.at)>>
Supersedes(e, older) == e.sure /\ Series(e) = Series(older)

\* What is stored of a value: any number as a float, line breaks as spaces, no text as None.
Shown(v) ==
  CASE v.kind \in {"int", "float"} -> [kind |-> "float", text |-> v.text]
    [] v.kind = "str" /\ v.text # <<>> -> [kind |-> "str", text |-> Clean(v.text)]
    [] v.kind = "str" /\ v.text = <<>> -> None
    [] OTHER -> v

\* Whether what was sent is what a client asks for, by names, and by instants whatever the
\* zones both are written in.
AskedFor(e, ask) ==
  /\ ask.sensor \subseteq {e.sensor} /\ ask.field \subseteq {Clean(e.field)}
  /\ Ms(e.at) * Milli >= ask.start.instant
  /\ \A ts \in ask.stop : Ms(e.at) * Milli < ts.instant

RowOf(e) == <<e.sensor, Clean(e.field), <<Ms(e.at)>>>>
Place(row) == <<row["sensor"].text, row["_field"].text, row["_time"].text>>

\* GET /telemetry answers what devices sent and what was asked for: each point is the newest
\* value of a reading under that name and time, with its type and its characters, however
\* names and values are quoted on their two ways and tables of several types follow each other.
AnswersAreTrue ==
  answer.status = 200 =>
    \A i \in DOMAIN answer.points : \E k \in DOMAIN ingested :
      LET e == ingested[k] IN
      /\ Place(answer.points[i]) = RowOf(e)
      /\ answer.points[i]["_value"] = Shown(e.value)
      /\ AskedFor(e, answer.ask)
      /\ \A j \in DOMAIN ingested : j > k => ~Supersedes(ingested[j], e)

\* An answer that does not say it is truncated has every reading asked for that a device was
\* told is stored, also when InfluxDB failed after the answer had begun; only a later reading
\* of the same name and millisecond takes the place of one.
AnswersAreWhole ==
  answer.status = 200 /\ ~answer.truncated =>
    \A k \in DOMAIN ingested :
      ingested[k].sure /\ AskedFor(ingested[k], answer.ask) =>
        \E i \in DOMAIN answer.points : Place(answer.points[i]) = RowOf(ingested[k])
=============================================================================
