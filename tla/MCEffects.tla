------------------------------ MODULE MCEffects ------------------------------
(* Effects and Influx on small instances: the default filters, and some that use every wildcard;
   names and values with the characters that are special on one of their two ways.  The two share
   no state, so that no interleaving of them is worth a state: in each behaviour one moves. *)
EXTENDS Effects, Influx

VARIABLE part

SmallSettings ==
  {[allow |-> {<<"#">>}, deny |-> {<<"sensors", "#">>}],
   [allow |-> {<<"+">>, <<"cmd", "+">>}, deny |-> {<<"+", "sensors">>}],
   [allow |-> {<<"cmd", "#">>, <<"+", "cmd">>}, deny |-> {}],
   [allow |-> {<<"+", "#">>}, deny |-> {<<"sensors">>}]}

SmallChars == {"\\", "\"", ",", "=", " ", "$", "{", "\n", "a", "b", "t", "u", "x", "1", "2", "3",
               "true", "false"}
Number(t) == [kind |-> "float", text |-> <<t>>]
Whole(t) == [kind |-> "int", text |-> <<t>>]
Str(t) == [kind |-> "str", text |-> t]
Yes == [kind |-> "bool", text |-> <<"true">>]

Names == {<<"a">>, <<"a", "\\">>, <<"=", "\"">>, <<",", "\n">>, <<"$", "{">>, <<"\\", "$", "{", " ">>}
Values == {Number("1"), Whole("2"), Yes, Str(<<>>), Str(<<"\"", "\\">>), Str(<<"x", "\n", "\n", ",">>)}
A == <<"a">>

One(name, v) == <<[name |-> name, value |-> v]>>
Reading1(fields, ts) == <<[sensor |-> <<"t">>, fields |-> fields, ts |-> ts]>>

At1 == [instant |-> 1, zone |-> Naive]
At3 == [instant |-> 3, zone |-> 2]
Before1970 == [instant |-> -1, zone |-> 1]

SmallBatches ==
  {Reading1(One(A, v), NoTime) : v \in Values}
  \cup {Reading1(One(n, v) \o One(m, Yes), At3) :
          n \in Names, v \in {Str(<<"\\">>), Number("1")}, m \in {<<"b">>}}
  \cup {Reading1(One(A, v), ts) \o Reading1(One(A, Number("3")), us) :
          v \in {Number("1"), Yes}, ts \in {NoTime}, us \in {NoTime, At3, Before1970}}

Ask(sensor, field, start, stop, limit) ==
  [sensor |-> sensor, field |-> field, start |-> start, stop |-> stop, limit |-> limit]
From(n, z) == [instant |-> n, zone |-> z]

SmallAsks ==
  {Ask({}, {n}, From(0, Naive), {}, 3) : n \in (Names \ {<<",", "\n">>}) \cup {<<",", " ">>}}
  \cup {Ask({}, {}, From(0, 1), {}, l) : l \in {1, 2, 3}}
  \cup {Ask({}, {}, From(2, Naive), {}, 3), Ask({}, {}, From(0, 2), {From(2, 1)}, 3),
        Ask({<<"u">>}, {}, From(0, 2), {}, 3)}

EitherInit ==
  /\ part \in {"effects", "influx"}
  /\ Init /\ InfluxInit
  /\ part = "influx" => settings = CHOOSE s \in Settings : TRUE

EitherNext ==
  /\ \/ part = "effects" /\ Next /\ UNCHANGED influxVars
     \/ part = "influx" /\ InfluxNext /\ UNCHANGED vars
  /\ UNCHANGED part

Either == EitherInit /\ [][EitherNext]_<<vars, influxVars, part>>
=============================================================================
