--------------------------- MODULE MCVariableFlow ---------------------------
(* A small instance of VariableFlow for TLC. *)
EXTENDS VariableFlow, TLC

CONSTANTS e1, e2, w1, w2

(* Values with others below them; the elements of a list are numbered as    *)
(* paths name them.                                                         *)
Container(tag, values) ==
    [path \in {<<>>} \cup UNION {{<<k>> \o rest : rest \in DOMAIN values[k]} : k \in DOMAIN values} |->
        IF path = <<>> THEN <<tag, 0>> ELSE values[Head(path)][Tail(path)]]

Dict(values) == Container("dict", values)
List(values) == Container("list", values)

Word(s) == Text(<<Literal(s)>>)
Variable(name) == Text(<<Placeholder(name)>>)
Url(tokens) == Text(<<Literal("https://")>> \o tokens)
NoBody == Null

Check(target, path, operator, expected) ==
    [target |-> target, path |-> path, operator |-> operator, expected |-> expected]

(* The first step logs in; the second sends the token in a header and in   *)
(* its body and expects the status the first one had; the third puts the   *)
(* trace of the second, and the tenant if the client gave one, in its URL, *)
(* and takes a new token, the name of which the first extracts as well.    *)
ThreeSteps ==
    <<[url |-> Url(<<>>), headers |-> NoMap, body |-> NoBody,
       assertions |-> <<Check("status_code", <<>>, "less_than_or_equal", Num(299)),
                        Check("body", <<"error">>, "equals", Null)>>,
       extracts |-> [token |-> <<"body", <<"auth", "token">>>>, code |-> <<"status_code">>]],
      [url |-> Url(<<>>),
       headers |-> [authorization |-> Text(<<Literal("Bearer "), Placeholder("token")>>)],
       body |-> Dict([id |-> Variable("token"), kind |-> Word("order")]),
       assertions |-> <<Check("status_code", <<>>, "equals", Variable("code"))>>,
       extracts |-> [first |-> <<"body", <<"auth", "items", "0">>>>,
                     trace |-> <<"header", "X-Trace">>]],
      [url |-> Url(<<Placeholder("tenant"), Placeholder("trace")>>), headers |-> NoMap,
       body |-> Dict([list |-> List("0" :> Variable("first")), code |-> Variable("code")]),
       assertions |-> <<Check("header", <<"X-Trace">>, "equals", Variable("trace"))>>,
       extracts |-> [token |-> <<"body", <<"auth", "token">>>>]]>>

Answer(code, headers, body) ==
    [status |-> code, latency |-> 1, headers |-> headers, body |-> body]

Traced == [x \in {"x-trace"} |-> Word("t")]

(* A number as token and a dict in a list; text that looks like a           *)
(* placeholder, another status and no header; no token; an error.          *)
FewAnswers ==
    {Answer(200, Traced, Dict([auth |-> Dict([token |-> Num(7),
                                              items |-> List("0" :> Dict([id |-> Flag(TRUE)]))])])),
     Answer(201, NoMap, Dict([auth |-> Dict([token |-> Variable("code"), items |-> List("0" :> Null)])])),
     Answer(200, Traced, Dict([auth |-> Word("none")])),
     Answer(500, NoMap, Dict([error |-> Num(1)]))}

(* A name a step extracts as well, and one no step does.                      *)
FewGiven == {NoMap, [tenant |-> Word("acme"), token |-> Num(1)]}

(* Bound: executions share nothing but the workers, so the second is asked  *)
(* for when nothing of the first is left to happen.  From then on the first *)
(* stays as it is, and the view leaves it out.                              *)
Idle(e) == (\A i \in Positions : queued[e][i] = 0) /\ \A w \in Workers : pc[w] = "idle"

OnceE1IsOver ==
    status[e2] = "absent" /\ status'[e2] # "absent" => status[e1] # "absent" /\ Idle(e1)

SecondView ==
    IF status[e2] = "absent" THEN vars
    ELSE <<status[e2], variables[e2], given[e2], queued[e2], answers[e2], done[e2],
           e2 \in raced, workerVars, faults>>

AlikeWorkers == Permutations({w1, w2})
=============================================================================
