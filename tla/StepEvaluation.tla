--------------------------- MODULE StepEvaluation ---------------------------
(***************************************************************************)
(* What a step computes: the templates of its action filled in with the    *)
(* execution's variables, the assertions evaluated on a response, and the  *)
(* variables extracted from it.  No state and no processes.                *)
(*                                                                         *)
(* A JSON value is a function from the paths of its nodes to the nodes: at *)
(* the empty path its root, at <<"a", "0">> the first element of the list  *)
(* under the key a.  A node is a pair of a tag and a payload; only those   *)
(* of lists and dicts have others below them.  What walks a value at every *)
(* depth in the program is one function of its nodes here.                 *)
(*                                                                         *)
(* A string is a text: a sequence of tokens, each a literal, a placeholder *)
(* {{name}}, or Python's str() of a value that is no string.  A path is    *)
(* the sequence of its parts, and what raises yields Raised.               *)
(***************************************************************************)
EXTENDS Integers, SequencesExt

Scalar(tag, payload) == [path \in {<<>>} |-> <<tag, payload>>]

Null == Scalar("null", 0)
Num(n) == Scalar("num", n)
Flag(b) == Scalar("bool", b)
Text(tokens) == Scalar("text", tokens)
Raised == Scalar("raised", 0)

Tag(v) == v[<<>>][1]
Of(v) == v[<<>>][2]

Containers == {"list", "dict"}
Tags == {"null", "num", "bool", "text"} \cup Containers

IsValue(v) ==
    /\ v = [path \in DOMAIN v |-> v[path]]
    /\ DOMAIN v \subseteq Seq(STRING) /\ <<>> \in DOMAIN v
    /\ \A path \in DOMAIN v :
          /\ v[path][1] \in Tags
          /\ v[path][1] = "text" => v[path][2] \in Seq(Range(v[path][2]))
          /\ \A n \in 0..(Len(path) - 1) :
                SubSeq(path, 1, n) \in DOMAIN v /\ v[SubSeq(path, 1, n)][1] \in Containers

(* The value at a path. *)
Below(v, path) ==
    [rest \in {r \in {SubSeq(p, Len(path) + 1, Len(p)) : p \in DOMAIN v} : path \o r \in DOMAIN v}
        |-> v[path \o rest]]

Literal(s) == <<"literal", s>>
Placeholder(name) == <<"placeholder", name>>

IsPlaceholder(token) == token[1] = "placeholder"

-----------------------------------------------------------------------------
(* Rendering. *)

(* str(): a string is itself; None becomes the word None, and so on. *)
Str(v) == IF Tag(v) = "text" THEN Of(v) ELSE <<<<"str", v>>>>

(* The names a value's placeholders mention, at any depth. *)
Mentioned(v) ==
    UNION {{t[2] : t \in {t \in Range(v[path][2]) : IsPlaceholder(t)}} :
              path \in {path \in DOMAIN v : v[path][1] = "text"}}

(* Seeded bug: a placeholder is always replaced by text. *)
NeverExact(node) == FALSE

(* A string that is one placeholder becomes the variable, with its type;   *)
(* in a longer string each placeholder becomes str() of its variable.  The *)
(* result is not searched again.                                           *)
IsExact(node) == node[1] = "text" /\ Len(node[2]) = 1 /\ IsPlaceholder(node[2][1])

Fill(tokens, variables) ==
    FlattenSeq([i \in DOMAIN tokens |->
        IF IsPlaceholder(tokens[i]) THEN Str(variables[tokens[i][2]]) ELSE <<tokens[i]>>])

InPlaceOf(node, variables) ==
    IF IsExact(node) THEN variables[node[2][1][2]]
    ELSE IF node[1] = "text" THEN Text(Fill(node[2], variables))
    ELSE [path \in {<<>>} |-> node]

Render(v, variables) ==
    LET new(path) == InPlaceOf(v[path], variables) IN
    [path \in UNION {{p \o rest : rest \in DOMAIN new(p)} : p \in DOMAIN v} |->
        LET p == CHOOSE p \in DOMAIN v : \E rest \in DOMAIN new(p) : path = p \o rest
        IN  new(p)[SubSeq(path, Len(p) + 1, Len(path))]]

(* render_step raises when one of these is not defined.  Header names,     *)
(* paths, the method and the timeout are not rendered.                     *)
Placeholders(step) ==
    Mentioned(step.url) \cup Mentioned(step.body)
    \cup UNION {Mentioned(step.headers[h]) : h \in DOMAIN step.headers}
    \cup UNION {Mentioned(a.expected) : a \in Range(step.assertions)}

RenderStep(step, variables) ==
    [url |-> Text(Str(Render(step.url, variables))),
     headers |-> [h \in DOMAIN step.headers |-> Text(Str(Render(step.headers[h], variables)))],
     body |-> Render(step.body, variables),
     assertions |-> [i \in DOMAIN step.assertions |->
        [step.assertions[i] EXCEPT !.expected = Render(@, variables)]]]

(* HttpAction checks the rendered URL as well. *)
IsUrl(url) == Of(url) # <<>> /\ Of(url)[1] = Literal("https://")

-----------------------------------------------------------------------------
(* Extraction.  Header names are compared in lower case. *)

Lower(name) == IF name = "X-Trace" THEN "x-trace" ELSE name

Header(result, name) ==
    IF Lower(name) \in DOMAIN result.headers THEN result.headers[Lower(name)] ELSE Null

(* A part leads into a list if int() reads an index of the list in it.     *)
(* (Spellings of an index other than the usual one are left out.)          *)

(* Seeded bug: a part that leads nowhere is passed over. *)
ReadPathPartLeniently(current, part) ==
    IF <<part>> \in DOMAIN current THEN Below(current, <<part>>) ELSE current

ReadPathPart(current, part) ==
    IF <<part>> \in DOMAIN current THEN Below(current, <<part>>) ELSE Raised

ReadPath(body, path) ==
    LET current[n \in 0..Len(path)] ==
            IF n = 0 THEN body ELSE ReadPathPart(current[n - 1], path[n])
    IN  current[Len(path)]

Extract(source, result) ==
    CASE source[1] = "status_code" -> Num(result.status)
      [] source[1] = "header"      -> Header(result, source[2])
      [] source[1] = "body"        -> ReadPath(result.body, source[2])
      [] OTHER                     -> Raised

(* Seeded bug: a source that is missing does not end the extraction. *)
MissingIgnored(extracts, result) == TRUE

(* The extraction raises unless every source is there. *)
AllFound(extracts, result) ==
    \A name \in DOMAIN extracts : Extract(extracts[name], result) # Raised

ExtractVariables(extracts, result) ==
    [name \in DOMAIN extracts |-> Extract(extracts[name], result)]

-----------------------------------------------------------------------------
(* Assertions.  A body path that leads nowhere, or into a list, is None. *)
ReadBodyPart(current, part) ==
    IF Tag(current) = "dict" /\ <<part>> \in DOMAIN current THEN Below(current, <<part>>) ELSE Null

ReadBodyPath(body, path) ==
    LET current[n \in 0..Len(path)] ==
            IF n = 0 THEN body ELSE ReadBodyPart(current[n - 1], path[n])
    IN  current[Len(path)]

ActualValue(a, result) ==
    CASE a.target = "status_code" -> Num(result.status)
      [] a.target = "latency_ms"  -> Num(result.latency)
      [] a.target = "header"      -> Header(result, a.path[1])
      [] a.target = "body"        -> ReadBodyPath(result.body, a.path)

(* Python's ==, for which True is 1 and False is 0, at any depth. *)
Compared(v) ==
    [path \in DOMAIN v |->
        IF v[path][1] = "bool" THEN <<"num", IF v[path][2] THEN 1 ELSE 0>> ELSE v[path]]

Compare(actual, expected, operator) ==
    \/ operator = "equals" /\ Compared(actual) = Compared(expected)
    \/ /\ operator = "less_than_or_equal"
       /\ Tag(actual) = "num" /\ Tag(expected) = "num" /\ Of(actual) <= Of(expected)

(* Every assertion is evaluated; the step passes when all of them hold. *)
StepPasses(step, result) ==
    \A i \in DOMAIN step.assertions :
        LET a == step.assertions[i] IN Compare(ActualValue(a, result), a.expected, a.operator)
=============================================================================
