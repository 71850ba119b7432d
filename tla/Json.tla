------------------------------- MODULE Json --------------------------------
(***************************************************************************)
(* The JSON parser the RPC socket, the gateway and the wallet share:       *)
(* jsmn/jsmn.c, without JSMN_STRICT and JSMN_PARENT_LINKS as it is built,  *)
(* and the navigation of json.c over its tokens.                           *)
(*                                                                         *)
(* A text is a sequence of character classes:                              *)
(*   { } [ ]   themselves            q   a quote                           *)
(*   e         a backslash           s   space, tab, newline, : and ,      *)
(*   f         a letter that is both a hex digit and an escape             *)
(*   u         the letter u          z   any other printable character     *)
(*   c         a control or non-ASCII byte        0   NUL                  *)
(* A token is [type, start, end, size]: start is the position of its first *)
(* character, end the position after its last; end is 0 while it is open.  *)
(***************************************************************************)
EXTENDS Naturals, Sequences, FiniteSets

CONSTANTS TextChars,    \* the classes texts are made of
          MaxText       \* bound on their length

VARIABLE text           \* the bytes in the buffer

Container(c) == IF c = "{" THEN "object" ELSE "array"

Open(t) == t.end = 0

(* Token indices are 1-based, 0 is the -1 of the code. *)
LastOpen(toks) ==
  LET open == {i \in DOMAIN toks : Open(toks[i])}
  IN  IF open = {} THEN 0 ELSE CHOOSE i \in open : \A j \in open : j <= i

(* The parser: position, tokens, toksuper and an error if there is one.    *)
Parser == [pos |-> 1, toks |-> <<>>, super |-> 0, ret |-> "ok"]

At(js, i) == IF i \in DOMAIN js THEN js[i] ELSE "0"

(* tokens[toksuper].size++ and a new token at the end. *)
Alloc(p, tok) ==
  LET grown == IF p.super = 0 THEN p.toks ELSE [p.toks EXCEPT ![p.super].size = @ + 1]
  IN  [p EXCEPT !.toks = Append(grown, tok)]

Token(type, start, end) == [type |-> type, start |-> start, end |-> end, size |-> 0]

(* jsmn_parse_primitive(): up to a separator, a closing bracket or the end. *)
jsmn_parse_primitive(p, js, len) ==
  LET stops == {i \in p.pos .. len : js[i] \in {"s", "]", "}", "0"}}
      end == IF stops = {} THEN len + 1 ELSE CHOOSE i \in stops : \A j \in stops : i <= j
  IN  IF \E i \in p.pos .. end - 1 : js[i] = "c"
      THEN [p EXCEPT !.ret = "inval"]
      ELSE [Alloc(p, Token("primitive", p.pos, end)) EXCEPT !.pos = end]

(* The end of an escape that starts at i: the position after it, or 0 for  *)
(* JSMN_ERROR_INVAL.  The characters are taken from the buffer whether or  *)
(* not they lie before len.                                                *)
EscapeEnd(js, i) ==
  CASE At(js, i + 1) \in {"q", "e", "f"} -> i + 2
    [] At(js, i + 1) = "u" ->
         LET bad == {k \in 2 .. 5 : At(js, i + k) # "f"}
             stop == IF bad = {} THEN 6 ELSE CHOOSE k \in bad : \A j \in bad : k <= j
         IN  IF bad # {} /\ At(js, i + stop) # "0" THEN 0 ELSE i + stop
    [] OTHER -> 0

(* Where the string whose body starts at i ends: the position of the       *)
(* closing quote, 0 for invalid, len + 1 for JSMN_ERROR_PART.              *)
StringEnd(js, len, i) ==
  LET end[k \in Nat] ==
        CASE k > len \/ At(js, k) = "0" -> len + 1
          [] At(js, k) = "q" -> k
          [] At(js, k) = "e" -> IF EscapeEnd(js, k) = 0 THEN 0 ELSE end[EscapeEnd(js, k)]
          [] OTHER -> end[k + 1]
  IN  end[i]

jsmn_parse_string(p, js, len) ==
  LET e == StringEnd(js, len, p.pos + 1)
  IN  CASE e = 0 -> [p EXCEPT !.ret = "inval"]
        [] e = len + 1 -> [p EXCEPT !.ret = "part"]
        [] OTHER -> [Alloc(p, Token("string", p.pos + 1, e)) EXCEPT !.pos = e + 1]

(* Mutant: the container a bracket closes is not looked for, so what       *)
(* follows is counted in it.                                               *)
MutClose(p, c) ==
  LET i == LastOpen(p.toks)
  IN  IF i = 0 \/ p.toks[i].type # Container(c)
      THEN [p EXCEPT !.ret = "inval"]
      ELSE [p EXCEPT !.toks[i].end = p.pos + 1, !.pos = @ + 1, !.super = i]

(* A closing bracket: the innermost open token must be of its kind, and    *)
(* the next one out is where the tokens that follow are counted.           *)
jsmn_close(p, c) ==
  LET i == LastOpen(p.toks)
  IN  IF i = 0 \/ p.toks[i].type # Container(c)
      THEN [p EXCEPT !.ret = "inval"]
      ELSE LET closed == [p.toks EXCEPT ![i].end = p.pos + 1]
           IN  [p EXCEPT !.toks = closed, !.pos = @ + 1, !.super = LastOpen(closed)]

(* One turn of the loop of jsmn_parse(). *)
jsmn_step(p, js, len) ==
  LET c == js[p.pos]
  IN  CASE c \in {"{", "["} ->
             LET q == Alloc(p, Token(Container(c), p.pos, 0))
             IN  [q EXCEPT !.super = Len(q.toks), !.pos = @ + 1]
        [] c = "}" -> jsmn_close(p, "{")
        [] c = "]" -> jsmn_close(p, "[")
        [] c = "q" -> jsmn_parse_string(p, js, len)
        [] c = "s" -> [p EXCEPT !.pos = @ + 1]
        [] OTHER -> jsmn_parse_primitive(p, js, len)

Parsers == [pos : Nat, super : Nat, ret : {"ok", "inval", "part"},
            toks : Seq([type : STRING, start : Nat, end : Nat, size : Nat])]

jsmn_loop(js, len) ==
  LET loop[p \in Parsers] ==
        IF p.ret # "ok" \/ p.pos > len \/ At(js, p.pos) = "0" THEN p
        ELSE loop[jsmn_step(p, js, len)]
  IN  loop[Parser]

(* jsmn_parse() of the first len characters of js: an open container at    *)
(* the end means that there is more to come.                               *)
jsmn_parse(js, len) ==
  LET p == jsmn_loop(js, len)
  IN  IF p.ret = "ok" /\ LastOpen(p.toks) # 0 THEN [p EXCEPT !.ret = "part"] ELSE p

(* json_parse_input(): the tokens, resized until they fit, and one that is *)
(* always referencable after the last.                                     *)
Sentinel == [type |-> "none", start |-> 0, end |-> 0, size |-> 0]

json_parse_input(js, len) ==
  LET p == jsmn_parse(js, len)
  IN  IF p.ret # "ok" THEN [valid |-> p.ret = "part", toks |-> <<>>]
      ELSE [valid |-> TRUE, toks |-> Append(p.toks, Sentinel)]

-----------------------------------------------------------------------------
(* json.c over an array of tokens. *)
RECURSIVE json_next(_, _)
json_next(toks, t) ==
  LET RECURSIVE Skip(_, _)
      Skip(u, n) == IF n = 0 THEN u ELSE Skip(json_next(toks, u), n - 1)
  IN  Skip(t + 1, toks[t].size)

(* json_get_arr(): the token of the element with this index, 0 for NULL. *)
json_get_arr(toks, t, index) ==
  LET RECURSIVE From(_, _)
      From(u, n) == CASE u >= json_next(toks, t) -> 0
                      [] n = 0 -> u
                      [] OTHER -> From(json_next(toks, u), n - 1)
  IN  From(t + 1, index)

(* json_get_member(), where labelled are the tokens json_tok_streq() finds  *)
(* equal to the label: names and values alternate.                         *)
json_get_member(toks, t, labelled) ==
  LET RECURSIVE From(_)
      From(u) == CASE u >= json_next(toks, t) -> 0
                   [] u < json_next(toks, t) /\ toks[u].type = "string" /\ u \in labelled -> u + 1
                   [] OTHER -> IF u + 1 > Len(toks) THEN 0 ELSE From(json_next(toks, u + 1))
  IN  From(t + 1)

(* json_get_params() of an array: the n-th name gets the n-th element.     *)
json_get_params(toks, t, n) ==
  LET p == json_get_arr(toks, t, n - 1) IN IF toks[t].size = 0 THEN 0 ELSE p

-----------------------------------------------------------------------------
(* Every text, typed a character at a time. *)
JsonInit == text = <<>>
JsonNext == Len(text) < MaxText /\ \E c \in TextChars : text' = Append(text, c)
JsonSpec == JsonInit /\ [][JsonNext]_text

Parsed == jsmn_parse(text, Len(text))

(* What the positions say of nesting, without the sizes.                   *)
Inside(toks, t, u) == toks[t].start < toks[u].start /\ toks[u].end <= toks[t].end
Children(toks, t) ==
  {u \in DOMAIN toks : Inside(toks, t, u) /\ ~\E v \in DOMAIN toks : Inside(toks, t, v) /\ Inside(toks, v, u)}

(* A text that is still arriving is never refused, and what is complete    *)
(* stays as it is: whatever beginning of a valid text is parsed, with the  *)
(* rest already in the buffer, it is not an error, and the containers it   *)
(* has complete are those of the whole.                                    *)
PiecesStable ==
  Parsed.ret = "ok" =>
    \A n \in 0 .. Len(text) :
      LET p == jsmn_parse(text, n) IN
      /\ p.ret # "inval"
      /\ p.ret = "ok" => \A t \in DOMAIN p.toks :
           p.toks[t].type \in {"object", "array"} => p.toks[t] = Parsed.toks[t]

(* Navigation by the sizes agrees with the positions of the brackets: the  *)
(* n-th element of a container is its n-th child in the text, and nothing  *)
(* else is found, however deep the nesting and whatever follows it, also   *)
(* if the text came in pieces; and a name of an object finds the value     *)
(* that follows it, while a value that reads the same finds nothing.       *)
NavigationExact ==
  /\ PiecesStable
  /\ Parsed.ret = "ok" =>
      LET toks == Append(Parsed.toks, Sentinel) IN
      \A t \in DOMAIN Parsed.toks :
        LET kids == IF toks[t].type \in {"object", "array"} THEN Children(Parsed.toks, t) ELSE {}
            names == {u \in kids : Cardinality({v \in kids : v < u}) % 2 = 0}
        IN
        /\ toks[t].size = Cardinality(kids)
        /\ (Cardinality(kids) = 2 * Cardinality(names) /\ \A u \in names : toks[u].type = "string")
             => \A u \in kids : json_get_member(toks, t, {u}) = IF u \in names THEN u + 1 ELSE 0
        /\ \A n \in 0 .. MaxText :
             json_get_arr(toks, t, n) =
               IF n >= Cardinality(kids) THEN 0
               ELSE CHOOSE u \in kids : Cardinality({v \in kids : v < u}) = n
=============================================================================
