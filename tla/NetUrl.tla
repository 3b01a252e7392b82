------------------------------- MODULE NetUrl -------------------------------
(* net_url of src/engine/net/neturl.h.  A text is a sequence of pieces: the *)
(* marks "://", ":", "?", "=" and "&", and pieces without a mark in them.   *)
(* The url is parsed, changed and encoded, and a second object, with the    *)
(* traces of its own earlier use, parses what was encoded.                  *)
EXTENDS Integers, Sequences, SequencesExt, FiniteSets

CONSTANTS Urls,      \* the texts given to parse()
          Texts,     \* the protocols, hosts, keys and values given to net_url() and set()
          Numerals,  \* the pieces that stand for a number: piece -> number
          MaxCalls   \* bound: calls on the url

(* A numeral is no mark; what a port has left of a number in its 16 bits is a number *)
(* that can be written too.  The texts may have any marks in them.                   *)
Marks == {"://", ":", "?", "=", "&"}
ASSUME UrlConstants ==
  /\ MaxCalls \in Nat
  /\ \A text \in Urls \cup Texts : text \in Seq(Range(text))
  /\ DOMAIN Numerals \cap Marks = {}
  /\ \A t \in DOMAIN Numerals :
       /\ Numerals[t] \in Int
       /\ Numerals[t] % 65536 # 0 => \E d \in DOMAIN Numerals : Numerals[d] = Numerals[t] % 65536

VARIABLES u_url,     \* [protocol, host, port, params]; params: key -> value
          u_copy,    \* the object that parses what u_url encodes
          u_result,  \* of the last parse: "true", "false" or "threw"; "copied" after a copy
          u_calls
u_vars == <<u_url, u_copy, u_result, u_calls>>

Cleared == [protocol |-> << >>, host |-> << >>, port |-> 0, params |-> << >>]
Reset(url) == Cleared

Put(params, k, v) == [x \in DOMAIN params \cup {k} |-> IF x = k THEN v ELSE params[x]]
(* The first place of one of the marks from a place on, or 0. *)
Find(text, marks, from) ==
  LET at == {i \in from..Len(text) : text[i] \in marks}
  IN IF at = {} THEN 0 ELSE CHOOSE i \in at : \A j \in at : i <= j
OrEnd(i, text) == IF i = 0 THEN Len(text) + 1 ELSE i

(* The text of the port, behind the first colon; the colon may be that of a "://", *)
(* which then stands for the two slashes that are left of it.                      *)
PortText(info, colon) ==
  IF colon = 0 THEN << >> ELSE SubSeq(info, IF info[colon] = ":" THEN colon + 1 ELSE colon, Len(info))
(* std::stoi reads a number at the beginning, or throws; the port is 16 bits of it. *)
StoiThrows(p) == p[1] \notin DOMAIN Numerals
PortNumbers == {0} \cup {Numerals[t] % 65536 : t \in DOMAIN Numerals}
Port(p) == IF p = << >> THEN 0 ELSE Numerals[p[1]] % 65536

(* One turn of the loop over the parameters; '=' and '&' both go over to the other of key and value. *)
OnlyAssignTurns(s, p) ==
  CASE p = "=" -> [s EXCEPT !.is_key = ~@]
    [] p = "&" -> [s EXCEPT !.params = Put(@, s.key, s.value), !.key = << >>, !.value = << >>]
    [] OTHER   -> IF s.is_key THEN [s EXCEPT !.key = Append(@, p)] ELSE [s EXCEPT !.value = Append(@, p)]
Turn(s, p) ==
  CASE p = "=" -> [s EXCEPT !.is_key = ~@]
    [] p = "&" -> [is_key |-> ~s.is_key, params |-> Put(s.params, s.key, s.value), key |-> << >>, value |-> << >>]
    [] OTHER   -> IF s.is_key THEN [s EXCEPT !.key = Append(@, p)] ELSE [s EXCEPT !.value = Append(@, p)]
Params(text, params) ==
  LET start == [is_key |-> TRUE, params |-> params, key |-> << >>, value |-> << >>]
      after[n \in 0..Len(text)] == IF n = 0 THEN start ELSE Turn(after[n - 1], text[n])
      s == after[Len(text)]
  IN IF s.key = << >> THEN s.params ELSE Put(s.params, s.key, s.value)

(* parse(): what becomes of the object, and the result. *)
Parse(url, text) ==
  LET sep   == Find(text, {"://"}, 1)
      ask   == OrEnd(Find(text, {"?"}, sep + 1), text)
      info  == SubSeq(text, sep + 1, ask - 1)
      colon == Find(info, {":", "://"}, 1)
      port  == PortText(info, colon)
      named == [Reset(url) EXCEPT !.protocol = SubSeq(text, 1, sep - 1),
                                  !.host = SubSeq(info, 1, OrEnd(colon, info) - 1)]
  IN CASE sep = 0                            -> [url |-> Reset(url), result |-> "false"]
       [] sep # 0 /\ port # << >> /\ StoiThrows(port) -> [url |-> named, result |-> "threw"]
       [] OTHER -> [url |-> [named EXCEPT !.port = Port(port),
                                          !.params = Params(SubSeq(text, ask + 1, Len(text)), @)],
                    result |-> "true"]

(* encode(): the parameters come in the order of the hash map, any order. *)
Digits(n) == CHOOSE t \in DOMAIN Numerals : Numerals[t] = n
Encode(url, keys) ==
  url.protocol \o <<"://">> \o url.host \o (IF url.port > 0 THEN <<":", Digits(url.port)>> ELSE << >>)
  \o (IF keys = << >> THEN << >> ELSE <<"?">>)
  \o FlattenSeq([i \in DOMAIN keys |-> keys[i] \o <<"=">> \o url.params[keys[i]] \o <<"&">>])

UrlInit == u_url = Cleared /\ u_copy = Cleared /\ u_result = "false" /\ u_calls = 0
Call_ == u_calls < MaxCalls /\ u_calls' = u_calls + 1

UrlParse == /\ Call_ /\ \E text \in Urls : LET p == Parse(u_url, text) IN u_url' = p.url /\ u_result' = p.result
            /\ UNCHANGED u_copy
UrlMake == /\ Call_ /\ \E p, h \in Texts, n \in PortNumbers :
                         u_url' = [Cleared EXCEPT !.protocol = p, !.host = h, !.port = n]
           /\ UNCHANGED <<u_copy, u_result>>
UrlSet == /\ Call_ /\ \E k, v \in Texts : u_url' = [u_url EXCEPT !.params = Put(@, k, v)]
          /\ UNCHANGED <<u_copy, u_result>>
UrlCopy == /\ Call_ /\ \E keys \in [1..Cardinality(DOMAIN u_url.params) -> DOMAIN u_url.params] :
                         /\ IsInjective(keys)
                         /\ LET p == Parse(u_copy, Encode(u_url, keys))
                            IN u_copy' = p.url /\ u_result' = IF p.result = "true" THEN "copied" ELSE p.result
           /\ UNCHANGED u_url
UrlNext == UrlParse \/ UrlMake \/ UrlSet \/ UrlCopy

(* Nothing that is a mark where it stands. *)
Unmarked(url) ==
  /\ "://" \notin Range(url.protocol)
  /\ Range(url.host) \cap {":", "://", "?"} = {}
  /\ \A k \in DOMAIN url.params : (Range(k) \cup Range(url.params[k])) \cap {"=", "&"} = {}

(* What a url encodes, another object parses to the same url exactly if the url is *)
(* plain, whatever that object held before and in whatever order the parameters    *)
(* come: no other mark does harm, and a mark where it stands is never carried over *)
(* (set() takes any text, and nothing is escaped).                                 *)
UrlRoundTrip == [][UrlCopy => ((u_result' = "copied" /\ u_copy' = u_url) <=> Unmarked(u_url))]_u_vars

(* What the grammar in the comment of the class allows: keys without '=' (nor '&',  *)
(* which it leaves open) and values without '&' and ':'.                            *)
Grammatical(url) ==
  /\ url.protocol # << >> /\ url.host # << >>
  /\ (Range(url.protocol) \cup Range(url.host)) \cap Marks = {}
  /\ \A k \in DOMAIN url.params : /\ Range(k) \cap {"=", "&"} = {}
                                  /\ Range(url.params[k]) \cap {"&", ":", "://"} = {}

(* What the grammar promises: parameters of this form are read as they were written. *)
(* The loop over the parameters goes from the value back to the key at a '=' in it.  *)
ValuesKept == [][UrlCopy /\ Grammatical(u_url) => u_result' = "copied" /\ u_copy' = u_url]_u_vars
=============================================================================
