------------------------------ MODULE Cmdline ------------------------------
(* engine::utils::parser of src/engine/utils/cmdline.hpp: the options that  *)
(* were added, and calls of parse() and parse_check() on them.  One action  *)
(* per turn of parse()'s loops.                                              *)
(*                                                                          *)
(* A word is a sequence of pieces of text; the first piece tells what the   *)
(* parser sees in it (Dashed).  In a line given as one string, Blank, Quote *)
(* and Escape are pieces of their own.  Messages are their kind only.       *)
EXTENDS Integers, Sequences, SequencesExt, FiniteSets

CONSTANTS Declared,   \* the options the program may add: name -> set of options
          Numbers,    \* the pieces that stand for a number: piece -> number
          Dashed,     \* the pieces that begin with '-': piece -> what they are
          Words,      \* the words of a command line
          Lines,      \* command lines given as one string
          MaxWords,   \* bound: words in all command lines together
          MaxParses,  \* bound: calls of parse
          Blank, Quote, Escape

VARIABLES c_options,  \* options: name -> [short, valued, need, reader, has, actual]
          c_errors, c_others,
          c_args,     \* the words being parsed
          c_i, c_j,   \* parse()'s indexes, from 1: the word, and the letter of a short group
          c_check,    \* the call is parse_check: the argument count it hands to check()
          c_result,   \* "idle", "parsing", or what the last call did
          c_before,   \* history: the options when this call began to parse
          c_used      \* words and calls so far

c_turn == <<c_i, c_j>>
c_whole == <<c_args, c_check, c_before, c_used>>
c_vars == <<c_options, c_errors, c_others, c_turn, c_whole, c_result>>

NoCheck == -1
Option(short, valued, need, reader) == [short |-> short, valued |-> valued, need |-> need,
                                        reader |-> reader, has |-> FALSE, actual |-> << >>]
(* An option is declared by its letter, whether it has a value and is needed, and *)
(* its reader; of the pieces that begin with '-' some have a name, some letters.   *)
ASSUME CmdlineConstants ==
  /\ MaxWords \in Nat /\ MaxParses \in Nat
  /\ Blank # Quote /\ Blank # Escape /\ Quote # Escape
  /\ \A n \in DOMAIN Declared : \A o \in Declared[n] :
       /\ o = Option(o.short, o.valued, o.need, o.reader)
       /\ o.valued \in BOOLEAN /\ o.need \in BOOLEAN
  /\ \A p \in DOMAIN Dashed : /\ Dashed[p].form \in {"assign", "long", "short"}
                              /\ Dashed[p].letters \in Seq(Range(Dashed[p].letters))
  /\ \A text \in Lines \cup Words : text \in Seq(Range(text))

AnyText           == [kind |-> "any", alt |-> {}]
NumberText        == [kind |-> "number", alt |-> {}]
OneOf(values) == [kind |-> "oneof", alt |-> values]
Within(l, h)  == [kind |-> "oneof", alt |-> l..h]

(* lexical_cast<T>(string): a number must be all of the text; a string is itself. *)
IsNumber(v) == Len(v) = 1 /\ v[1] \in DOMAIN Numbers

(* The reader of an option takes the value, or throws: default_reader, oneof, range. *)
Reads(r, v) == CASE r.kind = "any"    -> TRUE
                 [] r.kind = "number" -> IsNumber(v)
                 [] r.kind = "oneof"  -> IsNumber(v) /\ Numbers[v[1]] \in r.alt

CmdlineInit == /\ c_options = << >> /\ c_errors = << >> /\ c_others = << >>
               /\ c_args = << >> /\ c_i = 1 /\ c_j = 1
               /\ c_check = NoCheck /\ c_result = "idle"
               /\ c_before = << >> /\ c_used = [words |-> 0, calls |-> 0]

HasOption(n) == n \in DOMAIN c_options
Added(n, o) == [m \in DOMAIN c_options \cup {n} |-> IF m = n THEN o ELSE c_options[m]]

(* add(): a name that is there already throws. *)
Adding == c_result \in {"idle", "threw"} /\ c_used.calls = 0
AddOption(n) == /\ Adding /\ ~HasOption(n)
                /\ c_result' = "idle" /\ \E o \in Declared[n] : c_options' = Added(n, o)
                /\ UNCHANGED <<c_errors, c_others, c_turn, c_whole>>
AddAgain(n) == /\ Adding /\ HasOption(n)
               /\ c_result' = "threw"
               /\ UNCHANGED <<c_options, c_errors, c_others, c_turn, c_whole>>

-----------------------------------------------------------------------------
(* parse(string): the line cut at blanks outside of quotes; a backslash takes   *)
(* the next character as it is.  An empty last word is dropped, others are not. *)
Uncut == [args |-> << >>, buf |-> << >>, in_quote |-> FALSE, escaped |-> FALSE]
Piece(s, p) ==
  CASE s.escaped               -> [s EXCEPT !.escaped = FALSE, !.buf = Append(@, p)]
    [] ~s.escaped /\ p = Quote -> [s EXCEPT !.in_quote = ~@]
    [] ~s.escaped /\ p = Blank /\ ~s.in_quote -> [s EXCEPT !.args = Append(@, s.buf), !.buf = << >>]
    [] ~s.escaped /\ p = Escape -> [s EXCEPT !.escaped = TRUE]
    [] OTHER                   -> [s EXCEPT !.buf = Append(@, p)]
Cut(line) ==
  LET after[n \in 0..Len(line)] == IF n = 0 THEN Uncut ELSE Piece(after[n - 1], line[n])
  IN after[Len(line)]
DropsEmptyLast(cut) == IF cut.buf = << >> THEN cut.args ELSE Append(cut.args, cut.buf)
DropsLast(cut)      == cut.args
Args(cut) == DropsEmptyLast(cut)

(* The letters that stand for an option. *)
lookup(c) == {n \in DOMAIN c_options : c_options[n].short = c /\ c # ""}
Ambiguous == \E n, m \in DOMAIN c_options : n # m /\ c_options[n].short = c_options[m].short
                                                  /\ c_options[n].short # ""

(* What a call comes to: parse_check() goes on to check(), which leaves the program *)
(* when the parse failed or the help was asked for.                                 *)
Outcome(ok) == CASE c_check = NoCheck -> IF ok THEN "ok" ELSE "failed"
                 [] c_check # NoCheck /\ ((c_check = 1 /\ ~ok) \/ c_options["help"].has) -> "exit 0"
                 [] OTHER -> IF ok THEN "ok" ELSE "exit 1"
(* parse_check() adds the option for the help before it parses. *)
WithHelp(argc) == IF argc = NoCheck \/ HasOption("help") THEN c_options
                  ELSE Added("help", Option("?", FALSE, FALSE, AnyText))

(* parse(argc, argv), up to its loop: without an argument, or with a letter that is *)
(* ambiguous, the parse has failed already.                                         *)
Begin(args, argc) ==
  /\ c_used' = [words |-> c_used.words + Len(args), calls |-> c_used.calls + 1]
  /\ c_used'.words <= MaxWords /\ c_used'.calls <= MaxParses
  /\ c_args' = args /\ c_check' = argc
  /\ c_options' = WithHelp(argc)
  /\ c_before' = c_options'
  /\ c_others' = << >> /\ c_i' = 2 /\ c_j' = 1
  /\ LET wrong == IF args = << >> THEN <<"no argument">> ELSE IF Ambiguous' THEN <<"ambiguous">> ELSE << >>
     IN c_errors' = wrong /\ c_result' = IF wrong = << >> THEN "parsing" ELSE Outcome(FALSE)'

MayParse == c_result \in {"idle", "threw", "ok", "failed"}

(* parse(argc, argv) and parse(vector), or parse_check() of them. *)
ParseWords == /\ MayParse
              /\ \E n \in 0..MaxWords : \E args \in [1..n -> Words] : \E argc \in {NoCheck, n} : Begin(args, argc)
(* parse(string), or parse_check(string).  A line that cannot be cut leaves the *)
(* errors and the rest of the call before; its error goes behind theirs.        *)
ParseLine == /\ MayParse
             /\ \E line \in Lines, argc \in {NoCheck, 0} :
                  LET cut == Cut(line) IN
                  IF ~cut.escaped /\ ~cut.in_quote THEN Begin(Args(cut), argc)
                  ELSE /\ c_used.calls < MaxParses /\ c_used' = [c_used EXCEPT !.calls = @ + 1]
                       /\ c_errors' = Append(c_errors, IF cut.escaped THEN "backslash" ELSE "quote")
                       /\ c_options' = WithHelp(argc) /\ c_check' = argc /\ c_result' = Outcome(FALSE)'
                       /\ c_args' = << >>
                       /\ UNCHANGED <<c_others, c_turn, c_before>>

-----------------------------------------------------------------------------
(* The loop over the words. *)
PlainWord == [form |-> "plain", name |-> "", letters |-> << >>]
FormOf(w) == IF w # << >> /\ w[1] \in DOMAIN Dashed THEN Dashed[w[1]] ELSE PlainWord
word == c_args[c_i]
HasNext == c_i < Len(c_args)
AtForm(form) == c_result = "parsing" /\ c_i <= Len(c_args) /\ FormOf(word).form = form

Wrong(what) == c_errors' = Append(c_errors, what) /\ UNCHANGED c_options
SetTo(n, v) == c_options' = [c_options EXCEPT ![n].has = TRUE, ![n].actual = v] /\ UNCHANGED c_errors

(* set_option(name) and set_option(name, value). *)
SetFlag(n) == IF ~HasOption(n) THEN Wrong("undefined option")
              ELSE IF c_options[n].valued THEN Wrong("needs value") ELSE SetTo(n, << >>)
AcceptsFlag(o, v) == Reads(o.reader, v)
Accepts(o, v) == o.valued /\ Reads(o.reader, v)
SetValue(n, v) == IF ~HasOption(n) THEN Wrong("undefined option")
                  ELSE IF Accepts(c_options[n], v) THEN SetTo(n, v) ELSE Wrong("invalid value")
NextWord(k) == c_i' = c_i + k /\ c_j' = 1
RestKept == UNCHANGED <<c_others, c_whole, c_result>>

(* --name=value *)
LongAssign == AtForm("assign") /\ SetValue(FormOf(word).name, Tail(word)) /\ NextWord(1) /\ RestKept
(* --name, with the next word, whatever it is, when the option has a value *)
LongOption == LET n == FormOf(word).name IN
        /\ AtForm("long") /\ RestKept
        /\ IF ~HasOption(n) \/ ~c_options[n].valued THEN SetFlag(n) /\ NextWord(1)
           ELSE IF HasNext THEN SetValue(n, c_args[c_i + 1]) /\ NextWord(2)
                           ELSE Wrong("needs value") /\ NextWord(1)
(* -abc: all letters but the last are flags; the last may take the next word. *)
Letter == FormOf(word).letters[c_j]
LastLetter   == c_j = Len(FormOf(word).letters)
ShortFlag == /\ AtForm("short") /\ FormOf(word).letters # << >> /\ ~LastLetter /\ RestKept
             /\ c_j' = c_j + 1 /\ UNCHANGED c_i
             /\ IF lookup(Letter) = {} THEN Wrong("undefined short")
                ELSE \E n \in lookup(Letter) : SetFlag(n)
LastTakesNext(o) == o.valued /\ HasNext
ShortLast == /\ AtForm("short") /\ FormOf(word).letters # << >> /\ LastLetter /\ RestKept
             /\ IF lookup(Letter) = {} THEN Wrong("undefined short") /\ NextWord(1)
                ELSE \E n \in lookup(Letter) :
                       IF LastTakesNext(c_options[n]) THEN SetValue(n, c_args[c_i + 1]) /\ NextWord(2)
                       ELSE SetFlag(n) /\ NextWord(1)
SingleDash == AtForm("short") /\ FormOf(word).letters = << >> /\ NextWord(1) /\ RestKept /\ UNCHANGED <<c_options, c_errors>>
OtherWord == /\ AtForm("plain") /\ NextWord(1)
         /\ c_others' = Append(c_others, word)
         /\ UNCHANGED <<c_options, c_errors, c_whole, c_result>>

(* After the loop: every option that must be there has a value. *)
NeedsOption == {n \in DOMAIN c_options : c_options[n].need /\ ~c_options[n].has}
EndParse == /\ c_result = "parsing" /\ c_i > Len(c_args)
          /\ c_errors' = c_errors \o [k \in 1..Cardinality(NeedsOption) |-> "need option"]
          /\ c_result' = Outcome(c_errors' = << >>)
          /\ UNCHANGED <<c_options, c_others, c_turn, c_whole>>

CmdlineNext == \/ \E n \in DOMAIN Declared : AddOption(n) \/ AddAgain(n)
               \/ ParseWords \/ ParseLine
               \/ LongAssign \/ LongOption \/ ShortFlag \/ ShortLast \/ SingleDash \/ OtherWord \/ EndParse

-----------------------------------------------------------------------------
(* Properties *)

(* What a command line means, without the loop.  The words in said speak for  *)
(* themselves; each other is the value of the word before it, which takes one.  *)
Named(c) == {n \in DOMAIN c_before : c_before[n].short = c /\ c # ""}
TakesValue(w) == LET f == FormOf(w) IN
  \/ f.form = "long" /\ f.name \in DOMAIN c_before /\ c_before[f.name].valued
  \/ f.form = "short" /\ f.letters # << >> /\ \E n \in Named(f.letters[Len(f.letters)]) : c_before[n].valued
Speaking(said) == \A i \in 2..Len(c_args) : i \in said <=> ~(i - 1 \in said /\ TakesValue(c_args[i - 1]))
Letters(i) == 1..(IF FormOf(c_args[i]).form = "short" THEN Len(FormOf(c_args[i]).letters) ELSE 1)
(* Word i, or its letter j, gives option n the value ValueOf(i, n). *)
ValueOf(i, n) == CASE FormOf(c_args[i]).form = "assign" -> Tail(c_args[i])
                   [] FormOf(c_args[i]).form # "assign" /\ c_before[n].valued -> c_args[i + 1]
                   [] OTHER -> << >>
Gives(i, j, n) ==
  LET f == FormOf(c_args[i])
      o == c_before[n]
      last == i < Len(c_args) /\ j = Len(f.letters)
  IN /\ \/ f.form = "assign" /\ f.name = n /\ o.valued
        \/ f.form = "long" /\ f.name = n /\ (o.valued => i < Len(c_args))
        \/ f.form = "short" /\ n \in Named(f.letters[j]) /\ (o.valued => last)
     /\ o.valued => Reads(o.reader, ValueOf(i, n))
Plain(i) == FormOf(c_args[i]).form = "plain"
Understood(i) == Plain(i) \/ \A j \in Letters(i) : \E n \in DOMAIN c_before : Gives(i, j, n)

(* The help was asked for in a parse_check(). *)
Asked == c_check # NoCheck /\ c_options["help"].has

(* A parse gives every option the value of the last word that names it rightly,  *)
(* or leaves what earlier calls gave it; rest() is the other words in their      *)
(* order; and it succeeds when every word is understood and every option that is *)
(* needed has been given, by this call or an earlier one.  parse_check() comes   *)
(* back only from such a line, and only if the help was not asked for; it never  *)
(* comes back from one without words, that cannot be cut or is ambiguous.        *)
ParseMeaning ==
  /\ c_result = "ok" => c_i > Len(c_args) /\ c_args # << >> /\ ~Ambiguous
  /\ c_result \in {"ok", "failed", "exit 0", "exit 1"} /\ c_i > Len(c_args) /\ c_args # << >> /\ ~Ambiguous =>
       \E said \in SUBSET (2..Len(c_args)) :
         /\ Speaking(said) /\ DOMAIN c_options = DOMAIN c_before
         /\ \A n \in DOMAIN c_before :
              LET given == {i \in said : \E j \in Letters(i) : Gives(i, j, n)}
              IN \/ given = {} /\ c_options[n] = c_before[n]
                 \/ \E i \in given : /\ \A k \in given : k <= i
                                     /\ c_options[n].has /\ c_options[n].actual = ValueOf(i, n)
         /\ \E at \in [1..Len(c_others) -> {i \in said : Plain(i)}] :
              /\ \A k \in 1..Len(c_others) : c_others[k] = c_args[at[k]]
              /\ \A k, m \in 1..Len(c_others) : k < m => at[k] < at[m]
              /\ \A i \in said : Plain(i) => \E k \in 1..Len(c_others) : at[k] = i
         /\ LET right == /\ \A i \in said : Understood(i)
                         /\ \A n \in DOMAIN c_options : c_options[n].need => c_options[n].has
            IN /\ c_result = "ok" <=> right /\ ~Asked
               /\ c_result = "failed" => c_check = NoCheck /\ ~right
               /\ c_result = "exit 1" => ~Asked

(* A line of quoted words with their quotes and backslashes escaped is cut into  *)
(* these words again, the last of them not being empty.                          *)
Quoted(w) == <<Quote>> \o FlattenSeq([i \in DOMAIN w |-> IF w[i] \in {Quote, Escape} THEN <<Escape, w[i]>> ELSE <<w[i]>>])
             \o <<Quote>>
QuotedLine ==
  c_used.calls = 0 /\ DOMAIN c_options = DOMAIN Declared =>
    \A n \in 1..3 : \A ws \in [1..n -> Words \cup {<< >>, <<Blank>>, <<Quote, Escape>>}] :
      ws[n] # << >> => Args(Cut(FlattenSeq([i \in 1..n |-> IF i = 1 THEN Quoted(ws[i]) ELSE <<Blank>> \o Quoted(ws[i])]))) = ws
=============================================================================
