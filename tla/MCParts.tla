-------------------------------- MODULE MCParts --------------------------------
(* The parts of the repository that have no state in common with each other, *)
(* for TLC: a behaviour chooses one part and stays with it, the others keep  *)
(* their initial states.  The state graph is the sum of the parts' graphs.   *)
EXTENDS Cmdline, NetUrl, RedisClient, MongoClient, BufferPool, MessageQueue, Lifetime, Robots,
        LockFreeTest, MCTcpParser

VARIABLE part

Init == /\ part \in {"cmdline", "neturl", "redis", "mongo", "buffers", "messages", "lifetime", "robots",
                     "lockfree_test", "parser"}
        /\ CmdlineInit /\ UrlInit /\ RedisInit /\ MongoInit
        /\ BufferInit /\ MessageInit /\ LifeInit /\ RobotsInit
        /\ TestInit /\ ParserInit
        /\ part # "parser" => stream = StreamOf(2, 4, 1)

Part(p) == part = p /\ UNCHANGED part

Next ==
  \/ Part("cmdline") /\ CmdlineNext
       /\ UNCHANGED <<u_vars, r_vars, m_vars, b_vars, q_vars, l_vars, e_vars, t_vars, parser_vars>>
  \/ Part("neturl") /\ UrlNext
       /\ UNCHANGED <<c_vars, r_vars, m_vars, b_vars, q_vars, l_vars, e_vars, t_vars, parser_vars>>
  \/ Part("redis") /\ RedisNext
       /\ UNCHANGED <<c_vars, u_vars, m_vars, b_vars, q_vars, l_vars, e_vars, t_vars, parser_vars>>
  \/ Part("mongo") /\ MongoNext
       /\ UNCHANGED <<c_vars, u_vars, r_vars, b_vars, q_vars, l_vars, e_vars, t_vars, parser_vars>>
  \/ Part("buffers") /\ BufferNext
       /\ UNCHANGED <<c_vars, u_vars, r_vars, m_vars, q_vars, l_vars, e_vars, t_vars, parser_vars>>
  \/ Part("messages") /\ MessageNext
       /\ UNCHANGED <<c_vars, u_vars, r_vars, m_vars, b_vars, l_vars, e_vars, t_vars, parser_vars>>
  \/ Part("lifetime") /\ LifeNext
       /\ UNCHANGED <<c_vars, u_vars, r_vars, m_vars, b_vars, q_vars, e_vars, t_vars, parser_vars>>
  \/ Part("robots") /\ RobotsNext
       /\ UNCHANGED <<c_vars, u_vars, r_vars, m_vars, b_vars, q_vars, l_vars, t_vars, parser_vars>>
  \/ Part("lockfree_test") /\ TestNext
       /\ UNCHANGED <<c_vars, u_vars, r_vars, m_vars, b_vars, q_vars, l_vars, e_vars, parser_vars>>
  \/ Part("parser") /\ ParserNext
       /\ UNCHANGED <<c_vars, u_vars, r_vars, m_vars, b_vars, q_vars, l_vars, e_vars, t_vars>>

vars == <<part, c_vars, u_vars, r_vars, m_vars, b_vars, q_vars, l_vars, e_vars, t_vars,
          parser_vars>>
Spec == Init /\ [][Next]_vars

-----------------------------------------------------------------------------
(* The options, words and lines of Cmdline. *)
MCNumbers == [p \in {"5", "7", "50"} |-> CASE p = "5" -> 5 [] p = "7" -> 7 [] p = "50" -> 50]
MCDeclared == [n \in {"num", "str", "verbose", "very"} |->
  CASE n = "num"     -> {Option("n", TRUE, TRUE, Within(1, 9)), Option("n", TRUE, FALSE, OneOf({5, 50})),
                         Option("n", TRUE, FALSE, NumberText)}
    [] n = "str"     -> {Option("s", TRUE, FALSE, AnyText)}
    [] n = "verbose" -> {Option("v", FALSE, FALSE, AnyText)}
    [] n = "very"    -> {Option("v", FALSE, FALSE, AnyText)}]
Dash(form, name, letters) == [form |-> form, name |-> name, letters |-> letters]
MCDashed == [p \in {"--num", "--num=", "--verbose", "--verbose=", "-vs", "-"} |->
  CASE p = "--num"      -> Dash("long", "num", << >>)
    [] p = "--num="     -> Dash("assign", "num", << >>)
    [] p = "--verbose"  -> Dash("long", "verbose", << >>)
    [] p = "--verbose=" -> Dash("assign", "verbose", << >>)
    [] p = "-vs"        -> Dash("short", "", <<"v", "s">>)
    [] p = "-"          -> Dash("short", "", << >>)]
MCWords == {<<"prog">>, <<"--num">>, <<"--num=", "5">>, <<"--num=", "7">>, <<"--verbose">>, <<"--verbose=", "5">>,
            <<"-vs">>, <<"-">>, <<"5">>, <<"50">>}
MCLines == {<<"prog", Blank, "--num", Blank, Quote, "5", Quote>>, <<"prog", Blank, Blank, "-vs">>,
            <<"prog", Escape, Blank, "x">>, <<"prog", Escape>>, <<Quote, "prog">>}

(* The texts of NetUrl: to parse, with a port, without one, with a port beyond *)
(* 16 bits, '=' missing or in a value, nothing where something belongs; to make *)
(* a url of, a name, and texts with the marks in them.                          *)
MCNumerals == [t \in {"80", "65616", "65536"} |-> CASE t = "80" -> 80 [] t = "65616" -> 65616 [] t = "65536" -> 65536]
MCUrls == {<<"tcp", "://", "a", ":", "80", "?", "k", "=", "v", "&", "j", "=", "w", "=", "x">>,
           <<"tcp", "://", "a", ":", "65616", "?", "k", "&", "j", "=", "v">>,
           <<"tcp", "://", "a", ":", "b">>, <<"tcp", "://", "?", "&", "k", "=", "v">>,
           <<"a", ":", "80">>, <<"://", "a", ":", "?", "k">>, <<"tcp", "://", ":", "65536", ":", "80", "?">>}
MCTexts == {<<"k">>, <<"a", "=", "b">>, <<":", "?">>, <<"://", "&">>}
=============================================================================
