------------------------------ MODULE MCTools ------------------------------
(* What stands between an agent and a tool: the taint firewall, the MCP    *)
(* broker and the policy hook, each on a small instance of its own.  A     *)
(* behaviour moves one of them.                                            *)
EXTENDS Taint, McpBroker, Wardryx, FrontDoor

VARIABLE part

MCBlockTool == [b1 |-> "search", b2 |-> "search", b3 |-> "wiki", anon |-> "search"]
MCSources == [search |-> {"web"}, wiki |-> {"memory"}, vault |-> {"secrets"}, post |-> {"sent"}]
MCCapabilities == [shell |-> "exec", post |-> "network_egress", search |-> "network_read"]
MCOperatorRules ==
  {[name |-> "mine", when_any |-> {"web"}, deny |-> {"exec"}],
   [name |-> "read-tool-carries-data", when_any |-> {"memory"}, deny |-> {"network_read"}]}
MCAnswers ==
  {[provider |-> {}, tools |-> {"shell"}, loaded |-> FALSE],
   [provider |-> {"search"}, tools |-> {"post"}, loaded |-> FALSE],
   [provider |-> {}, tools |-> {"search"}, loaded |-> TRUE]}
MCRequests ==
  {[run |-> "r", parent |-> NoRun, blocks |-> h] : h \in {{"b1"}, {"b1", "b2"}, {"b3", "anon"}}}
  \cup {[run |-> "r", parent |-> "p", blocks |-> {}], [run |-> "p", parent |-> "g", blocks |-> {}]}
MCActs == {[run |-> "g", labels |-> {"web"}], [run |-> "r", labels |-> {"secrets"}]}
MCClearances ==
  {[run |-> "r", ids |-> {}, labels |-> {"web", "secrets"}],
   [run |-> "r", ids |-> {"b1"}, labels |-> {"web", "memory"}],
   [run |-> "g", ids |-> {}, labels |-> {"web"}]}

Msg(method, tool, upstream, run, agent, principal, secret, notification) ==
  [method |-> method, tool |-> tool, upstream |-> upstream, run |-> run, agent |-> agent,
   principal |-> principal, secret |-> secret, notification |-> notification]

MCMessages ==
  {Msg("initialize", None, "u", None, None, "alice", None, FALSE),
   Msg("tools/list", None, "u", None, None, "alice", None, FALSE),
   Msg("tools/call", "t1", "u", "r", "a", "alice", "s", FALSE),
   Msg("tools/call", "t1", "w", "r", "a", "bob", None, FALSE),
   Msg("tools/call", "t2", "w", None, "a", "bob", None, TRUE)}
MCEnforcedMessages ==
  {Msg("tools/list", None, "u", None, None, "alice", None, FALSE),
   Msg("tools/call", "t1", "u", "r", "a", "alice", "s", FALSE),
   Msg("tools/call", "t2", "u", "r", "a", "alice", "s", FALSE),
   Msg("tools/call", "t1", "u", "r", None, "alice", None, FALSE),
   Msg("tools/call", "t1", "w", "r", "a", "bob", None, FALSE)}
MCUngovernedMessages ==
  {Msg("tools/list", None, "u", None, None, "alice", None, FALSE),
   Msg("tools/call", "t1", "u", "r", None, "alice", None, FALSE),
   Msg("tools/call", "t2", "u", "r", "a", "alice", "s", FALSE),
   Msg("tools/call", "t1", "w", "r", "a", "bob", None, FALSE),
   Msg("tools/call", "t1", "w", "r", "a", "bob", None, TRUE)}
Setup(policy, closed, scan, governed, messages, most) ==
  [policy |-> policy, closed |-> closed, scan |-> scan, governed |-> governed,
   messages |-> messages, most |-> most]
MCSetups ==
  {Setup("Shadow", FALSE, "Block", TRUE, MCMessages, 3),
   Setup("Enforce", TRUE, "Block", TRUE, MCEnforcedMessages, 2),
   Setup("Shadow", FALSE, "Warn", FALSE, MCUngovernedMessages, 2),
   Setup("Off", TRUE, "Warn", FALSE, MCUngovernedMessages, 2)}
MCListings == [u |-> {{"t1"}, {"t2"}}, w |-> {{"t1"}}]
MCScoped == {[secret |-> "s", agent |-> "a", tool |-> "t1"]}

MCQuestions ==
  {[agent |-> "a", tools |-> {"t"}, attested |-> TRUE, proven |-> TRUE, steps |-> 0],
   [agent |-> "a", tools |-> {"t"}, attested |-> FALSE, proven |-> TRUE, steps |-> 0],
   [agent |-> "a", tools |-> {"t"}, attested |-> TRUE, proven |-> TRUE, steps |-> 1]}
MCFilters == {[agent |-> "a", tools |-> {"t", "v"}]}
Rule(tools, unless, decision) == [tools |-> tools, unless |-> unless, decision |-> decision]
MCPolicies ==
  <<{Rule({"t"}, "attested", "deny"), Rule({"v"}, "never", "deny")},
    {Rule({"t"}, "steps", "hold")}>>

Sends(fuse, own, token, agent, leaf, run, parent) ==
  [fuse |-> fuse, own |-> own, token |-> token, agent |-> agent, leaf |-> leaf, run |-> run, parent |-> parent]
Bot == <<"ops", "bot">>
Lab == <<"lab", "x">>
MCClientKeys == [sa |-> <<"ka">>, sb |-> <<"kb">>, sc |-> <<"kc">>]
MCBindings ==
  <<"ka">> :> [unit |-> "ops", agents |-> {[text |-> <<"ops">>, star |-> TRUE]}, may_parent |-> {<<"kc">>}]
  @@ <<"kb">> :> [unit |-> "lab", agents |-> {}, may_parent |-> {}]
MCPrefixes ==
  <<[pattern |-> [text |-> <<"ops">>, star |-> TRUE], unit |-> "ops"],
    [pattern |-> [text |-> Lab, star |-> FALSE], unit |-> "lab"]>>
TokenFor(unit) == [subject |-> Bot, unit |-> unit]

MCSpenders ==
  {Sends("sa", Nothing, Nothing, Bot, Nothing, "r1", "r2"),
   Sends("sa", Nothing, Nothing, Bot, Lab, "r1", Nothing),
   Sends("sa", Nothing, Nothing, Bot, Nothing, "r1", Nothing),
   Sends("sb", Nothing, Nothing, Lab, Nothing, "r2", Nothing),
   Sends("sb", Nothing, Nothing, Bot, Nothing, "r3", "r1"),
   Sends("sc", Nothing, Nothing, Lab, Nothing, "r3", "r1")}
MCRenamers ==
  {Sends("sc", Nothing, Nothing, a, Nothing, "r1", Nothing) : a \in {Bot, Lab, <<"else">>}}
  \cup {Sends("sa", Nothing, Nothing, a, Nothing, "r2", Nothing) : a \in {Bot, Lab, <<>>}}
  \cup {Sends(Nothing, Nothing, TokenFor(u), a, Nothing, "r3", Nothing) : u \in {"ops", "lab"}, a \in {Bot, <<>>}}
MCScanners ==
  {Sends(Nothing, Nothing, Nothing, <<>>, Nothing, "r1", Nothing),
   Sends("guess", Nothing, Nothing, <<>>, Nothing, "r1", Nothing),
   Sends("guess", Nothing, Nothing, Bot, Nothing, "r1", Nothing),
   Sends(Nothing, "theirs", Nothing, <<>>, Nothing, "r1", Nothing),
   Sends(Nothing, "sa", Nothing, Bot, Nothing, "r1", Nothing),
   Sends("sb", Nothing, Nothing, Bot, Nothing, "r1", Nothing)}
MCArrivals == MCSpenders \cup MCRenamers \cup MCScanners
MCDoors ==
  {[auth |-> TRUE, brokers |-> FALSE, require |-> FALSE, listed |-> {}, strict |-> "Off", senders |-> MCSpenders,
    arrivals |-> 3, moment |-> 2],
   [auth |-> TRUE, brokers |-> FALSE, require |-> FALSE, listed |-> {}, strict |-> "Warn", senders |-> MCRenamers,
    arrivals |-> 2, moment |-> 2],
   [auth |-> TRUE, brokers |-> FALSE, require |-> FALSE, listed |-> {}, strict |-> "Enforce", senders |-> MCRenamers,
    arrivals |-> 2, moment |-> 2],
   [auth |-> FALSE, brokers |-> FALSE, require |-> FALSE, listed |-> {}, strict |-> "Enforce", senders |-> MCRenamers,
    arrivals |-> 2, moment |-> 2],
   [auth |-> TRUE, brokers |-> TRUE, require |-> TRUE, listed |-> {<<"ka">>}, strict |-> "Enforce", senders |-> MCScanners,
    arrivals |-> 5, moment |-> 4]}

ToolsInit ==
  /\ part \in {"taint", "broker", "wardryx", "front"}
  /\ TaintInit /\ BrokerInit /\ WardryxInit
  /\ part # "broker" => setup = (CHOOSE c \in Setups : TRUE)
  /\ IF part = "front" THEN FrontInit
     ELSE FrontInit /\ door = (CHOOSE d \in Doors : TRUE)

ToolsNext ==
  \/ part = "taint" /\ TaintNext /\ UNCHANGED <<part, brokervars, wardryxvars, frontvars>>
  \/ part = "broker" /\ BrokerNext /\ UNCHANGED <<part, taintvars, wardryxvars, frontvars>>
  \/ part = "wardryx" /\ WardryxNext /\ UNCHANGED <<part, taintvars, brokervars, frontvars>>
  \/ part = "front" /\ FrontNext /\ UNCHANGED <<part, taintvars, brokervars, wardryxvars>>

ToolsSpec == ToolsInit /\ [][ToolsNext]_<<part, taintvars, brokervars, wardryxvars, frontvars>>
=============================================================================
