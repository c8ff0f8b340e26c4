---------------------------- MODULE MCTokenDoor ----------------------------
(* The broker's doors, and the budgets of the run ledger in enforce mode,  *)
(* each on a small instance of its own.  A behaviour moves one of them.    *)
EXTENDS TokenDoor, LedgerBudget, TLC

VARIABLE part

Token(jti, typ, sub, client, cnf, act, exp) ==
  [jti |-> jti, typ |-> typ, sub |-> sub, client |-> client, cnf |-> cnf, act |-> act, iat |-> 1, exp |-> exp]
own == Token("ta", "at+jwt", "agent1", "agent1", "k1", <<>>, 2)
chained == Token("td", "jwt", "user", None, "k1", <<"agent1">>, 3)
access == Token("tx", "jwt", "user", "c", None, <<"agent1">>, 6)
bound == Token("tb", "jwt", "user", "c", "k1", <<"agent1">>, 3)
circular == Token("tc", "jwt", "user", None, "k1", <<"agent1", "user">>, 3)
MCCredentials == {own, chained, access, bound, circular}

Proof(jti, jkt, iat, ath) == [jti |-> jti, jkt |-> jkt, iat |-> iat, ath |-> ath, fits |-> TRUE]
forOwn == Proof("p1", "k1", 1, "ta")
forAny == Proof("p2", "k1", 2, None)
client == Proof("p3", "kc", 1, None)
MCProofs == {forOwn, forAny, client}

Req(cred, token, proof, key) == [cred |-> cred, token |-> token, proof |-> proof, key |-> key, declared |-> <<>>]

AtAgents == {Req("dpop", own, forOwn, None), Req("bearer", access, None, None)}
AtChains == {Req("dpop", chained, forAny, "s"), Req("bearer", access, None, None)}
AtDoors ==
  {Req("dpop", own, forOwn, None), Req("dpop", own, forOwn, "s"), Req("dpop", circular, forAny, "s"),
   Req("dpop", chained, forAny, "s"), Req("dpop", chained, forOwn, "s"), Req("bearer", access, None, "s"),
   Req("bearer", access, None, None), Req("bearer", bound, None, None),
   Req("none", None, client, None), Req("none", None, None, "s"), Req("none", None, None, None)}
MCRequests == AtAgents \cup AtChains \cup AtDoors

Config(asked, feed, open, clients, keys, listing, xaa, callers) ==
  [mode |-> asked, feed |-> feed, open |-> open, clients |-> clients, keys |-> keys, listed |-> listing,
   require_proof |-> FALSE, xaa |-> xaa, callers |-> callers]
MCConfigs ==
  {Config("accept", TRUE, FALSE, {}, {"s"}, {}, TRUE, AtAgents),
   Config("off", TRUE, FALSE, {}, {"s"}, {}, TRUE, AtChains),
   Config("off", TRUE, TRUE, {}, {"s"}, {}, TRUE, AtChains),
   Config("require", FALSE, FALSE, {"kc", "k1"}, {"s"}, {"s"}, FALSE, AtDoors),
   Config("accept", FALSE, FALSE, {}, {"s"}, {}, FALSE, AtDoors),
   Config("off", FALSE, FALSE, {"kc"}, {}, {}, TRUE, AtDoors)}

MCEntries ==
  {[jti |-> "ta", subject |-> None, issued_before |-> 0, expires |-> 3],
   [jti |-> None, subject |-> "agent1", issued_before |-> 1, expires |-> 0]}

DoorsInit ==
  /\ part \in {"door", "budget"}
  /\ DoorInit /\ BudgetInit
  /\ part # "door" => config = CHOOSE f \in Configs : f.mode = "require"

DoorsNext ==
  \/ part = "door" /\ DoorNext /\ UNCHANGED <<part, bvars>>
  \/ part = "budget" /\ BudgetNext /\ UNCHANGED <<part, doorvars>>

DoorsSpec == DoorsInit /\ [][DoorsNext]_<<part, doorvars, bvars>>

(* No definition of LedgerBudget tells one run from another. *)
Symmetry == Permutations(Runs)
=============================================================================
