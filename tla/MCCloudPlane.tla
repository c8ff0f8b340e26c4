---------------------------- MODULE MCCloudPlane ----------------------------
(* CloudPlane on a small instance: three runs for two places, a claim that *)
(* is refused, a late record, a negative cost and a stopped run.          *)
EXTENDS CloudPlane

Rec(run, agent, key, unit, decision, cost, model, basis, ts) ==
  [run |-> run, agent |-> agent, key |-> key, unit |-> unit, decision |-> decision,
   cost |-> cost, model |-> model, basis |-> basis, ts |-> ts]

MCKeyBuckets == [key \in {"k"} |-> "key:k"]

Late == Rec("a", "ann", "k", None, "allow", 1, "m2", "fallback", 1)
Call == Rec("a", "ann", "k", "u1", "allow", 2, "m1", "known", 2)

MCPushes ==
  {[site |-> "s1", records |-> <<Call>>],
   [site |-> "s2", records |-> <<Call, Late>>],
   [site |-> "s1", records |-> <<Rec("a", "bob", "k", None, IDENTITY_REFUSAL, 0, None, "known", 2)>>],
   [site |-> None, records |-> <<Rec("b", "bob", "k", "u2", "budget_exceeded", 3, "m1", "known", 2)>>],
   [site |-> "s2", records |-> <<Rec("c", "cat", None, "u1", "killed", -1, "m3", "known", 1)>>]}
=============================================================================
