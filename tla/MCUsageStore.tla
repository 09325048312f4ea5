---------------------------- MODULE MCUsageStore ----------------------------
(* A codex session with one event that lacks a model and one that has it,  *)
(* and a Claude session with one event.                                    *)
EXTENDS UsageStore, TLC

CONSTANTS w1, w2

MCWorker == {w1, w2}
MCSymmetry == Permutations(MCWorker)

MCSrc == {"c1", "c2", "a1"}
MCSess == {"codex", "claude"}
MCCodexSess == {"codex"}
MCModel == {"gpt"}
MCSessOf == [r \in MCSrc |-> IF r = "a1" THEN "claude" ELSE "codex"]
MCTokOf == [r \in MCSrc |-> IF r = "c1" THEN 2 ELSE 1]
MCModelOf == [r \in MCSrc |-> IF r = "c1" THEN "" ELSE "gpt"]
MCCostOf == [r \in MCSrc |-> IF r = "c1" THEN 0 ELSE 1]
MCReprice == [r \in MCSrc |-> [m \in MCModel |-> IF r = "c1" THEN 3 ELSE 1]]
=============================================================================
