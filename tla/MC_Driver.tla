------------------------------- MODULE MC_Driver -------------------------------
EXTENDS Driver

CONSTANTS root, s1, s2, s3, s4, mA, mB, mC, NULLV

MCSubs == {s1, s2, s3, s4}
MCSubMethods == {mA, mB, mC}
\* mC is a signing method: its required context is CT_SIGN
MCSignMethods == {mC}
\* what the root's verifier may ask for: nothing, one RPC, two RPCs (the
\* second picks after the first announced a list), a signature, an RPC and
\* a signature, all three (with an in3_nodeList, four required contexts)
MCRootNeeds == {{}, {mA}, {mA, mB}, {mC}, {mA, mC}, {mA, mB, mC}}

\* a client with node list block 5 and a whitelist at block 3, either
\* loaded from the cache or still on its boot list
MCChainBoot ==
  {[first |-> f, lastBlock |-> 5, upd8 |-> NULLV,
    wl |-> [lastBlock |-> 3, needsUpdate |-> FALSE]] : f \in BOOLEAN}

\* in3 sections: none; a list from the future (ignored); a newer list 0
\* blocks old (replace_latest_block 6: the wait capped at 3600); a newer
\* list 6 blocks old (wait 0) with a newer whitelist
MCIn3s ==
  {[lnl |-> 0, cur |-> 0, lwl |-> 0],
   [lnl |-> 10, cur |-> 8, lwl |-> 0],
   [lnl |-> 10, cur |-> 10, lwl |-> 0],
   [lnl |-> 10, cur |-> 16, lwl |-> 7]}
====
