------------------------------- MODULE MC_Cache -------------------------------
EXTENDS Cache

CONSTANT NULLV

\* two registered nodes: different URL lengths, one whitelisted
NA == [capacity |-> 1, index |-> 0, deposit |-> 10, props |-> 1, address |-> 1,
       url |-> <<104>>, whitelisted |-> FALSE]
NB == [capacity |-> 2, index |-> 1, deposit |-> 20, props |-> 3, address |-> 2,
       url |-> <<104, 105>>, whitelisted |-> TRUE]
W0 == [rc |-> 0, rt |-> 0, bl |-> 0]
W1 == [rc |-> 3, rt |-> 40, bl |-> 86400]

\* registry contract 5, whitelist contract 7, boot node NA, no whitelist yet
MCBoot == [contract |-> 5, last_block |-> 0, nodes |-> <<NA>>, weights |-> <<W0>>,
           needsUpdate |-> TRUE, wlContract |-> 7, wlLastBlock |-> 0,
           whitelist |-> NULLV]

\* an empty, a one-node and a two-node list; no, an empty, a one- and a
\* two-address whitelist
MCChains ==
  {[MCBoot EXCEPT !.last_block = lb, !.nodes = nw[1], !.weights = nw[2],
                  !.needsUpdate = FALSE, !.whitelist = wl] :
     lb \in {0, 9},
     nw \in {<<<<>>, <<>>>>, <<<<NA>>, <<W1>>>>, <<<<NA, NB>>, <<W0, W1>>>>},
     wl \in {NULLV, <<>>, <<1>>, <<1, 2>>}}

\* no entry, or one an older client wrote with version 2
MCOldEntries == {NULLV, <<2, 0, 0, 0>>}
====
