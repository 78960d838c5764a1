-------------------------------- MODULE Cache --------------------------------
(***************************************************************************)
(* Persistence of a chain's node list and whitelist                         *)
(* (src/src/core/client/cache.c) across restarts of the client.           *)
(* The client stores the chain under a key derived from a contract        *)
(* address; after a restart in3_cache_init loads both entries back into   *)
(* the boot configuration. The buffers are modelled byte by byte, since   *)
(* what goes wrong is the layout: a field read at another offset than it  *)
(* was written.                                                            *)
(* The byte builder and reader (bytes.c) are not in this tree: integers   *)
(* are written big-endian, strings NUL-terminated, as in the spec's       *)
(* record layout; the weight struct is copied raw both ways.              *)
(***************************************************************************)
EXTENDS Integers, Sequences, SequencesExt

CONSTANTS
  Chains,       \* chain states the client can reach (node list, weights, whitelist)
  Boot,         \* the chain as the client configuration creates it
  OldEntries,   \* cache entries written by an older CACHE_VERSION
  NULL

CACHE_VERSION == 3

VARIABLES
  chain,    \* the in-memory in3_chain_t
  store,    \* the cache's key -> bytes map (NULL = no entry)
  phase,    \* "running", or "booting" between a restart and in3_cache_init
  savedNL,  \* history: the chain at the last in3_cache_store_nodelist
  savedWL,  \* history: the chain at the last in3_cache_store_whitelist
  nlRet,    \* what the last in3_cache_update_nodelist returned
  ub        \* "none", or the reader that read past the cached buffer

vars == <<chain, store, phase, savedNL, savedWL, nlRet, ub>>

-----------------------------------------------------------------------------
(* Byte encoding (bytes.c).                                                *)
\* mutant: the bytes of a value written without the 0xFF mask
EncUnmasked(v, w) == [i \in 1..w |-> IF w - i >= 3 THEN 0 ELSE v \div (256 ^ (w - i))]
\* values in the model are below 2^24: higher bytes are zero
Enc(v, w) == [i \in 1..w |-> IF w - i >= 3 THEN 0 ELSE (v \div (256 ^ (w - i))) % 256]
\* a value read from bytes no written field put there is WIDE when it does
\* not fit the model's integers (it is never a value the chain held)
WIDE == -2
Dec(s) == IF \E i \in 1..(Len(s) - 3) : s[i] # 0 THEN WIDE
          ELSE FoldLeft(LAMBDA acc, b : acc * 256 + b, 0, s)
Addr(a) == IF a = NULL THEN Enc(0, 20) ELSE Enc(a, 20)

\* in3_node_weight_t, copied raw: response_count, total_response_time,
\* blacklisted_until
WEIGHT_SIZE == 16
EncWeight(wt) == Enc(wt.rc, 4) \o Enc(wt.rt, 4) \o Enc(wt.bl, 8)
DecWeight(s) == [rc |-> Dec(SubSeq(s, 1, 4)), rt |-> Dec(SubSeq(s, 5, 8)),
                 bl |-> Dec(SubSeq(s, 9, 16))]

(* A reader is [buf, p, oob]: b_read_* advance p without a bounds check.  *)
Bytes(r, w) == IF r.p + w <= Len(r.buf) THEN SubSeq(r.buf, r.p + 1, r.p + w)
               ELSE Enc(0, w)
Skip(r, w) == [r EXCEPT !.p = @ + w, !.oob = @ \/ r.p + w > Len(r.buf)]

\* b_new_chars: strlen from p, copy with the terminator
RECURSIVE StrEnd(_, _)
StrEnd(buf, i) == IF i > Len(buf) \/ buf[i] = 0 THEN i ELSE StrEnd(buf, i + 1)

-----------------------------------------------------------------------------
(* The key: "nodelist_<chain_id>" or "nodelist_<chain_id>_0x<contract>";   *)
(* one chain is modelled, so the contract (or NULL) is the key.           *)
write_cache_key(contract) == contract

\* one node's record in in3_cache_store_nodelist
EncNode(n) ==
  Enc(n.capacity, 4) \o Enc(n.index, 4) \o Enc(n.deposit, 8) \o Enc(n.props, 8)
    \o Addr(n.address) \o n.url \o <<0>> \o <<IF n.whitelisted THEN 1 ELSE 0>>

\* mutant: the raw weights not written
EncodeNodelistNoWeights(c) ==
  <<CACHE_VERSION>> \o Addr(c.contract) \o Enc(c.last_block, 8)
    \o Enc(Len(c.nodes), 4)
    \o FlattenSeq([i \in DOMAIN c.nodes |-> EncNode(c.nodes[i])])
\* in3_cache_store_nodelist: the record behind the key
EncodeNodelist(c) ==
  <<CACHE_VERSION>> \o Addr(c.contract) \o Enc(c.last_block, 8)
    \o Enc(Len(c.nodes), 4)
    \o FlattenSeq([i \in DOMAIN c.weights |-> EncWeight(c.weights[i])])
    \o FlattenSeq([i \in DOMAIN c.nodes |-> EncNode(c.nodes[i])])

\* in3_cache_store_whitelist
EncodeWhitelist(c) ==
  <<CACHE_VERSION>> \o Addr(c.wlContract)
    \o IF c.whitelist = NULL THEN <<>>
       ELSE Enc(Len(c.whitelist), 4)
              \o FlattenSeq([i \in DOMAIN c.whitelist |-> Addr(c.whitelist[i])])

\* the per-node loop of in3_cache_update_nodelist; returns <<reader, nodes>>
RECURSIVE ReadNodes(_, _)
ReadNodes(r, k) ==
  IF k = 0 THEN <<r, <<>>>>
  ELSE
  LET r1 == Skip(r, 44)
      e  == StrEnd(r.buf, r1.p + 1)
      n  == [capacity |-> Dec(Bytes(r, 4)), index |-> Dec(Bytes(Skip(r, 4), 4)),
             deposit |-> Dec(Bytes(Skip(r, 8), 8)),
             props |-> Dec(Bytes(Skip(r, 16), 8)),
             address |-> Dec(Bytes(Skip(r, 24), 20)),
             url |-> SubSeq(r.buf, r1.p + 1, e - 1),
             whitelisted |-> Bytes(Skip(r1, e - r1.p), 1) # <<0>>]
      rest == ReadNodes(Skip(r1, e - r1.p + 1), k - 1)
  IN <<rest[1], <<n>> \o rest[2]>>

(***************************************************************************)
(* in3_cache_update_nodelist: a missing entry leaves the chain alone (OK); *)
(* another version is dropped (IN3_EVERS); otherwise in3_nodelist_clear   *)
(* and the fields are read back in order, and IN3_EVERS is returned.      *)
(* Returns [c: chain, ret, oob].                                          *)
(***************************************************************************)
UpdateNodelist(c, st) ==
  LET b == st[write_cache_key(c.contract)] IN
  IF b = NULL THEN [c |-> c, ret |-> "ok", oob |-> FALSE]
  ELSE IF b[1] # CACHE_VERSION THEN [c |-> c, ret |-> "evers", oob |-> FALSE]
  ELSE
  LET r0 == [buf |-> b, p |-> 1, oob |-> FALSE]
      cnt == Dec(Bytes(Skip(r0, 28), 4))
      rw == Skip(r0, 32)
      rn == ReadNodes(Skip(rw, cnt * WEIGHT_SIZE), cnt)
  IN [c |-> [c EXCEPT
               !.contract = Dec(Bytes(r0, 20)),
               !.last_block = Dec(Bytes(Skip(r0, 20), 8)),
               !.weights = [i \in 1..cnt |->
                              DecWeight(Bytes(Skip(rw, (i - 1) * WEIGHT_SIZE),
                                              WEIGHT_SIZE))],
               !.nodes = rn[2],
               !.needsUpdate = FALSE],
      ret |-> "evers", oob |-> rn[1].oob]

(***************************************************************************)
(* in3_cache_update_whitelist: version, whitelist_last_block (8 bytes),   *)
(* whitelist_contract (20 bytes, dropped unless it is all zero), 20 more  *)
(* bytes skipped, the address count and the addresses.                    *)
(***************************************************************************)
UpdateWhitelist(c, st) ==
  LET b == st[write_cache_key(c.wlContract)] IN
  IF b = NULL THEN [c |-> c, oob |-> FALSE]
  ELSE IF b[1] # CACHE_VERSION THEN [c |-> c, oob |-> FALSE]
  ELSE
  LET r0 == [buf |-> b, p |-> 1, oob |-> FALSE]
      wc == Dec(Bytes(Skip(r0, 8), 20))
      rl == Skip(r0, 48)
      l  == Dec(Bytes(rl, 4))
      k  == IF l = WIDE THEN 0 ELSE l
      rd == Skip(rl, 4)
  IN [c |-> [c EXCEPT
               !.wlLastBlock = Dec(Bytes(r0, 8)),
               !.wlContract = IF wc = 0 THEN 0 ELSE NULL,
               !.whitelist = [i \in 1..k |-> Dec(Bytes(Skip(rd, 20 * (i - 1)), 20))]],
      oob |-> l = WIDE \/ Skip(rd, 20 * k).oob]

-----------------------------------------------------------------------------
Init ==
  /\ chain = Boot
  /\ store \in {[k \in {Boot.contract, Boot.wlContract} |-> e] : e \in OldEntries}
  /\ phase = "running"
  /\ savedNL = NULL /\ savedWL = NULL
  /\ nlRet = "none" /\ ub = "none"

\* execution, the node-list update or the whitelist update changes the
\* chain's lists; the configured contracts stay
Change(c) ==
  /\ phase = "running" /\ ub = "none"
  /\ chain' = [c EXCEPT !.contract = chain.contract, !.wlContract = chain.wlContract]
  /\ UNCHANGED <<store, phase, savedNL, savedWL, nlRet, ub>>

StoreNodelist ==
  /\ phase = "running" /\ ub = "none"
  /\ store' = (write_cache_key(chain.contract) :> EncodeNodelist(chain)) @@ store
  /\ savedNL' = chain
  /\ UNCHANGED <<chain, phase, savedWL, nlRet, ub>>

StoreWhitelist ==
  /\ phase = "running" /\ ub = "none"
  /\ store' = (write_cache_key(chain.wlContract) :> EncodeWhitelist(chain)) @@ store
  /\ savedWL' = chain
  /\ UNCHANGED <<chain, phase, savedNL, nlRet, ub>>

\* the process ends; a new client is created from the configuration
Restart ==
  /\ phase = "running" /\ ub = "none"
  /\ chain' = Boot /\ phase' = "booting"
  /\ UNCHANGED <<store, savedNL, savedWL, nlRet, ub>>

\* in3_cache_init: the node list, then the whitelist of the chain
CacheInit ==
  LET st == [k \in DOMAIN store \cup {chain.contract, chain.wlContract} |->
               IF k \in DOMAIN store THEN store[k] ELSE NULL]
      n == UpdateNodelist(chain, st)
      w == UpdateWhitelist(n.c, st)
  IN /\ phase = "booting" /\ ub = "none"
     /\ phase' = "running" /\ nlRet' = n.ret
     /\ CASE n.oob -> ub' = "oob_nodelist" /\ chain' = chain
           [] w.oob -> ub' = "oob_whitelist" /\ chain' = n.c
           [] OTHER -> ub' = "none" /\ chain' = w.c
     /\ UNCHANGED <<store, savedNL, savedWL>>

Next ==
  \/ \E c \in Chains : Change(c)
  \/ StoreNodelist \/ StoreWhitelist \/ Restart \/ CacheInit
  \/ ub # "none" /\ UNCHANGED vars

Spec == Init /\ [][Next]_vars

-----------------------------------------------------------------------------
NLPart(c) == [contract |-> c.contract, last_block |-> c.last_block,
              nodes |-> c.nodes, weights |-> c.weights]
WLPart(c) == [wlContract |-> c.wlContract, whitelist |-> c.whitelist]

TypeOK ==
  /\ phase \in {"running", "booting"}
  /\ \A k \in DOMAIN store : store[k] = NULL \/ store[k] \in Seq(0..255)
  /\ nlRet \in {"none", "ok", "evers"}
  /\ ub \in {"none", "oob_nodelist", "oob_whitelist"}
  /\ Len(chain.weights) = Len(chain.nodes)

(***************************************************************************)
(* Spec 8, cache round trip: after a restart, in3_cache_init restores the *)
(* node list, the weights, the last block and the contract exactly as     *)
(* in3_cache_store_nodelist last wrote them.                              *)
(***************************************************************************)
NodelistRoundTrip ==
  [][(phase = "booting" /\ phase' = "running" /\ savedNL # NULL)
       => /\ ub' # "oob_nodelist"
          /\ NLPart(chain') = NLPart(savedNL)]_vars

(***************************************************************************)
(* The whitelist shares the key schema and version discipline (spec 6):   *)
(* after a restart in3_cache_init reads the entry in3_cache_store_whitelist*)
(* wrote within its bounds and restores the whitelist contract and its    *)
(* addresses as they were stored.                                         *)
(***************************************************************************)
WhitelistRoundTrip ==
  [][(phase = "booting" /\ phase' = "running" /\ savedWL # NULL)
       => /\ ub' = "none"
          /\ WLPart(chain') = WLPart(savedWL)]_vars
====
