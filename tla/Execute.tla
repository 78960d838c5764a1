------------------------------- MODULE Execute -------------------------------
(***************************************************************************)
(* The request-execution state machine of the in3 client core             *)
(* (src/c/src/core/client/execute.c): in3_ctx_execute, the response       *)
(* matcher find_valid_result, blacklisting, retries and give-up, driven   *)
(* by an asynchronous host that owns several RPC contexts of ONE client.  *)
(* The contexts share the client's node weights (blacklisted_until and    *)
(* response statistics); everything else is per context.                  *)
(*                                                                         *)
(* One in3_ctx_execute call is one atomic action (the core is single-     *)
(* threaded and never blocks): the retry recursion, the trailing cache    *)
(* store and the auto-update check all happen inside it.                  *)
(***************************************************************************)
EXTENDS Naturals, Sequences, FiniteSets

CONSTANTS
  Ctxs,          \* RPC contexts alive on the client at once
  Nodes,         \* the chain's node list (model values)
  RequestCount,  \* in3_t.request_count: nodes picked per attempt
  MaxAttempts,   \* in3_t.max_attempts
  Failable,      \* contexts whose method is in3_nodeList (ctx_is_allowed_to_fail)
  PreHandle,     \* [Ctxs -> {"none","fail"} \cup Bodies]: the verifier's pre_handle
  Bodies,        \* the response bodies nodes may send (a subset of AllBodies)
  AutoUpdate,    \* FLAGS_AUTO_UPDATE_LIST is set
  CacheSet,      \* client->cache is set and the chain is not ETH_CHAIN_ID_LOCAL
  ClientSetups,  \* subset of {"ok", "nochain", "noverifier"}: whether the
                 \* client's chain_id names a configured chain with a verifier
  MethodChoices, \* subset of BOOLEAN: whether requests[0] has a method
  NULL

(***************************************************************************)
(* A body a node answers with (transport slot state IN3_OK), abstracted   *)
(* to what the matcher and the verifier tell apart:                       *)
(*   valid      result with a correct proof                               *)
(*   validList  valid, and its in3 section announces a newer node list    *)
(*   validSub   result whose proof the verifier can only check after a    *)
(*              sibling RPC (the verifier adds a required context)        *)
(*   badProof   result with a wrong proof                                 *)
(*   garbage    not parseable (parse_json returns NULL)                    *)
(*   badShape   parseable, but its result is neither an object nor an      *)
(*              array of one response (lines 282-296)                      *)
(*   errUser    no result; error message NOT starting with "Error:"      *)
(*   errServer  no result; error message starting with "Error:"          *)
(* "error" is a slot the transport marked IN3_ERPC, "waiting" one it has  *)
(* not filled yet.                                                        *)
(***************************************************************************)
AllBodies == {"valid", "validList", "validSub", "badProof", "garbage",
              "badShape", "errUser", "errServer"}
SlotStates == {"waiting", "error"} \cup AllBodies

ASSUME RequestCount \in 1..Cardinality(Nodes)
ASSUME MaxAttempts \in Nat \ {0}
ASSUME Failable \subseteq Ctxs
ASSUME Bodies \subseteq AllBodies
ASSUME PreHandle \in [Ctxs -> {"none", "fail"} \cup AllBodies]
ASSUME AutoUpdate \in BOOLEAN /\ CacheSet \in BOOLEAN
ASSUME ClientSetups \subseteq {"ok", "nochain", "noverifier"}
ASSUME MethodChoices \subseteq BOOLEAN

VARIABLES
  ctx,        \* [Ctxs -> context record], see EmptyCtx
  bl,         \* [Nodes -> BOOLEAN]: weight.blacklisted_until lies in the future
  cnt,        \* [Nodes -> Nat]: weight.response_count
  upd8,       \* chain.nodelist_upd8_params: NULL or the announcing node
  stored,     \* blacklist as last written by in3_cache_store_nodelist
  ub,         \* "none" or the undefined behaviour the process hit (it aborts)
  answered,   \* history: [Nodes -> Nat], responses the transport delivered
  faulted,    \* history: nodes that ever sent an error, garbage, a wrong
              \* proof or an "Error:" message
  lastExec,   \* history: the context the last step executed, else NULL
  nulled,     \* history: [Ctxs -> SUBSET Nodes], nodes whose weight was set
              \* to NULL (rejected) for the context, over all its attempts
  conf        \* the configuration: [client: ClientSetups, method: [Ctxs -> BOOLEAN]]

vars == <<ctx, bl, cnt, upd8, stored, ub, answered, faulted, lastExec, nulled, conf>>

Rets == {"none", "ok", "waiting", "einval", "elimit", "eignore", "erpc",
         "verr", "econfig", "efind", "eprehandle", "eunknown", "esub"}
VStates == {"ok", "waiting", "erpc", "verr", "eignore"}
Terminal == Rets \ {"none", "waiting"}

(***************************************************************************)
(* Per-context state (in3_ctx_t). nodes = <<>> is ctx->nodes == NULL,     *)
(* raw = <<>> is ctx->raw_response == NULL; rej holds the slot indices    *)
(* whose node_match_t.weight was set to NULL (rejected in this context);  *)
(* resp is ctx->responses ("dangling" = freed but not reset to NULL);     *)
(* rctx is ctx->response_context != NULL; err is ctx->error != NULL; sub  *)
(* is the state of the required context a verifier attached; win is the   *)
(* node whose response was kept; ret is what the last execute returned.   *)
(***************************************************************************)
EmptyCtx == [nodes |-> <<>>, rej |-> {}, raw |-> <<>>, times |-> <<>>,
             resp |-> "none", rctx |-> FALSE, err |-> FALSE,
             vstate |-> "waiting", attempt |-> 0, sub |-> "none",
             win |-> NULL, ret |-> "none"]

\* injective node sequences the node selector may return
PickSeqs == {p \in UNION {[1..k -> Nodes] : k \in 1..RequestCount} :
               \A i, j \in DOMAIN p : i # j => p[i] # p[j]}

-----------------------------------------------------------------------------
(***************************************************************************)
(* Helpers over a "world" w = [s: the context, bl, cnt, upd8, stored, ub, *)
(* ret, bad, asks, nulled]: one execute call threads w through the code's *)
(* steps.                                                                 *)
(***************************************************************************)
SlotCount(s) == IF s.nodes = <<>> THEN 1 ELSE Len(s.nodes)
NodeAt(s, n) == IF s.nodes = <<>> THEN NULL ELSE s.nodes[n]

\* is_blacklisted: node && node->weight == NULL
IsBlacklisted(s, n) == s.nodes # <<>> /\ n \in s.rej

HasResultBodies == {"valid", "validList", "validSub", "badProof"}
HasResult(b) == b \in HasResultBodies

\* is_user_error: the message does NOT start with "Error:"
IsUserError(b) == b = "errUser"

Abort(w, why) == IF w.ub = "none" THEN [w EXCEPT !.ub = why] ELSE w

\* blacklist_node: blacklisted_until = now + BLACKLISTTIME; weight = NULL
BlacklistNode(w, n) ==
  IF w.s.nodes # <<>> /\ n \notin w.s.rej
  THEN [w EXCEPT !.s.rej = @ \cup {n}, !.bl[w.s.nodes[n]] = TRUE,
                 !.nulled = @ \cup {w.s.nodes[n]}]
  ELSE w

\* _free(ctx->responses) without resetting the pointer
FreeResponses(w) ==
  CASE w.s.resp = "dangling" -> Abort(w, "double_free")
    [] w.s.resp = "live"     -> [w EXCEPT !.s.resp = "dangling"]
    [] OTHER                 -> w

\* mutant: ctx->times[n] is not zeroed after folding
FoldTimeNoReset(w, n) ==
  IF /\ w.s.times # <<>> /\ NodeAt(w.s, n) # NULL
     /\ ~IsBlacklisted(w.s, n) /\ w.s.times[n]
  THEN [w EXCEPT !.cnt[w.s.nodes[n]] = @ + 1]
  ELSE w

\* find_valid_result, "handle times": fold the latency once
FoldTime(w, n) ==
  IF /\ w.s.times # <<>> /\ NodeAt(w.s, n) # NULL
     /\ ~IsBlacklisted(w.s, n) /\ w.s.times[n]
  THEN [w EXCEPT !.cnt[w.s.nodes[n]] = @ + 1, !.s.times[n] = FALSE]
  ELSE w

\* slot in state IN3_ERPC
TransportError(w, n) ==
  IF IsBlacklisted(w.s, n) THEN w
  ELSE [BlacklistNode(w, n) EXCEPT !.s.err = TRUE]

\* the verifier's verdict; vo[n] is its answer where the body leaves it open
Verdict(w, n, vo) ==
  LET b == w.s.raw[n] IN
  CASE b \in {"valid", "validList"} -> "ok"
    [] b = "badProof"               -> "error"
    [] b = "validSub"               -> IF w.s.sub = "none" THEN "waiting"
                                       ELSE "ok"
    [] OTHER                        -> vo[n]

\* mutant: a verifier error does not blacklist the node
VerifyNoBlacklist(w, n, vo) ==
  LET b == w.s.raw[n] IN
  IF ~HasResult(b) /\ w.s.attempt < MaxAttempts - 1
  THEN LET w1 == [w EXCEPT !.s.vstate = "erpc"] IN
       IF IsUserError(b)
       THEN IF NodeAt(w.s, n) = NULL THEN Abort(w1, "null_deref")
            ELSE [w1 EXCEPT !.s.rej = @ \cup {n}, !.nulled = @ \cup {w.s.nodes[n]}]
       ELSE BlacklistNode(w1, n)
  ELSE LET w0 == IF Verdict(w, n, vo) = vo[n] /\ b \notin HasResultBodies
                 THEN [w EXCEPT !.asks = @ \cup {"vo"}] ELSE w IN
       CASE Verdict(w, n, vo) = "waiting" ->
              [w0 EXCEPT !.s.vstate = "waiting", !.s.sub = "pending",
                         !.ret = "waiting"]
         [] Verdict(w, n, vo) = "ok" -> [w0 EXCEPT !.s.vstate = "ok"]
         [] OTHER -> [w0 EXCEPT !.s.vstate = "verr"]

\* the per-request verification loop (a batch of one request)
Verify(w, n, vo) ==
  LET b == w.s.raw[n] IN
  IF ~HasResult(b) /\ w.s.attempt < MaxAttempts - 1
  THEN LET w1 == [w EXCEPT !.s.vstate = "erpc"] IN
       IF IsUserError(b)
       THEN IF NodeAt(w.s, n) = NULL THEN Abort(w1, "null_deref")
            ELSE [w1 EXCEPT !.s.rej = @ \cup {n}, !.nulled = @ \cup {w.s.nodes[n]}]
       ELSE BlacklistNode(w1, n)
  ELSE LET w0 == IF Verdict(w, n, vo) = vo[n] /\ b \notin HasResultBodies
                 THEN [w EXCEPT !.asks = @ \cup {"vo"}] ELSE w IN
       CASE Verdict(w, n, vo) = "waiting" ->
              [w0 EXCEPT !.s.vstate = "waiting", !.s.sub = "pending",
                         !.ret = "waiting"]
         [] Verdict(w, n, vo) = "ok" -> [w0 EXCEPT !.s.vstate = "ok"]
         [] OTHER -> BlacklistNode([w0 EXCEPT !.s.vstate = "verr"], n)

\* ctx_parse_response: garbage leaves response_context NULL, a bad shape
\* leaves it set; both fail and leave ctx->responses as it was (freed just
\* before); else both are set
ParseResponse(w, n) ==
  CASE w.s.raw[n] = "garbage"  -> [w EXCEPT !.s.rctx = FALSE, !.s.err = TRUE]
    [] w.s.raw[n] = "badShape" -> [w EXCEPT !.s.rctx = TRUE, !.s.err = TRUE]
    [] OTHER -> [w EXCEPT !.s.rctx = TRUE, !.s.resp = "live"]

\* slot in state IN3_OK: clean up, reset the blacklist, parse, verify
Answer(w, n, vo) ==
  LET w1 == [FreeResponses(w) EXCEPT !.s.err = FALSE]
      w2 == IF NodeAt(w.s, n) # NULL /\ ~IsBlacklisted(w.s, n)
            THEN [w1 EXCEPT !.bl[w.s.nodes[n]] = FALSE] ELSE w1
      w3 == ParseResponse(w2, n)
  IN IF w3.s.err THEN BlacklistNode(w3, n) ELSE Verify(w3, n, vo)

\* check_autoupdate, reached for a response that is kept
CheckAutoupdate(w, n) ==
  IF AutoUpdate /\ w.s.resp # "none" /\ w.s.raw[n] = "validList"
  THEN CASE w.s.resp = "dangling"   -> Abort(w, "use_after_free")
         [] NodeAt(w.s, n) = NULL   -> Abort(w, "null_deref")
         [] OTHER -> [w EXCEPT !.upd8 = w.s.nodes[n]]
  ELSE w

RECURSIVE Scan(_, _, _, _), ScanAlwaysPending(_, _, _, _)

\* mutant: the still_pending test dropped, an exhausted scan always waits
ScanAlwaysPending(w, n, pend, vo) ==
  IF n > SlotCount(w.s)
  THEN [w EXCEPT !.s.err = FALSE, !.s.vstate = "waiting", !.ret = "waiting"]
  ELSE IF w.s.raw[n] = "waiting" THEN Scan(w, n + 1, TRUE, vo)
  ELSE LET w1 == FoldTime(w, n)
           w2 == IF w.s.raw[n] = "error" THEN TransportError(w1, n)
                 ELSE Answer(w1, n, vo)
       IN IF w2.ret = "waiting" THEN w2
          ELSE IF NodeAt(w2.s, n) = NULL \/ ~IsBlacklisted(w2.s, n)
          THEN [CheckAutoupdate(w2, n) EXCEPT !.ret = "ok",
                                              !.s.win = NodeAt(w2.s, n)]
          ELSE Scan(w2, n + 1, pend, vo)

\* find_valid_result: the loop over the slots from n on
Scan(w, n, pend, vo) ==
  IF n > SlotCount(w.s)
  THEN IF pend
       THEN [w EXCEPT !.s.err = FALSE, !.s.vstate = "waiting", !.ret = "waiting"]
       ELSE [w EXCEPT !.ret = "einval"]
  ELSE IF w.s.raw[n] = "waiting" THEN Scan(w, n + 1, TRUE, vo)
  ELSE LET w1 == FoldTime(w, n)
           w2 == IF w.s.raw[n] = "error" THEN TransportError(w1, n)
                 ELSE Answer(w1, n, vo)
       IN IF w2.ret = "waiting" THEN w2
          ELSE IF NodeAt(w2.s, n) = NULL \/ ~IsBlacklisted(w2.s, n)
          THEN [CheckAutoupdate(w2, n) EXCEPT !.ret = "ok",
                                              !.s.win = NodeAt(w2.s, n)]
          ELSE Scan(w2, n + 1, pend, vo)

\* response_free: drop nodes, raw responses and the parsed response
ResponseFree(w) ==
  LET w1 == IF w.s.resp = "dangling" THEN Abort(w, "double_free") ELSE w IN
  [w1 EXCEPT !.s.nodes = <<>>, !.s.rej = {}, !.s.raw = <<>>,
             !.s.resp = "none", !.s.rctx = FALSE]

\* verifier->pre_handle, called while there is no raw and no parsed response
PreHandled(c, w) ==
  IF w.s.raw = <<>> /\ ~w.s.rctx /\ PreHandle[c] # "none"
  THEN IF PreHandle[c] = "fail"
       THEN [w EXCEPT !.s.err = TRUE, !.ret = "eprehandle"]
       ELSE [w EXCEPT !.s.raw = <<PreHandle[c]>>]
  ELSE w

\* in3_node_list_pick_nodes (nodelist.c, not in this tree; spec 4.C): up to
\* request_count distinct nodes whose blacklist has expired; pk is the
\* selector's choice, bad marks a choice it cannot make
Available(w) == {x \in Nodes : ~w.bl[x]}
PickNodes(w, pk) ==
  LET k == IF Cardinality(Available(w)) < RequestCount
           THEN Cardinality(Available(w)) ELSE RequestCount
      w1 == [w EXCEPT !.asks = @ \cup {"pick"}]
  IN CASE Available(w) = {} -> [w EXCEPT !.s.err = TRUE, !.ret = "econfig"]
       [] Len(pk) = k /\ \A i \in DOMAIN pk : pk[i] \in Available(w) ->
            [w1 EXCEPT !.s.nodes = pk]
       [] OTHER -> [w1 EXCEPT !.bad = TRUE]

\* update_nodelist_cache: in3_cache_store_nodelist writes the weights
UpdateNodelistCache(w) == IF CacheSet THEN [w EXCEPT !.stored = w.bl] ELSE w

\* mutant: the attempt limit compared with <=
RetryOffByOne(w) == w.s.attempt <= MaxAttempts

\* line 795: the attempt just counted left another one
Retry(w) == w.s.attempt < MaxAttempts

\* mutant: the limit returned without ctx_set_error
GiveUpNoError(c, w) ==
  LET w1 == IF c \in Failable THEN [w EXCEPT !.s.vstate = "eignore"] ELSE w
      r  == IF c \in Failable THEN "eignore" ELSE "einval"
  IN IF w1.s.err THEN [w1 EXCEPT !.ret = r] ELSE [w1 EXCEPT !.ret = "elimit"]

\* max_attempts reached: ignore for in3_nodeList, else give up
GiveUp(c, w) ==
  LET w1 == IF c \in Failable THEN [w EXCEPT !.s.vstate = "eignore"] ELSE w
      r  == IF c \in Failable THEN "eignore" ELSE "einval"
  IN IF w1.s.err THEN [w1 EXCEPT !.ret = r]
     ELSE [w1 EXCEPT !.s.err = TRUE, !.ret = "elimit"]

\* in3_ctx_execute for an RPC context
RECURSIVE Exec(_, _, _, _)
Exec(c, w, vo, pk) ==
  IF w.s.err
  THEN [w EXCEPT !.ret = IF w.s.vstate \in {"ok", "waiting"} THEN "eunknown"
                         ELSE w.s.vstate]
  ELSE IF ~conf.method[c] THEN [w EXCEPT !.s.err = TRUE, !.ret = "econfig"]
  ELSE IF w.s.rctx /\ w.s.vstate = "ok" THEN [w EXCEPT !.ret = "ok"]
  ELSE IF w.s.sub = "pending" THEN [w EXCEPT !.ret = "waiting"]
  ELSE IF w.s.sub = "failed" THEN [w EXCEPT !.ret = "esub"]
  ELSE IF conf.client # "ok" THEN [w EXCEPT !.s.err = TRUE, !.ret = "efind"]
  ELSE
  LET w1 == PreHandled(c, w)
      w2 == IF w1.ret = "none" /\ w1.s.raw = <<>> /\ w1.s.nodes = <<>>
            THEN PickNodes(w1, pk) ELSE w1
  IN IF w2.ret # "none" \/ w2.bad THEN w2
     ELSE IF w2.s.raw = <<>> THEN [w2 EXCEPT !.ret = "waiting"]
     ELSE
     LET w3 == Scan(w2, 1, FALSE, vo)
         w4 == UpdateNodelistCache(w3)
         w5 == [ResponseFree(w4) EXCEPT !.s.attempt = @ + 1]
     IN IF w4.ret \in {"waiting", "ok"} THEN w4
        ELSE IF Retry(w5)
        THEN Exec(c, [w5 EXCEPT !.s.err = FALSE, !.s.vstate = "waiting",
                                !.ret = "none"], vo, pk)
        ELSE GiveUp(c, w5)

-----------------------------------------------------------------------------
Init ==
  /\ ctx = [c \in Ctxs |-> EmptyCtx]
  /\ bl = [x \in Nodes |-> FALSE]
  /\ cnt = [x \in Nodes |-> 0]
  /\ upd8 = NULL
  /\ stored = bl
  /\ ub = "none"
  /\ answered = [x \in Nodes |-> 0]
  /\ faulted = {}
  /\ lastExec = NULL
  /\ nulled = [c \in Ctxs |-> {}]
  /\ conf \in [client: ClientSetups, method: [Ctxs -> MethodChoices]]

(***************************************************************************)
(* One call with the verifier's open verdicts vo and the selector's pick  *)
(* pk. asks records which of the two the call consulted, so that only     *)
(* those are enumerated.                                                  *)
(***************************************************************************)
Run(c, vo, pk) ==
  Exec(c, [s |-> ctx[c], bl |-> bl, cnt |-> cnt, upd8 |-> upd8,
           stored |-> stored, ub |-> "none", ret |-> "none", bad |-> FALSE,
           asks |-> {}, nulled |-> nulled[c]], vo, pk)
VoOk == [i \in 1..RequestCount |-> "ok"]
Vos(c) == IF "vo" \in Run(c, VoOk, <<>>).asks
          THEN [1..RequestCount -> {"ok", "error"}] ELSE {VoOk}
Pks(c, vo) == IF "pick" \in Run(c, vo, <<>>).asks THEN PickSeqs ELSE {<<>>}

\* the outcomes of one execute call on c
Outcomes(c) ==
  {r \in UNION {{Run(c, vo, pk) : pk \in Pks(c, vo)} : vo \in Vos(c)} : ~r.bad}

\* the host calls in3_ctx_execute on a context that has not ended
Execute(c) ==
  /\ ub = "none"
  /\ ctx[c].ret \in {"none", "waiting"}
  /\ lastExec' = c
  /\ \E r \in Outcomes(c) :
       IF r.ub # "none"
       THEN /\ ub' = r.ub
            /\ UNCHANGED <<ctx, bl, cnt, upd8, stored, answered, faulted, nulled, conf>>
       ELSE /\ ctx' = [ctx EXCEPT ![c] = [r.s EXCEPT !.ret = r.ret]]
            /\ bl' = r.bl /\ cnt' = r.cnt
            /\ upd8' = r.upd8 /\ stored' = r.stored
            /\ nulled' = [nulled EXCEPT ![c] = r.nulled]
            /\ UNCHANGED <<ub, answered, faulted, conf>>

\* mutant: one slot too many allocated for the responses
SendRequestOffByOne(c) ==
  /\ ub = "none"
  /\ ctx[c].ret = "waiting" /\ ctx[c].sub # "pending"
  /\ ctx[c].raw = <<>> /\ ctx[c].nodes # <<>>
  /\ ctx' = [ctx EXCEPT ![c].raw = [i \in 1..Len(ctx[c].nodes) + 1 |-> "waiting"],
                        ![c].times = [i \in 1..Len(ctx[c].nodes) + 1 |-> FALSE]]
  /\ lastExec' = NULL
  /\ UNCHANGED <<bl, cnt, upd8, stored, ub, answered, faulted, nulled, conf>>

\* in3_create_request handed to the transport: one waiting slot per node
SendRequest(c) ==
  /\ ub = "none"
  /\ ctx[c].ret = "waiting" /\ ctx[c].sub # "pending"
  /\ ctx[c].raw = <<>> /\ ctx[c].nodes # <<>>
  /\ ctx' = [ctx EXCEPT ![c].raw = [i \in DOMAIN ctx[c].nodes |-> "waiting"],
                        ![c].times = [i \in DOMAIN ctx[c].nodes |-> FALSE]]
  /\ lastExec' = NULL
  /\ UNCHANGED <<bl, cnt, upd8, stored, ub, answered, faulted, nulled, conf>>

FaultBodies == {"error", "garbage", "badShape", "badProof", "errServer"}

\* in3_req_add_response: the transport fills slot i and records its latency
Respond(c, i, b) ==
  /\ ub = "none"
  /\ ctx[c].ret \notin Terminal /\ ctx[c].nodes # <<>>
  /\ i \in DOMAIN ctx[c].raw /\ ctx[c].raw[i] = "waiting"
  /\ ctx' = [ctx EXCEPT ![c].raw[i] = b, ![c].times[i] = TRUE]
  /\ answered' = [answered EXCEPT ![ctx[c].nodes[i]] = @ + 1]
  /\ faulted' = IF b \in FaultBodies THEN faulted \cup {ctx[c].nodes[i]}
                ELSE faulted
  /\ lastExec' = NULL
  /\ UNCHANGED <<bl, cnt, upd8, stored, ub, nulled, conf>>

\* the required context a verifier attached runs to its end
SubDone(c) ==
  /\ ub = "none"
  /\ ctx[c].sub = "pending"
  /\ \E r \in {"ok", "failed"} : ctx' = [ctx EXCEPT ![c].sub = r]
  /\ lastExec' = NULL
  /\ UNCHANGED <<bl, cnt, upd8, stored, ub, answered, faulted, nulled, conf>>

\* BLACKLISTTIME passes for a node
Expire(x) ==
  /\ ub = "none"
  /\ bl[x]
  /\ bl' = [bl EXCEPT ![x] = FALSE]
  /\ lastExec' = NULL
  /\ UNCHANGED <<ctx, cnt, upd8, stored, ub, answered, faulted, nulled, conf>>

\* every context has ended, or the process aborted
Done ==
  /\ \/ ub # "none"
     \/ \A c \in Ctxs : ctx[c].ret \in Terminal
  /\ UNCHANGED vars

Next ==
  \/ \E c \in Ctxs : Execute(c) \/ SendRequest(c) \/ SubDone(c)
  \/ \E c \in Ctxs, i \in 1..RequestCount, b \in Bodies \cup {"error"} :
       Respond(c, i, b)
  \/ \E x \in Nodes : Expire(x)
  \/ Done

(***************************************************************************)
(* The host keeps calling execute on every context that has not ended      *)
(* (stated over the history variable lastExec: infinitely often the last  *)
(* step was an execute of c), the transport answers every slot (it        *)
(* enforces the timeout), requests are sent and a required context runs   *)
(* to its end.                                                             *)
(***************************************************************************)
Fairness ==
  \A c \in Ctxs :
    /\ []<>(lastExec = c \/ ctx[c].ret \in Terminal \/ ub # "none")
    /\ WF_vars(SendRequest(c))
    /\ WF_vars(\E i \in 1..RequestCount, b \in Bodies \cup {"error"} :
                 Respond(c, i, b))
    /\ WF_vars(SubDone(c))

Spec == Init /\ [][Next]_vars /\ Fairness

-----------------------------------------------------------------------------
\* sequences of at most request_count elements
SlotSeq(S) == UNION {[1..k -> S] : k \in 0..RequestCount}

CtxRec == [nodes: SlotSeq(Nodes), rej: SUBSET (1..RequestCount),
           raw: SlotSeq(SlotStates), times: SlotSeq(BOOLEAN),
           resp: {"none", "live", "dangling"}, rctx: BOOLEAN, err: BOOLEAN,
           vstate: VStates, attempt: 0..MaxAttempts,
           sub: {"none", "pending", "ok", "failed"},
           win: Nodes \cup {NULL}, ret: Rets]

TypeOK ==
  /\ ctx \in [Ctxs -> CtxRec]
  /\ bl \in [Nodes -> BOOLEAN] /\ stored \in [Nodes -> BOOLEAN]
  /\ cnt \in [Nodes -> Nat] /\ answered \in [Nodes -> Nat]
  /\ upd8 \in Nodes \cup {NULL}
  /\ ub \in {"none", "double_free", "null_deref", "use_after_free"}
  /\ faulted \subseteq Nodes
  /\ lastExec \in Ctxs \cup {NULL}
  /\ nulled \in [Ctxs -> SUBSET Nodes]
  /\ conf \in [client: ClientSetups, method: [Ctxs -> BOOLEAN]]

\* in3_ctx_state for an RPC context: the required context a verifier
\* attached is sub ("failed": it carries an error)
in3_ctx_state(s) ==
  CASE s.sub = "failed" \/ s.err   -> "ERROR"
    [] s.sub = "pending"           -> "WAITING_FOR_REQUIRED_CTX"
    [] s.raw = <<>> \/ ~s.rctx     -> "WAITING_FOR_RESPONSE"
    [] OTHER                       -> "SUCCESS"

\* the refinement mapping: a context is pending while execute has not
\* returned a terminal result; its attempts are ctx->attempt
GiveUpRets == {"einval", "elimit", "eignore"}

CL == INSTANCE ContextLifecycle
        WITH Results <- Terminal, GiveUps <- GiveUpRets, PENDING <- "pending",
             status <- [c \in Ctxs |-> IF ctx[c].ret \in Terminal
                                        THEN ctx[c].ret ELSE "pending"],
             attempts <- [c \in Ctxs |-> ctx[c].attempt]

(***************************************************************************)
(* Execute implements ContextLifecycle: ctx->attempt counts at most one   *)
(* attempt per in3_ctx_execute call, however the call recurses through    *)
(* its retry (line 802), a pending context always has an attempt left,    *)
(* and a context ends with IN3_EINVAL, IN3_ELIMIT or IN3_EIGNORE exactly  *)
(* when its max_attempts attempts are used up (lines 792-810).            *)
(***************************************************************************)
ContextLifecycleRefined == CL!Spec

(***************************************************************************)
(* in3_ctx_execute returns IN3_OK only once the kept response passed the  *)
(* verifier: verification_state is IN3_OK. find_valid_result must never   *)
(* keep a response whose node it just blacklisted or rejected, across     *)
(* re-entrant calls, retries and required contexts.                       *)
(***************************************************************************)
OkOnlyWhenVerified ==
  \A c \in Ctxs : ctx[c].ret = "ok" => ctx[c].vstate = "ok"

(***************************************************************************)
(* A host that polls in3_ctx_state instead of keeping execute's return    *)
(* value sees the same outcome: a context execute ended with an error     *)
(* reports CTX_ERROR (every error return also sets ctx->error, lines 730, *)
(* 742, 746, 752, 774, 810), one it ended with IN3_OK reports CTX_SUCCESS,*)
(* and right after a WAITING return the context reports no error (the    *)
(* still-pending path clears it, lines 474-479).                          *)
(***************************************************************************)
StateAgreesWithResult ==
  \A c \in Ctxs : ub = "none" =>
    /\ ctx[c].ret \in Terminal \ {"ok"} => in3_ctx_state(ctx[c]) = "ERROR"
    /\ ctx[c].ret = "ok" => in3_ctx_state(ctx[c]) = "SUCCESS"
    /\ lastExec = c /\ ctx[c].ret = "waiting" => in3_ctx_state(ctx[c]) # "ERROR"

(***************************************************************************)
(* execute returns IN3_WAITING only while something outside the context   *)
(* is outstanding: a request still to be sent, a transport slot not yet   *)
(* filled, or a required context not yet ended. A WAITING with nothing to *)
(* wait for makes the host spin (in3_send_ctx gives up after 10 rounds).  *)
(***************************************************************************)
WaitingHasCause ==
  [][\A c \in Ctxs :
       (Execute(c) /\ ub' = "none" /\ ctx'[c].ret = "waiting") =>
         \/ ctx'[c].raw = <<>>
         \/ \E i \in DOMAIN ctx'[c].raw : ctx'[c].raw[i] = "waiting"
         \/ ctx'[c].sub = "pending"]_vars

(***************************************************************************)
(* Each delivered response adds at most once to the node's response_count, *)
(* however often execute re-scans the same raw responses (ctx->times[n]   *)
(* is zeroed after folding).                                              *)
(***************************************************************************)
LatencyCountedOnce == \A x \in Nodes : cnt[x] <= answered[x]

(***************************************************************************)
(* Every context the host keeps executing ends (ok or an error), bounded   *)
(* by max_attempts, unless the process aborted.                           *)
(***************************************************************************)
Termination == \A c \in Ctxs : <>(ctx[c].ret \in Terminal \/ ub # "none")

(***************************************************************************)
(* find_valid_result never frees ctx->responses twice.                    *)
(***************************************************************************)
NoDoubleFree == ub # "double_free"

(***************************************************************************)
(* The matcher never dereferences the NULL node of an internally answered  *)
(* (pre_handle) response.                                                 *)
(***************************************************************************)
NoNullDeref == ub # "null_deref"

(***************************************************************************)
(* Spec 4.G and scenario 3: a persistent blacklist is lifted only when the *)
(* node's response verified, or when BLACKLISTTIME has passed; a user     *)
(* error leaves blacklisted_until unchanged.                              *)
(***************************************************************************)
BlacklistClearedOnlyByVerifiedAnswer ==
  [][\A x \in Nodes :
       (bl[x] /\ ~bl'[x]) =>
         \/ UNCHANGED ctx
         \/ \E c \in Ctxs : ctx'[c].win = x /\ ctx'[c].ret = "ok"
                             /\ ctx[c].ret # "ok"]_vars

(***************************************************************************)
(* Spec 4.A.f: once max_attempts is used up, execute returns IN3_EIGNORE   *)
(* for in3_nodeList and IN3_ELIMIT for every other method.                *)
(***************************************************************************)
GiveUpReturnsIgnoreOrLimit ==
  \A c \in Ctxs :
    ctx[c].attempt = MaxAttempts =>
      ctx[c].ret = IF c \in Failable THEN "eignore" ELSE "elimit"

=============================================================================
