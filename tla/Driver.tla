-------------------------------- MODULE Driver --------------------------------
(***************************************************************************)
(* The synchronous send driver and the chain of required contexts         *)
(* (src/c/src/core/client/execute.c: in3_send_ctx, in3_ctx_execute,       *)
(* in3_ctx_state, ctx_find_required, ctx_add_required,                     *)
(* ctx_remove_required, ctx_handle_failable).                              *)
(* in3_send_ctx is recursive: it calls itself for a context's required    *)
(* context. The model keeps its frames on a stack and takes one step of   *)
(* the innermost frame at a time. One call of in3_ctx_execute is one       *)
(* atomic operator (Exec), at the level of detail the driver sees: the    *)
(* required chain, the raw response, the attempt counter and the error.   *)
(* The transport is synchronous: it fills the response inside the step    *)
(* that hands it the request. A response is abstracted to what the        *)
(* verifier makes of it: rejected (BAD), or accepted once the required    *)
(* contexts it names exist; a response carries an in3 section that        *)
(* check_autoupdate (NodeListUpdate) reads.                                *)
(***************************************************************************)
EXTENDS Integers, Sequences, FiniteSets, NodeListUpdate

CONSTANTS
  Root,         \* the context the application hands to in3_send_ctx
  RootMethod,   \* its method
  Subs,         \* identities for the contexts created while it runs
  SubMethods,   \* methods the root's verifier may need a required context for
  RootNeeds,    \* the sets of them one answer to the root can need
  SignMethods,  \* those of them ctx_new makes a CT_SIGN context for
  SignerBoot,   \* whether client->signer is set: the values a client can have
  TransportBoot, \* whether client->transport is set
  MaxAttempts,  \* client->max_attempts
  ChainBoot,    \* the chain records a client can start with
  In3s          \* the in3 sections the nodes may send

ASSUME MaxAttempts \in 1..20
ASSUME RootNeeds \subseteq SUBSET SubMethods /\ {} \in RootNeeds
ASSUME SignMethods \subseteq SubMethods /\ SignerBoot \cup TransportBoot \subseteq BOOLEAN

Ctxs == {Root} \cup Subs
NODELIST == "in3_nodeList"
RETRY_CAP == 10   \* in3_send_ctx: retry_count > 10
NONE == "none"
BAD == "bad"
Absent == [lnl |-> 0, cur |-> 0, lwl |-> 0]   \* a response without an in3 section
\* the history count of execute calls stops here, above every count
\* ExecuteCallsBounded allows, so that a looping driver stays finite
EXEC_CALLS_CAP == (MaxAttempts + 2) * Cardinality(Ctxs)
CountCall(n) == IF n < EXEC_CALLS_CAP THEN n + 1 ELSE n

VARIABLES
  ctx,        \* per context: the fields of in3_ctx_t the driver touches
  live,       \* allocated contexts
  chain,      \* the chain record of NodeListUpdate: first, lastBlock, upd8, wl
  bl,         \* the announcing node of a failed update was blacklisted
  stack,      \* frames of in3_send_ctx: [c, pc, rc (retry_count)]
  retv,       \* the value the last returning frame gave its caller
  result,     \* what in3_send_ctx(Root) returned to the application
  sinceEvent, \* WAITING returns counted since the transport last answered
  capHit,     \* history: the retry_count cap fired
  badSeen,    \* history: the transport delivered a response the verifier
              \* rejects, or signing or composing a request failed
  signer,     \* client->signer is set
  transport,  \* client->transport is set
  execCalls   \* history: the calls of in3_ctx_execute in3_send_ctx made
              \* itself (lines 606 and 624), over all its frames

vars == <<ctx, live, chain, bl, stack, retv, result, sinceEvent, capHit, badSeen,
          signer, transport, execCalls>>

IsSign(cs, c) == cs[c].method \in SignMethods

\* a context as ctx_new creates it: calloc'ed, verification_state 0 (IN3_OK)
NewCtx(m, next) ==
  [req |-> next, method |-> m, err |-> FALSE, vs |-> "OK", raw |-> NONE,
   needs |-> {}, in3 |-> Absent, parsed |-> FALSE, nodes |-> FALSE, attempt |-> 0]

\* the verdicts the transport's answer to context c can carry: raw is BAD
\* (rejected) or "ok" (accepted once the required contexts of methods
\* needs exist), with the answer's in3 section (none for a node list)
Answers(c) ==
  {[raw |-> BAD, needs |-> {}, in3 |-> Absent]} \cup
  {[raw |-> "ok", needs |-> n, in3 |-> i] :
     n \in IF ctx[c].method = RootMethod THEN RootNeeds ELSE {{}},
     i \in IF ctx[c].method = NODELIST THEN {Absent} ELSE In3s}

-----------------------------------------------------------------------------
(* The required chain. S is [ctx, live, chain, bl, full]; full marks that no *)
(* identity was left for a new context (the model's bound).               *)
Ret(S, r) == [s |-> S, ret |-> r]
SetCtx(S, c, x) == [S EXCEPT !.ctx[c] = x]
SetError(S, c) == [S EXCEPT !.ctx[c].err = TRUE]

\* the contexts from p along ->required
RECURSIVE ChainFrom(_, _)
ChainFrom(cs, p) == IF p = NULL THEN {} ELSE {p} \cup ChainFrom(cs, cs[p].req)

\* ctx_find_required: the first context of parent's chain with method m
RECURSIVE FindFrom(_, _, _)
FindFrom(cs, p, m) ==
  IF p = NULL THEN NULL ELSE IF cs[p].method = m THEN p ELSE FindFrom(cs, cs[p].req, m)
ctx_find_required(cs, parent, m) == FindFrom(cs, cs[parent].req, m)

\* in3_ctx_state
RECURSIVE in3_ctx_state(_, _)
in3_ctx_state(cs, c) ==
  IF c = NULL THEN "SUCCESS"
  ELSE LET rs == in3_ctx_state(cs, cs[c].req) IN
       CASE rs = "ERROR" -> "ERROR"
         [] cs[c].err -> "ERROR"
         [] cs[c].req # NULL /\ rs # "SUCCESS" -> "WAITING_FOR_REQUIRED_CTX"
         [] cs[c].raw = NONE -> "WAITING_FOR_RESPONSE"
         [] ~IsSign(cs, c) /\ ~cs[c].parsed -> "WAITING_FOR_RESPONSE"
         [] OTHER -> "SUCCESS"

\* ctx_remove_required: unlink ctx from the chain under parent and free it
\* (free_ctx_intern frees ctx->required recursively)
RECURSIVE RemoveFrom(_, _, _)
RemoveFrom(S, p, x) ==
  IF p = NULL THEN Ret(S, "EFIND")
  ELSE IF S.ctx[p].req = x
       THEN Ret([S EXCEPT !.ctx[p].req = NULL,
                          !.live = @ \ ChainFrom(S.ctx, x)], "OK")
       ELSE RemoveFrom(S, S.ctx[p].req, x)
ctx_remove_required(S, parent, x) == IF x = NULL THEN Ret(S, "OK") ELSE RemoveFrom(S, parent, x)

\* nodelist_first_upd8 (nodelist.h, not in this tree): spec 4.H, the first
\* refresh is the one without an update descriptor
nodelist_first_upd8(S) == S.chain.upd8 = NULL

\* ctx_handle_failable: blacklist the announcing node unless this is the
\* first update, drop the descriptor, then fail or drop the required context
ctx_handle_failable(S, c) ==
  LET S1 == [S EXCEPT !.bl = @ \/ S.chain.upd8 # NULL,
                      !.chain.upd8 = NULL]
  IN IF S1.ctx[c].req = NULL THEN Ret(S1, "OK")
     ELSE IF nodelist_first_upd8(S1) THEN Ret(SetError(S1, c), "ERPC")
     ELSE ctx_remove_required(S1, c, S1.ctx[c].req)

-----------------------------------------------------------------------------
(* in3_ctx_execute, at the driver's level. The node pick (nodelist.c) and *)
(* the verifier are not in this tree: Pick starts a node-list update while *)
(* one is due (spec 4.H), the verifier asks for each missing required     *)
(* context in turn and accepts once they all exist (spec 4.I).            *)
RECURSIVE Exec(_, _), ExecAfter(_, _, _), Pick(_, _), Verify(_, _),
          AddRequiredDropsChain(_, _, _), AddRequired(_, _, _)

\* mutant: the new context not linked to the parent's earlier ones
AddRequiredDropsChain(S, parent, m) ==
  IF Subs \subseteq S.live THEN Ret([S EXCEPT !.full = TRUE], "WAITING")
  ELSE LET n == CHOOSE x \in Subs \ S.live : TRUE
       IN Exec([S EXCEPT !.live = @ \cup {n},
                         !.ctx = [@ EXCEPT ![n] = NewCtx(m, NULL), ![parent].req = n]], n)

\* ctx_new, then ctx_add_required: prepend to parent's chain and execute it
AddRequired(S, parent, m) ==
  IF Subs \subseteq S.live THEN Ret([S EXCEPT !.full = TRUE], "WAITING")
  ELSE LET n == CHOOSE x \in Subs \ S.live : TRUE
       IN Exec([S EXCEPT !.live = @ \cup {n},
                         !.ctx = [@ EXCEPT ![n] = NewCtx(m, S.ctx[parent].req),
                                           ![parent].req = n]], n)

\* lines 756-776: pick nodes unless picked; a due update adds in3_nodeList
Pick(S, c) ==
  LET x == S.ctx[c] IN
  IF x.nodes THEN Ret(S, "WAITING")
  ELSE IF (S.chain.first \/ S.chain.upd8 # NULL) /\ x.method # NODELIST
          /\ ctx_find_required(S.ctx, c, NODELIST) = NULL
  THEN Ret(AddRequired(S, c, NODELIST).s, "WAITING")
  ELSE Ret([S EXCEPT !.ctx[c].nodes = TRUE], "WAITING")

\* the node-list update of nodelist.c (not in this tree), spec 4.H: the
\* list the descriptor announced is loaded and the descriptor dropped
Refreshed(c) ==
  [c EXCEPT !.first = FALSE, !.upd8 = NULL,
            !.lastBlock = IF c.upd8 = NULL THEN @ ELSE c.upd8.exp]

\* mutant: the verifier attaches the context but accepts the answer at once
RequireMissingAccepts(S, c, missing) ==
  Ret(AddRequired([S EXCEPT !.ctx[c].parsed = TRUE, !.ctx[c].vs = "OK"],
                  c, CHOOSE m \in missing : TRUE).s, "OK")

\* spec 4.I: a verifier missing an auxiliary result attaches a required
\* context for it and waits; the response stays parsed for the next call
RequireMissing(S, c, missing) ==
  Ret(AddRequired([S EXCEPT !.ctx[c].parsed = TRUE, !.ctx[c].vs = "WAITING"],
                  c, CHOOSE m \in missing : TRUE).s, "WAITING")

\* mutant: the attempt limit compared with <=
RetryOffByOne(x) == x.attempt + 1 <= MaxAttempts

\* line 795: another attempt is left after the one that just failed
Retry(x) == x.attempt + 1 < MaxAttempts

\* find_valid_result with the verifier (lines 403-474), then lines 783-810
Verify(S, c) ==
  LET x == S.ctx[c]
      r == x.raw
      y == [x EXCEPT !.raw = NONE, !.parsed = FALSE, !.nodes = FALSE,
                     !.attempt = @ + 1, !.err = TRUE, !.vs = "EVERIFY"]
      missing == {m \in x.needs : ctx_find_required(S.ctx, c, m) = NULL}
  IN
  CASE r = BAD /\ Retry(x) ->
         Exec(SetCtx(S, c, [y EXCEPT !.err = FALSE, !.vs = "WAITING"]), c)
    [] r = BAD /\ x.method = NODELIST ->
         Ret(SetCtx(S, c, [y EXCEPT !.vs = "EIGNORE"]), "EIGNORE")
    [] r = BAD -> Ret(SetCtx(S, c, y), "EINVAL")
    [] missing # {} -> RequireMissing(S, c, missing)
    [] OTHER ->
         Ret([S EXCEPT !.ctx[c].parsed = TRUE, !.ctx[c].vs = "OK",
                       !.chain = LET c1 == check_autoupdate(@, x.in3)
                                 IN IF x.method = NODELIST THEN Refreshed(c1) ELSE c1],
             "OK")

\* lines 813-819: a CT_SIGN context waits for the signature; its
\* raw_response is calloc'ed, so its state is never an error
ExecSign(S, c) == Ret(S, IF S.ctx[c].raw = NONE THEN "WAITING" ELSE "OK")

\* in3_ctx_execute (lines 725-823); sub is what executing the required
\* chain gave (line 737), evaluated only when the early returns pass
ExecAfter(S, c, sub) ==
  LET x == S.ctx[c] IN
  CASE x.err -> Ret(S, IF x.vs \in {"OK", "WAITING"} THEN "EUNKNOWN" ELSE x.vs)
    [] x.parsed /\ x.vs = "OK" -> Ret(S, "OK")
    [] sub.ret # "OK" -> sub
    [] IsSign(S.ctx, c) -> ExecSign(sub.s, c)
    [] sub.s.ctx[c].raw = NONE -> Pick(sub.s, c)
    [] OTHER -> Verify(sub.s, c)

Exec(S, c) ==
  ExecAfter(S, c, IF S.ctx[c].req = NULL THEN Ret(S, "OK") ELSE Exec(S, S.ctx[c].req))

-----------------------------------------------------------------------------
(* in3_send_ctx (lines 602-672), one step of the innermost frame at a     *)
(* time. pc "loop" is the execute at the head of the outer loop, "sub"    *)
(* the test of the inner loop, "after" the code after a recursive call    *)
(* returned retv, "send" the hand-off to the transport.                   *)
St == [ctx |-> ctx, live |-> live, chain |-> chain, bl |-> bl, full |-> FALSE]
Top == stack[Len(stack)]
SetTop(f) == [stack EXCEPT ![Len(stack)] = f]

Write(S) == ctx' = S.ctx /\ live' = S.live /\ chain' = S.chain /\ bl' = S.bl

\* the frame returns v to its caller, or to the application
Return(S, v) ==
  /\ Write(S)
  /\ stack' = SubSeq(stack, 1, Len(stack) - 1)
  /\ retv' = v
  /\ result' = IF Len(stack) = 1 THEN v ELSE result

Init ==
  /\ ctx = [c \in Ctxs |-> NewCtx(IF c = Root THEN RootMethod ELSE NONE, NULL)]
  /\ live = {Root}
  /\ chain \in ChainBoot /\ bl = FALSE
  /\ stack = <<[c |-> Root, pc |-> "loop", rc |-> 0]>>
  /\ retv = NONE /\ result = NONE
  /\ sinceEvent = 0 /\ capHit = FALSE /\ badSeen = FALSE
  /\ signer \in SignerBoot /\ transport \in TransportBoot
  /\ execCalls = 0

\* line 606: the execute at the head of the outer loop
LoopStep == Exec(St, Top.c)

\* lines 618-619: the required context's EIGNORE is handled before the
\* parent is executed again
AfterHandled == IF retv = "EIGNORE" THEN ctx_handle_failable(St, Top.c).s ELSE St

\* lines 606-613: execute; OK or an error ends the call; WAITING counts
LoopExec ==
  /\ stack # <<>> /\ Top.pc = "loop"
  /\ LET f == Top
         e == LoopStep
     IN /\ ~e.s.full
        /\ CASE e.ret # "WAITING" ->
                  Return(e.s, e.ret) /\ UNCHANGED <<sinceEvent, capHit>>
             [] f.rc + 1 > RETRY_CAP ->
                  /\ Return(SetError(e.s, f.c), "ERPC")
                  /\ sinceEvent' = sinceEvent + 1 /\ capHit' = TRUE
             [] OTHER ->
                  /\ Write(e.s)
                  /\ stack' = SetTop([f EXCEPT !.rc = @ + 1, !.pc = "sub"])
                  /\ sinceEvent' = sinceEvent + 1
                  /\ UNCHANGED <<retv, result, capHit>>
  /\ execCalls' = CountCall(execCalls)
  /\ UNCHANGED <<badSeen, signer, transport>>

\* mutant: the inner loop runs while there is a required context at all
SubCheckIgnoresState ==
  /\ stack # <<>> /\ Top.pc = "sub"
  /\ LET f == Top
         r == ctx[f.c].req
     IN IF r # NULL
        THEN stack' = Append(SetTop([f EXCEPT !.pc = "after"]),
                             [c |-> r, pc |-> "loop", rc |-> 0])
        ELSE stack' = SetTop([f EXCEPT !.pc = "send"])
  /\ UNCHANGED <<ctx, live, chain, bl, retv, result, sinceEvent, capHit, badSeen, signer,
                 transport, execCalls>>

\* line 616: while the required context has not succeeded, send it
SubCheck ==
  /\ stack # <<>> /\ Top.pc = "sub"
  /\ LET f == Top
         r == ctx[f.c].req
     IN IF r # NULL /\ in3_ctx_state(ctx, r) # "SUCCESS"
        THEN stack' = Append(SetTop([f EXCEPT !.pc = "after"]),
                             [c |-> r, pc |-> "loop", rc |-> 0])
        ELSE stack' = SetTop([f EXCEPT !.pc = "send"])
  /\ UNCHANGED <<ctx, live, chain, bl, retv, result, sinceEvent, capHit, badSeen, signer,
                 transport, execCalls>>

\* mutant: the inner loop goes on without executing the context again
AfterSubNoRecheck ==
  /\ stack # <<>> /\ Top.pc = "after"
  /\ LET f == Top
         h == IF retv = "EIGNORE" THEN ctx_handle_failable(St, f.c).s ELSE St
     IN IF retv \notin {"EIGNORE", "OK"} THEN Return(SetError(St, f.c), retv)
        ELSE Write(h) /\ stack' = SetTop([f EXCEPT !.pc = "sub"])
                      /\ UNCHANGED <<retv, result>>
  /\ UNCHANGED <<sinceEvent, capHit, badSeen, signer, transport, execCalls>>

AfterSub ==
  /\ stack # <<>> /\ Top.pc = "after"
  /\ LET f == Top
         e == Exec(AfterHandled, f.c)
     IN CASE retv \notin {"EIGNORE", "OK"} -> Return(SetError(St, f.c), retv)
          [] e.ret # "WAITING" -> ~e.s.full /\ Return(e.s, e.ret)
          [] OTHER ->
               /\ ~e.s.full
               /\ Write(e.s)
               /\ stack' = SetTop([f EXCEPT !.pc = "sub"])
               /\ UNCHANGED <<retv, result>>
  /\ execCalls' = IF retv \in {"EIGNORE", "OK"} THEN CountCall(execCalls) ELSE execCalls
  /\ UNCHANGED <<sinceEvent, capHit, badSeen, signer, transport>>

\* lines 646-667: a CT_SIGN context without a response calls the signer
\* in the same step: no signer or no message/account is IN3_ECONFIG; a
\* failing sign leaves the calloc'ed response and an error
SendSign ==
  /\ stack # <<>> /\ Top.pc = "send"
  /\ LET f == Top
         x == ctx[f.c]
     IN /\ IsSign(ctx, f.c)
        /\ IF x.raw # NONE
           THEN /\ stack' = SetTop([f EXCEPT !.pc = "loop"])
                /\ UNCHANGED <<ctx, live, chain, bl, retv, result, sinceEvent, badSeen>>
           ELSE \E o \in IF signer THEN {"ok", "fail", "nodata"} ELSE {"nosigner"} :
                  /\ badSeen' = (badSeen \/ o # "ok")
                  /\ CASE o = "ok" ->
                          /\ ctx' = [ctx EXCEPT ![f.c].raw = "ok"]
                          /\ stack' = SetTop([f EXCEPT !.pc = "loop"])
                          /\ sinceEvent' = 0
                          /\ UNCHANGED <<live, chain, bl, retv, result>>
                       [] o = "fail" ->
                          /\ Return([SetError(St, f.c) EXCEPT !.ctx[f.c].raw = "ok"], "ESIGN")
                          /\ UNCHANGED sinceEvent
                       [] OTHER ->
                          /\ Return(SetError(St, f.c), "ECONFIG")
                          /\ UNCHANGED sinceEvent
  /\ UNCHANGED <<capHit, signer, transport, execCalls>>

\* lines 627-645: without a response, in3_create_request and the transport
\* fill it (synchronously); then back to the outer loop. No transport is
\* IN3_ECONFIG; a payload ctx_create_payload refuses (lines 525-532) sets
\* the context's error and in3_send_ctx returns IN3_ENOMEM
Send ==
  /\ stack # <<>> /\ Top.pc = "send"
  /\ ~IsSign(ctx, Top.c)
  /\ LET f == Top IN
     IF ctx[f.c].raw # NONE
     THEN /\ stack' = SetTop([f EXCEPT !.pc = "loop"])
          /\ UNCHANGED <<ctx, live, chain, bl, retv, result, sinceEvent, badSeen>>
     ELSE \E o \in IF transport THEN {"sent", "nopayload"} ELSE {"notransport"} :
            CASE o = "sent" ->
                   \E a \in Answers(f.c) :
                     /\ ctx' = [ctx EXCEPT ![f.c].raw = a.raw, ![f.c].needs = a.needs,
                                            ![f.c].in3 = a.in3]
                     /\ stack' = SetTop([f EXCEPT !.pc = "loop"])
                     /\ sinceEvent' = 0
                     /\ badSeen' = (badSeen \/ a.raw = BAD)
                     /\ UNCHANGED <<live, chain, bl, retv, result>>
              [] o = "nopayload" ->
                   Return(SetError(St, f.c), "ENOMEM") /\ badSeen' = TRUE
                   /\ UNCHANGED sinceEvent
              [] OTHER ->
                   Return(SetError(St, f.c), "ECONFIG") /\ badSeen' = TRUE
                   /\ UNCHANGED sinceEvent
  /\ UNCHANGED <<capHit, signer, transport, execCalls>>

Next == LoopExec \/ SubCheck \/ AfterSub \/ Send \/ SendSign

\* no step is possible: in3_send_ctx returned, or the model's bound on
\* contexts is reached (no identity left in Subs for a ctx_new). This is
\* ~ENABLED Next spelled out: SubCheck, Send and SendSign are always
\* enabled at their pc, LoopExec and AfterSub unless the execute runs out
Halted ==
  \/ stack = <<>>
  \/ Top.pc = "loop" /\ LoopStep.s.full
  \/ Top.pc = "after" /\ retv \in {"EIGNORE", "OK"}
     /\ Exec(AfterHandled, Top.c).s.full

\* the driver is one thread that runs until in3_send_ctx returns: weak
\* fairness of Next, WF_vars(Next), with its ENABLED written as ~Halted
Spec == Init /\ [][Next]_vars /\ ([]<>Halted \/ []<><<Next>>_vars)

-----------------------------------------------------------------------------
Rets == {"OK", "WAITING", "EIGNORE", "EINVAL", "ERPC", "EUNKNOWN", "EVERIFY",
         "ECONFIG", "ESIGN", "ENOMEM"}

TypeOK ==
  /\ live \subseteq Ctxs /\ Root \in live
  /\ \A c \in live : /\ ctx[c].req \in live \cup {NULL}
                     /\ ctx[c].attempt \in 0..MaxAttempts
                     /\ ctx[c].vs \in {"OK", "WAITING", "EIGNORE", "EVERIFY"}
  /\ chain.first \in BOOLEAN /\ chain.lastBlock \in Nat
  /\ chain.upd8 \in {NULL} \cup [exp : Nat, annCur : Nat, wait : 0..65535]
  /\ bl \in BOOLEAN
  /\ \A i \in 1..Len(stack) : stack[i].c \in live
                             /\ stack[i].pc \in {"loop", "sub", "after", "send"}
                             /\ stack[i].rc \in 0..RETRY_CAP
  /\ retv \in Rets \cup {NONE} /\ result \in Rets \cup {NONE}
  /\ sinceEvent \in Nat /\ capHit \in BOOLEAN /\ badSeen \in BOOLEAN
  /\ signer \in BOOLEAN /\ transport \in BOOLEAN /\ execCalls \in 0..EXEC_CALLS_CAP

\* the refinement mapping: the request's required contexts are the chain
\* under the root context, and those in state SUCCESS have succeeded
Deps == ChainFrom(ctx, ctx[Root].req)

LC == INSTANCE RequestLifecycle
        WITH Ids <- Subs, Results <- Rets \ {"WAITING"}, PENDING <- NONE,
             deps <- Deps,
             done <- {c \in Deps : in3_ctx_state(ctx, c) = "SUCCESS"},
             status <- result

(***************************************************************************)
(* The driver implements RequestLifecycle: in3_send_ctx returns once; a   *)
(* required context that reached CTX_SUCCESS is never dropped or turned   *)
(* back (in3_ctx_state over the chain, lines 706-715); and IN3_OK reaches *)
(* the application only when every context of the root's chain has       *)
(* succeeded, i.e. in3_ctx_execute's check of the chain (line 737) is not *)
(* bypassed by a verification of the parent.                               *)
(***************************************************************************)
RequestLifecycleRefined == LC!Spec

ExecuteCallsBounded == execCalls <= (MaxAttempts + 2) * Cardinality(live) - 1

(***************************************************************************)
(* Spec 8: in3_send_ctx returns to the application, whatever the transport*)
(* answers. Its inner loop (line 616) has no cap: every round must make   *)
(* progress through the required contexts.                                 *)
(***************************************************************************)
Termination == <>(result # NONE)

(***************************************************************************)
(* When every answer the transport delivers is accepted by its verifier,  *)
(* in3_send_ctx returns IN3_OK: the chain of required contexts, the node- *)
(* list updates they trigger and the retry cap never turn a good run into *)
(* an error.                                                               *)
(***************************************************************************)
SucceedsWhenAnswersValid == []~badSeen => <>(result = "OK")

(***************************************************************************)
(* Spec 4.H and 6: while an update descriptor is recorded, it announces a *)
(* list newer than the one loaded and no newer than the block the         *)
(* announcing node reported, and it is scheduled the spec's waiting time  *)
(* (at most 3600 s) later. check_autoupdate writes it, the node-list      *)
(* refresh and ctx_handle_failable must drop it, across every answer of   *)
(* every context of the chain.                                            *)
(***************************************************************************)
DescriptorSound ==
  chain.upd8 # NULL =>
    /\ chain.lastBlock < chain.upd8.exp
    /\ chain.upd8.exp <= chain.upd8.annCur
    /\ chain.upd8.wait = SpecWaittime(chain.upd8.exp, chain.upd8.annCur)

(***************************************************************************)
(* Spec 4.A: the safety cap of the driver fires only after 10 consecutive *)
(* WAITING returns with no external event in between: a request whose     *)
(* transport keeps answering is never cut off by it.                       *)
(***************************************************************************)
CapOnlyWhenStuck == [][~capHit /\ capHit' => sinceEvent' > RETRY_CAP]_vars

====
