-------------------------- MODULE ContextLifecycle --------------------------
(***************************************************************************)
(* What in3_ctx_execute promises about each RPC context (spec 4.A, 5): a  *)
(* context is pending until it ends, once, with a result; every call      *)
(* counts at most one more attempt; a pending context always has an       *)
(* attempt left; and it ends with one of the give-up results exactly when *)
(* it has used all max_attempts attempts.                                  *)
(***************************************************************************)
EXTENDS Naturals

CONSTANTS Ctxs, MaxAttempts,
          Results,  \* the results a context can end with
          GiveUps,  \* those that mean the attempts ran out
          PENDING

ASSUME GiveUps \subseteq Results /\ PENDING \notin Results

VARIABLES status, attempts

vars == <<status, attempts>>

Init == status = [c \in Ctxs |-> PENDING] /\ attempts = [c \in Ctxs |-> 0]

\* one execute call on c
Call(c) ==
  /\ status[c] = PENDING
  /\ \/ attempts' = attempts
     \/ attempts' = [attempts EXCEPT ![c] = @ + 1]
  /\ status' \in {[status EXCEPT ![c] = r] : r \in {PENDING} \cup Results}
  /\ status'[c] = PENDING => attempts'[c] < MaxAttempts
  /\ status'[c] # PENDING => (status'[c] \in GiveUps <=> attempts'[c] = MaxAttempts)

Next == \E c \in Ctxs : Call(c)

Spec == Init /\ [][Next]_vars
=============================================================================
