-------------------------- MODULE RequestLifecycle --------------------------
(***************************************************************************)
(* What in3_send_ctx promises the application about one request and the   *)
(* required contexts the verifiers attach to it (spec 4.I and 5): the     *)
(* request is pending until a single final result; meanwhile required     *)
(* contexts are attached, and one that has succeeded stays succeeded (its *)
(* response is what the parent's verification relies on); a context may  *)
(* leave the chain only while it has not succeeded; and the result is OK  *)
(* only when every context still attached has succeeded.                  *)
(***************************************************************************)
CONSTANTS Ids,      \* identities of required contexts
          Results,  \* the final results in3_send_ctx can return
          PENDING   \* the request has not returned yet

ASSUME PENDING \notin Results /\ "OK" \in Results

VARIABLES deps,    \* the required contexts attached to the request
          done,    \* those of them that have succeeded
          status   \* PENDING, then the result

vars == <<deps, done, status>>

Init == deps = {} /\ done = {} /\ status = PENDING

\* one step of the driver: any number of contexts attached, completed or
\* (unsucceeded) removed, and possibly the final result
Advance ==
  /\ status = PENDING
  /\ deps' \subseteq Ids
  /\ done \subseteq done'
  /\ done' \subseteq deps'
  /\ status' \in {PENDING} \cup Results
  /\ status' = "OK" => deps' = done'

Next == Advance

Spec == Init /\ [][Next]_vars

TypeOK ==
  /\ done \subseteq deps /\ deps \subseteq Ids
  /\ status \in {PENDING} \cup Results
=============================================================================
