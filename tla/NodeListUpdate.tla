--------------------------- MODULE NodeListUpdate ---------------------------
(***************************************************************************)
(* The node-list auto-update trigger of execute.c: update_waittime and    *)
(* check_autoupdate (lines 310-345), as operators over a chain record.    *)
(* A verified response's in3 section is a record [lnl, cur, lwl]          *)
(* (lastNodeList, currentBlock, lastWhiteList); a field the node did not  *)
(* send reads 0, as d_get_longk returns for a missing key.                *)
(*                                                                         *)
(* The chain record: first (no node list loaded yet), lastBlock           *)
(* (chain->last_block), upd8 (chain->nodelist_upd8_params: NULL or        *)
(* [exp, wait, annCur]) and wl (NULL or [lastBlock, needsUpdate]).        *)
(* in3_time(NULL) is taken as 0 at the announcement, so wait is the       *)
(* timestamp's distance from it; annCur is a history field, the           *)
(* currentBlock of the announcing response.                               *)
(***************************************************************************)
EXTENDS Integers

CONSTANTS AutoUpdate,    \* FLAGS_AUTO_UPDATE_LIST is set
          ReplaceLatest, \* client->replace_latest_block (uint8_t)
          AvgBlockTime,  \* chain->avg_block_time (uint16_t)
          NULL

ASSUME AutoUpdate \in BOOLEAN
ASSUME ReplaceLatest \in 0..255 /\ AvgBlockTime \in 0..65535

WAIT_TIME_CAP == 3600

\* mutant: the cap on the wait dropped, the product truncated to uint16_t
update_waittime_uncapped(nodelist_block, current_blk, repl_latest, avg_blktime) ==
  IF nodelist_block > current_blk THEN 0
  ELSE IF current_blk - nodelist_block >= repl_latest THEN 0
  ELSE ((repl_latest - (current_blk - nodelist_block)) * avg_blktime) % 2^16

\* update_waittime: the result is uint16_t, the min keeps it below 2^16
update_waittime(nodelist_block, current_blk, repl_latest, avg_blktime) ==
  IF nodelist_block > current_blk THEN 0
  ELSE LET diff == current_blk - nodelist_block IN
       IF diff >= repl_latest THEN 0
       ELSE LET w == (repl_latest - diff) * avg_blktime
            IN (IF w < WAIT_TIME_CAP THEN w ELSE WAIT_TIME_CAP) % 2^16

\* the whitelist part of check_autoupdate (lines 343-344)
MarkWhitelist(chain, in3) ==
  IF chain.wl # NULL /\ in3.lwl > chain.wl.lastBlock
  THEN [chain EXCEPT !.wl.needsUpdate = TRUE] ELSE chain

\* mutant: the test of line 325 dropped, a misreported list is recorded
check_autoupdate_trusting(chain, in3) ==
  IF ~AutoUpdate THEN chain
  ELSE MarkWhitelist(
         IF in3.lnl > chain.lastBlock
         THEN [chain EXCEPT !.upd8 =
                 [exp |-> in3.lnl, annCur |-> in3.cur,
                  wait |-> update_waittime(in3.lnl, in3.cur, ReplaceLatest, AvgBlockTime)]]
         ELSE chain, in3)

\* check_autoupdate: ignore a list newer than the block it is reported at,
\* record (or overwrite) the descriptor for a list newer than the loaded
\* one, mark the whitelist stale
check_autoupdate(chain, in3) ==
  IF ~AutoUpdate \/ in3.lnl > in3.cur THEN chain
  ELSE MarkWhitelist(
         IF in3.lnl > chain.lastBlock
         THEN [chain EXCEPT !.upd8 =
                 [exp |-> in3.lnl, annCur |-> in3.cur,
                  wait |-> update_waittime(in3.lnl, in3.cur, ReplaceLatest, AvgBlockTime)]]
         ELSE chain, in3)

\* the waiting time as spec 4.H states it: 0 once the list is
\* replace_latest_block blocks old, else the blocks left times the block
\* time, at most 3600 seconds
SpecWaittime(lnl, cur) ==
  IF cur - lnl >= ReplaceLatest THEN 0
  ELSE LET w == (ReplaceLatest - (cur - lnl)) * AvgBlockTime
       IN IF w > 3600 THEN 3600 ELSE w
=============================================================================
