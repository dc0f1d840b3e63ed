------------------------------ MODULE OrgQuota ------------------------------
(***************************************************************************)
(* The allowance counter of one organization (do/OrgQuota.ts): one row per  *)
(* allowance period, and one synchronous conditional upsert that admits a   *)
(* request or leaves the row alone.  The limit comes with every call and is *)
(* never stored, so a plan change applies to the next request and the       *)
(* period's count carries over.                                             *)
(***************************************************************************)
EXTENDS Integers

\* The limit a call is judged by: a negative one is none left at all.
AllowanceLimit(limit) == IF limit > 0 THEN limit ELSE 0

Admits(count, limit) == count < AllowanceLimit(limit)

\* Fault: the row counts attempts, and a refusal is decided from the new count.
CountsAttempts(count, limit) == count + 1

\* The period's row after one call, admitted or refused.
Upserted(count, limit) == IF Admits(count, limit) THEN count + 1 ELSE count
=============================================================================
