----------------------------- MODULE MCHttpClient -----------------------------
(* Three callers: one may be a probe while another that began before the   *)
(* breaker opened is still out, and a third is refused.                    *)
EXTENDS HttpHcmClient

CONSTANTS drain, submit, poll
===============================================================================
