---------------------------- MODULE MCLocalMode ----------------------------
(***************************************************************************)
(* LocalMode for TLC.  Two jobs together with reused primary keys, or with *)
(* two hosts, are more than TLC can enumerate: here the first key is       *)
(* claimed again, and a second host comes into play, only while the other  *)
(* keys were never claimed and hold no row.                                *)
(***************************************************************************)
EXTENDS LocalMode

OnlyFirstKey == \A j \in JobIds \ {1} : attempts[j] = 0 /\ jobs[j] = Host!NoRow

FirstHost == CHOOSE h \in Hosts : TRUE
OnlyFirstHost == {pairing.url, pairing.key, loop.host, loop.key} \subseteq {FirstHost, NoHost}

Bound == (FreshKeys /\ OnlyFirstHost) \/ OnlyFirstKey

(* FairSpec with the bound.  No action that is fair there claims or creates
   a row, or brings in a host, so the bound disables none of them. *)
MCSpec == Init /\ [][Next /\ Bound']_vars /\ Fairness
=============================================================================
