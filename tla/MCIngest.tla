-------------------------------- MODULE MCIngest --------------------------------
(* One client sends two events of one business key, again until it is      *)
(* answered; another sends an event that the rules filter out.             *)
EXTENDS Ingest

Of(id, key, verdict) == [id |-> id, key |-> key, verdict |-> verdict]
First  == Of("a", "k", "OK")
Second == Of("b", "k", "OK")
Third  == Of("c", "l", "RULE_FILTERED")

MCEvent == {First, Second, Third}
MCSends == [c \in Client |-> IF c = "retries" THEN <<First, Second>> ELSE <<Third>>]
=============================================================================
