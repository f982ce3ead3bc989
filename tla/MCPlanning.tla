---------------------------- MODULE MCPlanning ---------------------------
(***************************************************************************)
(* RequestPlanning for TLC: two requests with a common prefix, one of them *)
(* aligned to the chunks.                                                  *)
(***************************************************************************)
EXTENDS RequestPlanning

MCPrompt == [r \in Requests |-> 3 + r]
MCOptions == [r \in Requests |-> IF r = 1 THEN {"both"} ELSE {"skip_read", "skip_write"}]
MCFamily == [r \in Requests |-> 1]
==========================================================================
