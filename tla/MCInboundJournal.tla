-------------------------- MODULE MCInboundJournal --------------------------
(* Three messages, an id that can come again, and a tailer that remembers  *)
(* two ids; the journal holds a row, and is cut after two.                 *)
EXTENDS InboundJournal

MCMsgs == 1..3
MCVerdictOf == [m \in MCMsgs |-> IF m = 2 THEN "hold" ELSE "forged"]
=============================================================================
