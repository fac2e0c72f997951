----------------------------- MODULE MCLogBuffer -----------------------------
(***************************************************************************)
(* The instance of LogBuffer for TLC: a unit that logs to one stream and a *)
(* client that follows it. With a second stream nothing can be promised:   *)
(* its reader writes to the same buffer without a lock.                    *)
(***************************************************************************)
EXTENDS LogBuffer

CONSTANTS stdout, t1

OneStream == {stdout}
MCTailers == {t1}

===============================================================================
