----------------------------- MODULE MCValueLog -----------------------------
(* ValueLog instantiated for TLC. *)
EXTENDS ValueLog

Entry(k, big, cond) == [key |-> k, big |-> big, cond |-> cond]

(* Small and big values, every kind of condition, and batches of two *)
MCBatches ==
  {<<Entry(1, big, cond)>> : big \in BOOLEAN, cond \in {"none", "match", "miss", "absent"}}
  \cup {<<Entry(1, TRUE, "none"), Entry(2, TRUE, "none")>>,
        <<Entry(2, TRUE, "absent"), Entry(1, FALSE, "match")>>,
        <<Entry(2, FALSE, "none"), Entry(2, TRUE, "match")>>}
=============================================================================
