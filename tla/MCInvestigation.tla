-------------------------- MODULE MCInvestigation --------------------------
(* The texts of the small instance of Investigation. *)
EXTENDS Investigation

CONSTANTS
  inline,  \* FROM ledger -- note JOIN secret ON true
  split,   \* the same with a newline after note, which ends the comment
  ledger, secret,
  masked, unsafe

MCKey == [q \in Queries |-> IF q = split THEN inline ELSE q]

MCTold == [q \in {inline, split} |-> IF q = split THEN {ledger, secret} ELSE {ledger}]

\* The cases are in a view, which may be left without a table.
MCCatalog == [r \in Reads |-> {{ledger}} \cup {{} : x \in {r} \cap {"case"}}]
=============================================================================
