--------------------------- MODULE MCTurnAdmission ---------------------------
(***************************************************************************)
(* Two conversations and five requests: a request, its retry, a retry with *)
(* another message, a distinct request of the same conversation, and a     *)
(* request of the other conversation that reuses the first one's key.      *)
(***************************************************************************)
EXTENDS TurnAdmission

MCConvOf == [r \in Requests |->
              IF r = "elsewhere" THEN "c2" ELSE "c1"]
MCKeyOf == [r \in Requests |-> IF r = "distinct" THEN "k2" ELSE "k1"]
MCInputOf == [r \in Requests |-> IF r = "edited" THEN "bye" ELSE "hello"]
=============================================================================
