------------------------------ MODULE Declaration ------------------------------
(***************************************************************************)
(* What the reports to SES.Hospedajes promise: whatever the Ministry takes *)
(* is complete, and the proof a rental keeps, once it has one, is for ever *)
(* something the Ministry took ("es la prueba de que se comunico",         *)
(* apps/compliance/models.py).                                             *)
(***************************************************************************)
CONSTANTS Rental, Payload, Complete(_), NoProof

VARIABLES told,     \* rental -> the payloads the Ministry has taken
          proof     \* rental -> the payload kept as the one communicated

Init == told = [r \in Rental |-> {}] /\ proof = [r \in Rental |-> NoProof]

Tell(r) ==
    \E p \in Payload :
        /\ Complete(p)
        /\ told' = [told EXCEPT ![r] = @ \cup {p}]
        /\ UNCHANGED proof

Keep(r) ==
    /\ proof[r] = NoProof
    /\ \E p \in told[r] : proof' = [proof EXCEPT ![r] = p]
    /\ UNCHANGED told

Next == \E r \in Rental : Tell(r) \/ Keep(r)
Spec == Init /\ [][Next]_<<told, proof>>

=============================================================================
