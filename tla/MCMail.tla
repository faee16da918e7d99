-------------------------------- MODULE MCMail --------------------------------
(* Small instances of Mail. *)
EXTENDS Mail, TLC

\* Bound: the code retries 4 and 3 times.
Retries == "send" :> 1 @@ "build" :> 1 @@ "sweep" :> 0

\* Bound: sweeps pile up in the behaviours where nobody asks for a contract or for an e-mail
\* a second time.
PiledUp == Cardinality(Sweeps) > 1 \/ \E r \in Reservation : overlaps[r] > 0
Narrow == PiledUp => contract = << >> /\ clicks = 0
NarrowSpec == Init /\ [][Next /\ Narrow']_vars /\ Fairness

=============================================================================
