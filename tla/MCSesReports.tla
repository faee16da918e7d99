---------------------------- MODULE MCSesReports ----------------------------
(* Small instances of SesReports: a reservation that is not paid, one that is, and one
   with a second driver and one with a driver whose birth date is not known. *)
EXTENDS SesReports, TLC

\* Bound: the code retries 5 times.
Retries == "send" :> 1 @@ "sweep" :> 0

Holder == [role |-> "holder", document |-> "dni", spanish |-> FALSE,
           has |-> PersonFields \ {"second surname", "phone"}]
Driver(birth) == [role |-> "driver", document |-> "other", spanish |-> FALSE,
                  has |-> {"number", "licence"} \cup birth]
Paid == [code |-> TRUE, contract |-> ContractFields, vehicle |-> VehicleFields,
         people |-> {Holder}]
Payloads == {Paid,
             [Paid EXCEPT !.contract = @ \ {"payment"}],
             [Paid EXCEPT !.people = {Holder, Driver({})}],
             [Paid EXCEPT !.people = {Holder, Driver({"birth"})}]}

=============================================================================
