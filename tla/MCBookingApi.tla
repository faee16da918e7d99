---------------------------- MODULE MCBookingApi ----------------------------
(* A small instance of BookingApi: two keys, a customer, and two groups of cars of which
   one has a single place. *)
EXTENDS BookingApi, TLC

Places1 == "small" :> 1 @@ "large" :> 2
Asks(group, phone, pays) ==
    [customer |-> "ana", group |-> group, phone |-> phone, pays |-> pays]
Bodies == {Asks("small", TRUE, FALSE), Asks("large", FALSE, TRUE)}

=============================================================================
