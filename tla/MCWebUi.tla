------------------------------ MODULE MCWebUi -------------------------------
(***************************************************************************)
(* WebUi with two devices, a command of its own each, and two refreshes    *)
(* in flight.  The leak sensor is the one device whose status changes by   *)
(* itself.                                                                 *)
(***************************************************************************)
EXTENDS WebUi

MCDevice    == {"relay", "leak_sensor"}
MCStatus    == {"online", "warning"}
MCChanging  == {"leak_sensor"}
MCInitial   == {[d \in MCDevice |-> "online"]}
MCSupported == [relay |-> {"turn_on"}, leak_sensor |-> {"silence_alarm"}]
=============================================================================
