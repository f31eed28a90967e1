--------------------------- MODULE DeviceRegistry ---------------------------
(***************************************************************************)
(* DeviceRegistry: the map from device ids to records that every thread of *)
(* the service shares.  Each operation takes the mutex for its whole body, *)
(* so each is one atomic step; nothing makes two of them one step.         *)
(***************************************************************************)
EXTENDS DevicePool

VARIABLE devices   \* the map, a function on the ids inserted so far

Known(id) == id \in DOMAIN devices   \* find(id) returns a record

(* updateOrInsert writes the whole record, whatever the map held.          *)
UpdateOrInsert(id, device) ==
  devices' = [i \in DOMAIN devices \cup {id} |-> IF i = id THEN device ELSE devices[i]]

(* A mistaken sendCommand, which carries the command out on the I/O thread.*)
SendCommandAtOnce(id, command) ==
  devices' = [devices EXCEPT ![id] = ApplyCommand([@ EXCEPT !.lastCommand = command])]

(* sendCommand on an id that the map holds. *)
SendCommand(id, command) ==
  devices' = [devices EXCEPT ![id] = [@ EXCEPT !.lastCommand = command]]
=============================================================================
