---------------------------- MODULE MCHubClients -----------------------------
(***************************************************************************)
(* HubClients with a job of each shape: commands that the hub accepts and  *)
(* refuses, a read, the two calls of health, a watch of it for two rounds, *)
(* and requests that never reach the hub.                                  *)
(***************************************************************************)
EXTENDS HubClients

MCSupported == [relay |-> {"turn_on"}]

CliJob(action) == [by |-> "cli", action |-> action, watch |-> FALSE, valid |-> TRUE,
                   device |-> "relay", command |-> "turn_on"]

MCJob == { CliJob("command"),
           CliJob("get"),
           [CliJob("health") EXCEPT !.watch = TRUE],
           [CliJob("list") EXCEPT !.valid = FALSE],
           [CliJob("command") EXCEPT !.by = "web", !.command = "turn_off"],
           [CliJob("health") EXCEPT !.by = "web"],
           [CliJob("command") EXCEPT !.by = "web", !.valid = FALSE] }
=============================================================================
