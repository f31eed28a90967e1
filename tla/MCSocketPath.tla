---------------------------- MODULE MCSocketPath -----------------------------
(***************************************************************************)
(* SocketPath with three services, each with the configuration of the      *)
(* repository or one that names no path.                                   *)
(***************************************************************************)
EXTENDS SocketPath

MCPath    == {ServiceDefault, ClientDefault}
MCConfigs == {ClientDefault, Missing}
=============================================================================
