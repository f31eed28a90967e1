--------------------------- MODULE MCIpcExchange ----------------------------
(***************************************************************************)
(* IpcExchange with two calls of one client, as in the CLI's health: the   *)
(* first may time out and its session be served during the second.  With   *)
(* bytes of two values a header counts up to 15, and a message of 18 is    *)
(* one that is too large by 2^32.                                          *)
(***************************************************************************)
EXTENDS IpcExchange

MCAfter == {<<2, 1>>}

OfSize(size) == [size |-> size, header |-> FrameHeader(size), parses |-> TRUE]

Valid     == OfSize(2)
TooLarge  == OfSize(4)
Cut       == OfSize(18)
Misframed == [Valid EXCEPT !.header = EncodeLength(4)]
Garbled   == [Valid EXCEPT !.parses = FALSE]

MCFrames == [request : {Valid, TooLarge, Cut, Misframed}, response : {Valid}]
       \cup [request : {Valid}, response : {TooLarge, Cut, Misframed, Garbled}]
=============================================================================
