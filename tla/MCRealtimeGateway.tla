--------------------------- MODULE MCRealtimeGateway ---------------------------
(* One connection: sessions that follow one another, and up to two output    *)
(* goroutines alive at once.                                                  *)
EXTENDS RealtimeGateway, TLC
=============================================================================
