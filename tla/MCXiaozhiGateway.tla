--------------------------- MODULE MCXiaozhiGateway ---------------------------
(* One connection with up to two output goroutines alive at once.               *)
EXTENDS XiaozhiGateway, TLC
=============================================================================
