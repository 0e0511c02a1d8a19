----------------------------- MODULE MCAgentTurn -----------------------------
(* Two tools whose model names clash; and two catalogs with a clash that the  *)
(* suffix does not resolve: three tools of one base, and a tool whose base is *)
(* the suffixed name of another.                                              *)
EXTENDS AgentTurn, TLC

LampOn == [stem |-> "lamp_on", suffix |-> <<>>]
LampOn2 == [stem |-> "lamp_on", suffix |-> <<2>>]

MCCatalog == <<[name |-> "lamp.on", base |-> LampOn], [name |-> "lamp/on", base |-> LampOn]>>

MCFamily == MCCatalog \o <<[name |-> "lamp on", base |-> LampOn]>>

MCNumbered == <<[name |-> "lamp.on.2", base |-> LampOn2]>> \o MCCatalog
=============================================================================
