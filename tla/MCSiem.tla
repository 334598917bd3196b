--------------------------------- MODULE MCSiem ---------------------------------
(* An alert, a datagram the page cannot render and one the listener does not *)
(* survive; a history of two that can overflow; one keyword and the          *)
(* technique roll-up, under which the first two are counted differently; two *)
(* polls under way.                                                          *)
EXTENDS Siem

MCDatagrams ==
    { [sensor |-> "here",  format |-> "json",   kind |-> "DDoS"],
      [sensor |-> "there", format |-> "object", kind |-> "none"],
      [sensor |-> "there", format |-> "number", kind |-> "none"] }

MCPasses == <<"DDoS", "technique">>
================================================================================
