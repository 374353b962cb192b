----------------------- MODULE MCRegistryPublication -----------------------
(* Two servers and three endpoints; the second identity set moves an       *)
(* endpoint, the third removes a server, the fourth repeats a version, and *)
(* the last ones are refused.                                              *)
EXTENDS RegistryPublication

CONSTANTS e1, e2, e3

Identity(server, version, endpoints) ==
    [server |-> server, version |-> version, endpoints |-> endpoints,
     role |-> "RECURSIVE", agent |-> TRUE, status |-> "ACTIVE"]

Drafts ==
    { <<Identity(2, 1, <<e3>>), Identity(1, 1, <<e1, e2>>)>>,
      <<Identity(1, 2, <<e1>>), Identity(2, 2, <<e2>>)>>,
      <<Identity(1, 2, <<e2>>)>>,
      <<Identity(1, 1, <<e1>>), Identity(2, 1, <<e1>>)>>,
      <<[Identity(1, 3, <<e1>>) EXCEPT !.agent = FALSE]>> }

=============================================================================
