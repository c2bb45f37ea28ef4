----------------------------- MODULE MCNlClient -----------------------------
(***************************************************************************)
(* NlClient with the answers a kernel gives: an acknowledgement or an      *)
(* error in a datagram of its own, after the data if there is any, and for *)
(* a dump data that ends with "done".                                      *)
(***************************************************************************)
EXTENDS NlClient, TLC

CONSTANTS kernel, other

(* Acknowledged requests: what the module sends comes before the ACK that  *)
(* the netlink layer appends.  A dump may end with an acknowledgement, too. *)
Acked == {<< <<"ack">> >>, << <<"error">> >>, << <<"data">>, <<"ack">> >>,
          << <<"data", "done">>, <<"ack">> >>}
Dumped == {<< <<"data">>, <<"data", "done">> >>, << <<"done">> >>, << <<"error">> >>,
           << <<"data">>, <<"data", "ack">> >>}

(* Datagrams of odd length too: for request_comm only. *)
OddReplies == [ack |-> Acked \cup {<< <<"data", "rest">>, <<"ack">> >>, << <<"rest">>, <<"error">> >>},
               dump |-> Dumped]
CleanReplies == [ack |-> Acked, dump |-> Dumped]

(* request_comm, whatever is lost, cut, odd or not waited for; a caller    *)
(* that keeps its socket and dumps too.                                    *)
MCCallers == {[kept |-> FALSE, flags |-> {{}, {"append"}, {"dump"}}, replies |-> OddReplies, faults |-> 2],
              [kept |-> TRUE, flags |-> {{}, {"dump"}}, replies |-> CleanReplies, faults |-> 0]}
Appends   == {[kept |-> TRUE, flags |-> {{}, {"append"}}, replies |-> CleanReplies, faults |-> 0]}
MCOthers  == {other}

ASSUME AllOrderly == \A c \in MCCallers : Orderly(c)
=============================================================================
