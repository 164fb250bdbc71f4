------------------------------ MODULE MCHttpFraming ------------------------------
(* A request for the framing alone: its length has three digits, none of   *)
(* them 0 when cut off, and of its body the first 16 bytes are sent.       *)
EXTENDS HttpFraming

Long == { [post |-> FALSE, url |-> <<"/">>, get |-> <<>>, host |-> <<"h">>, cookies |-> <<>>, key |-> "",
           form |-> <<>>, parts |-> <<>>, raw |-> 16, digits |-> <<"1", "0", "5">>,
           close |-> FALSE] }

Two(r) == 2
===============================================================================
