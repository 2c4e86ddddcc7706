---------------------------- MODULE MCPostOffice ----------------------------
(* Two nodes that run the test of nettest.cc against each other; a second    *)
(* thread on the first node sends two messages to the same mailbox.          *)
EXTENDS PostOffice, TLC
CONSTANTS n1, n2, c1, c2, other

MChome == c1 :> n1 @@ other :> n1 @@ c2 :> n2
MCscript ==
    c1 :> MailTest(n2) @@ c2 :> MailTest(n1)
        @@ other :> << [op |-> "send", to |-> n2, box |-> 1], [op |-> "send", to |-> n2, box |-> 1] >>
=============================================================================
