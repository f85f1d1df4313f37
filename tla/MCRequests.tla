------------------------------ MODULE MCRequests ------------------------------
EXTENDS Requests, TLC

CONSTANTS ann, bob

\* ann sends to bob; bob polls, and may empty his inbox.
InboxBodies ==
    LET send == [do |-> "send", to |-> bob]
        poll == [do |-> "poll"]
        clear == [do |-> "clear"]
    IN  ann :> {[subs |-> <<send, send>>, sequential |-> FALSE]} @@
        bob :> {[subs |-> <<poll>>, sequential |-> FALSE],
                [subs |-> <<poll, clear>>, sequential |-> TRUE]}

\* The clock of ann is right; that of bob is right or ahead.
BobAhead == ann :> 0 @@ bob :> 1

Symmetry == Permutations(RequestIds) \cup Permutations(Workers)
===============================================================================
