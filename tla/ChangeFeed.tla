------------------------------ MODULE ChangeFeed ------------------------------
(***************************************************************************)
(* What a room's message log promises the clients that poll it: a clock    *)
(* that only goes forward, and on every item a stamp such that an item     *)
(* whose content changes is stamped later than anything before, no two     *)
(* items share a stamp and the clock is the latest stamp.  Items are never *)
(* withdrawn.                                                              *)
(***************************************************************************)
EXTENDS Naturals

VARIABLES
    clock,  \* the latest stamp given out
    feed    \* item |-> [content, stamp]

Init == clock = 0 /\ DOMAIN feed = {}

Kept(i) == i \in DOMAIN feed /\ feed'[i] = feed[i]

Publish ==
    /\ clock' > clock
    /\ DOMAIN feed \subseteq DOMAIN feed'
    /\ \A i \in DOMAIN feed' :
         Kept(i) \/ (clock < feed'[i].stamp /\ feed'[i].stamp <= clock')
    /\ \A i, j \in DOMAIN feed' : i # j => feed'[i].stamp # feed'[j].stamp
    /\ \E i \in DOMAIN feed' : feed'[i].stamp = clock'

Spec == Init /\ [][Publish]_<<clock, feed>>

=============================================================================
