------------------------------ MODULE PageStore ------------------------------
(***************************************************************************)
(* What the buffer pool promises its clients (spec sections 3, 4.3 and     *)
(* 4.4), with frames, eviction, pins and the disk abstracted away: a page  *)
(* is a value; a client holds a page shared or exclusively; a page's value *)
(* changes only by a write of its exclusive holder; DeletePage of a page   *)
(* nobody holds makes it read as zeros; NewPage hands out fresh ids.       *)
(***************************************************************************)
EXTENDS Naturals

CONSTANTS Pages, Clients, Values, Zero, NoClient

VARIABLES store, writerOf, readersOf, nextPage

storeVars == <<store, writerOf, readersOf, nextPage>>

Unheld(p) == writerOf[p] = NoClient /\ readersOf[p] = {}

Init ==
    /\ store = [p \in Pages |-> Zero]
    /\ writerOf = [p \in Pages |-> NoClient]
    /\ readersOf = [p \in Pages |-> {}]
    /\ nextPage = 0

AcquireRead(c, p) ==
    /\ writerOf[p] = NoClient
    /\ readersOf' = [readersOf EXCEPT ![p] = @ \cup {c}]
    /\ UNCHANGED <<store, writerOf, nextPage>>

AcquireWrite(c, p) ==
    /\ Unheld(p)
    /\ writerOf' = [writerOf EXCEPT ![p] = c]
    /\ UNCHANGED <<store, readersOf, nextPage>>

Release(c, p) ==
    /\ c \in readersOf[p] \/ writerOf[p] = c
    /\ readersOf' = [readersOf EXCEPT ![p] = @ \ {c}]
    /\ writerOf' = IF writerOf[p] = c THEN [writerOf EXCEPT ![p] = NoClient] ELSE writerOf
    /\ UNCHANGED <<store, nextPage>>

Write(c, p, v) ==
    /\ writerOf[p] = c
    /\ store' = [store EXCEPT ![p] = v]
    /\ UNCHANGED <<writerOf, readersOf, nextPage>>

Delete(p) ==
    /\ Unheld(p)
    /\ store' = [store EXCEPT ![p] = Zero]
    /\ UNCHANGED <<writerOf, readersOf, nextPage>>

NewPage ==
    /\ nextPage' = nextPage + 1
    /\ UNCHANGED <<store, writerOf, readersOf>>

Next ==
    \/ \E c \in Clients, p \in Pages :
          AcquireRead(c, p) \/ AcquireWrite(c, p) \/ Release(c, p)
    \/ \E c \in Clients, p \in Pages, v \in Values : Write(c, p, v)
    \/ \E p \in Pages : Delete(p)
    \/ NewPage

Spec == Init /\ [][Next]_storeVars
=============================================================================
