----------------------------- MODULE BridgeSlot -----------------------------
(***************************************************************************)
(* What the room promises about the bridge slot of a token, whatever the   *)
(* frames, timers and close events by which it keeps the promise: one      *)
(* owner at a time, at most one rival at a time, the slot passes only to   *)
(* the rival, nobody else enters while a rival waits, and a bridge that    *)
(* has gone never comes back.                                              *)
(***************************************************************************)
CONSTANTS Bridges, None

VARIABLES
    owner,  \* the bridge in the slot, or None
    rival,  \* the bridge waiting for the decision on the owner, or None
    gone    \* bridges that have been and left

vars == <<owner, rival, gone>>

Init == owner = None /\ rival = None /\ gone = {}

(* A bridge takes the free slot.                                            *)
Acquire(b) ==
    /\ owner = None /\ rival = None /\ b \notin gone
    /\ owner' = b
    /\ UNCHANGED <<rival, gone>>

(* A bridge finds the slot taken and waits for a decision.                  *)
Contend(b) ==
    /\ owner \notin {None, b} /\ rival = None /\ b \notin gone
    /\ rival' = b
    /\ UNCHANGED <<owner, gone>>

(* The decision is for the owner.                                           *)
Uphold ==
    /\ owner # None /\ rival # None
    /\ rival' = None
    /\ UNCHANGED <<owner, gone>>

(* The decision is for the rival: the owner, if it is still there, goes.    *)
HandOver ==
    /\ rival # None
    /\ owner' = rival
    /\ rival' = None
    /\ gone' = gone \union ({owner} \ {None})

(* The owner leaves or is found dead.                                       *)
Leave ==
    /\ owner # None
    /\ owner' = None
    /\ gone' = gone \union {owner}
    /\ UNCHANGED rival

(* The rival leaves.                                                        *)
Withdraw ==
    /\ rival # None
    /\ rival' = None
    /\ gone' = gone \union {rival}
    /\ UNCHANGED owner

(* A bridge that is neither leaves.                                         *)
Depart(b) ==
    /\ b \notin {owner, rival} \union gone
    /\ gone' = gone \union {b}
    /\ UNCHANGED <<owner, rival>>

Next ==
    \/ \E b \in Bridges : Acquire(b) \/ Contend(b) \/ Depart(b)
    \/ Uphold \/ HandOver \/ Leave \/ Withdraw

Spec == Init /\ [][Next]_vars
=============================================================================
