---------------------------- MODULE NileBlockStore ----------------------------
(***************************************************************************)
(* What a TF card promises the console: an array of blocks.  A request to  *)
(* read delivers the block it names as it is, a request to write replaces  *)
(* the block it names and no other, and a request is served before the     *)
(* next is made.  A loss of power forgets a request that is being served   *)
(* and changes nothing else: a block is written as a whole or not at all.  *)
(***************************************************************************)
EXTENDS Naturals

CONSTANTS Addresses, BlockData, NoDelivery

VARIABLES
    blocks,       \* the contents of the card
    asked,        \* the request being served
    delivered,    \* the last block the console got, and its address
    losses        \* how often the power was lost

storeVars == <<blocks, asked, delivered, losses>>

NoRequest == [op |-> "none"]
Requests ==
    {NoRequest} \cup [op : {"read"}, at : Addresses]
    \cup [op : {"write"}, at : Addresses, data : BlockData]

StoreInit ==
    /\ blocks \in [Addresses -> BlockData]
    /\ asked \in Requests /\ delivered = NoDelivery /\ losses = 0

Ask ==
    /\ asked = NoRequest
    /\ asked' \in Requests
    /\ UNCHANGED <<blocks, delivered, losses>>

Read ==
    /\ asked.op = "read"
    /\ delivered' = [at |-> asked.at, data |-> blocks[asked.at]]
    /\ asked' \in Requests
    /\ UNCHANGED <<blocks, losses>>

Write ==
    /\ asked.op = "write"
    /\ blocks' = [blocks EXCEPT ![asked.at] = asked.data]
    /\ asked' \in Requests
    /\ UNCHANGED <<delivered, losses>>

LosePower ==
    /\ losses' = losses + 1
    /\ asked' = NoRequest
    /\ UNCHANGED <<blocks, delivered>>

StoreNext == Ask \/ Read \/ Write \/ LosePower
StoreSpec == StoreInit /\ [][StoreNext]_storeVars
=============================================================================
