------------------------------- MODULE UtxoSet -------------------------------
(***************************************************************************)
(* What the coins views promise: three snapshots of the set of unspent     *)
(* outputs, each with the block it belongs to.  disk is the database,      *)
(* chain the state CoinsTip() stands for, and work the state of the view a *)
(* block is connected or disconnected in.  There are no caches, no flags   *)
(* and no moments at which the snapshots disagree with what was done.      *)
(* Without an open view, work is chain.                                    *)
(***************************************************************************)
CONSTANTS Outpoints, Coins, Unspendable, Spent, Blocks, NoBlock

VARIABLES disk, chain, work,
          diskBest, chainBest, workBest,
          isOpen

uvars == <<disk, chain, work, diskBest, chainBest, workBest, isOpen>>

UInit ==
    /\ disk \in [Outpoints -> (Coins \ Unspendable) \cup {Spent}]
    /\ chain = disk
    /\ work = disk
    /\ diskBest \in Blocks \cup {NoBlock}
    /\ chainBest = diskBest
    /\ workBest = diskBest
    /\ isOpen = FALSE

\* A change of the working state, which is the chain state if no view is open.
Write(newWork, newBest) ==
    /\ work' = newWork
    /\ workBest' = newBest
    /\ chain' = IF isOpen THEN chain ELSE newWork
    /\ chainBest' = IF isOpen THEN chainBest ELSE newBest
    /\ UNCHANGED <<disk, diskBest, isOpen>>

UCreate(o, c) ==
    Write(IF c \in Unspendable THEN work ELSE [work EXCEPT ![o] = c], workBest)

USpend(o) == Write([work EXCEPT ![o] = Spent], workBest)

USetBest(b) == Write(work, b)

UOpen ==
    /\ ~isOpen
    /\ isOpen' = TRUE
    /\ UNCHANGED <<disk, chain, work, diskBest, chainBest, workBest>>

UCommit ==
    /\ isOpen
    /\ isOpen' = FALSE
    /\ chain' = work
    /\ chainBest' = workBest
    /\ UNCHANGED <<disk, work, diskBest, workBest>>

UDiscard ==
    /\ isOpen
    /\ isOpen' = FALSE
    /\ work' = chain
    /\ workBest' = chainBest
    /\ UNCHANGED <<disk, chain, diskBest, chainBest>>

UPersist ==
    /\ ~isOpen
    /\ disk' = chain
    /\ diskBest' = chainBest
    /\ UNCHANGED <<chain, work, chainBest, workBest, isOpen>>

UNext ==
    \/ \E o \in Outpoints : USpend(o) \/ \E c \in Coins : UCreate(o, c)
    \/ \E b \in Blocks : USetBest(b)
    \/ UOpen \/ UCommit \/ UDiscard \/ UPersist

USpec == UInit /\ [][UNext]_uvars

=============================================================================
