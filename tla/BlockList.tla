----------------------------- MODULE BlockList -----------------------------
(***************************************************************************)
(* The addresses a Listener refuses after an error: the map `blocks`, the  *)
(* counter that lets the listen loop skip it, and the two tasks that touch *)
(* them.  The loop raises the counter before it takes the lock of the map; *)
(* the collector stores the size of the map into the counter under that    *)
(* lock.  Listener has the loop, and the specification these steps are     *)
(* part of.                                                                *)
(***************************************************************************)
EXTENDS Integers, FiniteSets, Functions

CONSTANTS Ips,
          Duration    \* block_duration, in periods of the collector

ASSUME DurationAssumption == Duration \in Nat \ {0} /\ IsFiniteSet(Ips)

VARIABLES
    blocks,       \* address -> how long it has been in the map
    block_count,
    blocking      \* the address block() is working on: {} or {ip}

block_list == <<blocks, block_count, blocking>>

NoBlocks == blocks = [ip \in {} |-> 0] /\ block_count = 0 /\ blocking = {}

(* An expired entry is kept no more precisely than that it has expired.    *)
Older(age) == IF age > Duration THEN age ELSE age + 1

(* is_blocked: the map is looked at only when the counter is not 0.        *)
IsBlocked(ip) == block_count # 0 /\ ip \in DOMAIN blocks

(* block() raises the counter, and then inserts.                           *)
Count(ip) ==
    /\ blocking = {}
    /\ blocking' = {ip} /\ block_count' = block_count + 1
    /\ UNCHANGED blocks

Insert(ip) ==
    /\ ip \in blocking /\ blocking' = {}
    /\ blocks' = [i \in DOMAIN blocks \cup {ip} |-> IF i = ip THEN 0 ELSE blocks[i]]
    /\ UNCHANGED block_count

(* gc_blocks, every second: nothing when the counter is 0; else, under the *)
(* lock, the entries that have not expired, and their number.  Whatever    *)
(* the loop does after the counter was looked at and before the lock was   *)
(* taken leaves the counter above 0: the two make one step.                *)
(* (mutated: nothing has expired; the counter stays as it was.)            *)
Aged == [ip \in DOMAIN blocks |-> Older(blocks[ip])]
KeepAll == DOMAIN blocks
Kept == {ip \in DOMAIN blocks : Aged[ip] <= Duration}

CollectsUncounted ==
    /\ blocks' = IF block_count = 0 THEN Aged ELSE Restrict(Aged, Kept)
    /\ UNCHANGED <<block_count, blocking>>
Collects ==
    /\ blocks' = IF block_count = 0 THEN Aged ELSE Restrict(Aged, Kept)
    /\ block_count' = IF block_count = 0 THEN 0 ELSE Cardinality(Kept)
    /\ UNCHANGED blocking

-----------------------------------------------------------------------------
BlockListType ==
    /\ DOMAIN blocks \subseteq Ips /\ \A ip \in DOMAIN blocks : blocks[ip] \in Nat
    /\ block_count \in Nat /\ blocking \subseteq Ips

(* The counter never runs ahead of the map and the address being blocked:  *)
(* the loop skips the map whenever it may.                                 *)
CountNotAhead == block_count <= Cardinality(DOMAIN blocks \cup blocking)
=============================================================================
