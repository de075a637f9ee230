------------------------------- MODULE Arena --------------------------------
(***************************************************************************)
(* Arena of arena.rs: message payloads in fixed blocks chained by index,   *)
(* as the channels use it: store a payload, read it back, release it.      *)
(*                                                                         *)
(* Blocks count from 1 here, and 0 is NONE.  A cell is a block and a place *)
(* in it, counted from 0; the byte at offset k of message m is <<m, k>>.   *)
(***************************************************************************)
EXTENDS Naturals, FiniteSets, Functions

CONSTANTS N,         \* blocks
          Block,     \* BLOCK, bytes in each
          Messages,  \* message identities
          Lengths    \* payload lengths

VARIABLES bytes,       \* blocks: cell -> byte
          next,        \* block -> the next of its message, or of the free list
          free_head,
          free_count,
          stored       \* message -> its ByteRef, in the lists of Channels

vars == <<bytes, next, free_head, free_count, stored>>

Cells == (1..N) \X (0..(Block - 1))

\* What a block nobody has stored in holds, zeros or an old payload: no
\* byte of a message.
Stale == << >>

\* new.
Init ==
    /\ bytes = [c \in Cells |-> Stale]
    /\ next = [b \in 1..N |-> IF b < N THEN b + 1 ELSE 0]
    /\ free_head = 1
    /\ free_count = N
    /\ stored = << >>

\* blocks_for: rounded up, and an empty message takes one.
BlocksFor(len) == IF len = 0 THEN 1 ELSE (len + Block - 1) \div Block

\* The first n blocks along next from b; 0 once past the end.
Walk(b, n) ==
    LET at[i \in 1..n] ==
            IF i = 1 THEN b ELSE IF at[i - 1] = 0 THEN 0 ELSE next[at[i - 1]]
    IN  at

\* Where the byte at offset k lives.
Cell(chain, k) == <<chain[k \div Block + 1], k % Block>>

\* write_at from offset 0.
Write(chain, m, len) ==
    [c \in Cells |->
        IF \E k \in 0..(len - 1) : Cell(chain, k) = c
        THEN <<m, CHOOSE k \in 0..(len - 1) : Cell(chain, k) = c>>
        ELSE bytes[c]]

\* Mutant: a reserved chain still leads into the free list.
DetachedNot(last) == next

\* The last block of a reserved chain ends it.
Detached(last) == [next EXCEPT ![last] = 0]

\* store: reserve takes the chain off the free list, write_at fills it.
Store(m, len) ==
    LET needed == BlocksFor(len)
        chain == Walk(free_head, needed)
        last == chain[needed]
    IN  /\ m \notin DOMAIN stored
        /\ needed <= free_count
        /\ next' = Detached(last)
        /\ free_head' = next[last]
        /\ free_count' = free_count - needed
        /\ bytes' = Write(chain, m, len)
        /\ stored' = [k \in DOMAIN stored \cup {m} |->
                         IF k = m THEN [start |-> free_head, count |-> len]
                         ELSE stored[k]]

\* load, and the chunks a packet is written from.
Load(ref) ==
    LET chain == Walk(ref.start, BlocksFor(ref.count))
    IN  [k \in 0..(ref.count - 1) |-> bytes[Cell(chain, k)]]

\* The blocks of a message, to the end of its chain.
ChainOf(ref) == {Walk(ref.start, N)[i] : i \in 1..N} \ {0}

\* release: the blocks go on the free list one by one.
Release(m) ==
    LET length == Cardinality(ChainOf(stored[m]))
        chain == Walk(stored[m].start, length)
        before(b) == CHOOSE i \in 1..length : chain[i] = b
    IN  /\ next' = [b \in 1..N |->
                       IF b \notin ChainOf(stored[m]) THEN next[b]
                       ELSE IF b = chain[1] THEN free_head
                       ELSE chain[before(b) - 1]]
        /\ free_head' = chain[length]
        /\ free_count' = free_count + length
        /\ bytes' = [c \in Cells |-> IF c[1] \in ChainOf(stored[m])
                                    THEN Stale ELSE bytes[c]]
        /\ stored' = Restrict(stored, DOMAIN stored \ {m})

Next == \/ \E m \in Messages, len \in Lengths : Store(m, len)
        \/ \E m \in DOMAIN stored : Release(m)

Spec == Init /\ [][Next]_vars

-----------------------------------------------------------------------------
(* Properties                                                              *)

\* Whatever was stored and released before, in whatever order, a stored
\* message reads back as it was written, and every block no message holds
\* can be reserved: none is shared and none leaks.
Intact ==
    /\ \A m \in DOMAIN stored :
          Load(stored[m]) = [k \in 0..(stored[m].count - 1) |-> <<m, k>>]
    /\ {Walk(free_head, N)[i] : i \in 1..N} \ {0} =
          (1..N) \ UNION {ChainOf(stored[m]) : m \in DOMAIN stored}
    /\ free_count =
          N - Cardinality(UNION {ChainOf(stored[m]) : m \in DOMAIN stored})

=============================================================================
