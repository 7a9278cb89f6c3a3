------------------------------ MODULE Keystream ------------------------------
(***************************************************************************)
(* The bytes an overwrite pass lays down (internal/erasure/device.go,      *)
(* streamAt).  A fixed pattern is the same byte everywhere.  The random    *)
(* pattern is a ChaCha20 keystream keyed by (job, pass): block b of the    *)
(* keystream belongs to the bytes b * BlockLen .. b * BlockLen + BlockLen-1 *)
(* of the device.  streamAt fills one chunk at a time, with one cipher per *)
(* chunk and one 64-byte scratch buffer which it XORs with the next        *)
(* keystream block again and again without clearing it.                    *)
(*                                                                         *)
(* A byte is abstracted to what determines it: the pattern, the key, the   *)
(* set of keystream blocks XORed into the scratch buffer, and the position *)
(* inside the block.  The operators below say what streamAt computes;      *)
(* module StreamFill is its loop, and Functions_proofs shows that the two  *)
(* agree.                                                                  *)
(***************************************************************************)
EXTENDS Integers

CONSTANTS
    BlockLen,      \* bytes of one keystream block, 64 in the code
    CounterRange   \* 2^32 in the code: SetCounter takes uint32(block)

ASSUME BlockLenAssumption == BlockLen \in Nat \ {0}
ASSUME CounterRangeAssumption == CounterRange \in Nat \ {0}

Patterns == {"zeros", "ones", "random"}

BlockOf(pos) == pos \div BlockLen

(* c.SetCounter(uint32(block)): the counter of the chunk's k-th block. *)
Counter(start, k) == (BlockOf(start) % CounterRange) + k

(* The blocks in the scratch buffer after the XORKeyStream call for the    *)
(* k-th block of a chunk that begins at start: all since the chunk's first *)
(* (StreamFill has the loop).                                              *)
Scratch(start, k) == {Counter(start, i) : i \in 0..k}

(* ChaCha20's 32-bit block counter must not run over inside one cipher:    *)
(* the library panics when it would.                                       *)
Panics(pattern, start, len) ==
    /\ pattern = "random"
    /\ len > 0
    /\ Counter(start, BlockOf(start + len - 1) - BlockOf(start)) >= CounterRange

(* The byte streamAt puts at device position pos when it fills the chunk   *)
(* that begins at start, for the pass with this key.                       *)
StreamAt(pattern, key, start, pos) ==
    IF pattern = "random"
    THEN [pattern |-> pattern, key |-> key,
          blocks |-> Scratch(start, BlockOf(pos) - BlockOf(start)),
          at |-> pos % BlockLen]
    ELSE [pattern |-> pattern]
=============================================================================
