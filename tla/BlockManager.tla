---------------------------- MODULE BlockManager ----------------------------
(***************************************************************************)
(* The KV-cache block space manager of the engine                          *)
(* (vllm/core/block_manager.py with block/block_table.py and               *)
(* block/naive_block.py): per sequence group a block table that lives on   *)
(* the GPU or, while the group is swapped out, on the CPU, and the pools   *)
(* of free blocks of the two devices.                                      *)
(*                                                                         *)
(* A JITServe sequence group holds one sequence, prefix caching, sliding   *)
(* windows and lookahead slots are off, so no block is shared and the      *)
(* identity of a block does not matter: a table is the number of tokens it *)
(* holds (num_full_slots) and a pool is the number of its free blocks.     *)
(* A request for a block from an empty pool (NoFreeBlocksError) shows as a *)
(* negative pool.  The parameter n of an operator is the length of the     *)
(* group's sequence, seq.get_len(), at the time of the call.               *)
(***************************************************************************)
EXTENDS Integers

CONSTANTS Groups,         \* sequence groups
          BlockSize,      \* tokens per block
          NumGpuBlocks,   \* num_total_gpu_blocks
          NumCpuBlocks,   \* num_total_cpu_blocks
          Watermark       \* watermark_blocks = int(watermark * num_gpu_blocks)

ASSUME BlockAssumption ==
    /\ BlockSize \in Nat \ {0}
    /\ NumGpuBlocks \in Nat
    /\ NumCpuBlocks \in Nat \ {0}   \* swap_space > 0; the ratio below divides
    /\ Watermark \in 0..NumGpuBlocks

VARIABLES device,    \* device[g]: where the block table of g is, "none" if no table
          slots,     \* slots[g]: num_full_slots of that table
          gpuFree,   \* length of the GPU allocator's _free_block_indices
          cpuFree    \* the same for the CPU allocator

memVars == <<device, slots, gpuFree, cpuFree>>

Devices == {"none", "gpu", "cpu"}

MemInit ==
    /\ device = [g \in Groups |-> "none"]
    /\ slots = [g \in Groups |-> 0]
    /\ gpuFree = NumGpuBlocks
    /\ cpuFree = NumCpuBlocks

-----------------------------------------------------------------------------
(* Block counts.                                                           *)

\* cdiv: the ceiling of n / BlockSize, of a negative n too.
CeilDiv(n) == (n + BlockSize - 1) \div BlockSize

\* BlockTable.get_num_required_blocks without lookahead slots.
NumRequired(n) == CeilDiv(n)

\* Blocks the table of g holds.
NumHeld(g) == CeilDiv(slots[g])

\* Blocks that appending the unseen n - slots[g] tokens touches.
NumTouchedByAppend(g, n) ==
    1 + CeilDiv((n - slots[g]) - (BlockSize - (slots[g] % BlockSize)))

\* Blocks a swap of g touches: the full ones, and those of the append; a
\* partial last block is counted by the append only.
NumTouchedBySwap(g, n) == NumTouchedByAppend(g, n) + (slots[g] \div BlockSize)

\* ensure_num_empty_slots: the blocks that an append really allocates.
NumEmptySlots(g) == NumHeld(g) * BlockSize - slots[g]
NumAllocatedByAppend(g, n) ==
    IF NumEmptySlots(g) >= n - slots[g]
    THEN 0
    ELSE CeilDiv(n - slots[g] - NumEmptySlots(g))

-----------------------------------------------------------------------------
(* The guards the scheduler asks.                                          *)

CanAllocate(n) ==
    CASE NumGpuBlocks - NumRequired(n) < Watermark -> "NEVER"
      [] NumGpuBlocks - NumRequired(n) >= Watermark
           /\ gpuFree - NumRequired(n) >= Watermark -> "OK"
      [] OTHER -> "LATER"

CanAppendSlots(g, n) == NumTouchedByAppend(g, n) <= gpuFree

\* Mutant: a group that needs exactly the pool is turned away for ever.
CanSwapInOffByOne(g, n) ==
    CASE NumGpuBlocks <= NumTouchedBySwap(g, n) -> "NEVER"
      [] NumGpuBlocks > NumTouchedBySwap(g, n)
           /\ gpuFree - NumTouchedBySwap(g, n) >= Watermark -> "OK"
      [] OTHER -> "LATER"

\* Mutant: the watermark is not reached, it has to be exceeded.
CanSwapInStrictly(g, n) ==
    CASE NumGpuBlocks < NumTouchedBySwap(g, n) -> "NEVER"
      [] NumGpuBlocks >= NumTouchedBySwap(g, n)
           /\ gpuFree - NumTouchedBySwap(g, n) > Watermark -> "OK"
      [] OTHER -> "LATER"

CanSwapIn(g, n) ==
    CASE NumGpuBlocks < NumTouchedBySwap(g, n) -> "NEVER"
      [] NumGpuBlocks >= NumTouchedBySwap(g, n)
           /\ gpuFree - NumTouchedBySwap(g, n) >= Watermark -> "OK"
      [] OTHER -> "LATER"

\* Mutant: asks for the size of the CPU pool and not for its free blocks.
CanSwapOutOfTotal(g, n) == NumTouchedBySwap(g, n) <= NumCpuBlocks

CanSwapOut(g, n) ==
    /\ NumTouchedBySwap(g, n) <= NumCpuBlocks
    /\ NumTouchedBySwap(g, n) <= cpuFree

\* cpu_watermarks = 0.2: the shares of free CPU blocks under which the SLO
\* path is switched off, and over which it is switched on again.
CpuSpaceLow  == 5 * cpuFree < NumCpuBlocks
CpuSpaceHigh == 5 * cpuFree > 4 * NumCpuBlocks

-----------------------------------------------------------------------------
(* The operations.  Each changes all of memVars.                           *)

\* allocate: a table for the whole sequence, prefilled or not.
Allocate(g, n) ==
    /\ device' = [device EXCEPT ![g] = "gpu"]
    /\ slots' = [slots EXCEPT ![g] = n]
    /\ gpuFree' = gpuFree - NumRequired(n)
    /\ UNCHANGED cpuFree

AppendSlots(g, n) ==
    /\ slots' = [slots EXCEPT ![g] = n]
    /\ gpuFree' = gpuFree - NumAllocatedByAppend(g, n)
    /\ UNCHANGED <<device, cpuFree>>

\* Mutant: a block goes back to the GPU allocator whatever its device.
FreeToGpu(g) ==
    /\ device' = [device EXCEPT ![g] = "none"]
    /\ slots' = [slots EXCEPT ![g] = 0]
    /\ gpuFree' = gpuFree + NumHeld(g)
    /\ UNCHANGED cpuFree

\* free: a group without a table is left alone.
Free(g) ==
    /\ device' = [device EXCEPT ![g] = "none"]
    /\ slots' = [slots EXCEPT ![g] = 0]
    /\ gpuFree' = IF device[g] = "gpu" THEN gpuFree + NumHeld(g) ELSE gpuFree
    /\ cpuFree' = IF device[g] = "cpu" THEN cpuFree + NumHeld(g) ELSE cpuFree

SwapOut(g) ==
    /\ device' = [device EXCEPT ![g] = "cpu"]
    /\ gpuFree' = gpuFree + NumHeld(g)
    /\ cpuFree' = cpuFree - NumHeld(g)
    /\ UNCHANGED slots

\* Mutant: swap_in without append_slots.
SwapInOnly(g, n) ==
    /\ device' = [device EXCEPT ![g] = "gpu"]
    /\ gpuFree' = gpuFree - NumHeld(g)
    /\ cpuFree' = cpuFree + NumHeld(g)
    /\ UNCHANGED slots

\* swap_in, always followed by append_slots of the unseen tokens.
SwapInAndAppend(g, n) ==
    /\ device' = [device EXCEPT ![g] = "gpu"]
    /\ slots' = [slots EXCEPT ![g] = n]
    /\ gpuFree' = gpuFree - NumHeld(g) - NumAllocatedByAppend(g, n)
    /\ cpuFree' = cpuFree + NumHeld(g)
=============================================================================
