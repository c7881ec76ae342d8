----------------------------- MODULE MemPoolInv -----------------------------
(***************************************************************************)
(* The inductive invariant of the pool allocator: the properties of        *)
(* MemPoolProps and what the loops know about the pools they work on.      *)
(***************************************************************************)
EXTENDS MemPoolProps

SlotsInBitmap == \A p \in Pools : used[p] \subseteq Slots(words[p])

EntriesOwned ==
    \A p \in Pools : \A i \in used[p] : Size(p, i) > 0 /\ entries[p][i].owner \in Owners

\* The entry of slot 0 starts at the base of the pool.
FirstAtBase == \A p \in Pools : 0 \in used[p] => Base(p, 0) = 0

\* The slots up to k are used and their entries are back to back.
CompactTo(p, k) ==
    \A i \in 0 .. k : i \in used[p] /\ Base(p, i) = GapStart(p, i)

UsedUpTo(p, k) == \A i \in used[p] : i <= k

\* What holds between the steps of the call in progress.
OpInv ==
    /\ op.pc = "idle" => op = Idle
    /\ op.pc # "idle" => op.to \in alive
    /\ op.pc \in {"head", "defrag"} =>
          /\ op.caller # "none"
          /\ op.moved = FALSE
          /\ fragmented[op.to] => op.last \in Nat
    /\ op.pc = "head" => /\ fragmented[op.to]
                         /\ 0 \notin used[op.to]
                         /\ used[op.to] # {}
                         /\ op.last = 0
    /\ op.pc = "defrag" /\ fragmented[op.to] => CompactTo(op.to, op.last)
    /\ op.pc \in {"head", "defrag"} /\ op.caller = "alloc" =>
          /\ op.owner \in Owners
          /\ handle[op.owner] = NoHandle
          /\ op.size > 0
          /\ op.size <= remain[op.to]
          /\ ~ full[op.to]
    /\ op.pc \in {"head", "defrag"} /\ op.caller = "transfer" =>
          /\ op.from \in alive \ {op.to}
          /\ ~ IsFull(op.to)
          /\ ~ Empty(op.to)
    /\ op.pc = "transfer" =>
          /\ op.from \in alive \ {op.to}
          /\ op.last >= -1
          /\ CompactTo(op.to, op.last)
          /\ UsedUpTo(op.to, op.last)
    /\ op.pc = "fast" => op.from \in alive \ {op.to}
    /\ op.pc \in {"transfer", "fast"} /\ op.moved =>
          ~ Slots(words[op.from]) \subseteq used[op.from]

IInv ==
    /\ TypeOK
    /\ EntriesOrdered
    /\ HandlesAgree
    /\ DataKept
    /\ RemainExact
    /\ SlotsInBitmap
    /\ EntriesOwned
    /\ FirstAtBase
    /\ CompactUnlessFragmented
    /\ NoSlotMeansFull
    /\ OpInv
=============================================================================
