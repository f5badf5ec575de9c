------------------------------ MODULE AuditLog ------------------------------
(***************************************************************************)
(* The audit log of a building and its hash chain                           *)
(* (apps/api/src/audit/audit.service.ts). record() returns at once: the      *)
(* write it starts goes on beside the caller and beside other writes, each   *)
(* process chains its entries by a hash it keeps in memory, and nobody waits *)
(* for a write or repeats one that failed.                                  *)
(*                                                                          *)
(* A hash is the pair of the hash before it and of what was hashed.         *)
(***************************************************************************)
EXTENDS Naturals, Sequences

CONSTANTS
    Entries,     \* calls of record(), each with a content of its own
    Shuffled,    \* those whose metadata has keys not in the order JSONB keeps
    Processes,
    NoHash,      \* ''
    NoProcess

\* What is assumed of them, where they are given.
AuditAssumptions == Shuffled \subseteq Entries

VARIABLES
    log,         \* AuditLog rows by createdAt
    cache,       \* lastHashCache of each process
    write        \* the write each record() has started

auditVars == <<log, cache, write>>

NoWrite == [step |-> "none", by |-> NoProcess, prev |-> NoHash]

AuditInit ==
    /\ log = <<>>
    /\ cache = [p \in Processes |-> NoHash]
    /\ write = [e \in Entries |-> NoWrite]

Hash(content, prev) == <<prev, content>>

\* The metadata as JSON.stringify sees it: JSONB sorts the keys of an object.
AsPassed(e) == <<e, "as passed">>
AsStored(e) == <<e, IF e \in Shuffled THEN "sorted" ELSE "as passed">>

\* Up to its first await, the write of the row.
Chains(e, p, prev) ==
    /\ cache' = [cache EXCEPT ![p] = Hash(AsPassed(e), prev)]
    /\ write' = [write EXCEPT ![e] = [step |-> "create", by |-> p, prev |-> prev]]

\* record(): an empty cache is filled from the last row, which is awaited.
RecordEntry(e, p) ==
    /\ write[e].step = "none"
    /\ IF cache[p] # NoHash
       THEN Chains(e, p, cache[p])
       ELSE /\ write' = [write EXCEPT ![e] =
                 [step |-> "read", by |-> p, prev |-> NoHash]]
            /\ UNCHANGED cache
    /\ UNCHANGED log

\* Mutant: the last row is the first one.
ReadLastAscending(e) ==
    /\ write[e].step = "read"
    /\ Chains(e, write[e].by, IF log = <<>> THEN NoHash ELSE log[1].hash)
    /\ UNCHANGED log

\* The last row's hash becomes the cached one, whatever is cached by now; a
\* read that fails starts another chain.
ReadLast(e) ==
    /\ write[e].step = "read"
    /\ Chains(e, write[e].by, IF log = <<>> THEN NoHash ELSE log[Len(log)].hash)
    /\ UNCHANGED log

ReadFails(e) ==
    /\ write[e].step = "read"
    /\ Chains(e, write[e].by, NoHash)
    /\ UNCHANGED log

CreateRow(e) ==
    /\ write[e].step = "create"
    /\ log' = Append(log, [entry |-> e, prev |-> write[e].prev,
                           hash |-> Hash(AsPassed(e), write[e].prev)])
    /\ write' = [write EXCEPT ![e].step = "done"]
    /\ UNCHANGED cache

\* "[audit] write failed": the entry is lost, its hash stays in the cache.
CreateFails(e) ==
    /\ write[e].step = "create"
    /\ write' = [write EXCEPT ![e].step = "lost"]
    /\ UNCHANGED <<log, cache>>

\* The process forgets its cache and the writes it was at.
Forgets(p) ==
    /\ cache' = [cache EXCEPT ![p] = NoHash]
    /\ write' = [e \in Entries |->
         IF write[e].by = p /\ write[e].step \in {"read", "create"}
         THEN [write[e] EXCEPT !.step = "lost"] ELSE write[e]]
    /\ UNCHANGED log

AuditStep ==
    \E e \in Entries :
        ReadLast(e) \/ ReadFails(e) \/ CreateRow(e) \/ CreateFails(e)

\* verifyChain reports the first such row: it does not hash to its _hash, or
\* its _prev is not the hash of the row before.
Breaks(k) ==
    \/ Hash(AsStored(log[k].entry), log[k].prev) # log[k].hash
    \/ log[k].prev # IF k = 1 THEN NoHash ELSE log[k - 1].hash
=============================================================================
