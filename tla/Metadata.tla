------------------------------ MODULE Metadata ------------------------------
(***************************************************************************)
(* The metadata of a block or an instruction, metadata.rs: a linked list   *)
(* of nodes, the newest first.  Nodes are added and never removed, so that *)
(* a key may have several, of which retrieve finds the newest.             *)
(***************************************************************************)
EXTENDS SequencesExt, FiniteSetsExt

NoMetadata == << >>

Node(key, value) == [key |-> key, value |-> value]

\* Mutant: the new node goes to the end of the list.
InsertMetaLast(meta, key, value) == meta \o << Node(key, value) >>

InsertMeta(meta, key, value) == << Node(key, value) >> \o meta

Has(meta, key) == \E n \in 1 .. Len(meta) : meta[n].key = key

\* find_value: the first node with the key.
Retrieve(meta, key) == meta[Min({ n \in 1 .. Len(meta) : meta[n].key = key })].value
=============================================================================
