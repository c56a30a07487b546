------------------------------ MODULE MCStoreStart ------------------------------
(* StoreStart on small instances. *)
EXTENDS StoreStart

CONSTANT Old

\* Of the four files the image embeds, the two with a name golang-migrate recognises:
\* 000000_enable_extensions.up.sql and 000001_create_clusters_table.up.sql.
Recognisable == {1, 2}

\* A rolling update: one process of the image of the first migration only, the others
\* of the image with them all.
Images == [p \in Procs |-> IF p = Old THEN 1 ELSE Last]
=============================================================================
