---------------------------- MODULE MCPluginHost ----------------------------
(* PluginHost for TLC: what the scripts of the runs do. *)
EXTENDS PluginHost

\* Behind a panel-only plugin, one that counts in its kv store, one that edits.
ChainUses == {<<2, "kv">>, <<3, "scalars">>}

\* One plugin that counts events and stamps their metadata.
StampUses == {<<1, "kv">>, <<1, "metadata">>}
=============================================================================
