---------------------------- MODULE MCPluginHost ----------------------------
(* Instances of PluginHost for TLC: which plugin offers which entries. *)
EXTENDS PluginHost

CONSTANTS p1, p2, p3, p4, e1, e2, e3

(* p3 claims an entry of p1 and, registered first, fills a catalog of two:
   then p1 meets a taken entry and p2 a full catalog. *)
MCEntriesOf == [p \in Plugins |-> CASE p = p2 -> {e2}
                                    [] p = p3 -> {e1, e3}
                                    [] OTHER  -> {e1}]

(* a single plugin, for the runs about its tasks *)
MCSoloEntries == [p \in Plugins |-> {e1}]
=============================================================================
