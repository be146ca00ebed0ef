------------------------------ MODULE Registry ------------------------------
(***************************************************************************)
(* What the artifact store promises its readers when updates are processed *)
(* one at a time: no handlers, listings, tokens, failures or crashes, only *)
(* the documents.  A version is published at most once and never changes;  *)
(* a derived document is replaced by the one that describes exactly what   *)
(* is published at that moment.  Documents of different kinds are replaced *)
(* one by one, so a reader may see a new index beside an old alias.        *)
(***************************************************************************)
EXTENDS Derivation

CONSTANTS Packages, Slots, Detail

VARIABLES details, packageIndex, latestAlias, rootIndex

documents == <<details, packageIndex, latestAlias, rootIndex>>

Stored == {details[s] : s \in Slots} \ {None}

Init ==
    /\ details = [s \in Slots |-> None]
    /\ packageIndex = [p \in Packages |-> None]
    /\ latestAlias = [p \in Packages |-> None]
    /\ rootIndex = None

Publish(s, d) ==
    /\ details[s] = None
    /\ s = <<d.package, d.key>>
    /\ details' = [details EXCEPT ![s] = d]
    /\ UNCHANGED <<packageIndex, latestAlias, rootIndex>>

RefreshIndex(p) ==
    /\ \E d \in Latests(DetailsIn(Stored, p)) :
        packageIndex' = [packageIndex EXCEPT ![p] = IndexOf(DetailsIn(Stored, p), d)]
    /\ UNCHANGED <<details, latestAlias, rootIndex>>

RefreshAlias(p) ==
    /\ \E d \in Latests(DetailsIn(Stored, p)) : latestAlias' = [latestAlias EXCEPT ![p] = d]
    /\ UNCHANGED <<details, packageIndex, rootIndex>>

RefreshRoot ==
    /\ rootIndex' \in RootIndexes(Packages, Stored)
    /\ UNCHANGED <<details, packageIndex, latestAlias>>

Next ==
    \/ \E s \in Slots, d \in Detail : Publish(s, d)
    \/ \E p \in Packages : RefreshIndex(p) \/ RefreshAlias(p)
    \/ RefreshRoot

Spec == Init /\ [][Next]_documents
=============================================================================
